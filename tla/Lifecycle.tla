----------------------------- MODULE Lifecycle -----------------------------
(***************************************************************************)
(* Start and Stop of type NodeProduction, pkg/node/node_production.go, and *)
(* what they do to the components: the engine, the mempool, the API        *)
(* server, the network, the store and the event loop.                      *)
(*                                                                         *)
(* Any goroutine may call either at any time, any number of times.  Start  *)
(* claims the node under n.mu and lets go of it before it starts a         *)
(* component; Stop holds n.mu from its first line to its last.  What Start *)
(* spawns runs on its own: the server gets up when it gets up, and the     *)
(* loops and the engine end when the context of the owner is cancelled,    *)
(* which Stop neither does nor waits for.                                  *)
(*                                                                         *)
(* What an event loop does in a tick is the subject of Producer and        *)
(* Executor.  Nothing that Start calls panics, so its recover is left out. *)
(***************************************************************************)
EXTENDS Naturals, FiniteSets

CONSTANTS
    Caller,     \* goroutines that call Start and Stop
    MaxLives    \* bound on how often the node is started

NoCaller == "nobody"

ASSUME LifecycleAssumption ==
    /\ IsFiniteSet(Caller) /\ NoCaller \notin Caller
    /\ MaxLives \in Nat \ {0}

VARIABLES
    running,    \* n.running
    holder,     \* who holds n.mu; NoCaller if nobody does
    calls,      \* calls[c]: the next statement of c's call
    engines,    \* goroutines of the engine that wait for the context
    finality,   \* the engine's finality channel is open
    txChannel,  \* the mempool's channel is open
    apiPending, \* apiServer.Start calls that have not made a server yet
    api,        \* the gRPC server; "doomed" is stopped before it served
    host,       \* the network's host
    netChans,   \* the network's channels are open
    storage,    \* the store is open
    loops,      \* event loops
    cancelled,  \* the context is done
    lives,      \* how often the node has gone from stopped to running
    ended       \* "crashed" by a panic, or "exited" by log.Fatal

apiVars == <<apiPending, api>>
netVars == <<host, netChans>>
vars == <<running, holder, calls, engines, finality, txChannel, apiVars, netVars, storage,
          loops, cancelled, lives, ended>>

Starting == {"engine", "mempool", "serve", "network", "loop"}

Stopping == {"stopApi", "stopNetwork", "stopMempool", "stopEngine", "closeStorage", "unlock"}

TypeOK ==
    /\ running \in BOOLEAN
    /\ holder \in Caller \cup {NoCaller}
    /\ calls \in [Caller -> {"idle", "start", "stop"} \cup Starting \cup Stopping]
    /\ engines \in Nat
    /\ apiPending \in Nat
    /\ api \in {"none", "created", "serving", "stopped", "doomed"}
    /\ host \in {"none", "up", "closed"}
    /\ {finality, txChannel, netChans, storage, cancelled} \subseteq BOOLEAN
    /\ loops \in Nat
    /\ lives \in 0 .. MaxLives
    /\ ended \in {"no", "crashed", "exited"}

(* NewNodeProduction, with network and API enabled.                        *)
Init ==
    /\ running = FALSE
    /\ holder = NoCaller
    /\ calls = [c \in Caller |-> "idle"]
    /\ engines = 0
    /\ finality = TRUE
    /\ txChannel = TRUE
    /\ apiPending = 0
    /\ api = "none"
    /\ host = "none"
    /\ netChans = TRUE
    /\ storage = TRUE
    /\ loops = 0
    /\ cancelled = FALSE
    /\ lives = 0
    /\ ended = "no"

Goto(c, from, to) == calls[c] = from /\ calls' = [calls EXCEPT ![c] = to]

(* close(ch), where open is the state of ch before and stays afterwards.   *)
Close(open) == ended' = IF open THEN ended ELSE "crashed"

----------------------------------------------------------------------------
(***************************************************************************)
(* Start.                                                                  *)
(***************************************************************************)
Call(c) ==
    /\ \/ lives < MaxLives /\ Goto(c, "idle", "start")
       \/ Goto(c, "idle", "stop")
    /\ UNCHANGED <<running, holder, engines, finality, txChannel, apiVars, netVars, storage,
                   loops, cancelled, lives, ended>>

(* A node that runs is not started again.                                  *)
Claim(c) ==
    /\ holder = NoCaller
    /\ \/ /\ ~running /\ lives < MaxLives
          /\ Goto(c, "start", "engine")
          /\ running' = TRUE
          /\ lives' = lives + 1
       \/ /\ running \/ lives = MaxLives
          /\ Goto(c, "start", "idle")
          /\ UNCHANGED <<running, lives>>
    /\ UNCHANGED <<holder, engines, finality, txChannel, apiVars, netVars, storage, loops,
                   cancelled, ended>>

StartEngine(c) ==
    /\ Goto(c, "engine", "mempool")
    /\ engines' = engines + 1
    /\ UNCHANGED <<running, holder, finality, txChannel, apiVars, netVars, storage, loops,
                   cancelled, lives, ended>>

(* The mempool starts its clean-up; its channel is made only once.         *)
StartMempool(c) ==
    /\ Goto(c, "mempool", "serve")
    /\ UNCHANGED <<running, holder, engines, finality, txChannel, apiVars, netVars, storage,
                   loops, cancelled, lives, ended>>

StartApi(c) ==
    /\ Goto(c, "serve", "network")
    /\ apiPending' = apiPending + 1
    /\ UNCHANGED <<running, holder, engines, finality, txChannel, api, netVars, storage, loops,
                   cancelled, lives, ended>>

(* A network that does not start ends Start: the node runs without a loop, *)
(* and what was started before goes on.                                    *)
StartNetwork(c) ==
    /\ \/ Goto(c, "network", "loop") /\ host' = "up"
       \/ Goto(c, "network", "idle") /\ host' \in {host, "up"}
    /\ UNCHANGED <<running, holder, engines, finality, txChannel, apiVars, netChans, storage,
                   loops, cancelled, lives, ended>>

StartLoop(c) ==
    /\ Goto(c, "loop", "idle")
    /\ loops' = loops + 1
    /\ UNCHANGED <<running, holder, engines, finality, txChannel, apiVars, netVars, storage,
                   cancelled, lives, ended>>

----------------------------------------------------------------------------
(***************************************************************************)
(* Stop.  An operator named ...Bug is a plausible mistake in the           *)
(* definition Lock, which follows them.                                    *)
(***************************************************************************)
KeepsLockBug(c) ==
    /\ holder = NoCaller
    /\ holder' = c
    /\ \/ running /\ Goto(c, "stop", "stopApi")
       \/ ~running /\ Goto(c, "stop", "idle")
    /\ UNCHANGED <<running, engines, finality, txChannel, apiVars, netVars, storage, loops,
                   cancelled, lives, ended>>

AlwaysStopsBug(c) ==
    /\ holder = NoCaller
    /\ holder' = c
    /\ Goto(c, "stop", "stopApi")
    /\ UNCHANGED <<running, engines, finality, txChannel, apiVars, netVars, storage, loops,
                   cancelled, lives, ended>>

Lock(c) ==
    /\ holder = NoCaller
    /\ \/ running /\ Goto(c, "stop", "stopApi") /\ holder' = c
       \/ ~running /\ Goto(c, "stop", "idle") /\ UNCHANGED holder
    /\ UNCHANGED <<running, engines, finality, txChannel, apiVars, netVars, storage, loops,
                   cancelled, lives, ended>>

Shutdown == CASE api = "serving" -> "stopped" [] api = "created" -> "doomed" [] OTHER -> api

(* A server that is not made yet is not stopped.                           *)
StopApi(c) ==
    /\ Goto(c, "stopApi", "stopNetwork")
    /\ api' = Shutdown
    /\ UNCHANGED <<running, holder, engines, finality, txChannel, apiPending, netVars, storage,
                   loops, cancelled, lives, ended>>

(* The channels are closed only if there is no host to close.              *)
StopNetwork(c) ==
    /\ Goto(c, "stopNetwork", "stopMempool")
    /\ \/ /\ host # "none"
          /\ host' = "closed"
          /\ UNCHANGED <<netChans, ended>>
       \/ /\ host = "none"
          /\ netChans' = FALSE
          /\ Close(netChans)
          /\ UNCHANGED host
    /\ UNCHANGED <<running, holder, engines, finality, txChannel, apiVars, storage, loops,
                   cancelled, lives>>

StopMempool(c) ==
    /\ Goto(c, "stopMempool", "stopEngine")
    /\ txChannel' = FALSE
    /\ Close(txChannel)
    /\ UNCHANGED <<running, holder, engines, finality, apiVars, netVars, storage, loops,
                   cancelled, lives>>

StopEngine(c) ==
    /\ Goto(c, "stopEngine", "closeStorage")
    /\ finality' = FALSE
    /\ Close(finality)
    /\ UNCHANGED <<running, holder, engines, txChannel, apiVars, netVars, storage, loops,
                   cancelled, lives>>

CloseStorage(c) ==
    /\ Goto(c, "closeStorage", "unlock")
    /\ storage' = FALSE
    /\ UNCHANGED <<running, holder, engines, finality, txChannel, apiVars, netVars, loops,
                   cancelled, lives, ended>>

Unlock(c) ==
    /\ Goto(c, "unlock", "idle")
    /\ running' = FALSE
    /\ holder' = NoCaller
    /\ UNCHANGED <<engines, finality, txChannel, apiVars, netVars, storage, loops, cancelled,
                   lives, ended>>

----------------------------------------------------------------------------
(***************************************************************************)
(* What has been spawned.                                                  *)
(***************************************************************************)

(* startGRPC; the address is taken while another server serves there.      *)
MakeServer ==
    /\ apiPending > 0
    /\ apiPending' = apiPending - 1
    /\ api' = IF api \in {"none", "stopped"} THEN "created" ELSE api
    /\ UNCHANGED <<running, holder, calls, engines, finality, txChannel, netVars, storage,
                   loops, cancelled, lives, ended>>

(* Serve of a server that was stopped before is an error, and fatal.       *)
Serve ==
    /\ \/ api = "created" /\ api' = "serving" /\ UNCHANGED ended
       \/ api = "doomed" /\ ended' = "exited" /\ UNCHANGED api
    /\ UNCHANGED <<running, holder, calls, engines, finality, txChannel, apiPending, netVars,
                   storage, loops, cancelled, lives>>

(* The goroutine that waits for the context to stop the server.            *)
Monitor ==
    /\ cancelled
    /\ api # Shutdown
    /\ api' = Shutdown
    /\ UNCHANGED <<running, holder, calls, engines, finality, txChannel, apiPending, netVars,
                   storage, loops, cancelled, lives, ended>>

(* The engine stops itself when the context is done.                       *)
EngineDone ==
    /\ cancelled
    /\ engines > 0
    /\ engines' = engines - 1
    /\ finality' = FALSE
    /\ Close(finality)
    /\ UNCHANGED <<running, holder, calls, txChannel, apiVars, netVars, storage, loops,
                   cancelled, lives>>

LoopDone ==
    /\ cancelled
    /\ loops > 0
    /\ loops' = loops - 1
    /\ UNCHANGED <<running, holder, calls, engines, finality, txChannel, apiVars, netVars,
                   storage, cancelled, lives, ended>>

(* A tick panics and the loop is not restarted, or it finds the memory or  *)
(* the number of goroutines beyond what is allowed.                        *)
LoopFails ==
    /\ loops > 0
    /\ \/ loops' = loops - 1 /\ UNCHANGED ended
       \/ ended' = "exited" /\ UNCHANGED loops
    /\ UNCHANGED <<running, holder, calls, engines, finality, txChannel, apiVars, netVars,
                   storage, cancelled, lives>>

(* The owner's signal handler.                                             *)
Cancel ==
    /\ ~cancelled
    /\ cancelled' = TRUE
    /\ UNCHANGED <<running, holder, calls, engines, finality, txChannel, apiVars, netVars,
                   storage, loops, lives, ended>>

Proceed(c) ==
    \/ Claim(c) \/ StartEngine(c) \/ StartMempool(c) \/ StartApi(c) \/ StartNetwork(c)
    \/ StartLoop(c) \/ Lock(c) \/ StopApi(c) \/ StopNetwork(c) \/ StopMempool(c)
    \/ StopEngine(c) \/ CloseStorage(c) \/ Unlock(c)

Next ==
    /\ ended = "no"
    /\ \/ \E c \in Caller : Call(c) \/ Proceed(c)
       \/ MakeServer \/ Serve \/ Monitor \/ EngineDone \/ LoopDone \/ LoopFails \/ Cancel

(* A call that can go on does, and the lock is fair: a Go mutex hands      *)
(* itself to the one that waits longest.                                   *)
Fairness ==
    /\ \A c \in Caller : SF_vars(ended = "no" /\ Proceed(c))
    /\ WF_vars(ended = "no" /\ EngineDone) /\ WF_vars(ended = "no" /\ LoopDone)

Spec == Init /\ [][Next]_vars /\ Fairness

----------------------------------------------------------------------------
(***************************************************************************)
(* Properties.                                                             *)
(***************************************************************************)

(* However many goroutines start and stop the node at once, a life of it   *)
(* has one event loop, and as long as it has but one life and the context  *)
(* is not cancelled, no channel is closed twice.                           *)
OneLife ==
    /\ loops <= lives
    /\ ended = "crashed" => lives > 1 \/ cancelled

(* A call of Stop returns, and with the context cancelled all loops end    *)
(* and no goroutine of the engine is left, unless the process ends first.  *)
ShutdownCompletes ==
    /\ \A c \in Caller : calls[c] \in {"stop"} \cup Stopping ~> calls[c] = "idle" \/ ended # "no"
    /\ cancelled ~> (loops = 0 /\ engines = 0) \/ ended # "no"

=============================================================================
