-------------------------- MODULE LifecycleProofs --------------------------
(***************************************************************************)
(* Theorems about Lifecycle for any number of goroutines and lives.        *)
(***************************************************************************)
EXTENDS Lifecycle, FiniteSetTheorems, TLAPS

----------------------------------------------------------------------------
(***************************************************************************)
(* The inductive invariant.                                                *)
(***************************************************************************)
Starters == {c \in Caller : calls[c] \in Starting}

Typed ==
    /\ calls \in [Caller -> {"idle", "start", "stop"} \cup Starting \cup Stopping]
    /\ running \in BOOLEAN /\ finality \in BOOLEAN /\ txChannel \in BOOLEAN
    /\ netChans \in BOOLEAN /\ cancelled \in BOOLEAN
    /\ loops \in Nat /\ lives \in Nat

(* Each life pays for one call between its claim and its loop, or for the  *)
(* loop.                                                                   *)
LoopsPaid == loops + Cardinality(Starters) <= lives

(* Stop holds the lock from end to end, and runs on a running node.        *)
LockHeld ==
    /\ \A c \in Caller : calls[c] \in Stopping => holder = c /\ running
    /\ holder # NoCaller => holder \in Caller /\ calls[holder] \in Stopping
    /\ running => lives > 0

(* In the first life there is one Stop, and a channel is open until it     *)
(* has got to it.                                                          *)
FirstLife ==
    lives <= 1 /\ ~cancelled =>
        /\ ended # "crashed"
        /\ lives = 0 \/ (running /\ holder = NoCaller) => netChans /\ txChannel /\ finality
        /\ \A c \in Caller :
            /\ calls[c] \in {"stopApi", "stopNetwork"} => netChans /\ txChannel /\ finality
            /\ calls[c] = "stopMempool" => txChannel /\ finality
            /\ calls[c] = "stopEngine" => finality

IInv == Typed /\ LoopsPaid /\ LockHeld /\ FirstLife

----------------------------------------------------------------------------
(* Moving a caller on keeps the types.                                     *)
LEMMA GotoTyped ==
    ASSUME Typed, NEW c \in Caller, NEW from, NEW to, Goto(c, from, to),
           to \in {"idle", "start", "stop"} \cup Starting \cup Stopping
    PROVE  /\ calls' \in [Caller -> {"idle", "start", "stop"} \cup Starting \cup Stopping]
           /\ calls[c] = from /\ calls'[c] = to
           /\ \A d \in Caller \ {c} : calls'[d] = calls[d]
  BY DEF Typed, Goto

(* How a call that moves on changes the number of those that are starting. *)
LEMMA StartersMove ==
    ASSUME Typed, NEW c \in Caller, NEW from, NEW to, Goto(c, from, to),
           to \in {"idle", "start", "stop"} \cup Starting \cup Stopping
    PROVE  /\ Cardinality(Starters) \in Nat /\ Cardinality(Starters') \in Nat
           /\ from \in Starting /\ to \in Starting => Starters' = Starters
           /\ from \notin Starting /\ to \notin Starting => Starters' = Starters
           /\ from \notin Starting /\ to \in Starting
                  => Cardinality(Starters') = Cardinality(Starters) + 1
           /\ from \in Starting /\ to \notin Starting
                  => Cardinality(Starters') = Cardinality(Starters) - 1
  <1>1. /\ calls[c] = from /\ calls'[c] = to
        /\ \A d \in Caller \ {c} : calls'[d] = calls[d]
    BY GotoTyped
  <1>2. IsFiniteSet(Starters) /\ IsFiniteSet(Starters')
    BY LifecycleAssumption, FS_Subset DEF Starters
  <1>3. Cardinality(Starters) \in Nat /\ Cardinality(Starters') \in Nat
    BY <1>2, FS_CardinalityType
  <1>4. CASE from \in Starting <=> to \in Starting
    BY <1>1, <1>3, <1>4 DEF Starters
  <1>5. CASE from \notin Starting /\ to \in Starting
    <2>1. c \notin Starters /\ Starters' = Starters \cup {c}
      BY <1>1, <1>5 DEF Starters
    <2>2. QED
      BY <1>2, <1>3, <1>5, <2>1, FS_AddElement
  <1>6. CASE from \in Starting /\ to \notin Starting
    <2>1. c \in Starters /\ Starters' = Starters \ {c}
      BY <1>1, <1>6 DEF Starters
    <2>2. QED
      BY <1>2, <1>3, <1>6, <2>1, FS_RemoveElement
  <1>7. QED
    BY <1>4, <1>5, <1>6

(* A node that has not been started.                                       *)
LEMMA InvInit == ASSUME Init PROVE IInv
  <1>1. Starters = {}
    BY DEF Init, Starters, Starting
  <1>2. Cardinality(Starters) = 0
    BY <1>1, FS_EmptySet
  <1>3. QED
    <2>1. Typed /\ LockHeld /\ FirstLife
      BY DEF Init, Typed, LockHeld, FirstLife, Stopping
    <2>2. LoopsPaid
      BY <1>2 DEF Init, LoopsPaid
    <2>3. QED
      BY <2>1, <2>2 DEF IInv

(* Loops end and are started, lives begin.                                 *)
LEMMA LoopsPaidStep ==
    ASSUME IInv, Next
    PROVE  LoopsPaid'
  <1>1. Typed /\ LoopsPaid /\ loops \in Nat /\ lives \in Nat
    BY DEF IInv, Typed
  <1>2. ASSUME NEW c \in Caller, Call(c) \/ Proceed(c)
        PROVE  LoopsPaid'
    <2>1. CASE Claim(c)
      <3>1. CASE Goto(c, "start", "engine") /\ lives' = lives + 1
        <4>1. Cardinality(Starters') = Cardinality(Starters) + 1 /\ Cardinality(Starters) \in Nat
          BY <1>1, <3>1, StartersMove DEF Starting
        <4>2. QED
          BY <1>1, <2>1, <3>1, <4>1 DEF Claim, LoopsPaid
      <3>2. CASE Goto(c, "start", "idle") /\ lives' = lives
        <4>1. Starters' = Starters
          BY <1>1, <3>2, StartersMove DEF Starting
        <4>2. QED
          BY <1>1, <2>1, <3>2, <4>1 DEF Claim, LoopsPaid
      <3>3. QED
        BY <2>1, <3>1, <3>2 DEF Claim
    <2>2. CASE StartEngine(c) \/ StartMempool(c) \/ StartApi(c)
      <3>1. /\ loops' = loops /\ lives' = lives
            /\ \/ Goto(c, "engine", "mempool") \/ Goto(c, "mempool", "serve")
               \/ Goto(c, "serve", "network")
        BY <2>2 DEF StartEngine, StartMempool, StartApi
      <3>2. Starters' = Starters
        BY <1>1, <3>1, StartersMove DEF Starting
      <3>3. QED
        BY <1>1, <3>1, <3>2 DEF LoopsPaid
    <2>3. CASE StartNetwork(c)
      <3>1. CASE Goto(c, "network", "loop")
        <4>1. Starters' = Starters
          BY <1>1, <3>1, StartersMove DEF Starting
        <4>2. QED
          BY <1>1, <2>3, <4>1 DEF StartNetwork, LoopsPaid
      <3>2. CASE Goto(c, "network", "idle")
        <4>1. Cardinality(Starters') = Cardinality(Starters) - 1 /\ Cardinality(Starters) \in Nat
          BY <1>1, <3>2, StartersMove DEF Starting
        <4>2. QED
          BY <1>1, <2>3, <4>1 DEF StartNetwork, LoopsPaid
      <3>3. QED
        BY <2>3, <3>1, <3>2 DEF StartNetwork
    <2>4. CASE StartLoop(c)
      <3>1. Cardinality(Starters') = Cardinality(Starters) - 1 /\ Cardinality(Starters) \in Nat
        BY <1>1, <2>4, StartersMove DEF StartLoop, Starting
      <3>2. QED
        BY <1>1, <2>4, <3>1 DEF StartLoop, LoopsPaid
    <2>5. CASE \/ Call(c) \/ Lock(c) \/ StopApi(c) \/ StopNetwork(c) \/ StopMempool(c)
               \/ StopEngine(c) \/ CloseStorage(c) \/ Unlock(c)
      <3>1. /\ loops' = loops /\ lives' = lives
            /\ \E from, to \in {"idle", "start", "stop"} \cup Stopping : Goto(c, from, to)
        BY <2>5 DEF Call, Lock, StopApi, StopNetwork, StopMempool, StopEngine, CloseStorage,
                    Unlock, Stopping
      <3>2. PICK from, to \in {"idle", "start", "stop"} \cup Stopping : Goto(c, from, to)
        BY <3>1
      <3>3. from \notin Starting /\ to \notin Starting
        BY <3>2 DEF Starting, Stopping
      <3>4. Starters' = Starters
        BY <1>1, <3>2, <3>3, StartersMove
      <3>5. QED
        BY <1>1, <3>1, <3>4 DEF LoopsPaid
    <2>6. QED
      BY <1>2, <2>1, <2>2, <2>3, <2>4, <2>5 DEF Proceed
  <1>3. CASE MakeServer \/ Serve \/ Monitor \/ EngineDone \/ LoopDone \/ LoopFails \/ Cancel
    <2>1. loops' \in {loops, loops - 1} /\ lives' = lives /\ calls' = calls
      BY <1>3 DEF MakeServer, Serve, Monitor, EngineDone, LoopDone, LoopFails, Cancel
    <2>2. Starters' = Starters /\ Cardinality(Starters) \in Nat
      BY <2>1, LifecycleAssumption, FS_Subset, FS_CardinalityType DEF Starters
    <2>3. QED
      BY <1>1, <2>1, <2>2 DEF LoopsPaid
  <1>4. QED
    BY <1>2, <1>3 DEF Next

(* The steps of the calls, each with what it does to the lock and to the   *)
(* channels.                                                               *)
LEMMA CallStep ==
    ASSUME IInv, NEW c \in Caller, Call(c) \/ Proceed(c), ended = "no"
    PROVE  Typed' /\ LockHeld' /\ FirstLife'
  <1>1. /\ Typed /\ LockHeld /\ FirstLife /\ NoCaller \notin Caller
    BY LifecycleAssumption DEF IInv
  <1>2. CASE Call(c)
    <2>1. \/ Goto(c, "idle", "start") \/ Goto(c, "idle", "stop")
      BY <1>2 DEF Call
    <2>2. QED
      BY <1>1, <1>2, <2>1, GotoTyped DEF Call, Typed, LockHeld, FirstLife, Stopping, netVars
  <1>3. CASE Claim(c)
    <2>1. /\ holder = NoCaller /\ holder' = holder /\ ended' = ended /\ cancelled' = cancelled
          /\ netChans' = netChans /\ txChannel' = txChannel /\ finality' = finality
          /\ loops' = loops
          /\ \/ /\ ~running /\ running' = TRUE /\ lives' = lives + 1
                /\ Goto(c, "start", "engine")
             \/ running' = running /\ lives' = lives /\ Goto(c, "start", "idle")
      BY <1>3 DEF Claim, netVars
    <2>2. \E to \in {"engine", "idle"} :
              /\ calls' \in [Caller -> {"idle", "start", "stop"} \cup Starting \cup Stopping]
              /\ calls'[c] = to /\ \A d \in Caller \ {c} : calls'[d] = calls[d]
      BY <1>1, <2>1, GotoTyped DEF Starting
    <2>3. /\ \A d \in Caller : calls'[d] \notin Stopping
          /\ calls' \in [Caller -> {"idle", "start", "stop"} \cup Starting \cup Stopping]
      BY <1>1, <2>1, <2>2 DEF LockHeld, Stopping
    <2>4. running' \in BOOLEAN /\ lives \in Nat /\ lives' \in Nat
      <3>1. lives \in Nat /\ lives + 1 \in Nat /\ running \in BOOLEAN
        BY <1>1 DEF Typed
      <3>2. lives' \in {lives, lives + 1}
        BY <2>1
      <3>3. running' \in {TRUE, running}
        BY <2>1
      <3>4. QED
        BY <3>1, <3>2, <3>3
    <2>5. Typed' /\ LockHeld'
      BY <1>1, <2>1, <2>3, <2>4 DEF Typed, LockHeld
    <2>6. FirstLife'
      BY <1>1, <2>1, <2>3, <2>4 DEF FirstLife, LockHeld, Stopping
    <2>7. QED
      BY <2>5, <2>6
  <1>4. CASE StartEngine(c) \/ StartMempool(c) \/ StartApi(c) \/ StartNetwork(c) \/ StartLoop(c)
    BY <1>1, <1>4, GotoTyped
       DEF StartEngine, StartMempool, StartApi, StartNetwork, StartLoop, Typed, LockHeld,
           FirstLife, Stopping, Starting, netVars
  <1>5. CASE Lock(c)
    BY <1>1, <1>5, GotoTyped DEF Lock, Typed, LockHeld, FirstLife, Stopping, netVars
  <1>6. CASE StopApi(c)
    BY <1>1, <1>6, GotoTyped DEF StopApi, Typed, LockHeld, FirstLife, Stopping, netVars
  <1>7. CASE StopNetwork(c)
    <2>1. /\ Goto(c, "stopNetwork", "stopMempool")
          /\ running' = running /\ holder' = holder /\ lives' = lives /\ loops' = loops
          /\ cancelled' = cancelled /\ finality' = finality /\ txChannel' = txChannel
          /\ \/ netChans' = netChans /\ ended' = ended
             \/ netChans' = FALSE /\ Close(netChans)
      BY <1>7 DEF StopNetwork
    <2>2. /\ calls' \in [Caller -> {"idle", "start", "stop"} \cup Starting \cup Stopping]
          /\ calls[c] = "stopNetwork" /\ calls'[c] = "stopMempool"
          /\ \A d \in Caller \ {c} : calls'[d] = calls[d]
      BY <1>1, <2>1, GotoTyped DEF Stopping
    <2>3. /\ holder = c /\ c # NoCaller /\ running /\ lives > 0
          /\ \A d \in Caller \ {c} : calls'[d] \notin Stopping
      BY <1>1, <2>2 DEF LockHeld, Stopping
    <2>4. Typed' /\ LockHeld'
      BY <1>1, <2>1, <2>2, <2>3 DEF Typed, LockHeld, Stopping
    <2>5. FirstLife'
      BY <1>1, <2>1, <2>2, <2>3 DEF FirstLife, Typed, Stopping, Close
    <2>6. QED
      BY <2>4, <2>5
  <1>8. CASE StopMempool(c)
    <2>1. /\ Goto(c, "stopMempool", "stopEngine")
          /\ running' = running /\ holder' = holder /\ lives' = lives /\ loops' = loops
          /\ cancelled' = cancelled /\ finality' = finality /\ netChans' = netChans
          /\ txChannel' = FALSE /\ Close(txChannel)
      BY <1>8 DEF StopMempool, netVars
    <2>2. /\ calls' \in [Caller -> {"idle", "start", "stop"} \cup Starting \cup Stopping]
          /\ calls[c] = "stopMempool" /\ calls'[c] = "stopEngine"
          /\ \A d \in Caller \ {c} : calls'[d] = calls[d]
      BY <1>1, <2>1, GotoTyped DEF Stopping
    <2>3. /\ holder = c /\ c # NoCaller /\ running /\ lives > 0
          /\ \A d \in Caller \ {c} : calls'[d] \notin Stopping
      BY <1>1, <2>2 DEF LockHeld, Stopping
    <2>4. Typed' /\ LockHeld'
      BY <1>1, <2>1, <2>2, <2>3 DEF Typed, LockHeld, Stopping
    <2>5. FirstLife'
      BY <1>1, <2>1, <2>2, <2>3 DEF FirstLife, Typed, Stopping, Close
    <2>6. QED
      BY <2>4, <2>5
  <1>9. CASE StopEngine(c)
    <2>1. /\ Goto(c, "stopEngine", "closeStorage")
          /\ running' = running /\ holder' = holder /\ lives' = lives /\ loops' = loops
          /\ cancelled' = cancelled /\ netChans' = netChans /\ txChannel' = txChannel
          /\ finality' = FALSE /\ Close(finality)
      BY <1>9 DEF StopEngine, netVars
    <2>2. /\ calls' \in [Caller -> {"idle", "start", "stop"} \cup Starting \cup Stopping]
          /\ calls[c] = "stopEngine" /\ calls'[c] = "closeStorage"
          /\ \A d \in Caller \ {c} : calls'[d] = calls[d]
      BY <1>1, <2>1, GotoTyped DEF Stopping
    <2>3. /\ holder = c /\ c # NoCaller /\ running /\ lives > 0
          /\ \A d \in Caller \ {c} : calls'[d] \notin Stopping
      BY <1>1, <2>2 DEF LockHeld, Stopping
    <2>4. Typed' /\ LockHeld'
      BY <1>1, <2>1, <2>2, <2>3 DEF Typed, LockHeld, Stopping
    <2>5. FirstLife'
      BY <1>1, <2>1, <2>2, <2>3 DEF FirstLife, Typed, Stopping, Close
    <2>6. QED
      BY <2>4, <2>5
  <1>10. CASE CloseStorage(c)
    BY <1>1, <1>10, GotoTyped DEF CloseStorage, Typed, LockHeld, FirstLife, Stopping, netVars
  <1>11. CASE Unlock(c)
    <2>1. /\ Goto(c, "unlock", "idle") /\ running' = FALSE /\ holder' = NoCaller
          /\ UNCHANGED <<lives, loops, cancelled, ended, netChans, txChannel, finality>>
      BY <1>11 DEF Unlock, netVars
    <2>2. /\ calls' \in [Caller -> {"idle", "start", "stop"} \cup Starting \cup Stopping]
          /\ calls[c] = "unlock" /\ calls'[c] = "idle"
          /\ \A d \in Caller \ {c} : calls'[d] = calls[d]
      BY <1>1, <2>1, GotoTyped
    <2>3. /\ running /\ lives > 0
          /\ \A d \in Caller : calls'[d] \notin Stopping
      BY <1>1, <2>2 DEF LockHeld, Stopping
    <2>4. Typed' /\ LockHeld'
      BY <1>1, <2>1, <2>2, <2>3 DEF Typed, LockHeld
    <2>5. FirstLife'
      BY <1>1, <2>1, <2>3 DEF FirstLife, Typed, Stopping
    <2>6. QED
      BY <2>4, <2>5
  <1>12. QED
    BY <1>2, <1>3, <1>4, <1>5, <1>6, <1>7, <1>8, <1>9, <1>10, <1>11 DEF Proceed

(* What was spawned closes a channel only when the context is done.        *)
LEMMA SpawnedStep ==
    ASSUME IInv,
           MakeServer \/ Serve \/ Monitor \/ EngineDone \/ LoopDone \/ LoopFails \/ Cancel
    PROVE  Typed' /\ LockHeld' /\ FirstLife'
  <1>1. Typed /\ LockHeld /\ FirstLife
    BY DEF IInv
  <1>2. /\ calls' = calls /\ holder' = holder /\ running' = running /\ lives' = lives
        /\ netChans' = netChans /\ txChannel' = txChannel
    BY DEF MakeServer, Serve, Monitor, EngineDone, LoopDone, LoopFails, Cancel, netVars
  <1>3. /\ finality' \in BOOLEAN /\ loops' \in Nat /\ cancelled' \in BOOLEAN
        /\ cancelled => cancelled'
        /\ ~cancelled' => finality' = finality /\ (ended' = "crashed" => ended = "crashed")
    <2>1. CASE MakeServer \/ Serve \/ Monitor \/ Cancel
      BY <1>1, <2>1 DEF MakeServer, Serve, Monitor, Cancel, Typed
    <2>2. CASE EngineDone
      BY <1>1, <2>2 DEF EngineDone, Typed
    <2>3. CASE LoopDone \/ LoopFails
      <3>1. loops > 0 /\ loops' \in {loops, loops - 1} /\ loops \in Nat
        BY <1>1, <2>3 DEF LoopDone, LoopFails, Typed
      <3>2. loops' \in Nat
        BY <3>1
      <3>3. QED
        BY <1>1, <2>3, <3>2 DEF LoopDone, LoopFails, Typed
    <2>4. QED
      BY <2>1, <2>2, <2>3
  <1>4. QED
    BY <1>1, <1>2, <1>3 DEF Typed, LockHeld, FirstLife

(* Every step keeps the invariant.                                         *)
LEMMA InvStep == ASSUME IInv, [Next]_vars PROVE IInv'
  <1>1. CASE UNCHANGED vars
    BY <1>1 DEF vars, apiVars, netVars, IInv, Typed, LoopsPaid, Starters, LockHeld, FirstLife
  <1>2. CASE Next
    <2>1. Typed' /\ LockHeld' /\ FirstLife'
      BY <1>2, CallStep, SpawnedStep DEF Next
    <2>2. QED
      BY <1>2, <2>1, LoopsPaidStep DEF IInv
  <1>3. QED
    BY <1>1, <1>2

----------------------------------------------------------------------------
(* However many goroutines start and stop the node, no life gets a second  *)
(* event loop, and the first one, unless it is cancelled, closes no        *)
(* channel twice.                                                          *)
THEOREM OneLoopPerLife == Spec => []OneLife
  <1>1. IInv => OneLife
    <2> SUFFICES ASSUME IInv PROVE OneLife
      OBVIOUS
    <2>1. Cardinality(Starters) \in Nat
      BY LifecycleAssumption, FS_Subset, FS_CardinalityType DEF Starters
    <2>2. QED
      BY <2>1 DEF IInv, Typed, LoopsPaid, FirstLife, OneLife
  <1>2. QED
    BY <1>1, InvInit, InvStep, PTL DEF Spec

=============================================================================
