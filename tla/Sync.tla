-------------------------------- MODULE Sync --------------------------------
(***************************************************************************)
(* type SyncManager of pkg/network/sync.go, among nodes that also gossip   *)
(* events through pkg/network/p2p.go: the session a node opens to fetch    *)
(* the rounds above its own, the handler that serves it, the topic with    *)
(* its bounded channel, and the event loop of cmd/ndagd behind it.         *)
(*                                                                         *)
(* A session is a stream: it delivers in order, and ends early when the    *)
(* server fails, hangs or restarts.  The server looks up one round at a    *)
(* time while its graph grows, the client's graph grows by gossip and by   *)
(* other sessions, and each has read its peer's rounds at another moment.  *)
(*                                                                         *)
(* Only ids and rounds of events matter here.  No response ever carries a  *)
(* transaction, so the client's loop over them is left out, and so is the  *)
(* cap of 10000 events, which the limit of the request undercuts.          *)
(***************************************************************************)
EXTENDS Naturals, Sequences, FiniteSets, FiniteSetsExt

CONSTANTS
    Node,
    Event,
    NoEvent,    \* the event of the last response
    Session,    \* streams at a time; an ended one gives way to the next
    Ranges,     \* what callers of SyncWithPeer ask for: <<first, last>>
    Window,     \* MaxSyncRounds, 1000 in the code
    Limit,      \* MaxSyncBatchSize, 100 in the code
    ChanCap,    \* capacity of the network's eventChan, 1000 in the code
    MaxFaults   \* bound on failing streams and writes, stalls and restarts

ASSUME SyncAssumption ==
    /\ IsFiniteSet(Event) /\ NoEvent \notin Event
    /\ \A r \in Ranges : r[1] \in Nat /\ r[2] \in Nat /\ r[1] <= r[2]
    /\ Window \in Nat \ {0} /\ Limit \in Nat \ {0} /\ ChanCap \in Nat \ {0}
    /\ MaxFaults \in Nat

VARIABLES
    round,      \* round[e]: the round of event e, 0 before it is created
    known,      \* known[n]: the graph of node n
    stored,     \* stored[n]: the events in its store
    eventChan,  \* eventChan[n]: gossip n has received and not added yet
    marks,      \* marks[n][m]: what the map sm.peers of n says of m
    sessions,   \* sessions[s]: the two ends of stream s
    faults

vars == <<round, known, stored, eventChan, marks, sessions, faults>>

Response == [event : Event \cup {NoEvent}, hasMore : BOOLEAN]

(* The request, the client's end (its phase and the round it has got to)   *)
(* and the server's (its round, the events of it still to be sent, how     *)
(* many there were, how many were sent in all), and what lies between.     *)
(* had is what the server knew when the request was made.                  *)
Stream == [client : Node, server : Node, first : Nat, last : Nat, had : SUBSET Event,
           phase : {"running", "complete", "cut", "failed"}, reached : Nat,
           serving : {"open", "closed", "stalled"}, at : Nat, todo : SUBSET Event,
           size : Nat, sent : Nat, pipe : Seq(Response)]

Unused == [phase |-> "unused"]

TypeOK ==
    /\ round \in [Event -> Nat]
    /\ known \in [Node -> SUBSET Event]
    /\ stored \in [Node -> SUBSET Event]
    /\ eventChan \in [Node -> Seq(Event)]
    /\ marks \in [Node -> [Node -> {"absent", "connected", "disconnected"}]]
    /\ sessions \in [Session -> Stream \cup {Unused}]
    /\ faults \in 0 .. MaxFaults

Init ==
    /\ round = [e \in Event |-> 0]
    /\ known = [n \in Node |-> {}]
    /\ stored = [n \in Node |-> {}]
    /\ eventChan = [n \in Node |-> <<>>]
    /\ marks = [n \in Node |-> [m \in Node |-> "absent"]]
    /\ sessions = [s \in Session |-> Unused]
    /\ faults = 0

CurrentRound(n) == Max({0} \cup {round[e] : e \in known[n]})

GetEventsByRound(n, r) == {e \in known[n] : round[e] = r}

Fault == faults < MaxFaults /\ faults' = faults + 1

----------------------------------------------------------------------------
(***************************************************************************)
(* Gossip.  A new event is above every round its creator knows of.         *)
(***************************************************************************)
Create(n) ==
    \E e \in {x \in Event : round[x] = 0} :
        /\ round' = [round EXCEPT ![e] = CurrentRound(n) + 1]
        /\ known' = [known EXCEPT ![n] = @ \cup {e}]
        /\ stored' = [stored EXCEPT ![n] = @ \cup {e}]
        /\ UNCHANGED <<eventChan, marks, sessions, faults>>

(* The topic loses and delays messages; one that meets a full channel is   *)
(* dropped, and one that tells nothing new would change nothing.           *)
HandleEventMessage(n, e) ==
    /\ round[e] > 0 /\ e \notin known[n]
    /\ Len(eventChan[n]) < ChanCap
    /\ eventChan' = [eventChan EXCEPT ![n] = Append(@, e)]
    /\ UNCHANGED <<round, known, stored, marks, sessions, faults>>

EventLoop(n) ==
    /\ eventChan[n] # <<>>
    /\ eventChan' = [eventChan EXCEPT ![n] = Tail(@)]
    /\ known' = [known EXCEPT ![n] = @ \cup {Head(eventChan[n])}]
    /\ UNCHANGED <<round, stored, marks, sessions, faults>>

----------------------------------------------------------------------------
(***************************************************************************)
(* The client.  An operator named ...Bug is a plausible mistake in the     *)
(* definition that follows it.                                             *)
(***************************************************************************)
Request(s, n, m, first, last) ==
    sessions' = [sessions EXCEPT ![s] =
        [client |-> n, server |-> m, first |-> first, last |-> last, had |-> known[m],
         phase |-> "running", reached |-> first, serving |-> "open", at |-> first,
         todo |-> {}, size |-> 0, sent |-> 0, pipe |-> <<>>]]

(* syncWithPeer, by its condition: a peer whose mark says disconnected,    *)
(* which it does after the first attempt, is passed over.                  *)
Admitted(n, m) == n # m /\ marks[n][m] # "disconnected"

SyncWithPeers(s, n, m) ==
    /\ sessions[s].phase # "running"
    /\ Admitted(n, m)
    /\ marks' = [marks EXCEPT ![n][m] = "connected"]
    /\ Request(s, n, m, CurrentRound(n) + 1, CurrentRound(n) + Window)
    /\ UNCHANGED <<round, known, stored, eventChan, faults>>

(* No stream to the peer, or none that takes the request.                  *)
SyncFails(n, m) ==
    /\ Admitted(n, m)
    /\ Fault
    /\ marks' = [marks EXCEPT ![n][m] = "disconnected"]
    /\ UNCHANGED <<round, known, stored, eventChan, sessions>>

(* The exported call, which asks for a range and leaves no mark.           *)
SyncWithPeer(s, n, m) ==
    /\ sessions[s].phase # "running"
    /\ n # m
    /\ \E r \in Ranges : Request(s, n, m, r[1], r[2])
    /\ UNCHANGED <<round, known, stored, eventChan, marks, faults>>

(* The stream is closed, and the mark of a loop's session reset.           *)
Ended(s, phase) == [sessions[s] EXCEPT !.phase = phase, !.pipe = <<>>, !.serving = "closed",
                                       !.todo = {}]

Unmark(s) ==
    LET n == sessions[s].client m == sessions[s].server IN
    marks' = [marks EXCEPT ![n][m] = IF @ = "connected" THEN "disconnected" ELSE @]

(* An event that cannot be stored is not added.                            *)
StoreFirstBug(n, e) ==
    \/ /\ known' = [known EXCEPT ![n] = @ \cup ({e} \ {NoEvent})]
       /\ stored' = [stored EXCEPT ![n] = @ \cup ({e} \ {NoEvent})]
       /\ UNCHANGED faults
    \/ /\ e \notin known[n] \cup {NoEvent}
       /\ Fault
       /\ UNCHANGED <<known, stored>>

(* An event that is in the graph already is only logged; one that is new   *)
(* is stored, unless the write fails.                                      *)
Take(n, e) ==
    /\ known' = [known EXCEPT ![n] = @ \cup ({e} \ {NoEvent})]
    /\ \/ /\ stored' = [stored EXCEPT ![n] = @ \cup ({e} \ (known[n] \cup {NoEvent}))]
          /\ UNCHANGED faults
       \/ /\ e \notin known[n] \cup {NoEvent}
          /\ Fault
          /\ UNCHANGED stored

Read(s) ==
    LET S == sessions[s]
        resp == Head(S.pipe)
        reached == IF resp.event = NoEvent THEN S.reached ELSE round[resp.event]
    IN  /\ S.phase = "running"
        /\ S.pipe # <<>>
        /\ Take(S.client, resp.event)
        /\ \/ /\ resp.hasMore
              /\ sessions' = [sessions EXCEPT ![s].pipe = Tail(@), ![s].reached = reached]
              /\ UNCHANGED marks
           \/ /\ ~resp.hasMore
              /\ LET done == [Ended(s, "complete") EXCEPT !.reached = reached]
                 IN  sessions' = [sessions EXCEPT ![s] = done]
              /\ Unmark(s)
        /\ UNCHANGED <<round, eventChan>>

(* The end of the stream counts as the end of the session.                 *)
ReadEOF(s) ==
    /\ sessions[s].phase = "running"
    /\ sessions[s].pipe = <<>>
    /\ sessions[s].serving = "closed"
    /\ sessions' = [sessions EXCEPT ![s] = Ended(s, "cut")]
    /\ Unmark(s)
    /\ UNCHANGED <<round, known, stored, eventChan, faults>>

(* The deadline of a read passes.                                          *)
ReadTimeout(s) ==
    /\ sessions[s].phase = "running"
    /\ sessions[s].pipe = <<>>
    /\ sessions[s].serving = "stalled"
    /\ sessions' = [sessions EXCEPT ![s] = Ended(s, "failed")]
    /\ Unmark(s)
    /\ UNCHANGED <<round, known, stored, eventChan, faults>>

----------------------------------------------------------------------------
(***************************************************************************)
(* The server: handleSyncStream.                                           *)
(***************************************************************************)
Serving(s) == sessions[s].phase = "running" /\ sessions[s].serving = "open"

NextRound(s) ==
    LET S == sessions[s]
        events == GetEventsByRound(S.server, S.at)
    IN  /\ Serving(s)
        /\ S.todo = {}
        /\ S.at <= S.last /\ S.sent < Limit
        /\ sessions' = [sessions EXCEPT ![s].todo = events, ![s].size = Cardinality(events),
                                        ![s].at = IF events = {} THEN @ + 1 ELSE @]
        /\ UNCHANGED <<round, known, stored, eventChan, marks, faults>>

LastOfRoundBug(S) == S.sent < S.size - 1

(* Of this event; sent counts the events of all rounds so far.             *)
HasMore(S) == S.at < S.last \/ S.sent < S.size - 1

SendEvent(s) ==
    LET S == sessions[s] IN
    /\ Serving(s)
    /\ \E e \in S.todo :
           sessions' = [sessions EXCEPT
               ![s].pipe = Append(@, [event |-> e, hasMore |-> HasMore(S)]),
               ![s].sent = @ + 1,
               ![s].todo = @ \ {e},
               ![s].at = IF S.todo = {e} THEN @ + 1 ELSE @]
    /\ UNCHANGED <<round, known, stored, eventChan, marks, faults>>

(* The limit is looked at before a round, never within one.                *)
SendLast(s) ==
    LET S == sessions[s] IN
    /\ Serving(s)
    /\ S.todo = {}
    /\ S.at > S.last \/ S.sent >= Limit
    /\ sessions' = [sessions EXCEPT
           ![s].pipe = Append(@, [event |-> NoEvent, hasMore |-> FALSE]),
           ![s].serving = "closed"]
    /\ UNCHANGED <<round, known, stored, eventChan, marks, faults>>

(* The handler gives up, or hangs; what it has written still arrives.      *)
SendFails(s) ==
    /\ Serving(s)
    /\ Fault
    /\ \E how \in {"closed", "stalled"} : sessions' = [sessions EXCEPT ![s].serving = how]
    /\ UNCHANGED <<round, known, stored, eventChan, marks>>

(* The graph and the map of peers are in memory only, and nothing reads    *)
(* the stored events back.                                                 *)
Restart(n) ==
    /\ Fault
    /\ known' = [known EXCEPT ![n] = {}]
    /\ eventChan' = [eventChan EXCEPT ![n] = <<>>]
    /\ marks' = [marks EXCEPT ![n] = [m \in Node |-> "absent"]]
    /\ sessions' = [s \in Session |->
           CASE sessions[s] # Unused /\ sessions[s].client = n -> Unused
             [] Serving(s) /\ sessions[s].server = n
                  -> [sessions[s] EXCEPT !.serving = "closed", !.todo = {}]
             [] OTHER -> sessions[s]]
    /\ UNCHANGED <<round, stored>>

ClientStep(s) == Read(s) \/ ReadEOF(s) \/ ReadTimeout(s)

ServerStep(s) == NextRound(s) \/ SendEvent(s) \/ SendLast(s)

Next ==
    \/ \E n \in Node : Create(n) \/ EventLoop(n) \/ Restart(n)
    \/ \E n \in Node, e \in Event : HandleEventMessage(n, e)
    \/ \E n, m \in Node : SyncFails(n, m)
    \/ \E s \in Session, n, m \in Node : SyncWithPeers(s, n, m) \/ SyncWithPeer(s, n, m)
    \/ \E s \in Session : ClientStep(s) \/ ServerStep(s) \/ SendFails(s)

Spec == Init /\ [][Next]_vars

----------------------------------------------------------------------------
(***************************************************************************)
(* Properties.                                                             *)
(***************************************************************************)

(* What s has to have brought when it has got to round r.                  *)
Below(s, r) == {e \in sessions[s].had : sessions[s].first <= round[e] /\ round[e] < r}

(* However a session ends, and whatever both graphs gained meanwhile, it   *)
(* leaves no hole: with an event of some round it has brought every event  *)
(* of the rounds before it that the server had.                            *)
RoundsArriveInOrder ==
    \A s \in Session :
        sessions[s] # Unused =>
            Below(s, sessions[s].reached) \subseteq known[sessions[s].client]

(* A session that ends because there is no more, and not by the limit, has *)
(* brought all that the server had below the last round asked for.  (Of    *)
(* the last round itself it may have brought a part: HasMore.)             *)
CompleteBelowLast ==
    \A s \in Session :
        sessions[s].phase = "complete" /\ sessions[s].sent < Limit =>
            Below(s, sessions[s].last) \subseteq known[sessions[s].client]

(***************************************************************************)
(* What a comment says, and the code does not do.                          *)
(***************************************************************************)

(* "Check if already syncing": a node has one session with a peer.         *)
OneSessionPerPeer ==
    \A s, u \in Session :
        /\ sessions[s].phase = "running" /\ sessions[u].phase = "running"
        /\ sessions[s].client = sessions[u].client /\ sessions[s].server = sessions[u].server
        => s = u

=============================================================================
