----------------------------- MODULE Consensus -----------------------------
(***************************************************************************)
(* type ConsensusEngine of pkg/consensus/types.go over the graph of Dag:   *)
(* the goroutine of Start that drains eventChan, virtual voting in         *)
(* DetermineFame, CheckFinality, CurrentRound and Stop.                    *)
(*                                                                         *)
(* A step is what runs under one hold of dag.mu, or one channel operation: *)
(* GetWitnesses, each StronglySee of a vote, the write of the verdict and  *)
(* the send to the finality channel are separate, so events may arrive     *)
(* between them.  CheckFinality holds dag.mu throughout and is one step.   *)
(* The file declares Start twice; the model is the one with the loop.      *)
(***************************************************************************)
EXTENDS Dag

CONSTANTS
    EventCap,     \* capacity of eventChan, 1000 in the code
    FinalityCap   \* capacity of finality, 100 in the code

ASSUME ChannelAssumption ==
    /\ EventCap \in Nat \ {0}
    /\ FinalityCap \in Nat \ {0}

VARIABLES
    eventChan,     \* events received and not yet taken by the loop
    loop,          \* where the loop is, and the event it has just added
    fame,          \* the frame of the running DetermineFame
    finality,      \* verdicts sent and not yet consumed
    finalityOpen,  \* FALSE once the finality channel is closed
    currentRound,  \* e.currentRound
    cancelled,     \* the context given to Start is done
    stopCalled,    \* the owner of the engine has called Stop
    crashed        \* a goroutine panicked, which ends the process

roundVars == <<currentRound>>
shutdownVars == <<finalityOpen, cancelled, stopCalled, crashed>>
engineVars == <<eventChan, loop, fame, finality, roundVars, shutdownVars>>
vars == <<dagVars, engineVars>>

Verdict == [event : Id, round : Rounds, famous : BOOLEAN]

LoopState == [pc : {"select", "check", "exited"}, event : Id \cup {NoId}]

FameState == [pc : {"idle", "vote", "count", "send"},
              round : Rounds \cup {0},  \* the argument of DetermineFame
              todo : Seq(Id),           \* witnesses whose fame is still open
              voters : Seq(Id),         \* nextWitnesses, as read by voteOnFame
              asked : Nat,              \* how many of them have voted
              canSee : Nat]             \* how many of those see the candidate

TypeOK ==
    /\ DagTypeOK
    /\ eventChan \in Seq(Id \cup {NoId})
    /\ Len(eventChan) <= EventCap
    /\ loop \in LoopState
    /\ fame \in FameState
    /\ fame.pc # "idle" => fame.todo # <<>>
    /\ finality \in Seq(Verdict)
    /\ Len(finality) <= FinalityCap
    /\ currentRound \in Rounds \cup {0}
    /\ {finalityOpen, cancelled, stopCalled, crashed} \subseteq BOOLEAN

Selecting == [pc |-> "select", event |-> NoId]

NoCall == [pc |-> "idle", round |-> 0, todo |-> <<>>, voters |-> <<>>,
           asked |-> 0, canSee |-> 0]

Init ==
    /\ DagInit
    /\ eventChan = <<>>
    /\ loop = Selecting
    /\ fame = NoCall
    /\ finality = <<>>
    /\ finalityOpen = TRUE
    /\ currentRound = 0
    /\ cancelled = FALSE
    /\ stopCalled = FALSE
    /\ crashed = FALSE

----------------------------------------------------------------------------
(***************************************************************************)
(* Callers of the engine.  An operator named ...Bug is a plausible mistake *)
(* in the definition that follows it.                                      *)
(***************************************************************************)

ReceiveOverCapacityBug(e) ==
    /\ Len(eventChan) <= EventCap
    /\ eventChan' = Append(eventChan, e)
    /\ UNCHANGED <<dagVars, loop, fame, finality, roundVars, shutdownVars>>

(* An event arrives from the network; a full channel drops it.             *)
ReceiveEvent(e) ==
    /\ Len(eventChan) < EventCap
    /\ eventChan' = Append(eventChan, e)
    /\ UNCHANGED <<dagVars, loop, fame, finality, roundVars, shutdownVars>>

(* The node adds an event of its own, bypassing the channel.               *)
AddLocalEvent(e) ==
    /\ AddEvent(e)
    /\ UNCHANGED engineVars

KnownAncestorsOnlyBug(e) ==
    /\ e \in known
    /\ e \in famous
    /\ Ancestors(e) \cap known \subseteq finalized

Finalizable(e) ==
    /\ e \in known
    /\ e \in famous
    /\ Ancestors(e) \subseteq finalized

RecomputeBug(e) ==
    /\ finalized' = IF Finalizable(e) THEN finalized \cup {e} ELSE finalized \ {e}
    /\ UNCHANGED <<event, known, children, witnesses, famous>>

MarkFinal(e) ==
    /\ finalized' = IF Finalizable(e) THEN finalized \cup {e} ELSE finalized
    /\ UNCHANGED <<event, known, children, witnesses, famous>>

(* Any caller: the node's tick, a handler, a test.                         *)
CheckFinality(e) ==
    /\ MarkFinal(e)
    /\ UNCHANGED engineVars

CurrentRound ==
    /\ currentRound' = Max({currentRound, LatestRound})
    /\ UNCHANGED <<dagVars, eventChan, loop, fame, finality, shutdownVars>>

(* The node's loop reads the finality channel; what a closed channel still *)
(* holds can be read.                                                      *)
TakeVerdict ==
    /\ finality # <<>>
    /\ finality' = Tail(finality)
    /\ UNCHANGED <<dagVars, eventChan, loop, fame, roundVars, shutdownVars>>

(***************************************************************************)
(* The loop of Start, and Stop.                                            *)
(***************************************************************************)
LoopAdd ==
    /\ loop.pc = "select"
    /\ eventChan # <<>>
    /\ eventChan' = Tail(eventChan)
    /\ LET e == Head(eventChan) IN
       \/ AddEvent(e) /\ loop' = [pc |-> "check", event |-> e]
       \/ RejectEvent(e) /\ UNCHANGED loop
    /\ UNCHANGED <<fame, finality, roundVars, shutdownVars>>

LoopCheck ==
    /\ loop.pc = "check"
    /\ MarkFinal(loop.event)
    /\ loop' = Selecting
    /\ UNCHANGED <<eventChan, fame, finality, roundVars, shutdownVars>>

(* close(e.finality); closing twice panics.                                *)
CloseFinality ==
    /\ finalityOpen' = FALSE
    /\ crashed' = ~finalityOpen

KeepLoopingBug ==
    /\ loop.pc = "select"
    /\ cancelled
    /\ CloseFinality
    /\ UNCHANGED <<dagVars, eventChan, loop, fame, finality, roundVars, cancelled,
                   stopCalled>>

LoopShutdown ==
    /\ loop.pc = "select"
    /\ cancelled
    /\ CloseFinality
    /\ loop' = [pc |-> "exited", event |-> NoId]
    /\ UNCHANGED <<dagVars, eventChan, fame, finality, roundVars, cancelled,
                   stopCalled>>

Stop ==
    /\ ~stopCalled
    /\ stopCalled' = TRUE
    /\ CloseFinality
    /\ UNCHANGED <<dagVars, eventChan, loop, fame, finality, roundVars, cancelled>>

(* A closed and empty channel yields nil, which the node's loop, unless it *)
(* notices first that the context is done, dereferences.                   *)
ReadClosed ==
    /\ ~finalityOpen
    /\ finality = <<>>
    /\ crashed' = TRUE
    /\ UNCHANGED <<dagVars, eventChan, loop, fame, finality, roundVars,
                   finalityOpen, cancelled, stopCalled>>

Cancel ==
    /\ ~cancelled
    /\ cancelled' = TRUE
    /\ UNCHANGED <<dagVars, eventChan, loop, fame, finality, roundVars,
                   finalityOpen, stopCalled, crashed>>

(***************************************************************************)
(* DetermineFame(r), one call at a time.                                   *)
(***************************************************************************)
FameBegin(r) ==
    /\ fame.pc = "idle"
    /\ GetWitnesses(r) # <<>>                \* else ErrNoWitnesses
    /\ fame' = [fame EXCEPT !.pc = "vote", !.round = r, !.todo = GetWitnesses(r)]
    /\ UNCHANGED <<dagVars, eventChan, loop, finality, roundVars, shutdownVars>>

OwnRoundVotersBug ==
    /\ fame.pc = "vote"
    /\ fame' = [fame EXCEPT !.pc = "count", !.voters = GetWitnesses(fame.round),
                            !.asked = 0, !.canSee = 0]
    /\ UNCHANGED <<dagVars, eventChan, loop, finality, roundVars, shutdownVars>>

FameReadVoters ==
    /\ fame.pc = "vote"
    /\ fame' = [fame EXCEPT !.pc = "count", !.voters = GetWitnesses(fame.round + 1),
                            !.asked = 0, !.canSee = 0]
    /\ UNCHANGED <<dagVars, eventChan, loop, finality, roundVars, shutdownVars>>

FameAskVoter ==
    /\ fame.pc = "count"
    /\ fame.asked < Len(fame.voters)
    /\ LET sees == StronglySee(fame.voters[fame.asked + 1], Head(fame.todo)) IN
       fame' = [fame EXCEPT !.asked = @ + 1, !.canSee = IF sees THEN @ + 1 ELSE @]
    /\ UNCHANGED <<dagVars, eventChan, loop, finality, roundVars, shutdownVars>>

IsFamous ==
    /\ fame.voters # <<>>
    /\ fame.canSee >= Quorum(Len(fame.voters))

FameRecord ==
    /\ fame.pc = "count"
    /\ fame.asked = Len(fame.voters)
    /\ famous' = IF IsFamous THEN famous \cup {Head(fame.todo)}
                             ELSE famous \ {Head(fame.todo)}
    /\ fame' = [fame EXCEPT !.pc = "send"]
    /\ UNCHANGED <<event, known, children, witnesses, finalized, eventChan, loop,
                   finality, roundVars, shutdownVars>>

NeverReturnBug == [fame EXCEPT !.pc = "vote", !.voters = <<>>, !.asked = 0, !.canSee = 0]

(* The frame after the verdict on Head(todo): the next witness, or return. *)
NextCandidate ==
    IF Tail(fame.todo) = <<>> THEN NoCall
    ELSE [fame EXCEPT !.pc = "vote", !.todo = Tail(@), !.voters = <<>>,
                      !.asked = 0, !.canSee = 0]

(* Blocks while the channel is full.                                       *)
FameSend ==
    /\ fame.pc = "send"
    /\ finalityOpen
    /\ Len(finality) < FinalityCap
    /\ finality' = Append(finality, [event |-> Head(fame.todo), round |-> fame.round,
                                     famous |-> IsFamous])
    /\ fame' = NextCandidate
    /\ UNCHANGED <<dagVars, eventChan, loop, roundVars, shutdownVars>>

(* Sending on a closed channel panics.                                     *)
FameSendClosed ==
    /\ fame.pc = "send"
    /\ ~finalityOpen
    /\ crashed' = TRUE
    /\ UNCHANGED <<dagVars, eventChan, loop, fame, finality, roundVars,
                   finalityOpen, cancelled, stopCalled>>

----------------------------------------------------------------------------
FameStep ==
    FameReadVoters \/ FameAskVoter \/ FameRecord \/ FameSend \/ FameSendClosed

Operate ==
    \/ \E e \in Id \cup {NoId} : ReceiveEvent(e)
    \/ \E e \in Id : AddLocalEvent(e) \/ CheckFinality(e)
    \/ \E r \in Rounds : FameBegin(r)
    \/ LoopAdd \/ LoopCheck
    \/ FameStep
    \/ TakeVerdict
    \/ CurrentRound

Shutdown == Cancel \/ LoopShutdown \/ Stop \/ ReadClosed

Next == ~crashed /\ (Operate \/ Shutdown)

Spec == Init /\ [][Next]_vars

(* Nobody shuts the engine down.                                           *)
RunningSpec == Init /\ [][~crashed /\ Operate]_vars

(* Events are delivered after their parents.                               *)
ParentsFirst == \A e \in known' \ known : event[e].parents \subseteq known

CausalSpec == Init /\ [][~crashed /\ Operate /\ ParentsFirst]_vars

(***************************************************************************)
(* The scheduler runs the loop and a pending DetermineFame, and the event  *)
(* loop of cmd/ndagd/main.go reads the finality channel until the context  *)
(* is done.                                                                *)
(***************************************************************************)
Fairness ==
    /\ WF_vars(LoopAdd)
    /\ WF_vars(LoopCheck)
    /\ WF_vars(FameStep)
    /\ WF_vars(~cancelled /\ TakeVerdict)

FairSpec == Spec /\ Fairness

(* A creator gives an event its current round, which no event it knows is  *)
(* above, so that no event is in an earlier round than its parents.        *)
RoundsNeverFall ==
    \A g \in Gossip : \A e \in Id : \A p \in g[e].parents : g[p].round <= g[e].round

----------------------------------------------------------------------------
(***************************************************************************)
(* Properties.                                                             *)
(***************************************************************************)

(* Which of the first n of ws descend from e.                              *)
Seeing(ws, n, e) == {i \in 1 .. n : e \in Ancestors(ws[i])}

SeenByTwoThirds(e) ==
    LET ws == GetWitnesses(event[e].round + 1) IN
    \E n \in 1 .. Len(ws) : 3 * Cardinality(Seeing(ws, n, e)) > 2 * n

(* Finality is closed under ancestry: everything a finalized event builds  *)
(* on, through any number of parents, is known and finalized, whatever the *)
(* order in which events were delivered, judged and checked.               *)
FinalizedClosed ==
    \A e \in finalized : e \in known /\ Ancestors(e) \subseteq finalized

(* No reorganization: once an event is final it stays final and its past   *)
(* is frozen, although AddEvent accepts events with missing parents and so *)
(* lets the ancestry of other events grow.                                 *)
NoReorganization ==
    [][\A e \in finalized : e \in finalized' /\ Ancestors(e)' = Ancestors(e)]_vars

(* A famous or final event is a witness, and more than two thirds of the   *)
(* witnesses of the next round, or of the first n of them to arrive,       *)
(* descend from it, also when the list of voters its verdict was computed  *)
(* from has grown since, or the verdict has been overturned since.         *)
JudgedByTwoThirds ==
    \A e \in famous \cup finalized :
        e \in ToSet(GetWitnesses(event[e].round)) /\ SeenByTwoThirds(e)

(* What a running DetermineFame has read stays true while events arrive:   *)
(* its candidates are witnesses of the round and its voters those of the   *)
(* next that arrived first, and as many of the voters it has asked as it   *)
(* counted, if not more, descend from the candidate.                       *)
CallSound ==
    /\ fame.pc # "idle" => ToSet(fame.todo) \subseteq ToSet(GetWitnesses(fame.round))
    /\ fame.pc \in {"count", "send"} =>
           /\ IsPrefix(fame.voters, GetWitnesses(fame.round + 1))
           /\ fame.asked <= Len(fame.voters)
           /\ fame.canSee <= Cardinality(Seeing(fame.voters, fame.asked, Head(fame.todo)))

(* The witness lists hold known events of their round, none twice, however *)
(* often an event is delivered by the network and added by the node.       *)
WitnessListsSound ==
    \A r \in Rounds :
        /\ \A w \in ToSet(witnesses[r]) : w \in known /\ event[w].round = r
        /\ \A i, j \in 1 .. Len(witnesses[r]) :
               witnesses[r][i] = witnesses[r][j] => i = j

(* GetDescendants and GetAncestors answer the same question from either    *)
(* end, also about ids that have children here but are not known.          *)
DescendantsMirrorAncestors ==
    \A a, d \in Id : d \in Descendants(a) <=> a \in Ancestors(d)

(* A panic has one of three causes, all after the finality channel was     *)
(* closed: the loop and the owner both closed it, a DetermineFame was      *)
(* sending on it, or the reader found it empty.                            *)
CrashCauses ==
    crashed =>
        /\ ~finalityOpen
        /\ \/ cancelled /\ stopCalled /\ loop.pc = "exited"
           \/ fame.pc = "send"
           \/ finality = <<>>

(* When events come after their parents, witness status is a function of   *)
(* the graph: whether some parent has the same round.                      *)
WitnessesAreFirstInRound ==
    \A e \in known :
        e \in ToSet(witnesses[event[e].round])
            <=> \A p \in event[e].parents : event[p].round # event[e].round

(* ... and finality climbs: a final event is in a later round than all the *)
(* events it descends from.                                                *)
FinalizedRoundsIncrease ==
    \A e \in finalized : \A a \in Ancestors(e) : event[a].round < event[e].round

(* An event accepted by ReceiveEvent reaches the graph, with or without    *)
(* its parents, unless the loop is told to stop or the process dies.       *)
QueuedEventsReachDag ==
    \A e \in Id : e \in ToSet(eventChan) ~> e \in known \/ cancelled \/ crashed

(* DetermineFame returns while somebody reads the finality channel, unless *)
(* a shutdown leaves it blocked or makes it panic.                         *)
FameReturns == fame.pc # "idle" ~> fame.pc = "idle" \/ cancelled \/ crashed

(***************************************************************************)
(* What documents and tests say, and the code does not do.                 *)
(***************************************************************************)

(* Shutting down, by cancelling the context and stopping, does not panic.  *)
GracefulShutdown == ~crashed

(* A creator has at most one witness in a round.                           *)
OneWitnessPerCreator ==
    \A r \in Rounds : \A v, w \in ToSet(witnesses[r]) :
        event[v].creator = event[w].creator => v = w

(* The round of an event that descends from a quorum of the witnesses of   *)
(* its parents' round is the next one, also before the event is added.     *)
NewEventsAdvance ==
    \A e \in Id \ known :
        LET r == MaxParentRound(e)
            past == event[e].parents \cup UNION {Ancestors(p) : p \in event[e].parents}
            ws == GetWitnesses(r)
        IN  ws # <<>> /\ Len(SelectSeq(ws, LAMBDA w : w \in past)) >= Quorum(Len(ws))
                => RoundNumber(e) = r + 1

(* The ancestors of a witness that stays famous become final, once they    *)
(* have all arrived.                                                       *)
AncestorsOfFamousFinalize ==
    \A w, a \in Id :
        <>[](w \in famous /\ Ancestors(w) \subseteq known /\ StronglySee(w, a))
            => <>(a \in finalized)

=============================================================================
