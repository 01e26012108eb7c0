-------------------------- MODULE ConsensusProofs --------------------------
(***************************************************************************)
(* Theorems about Consensus for every set of events, every family of event *)
(* contents (cycles included), every number of rounds and every capacity.  *)
(***************************************************************************)
EXTENDS Consensus, DagSearch, DataFacts, SequenceTheorems, TLAPS

----------------------------------------------------------------------------
(***************************************************************************)
(* Ancestors as a least closed set.                                        *)
(***************************************************************************)

(* The parents of a known event are ancestors of it.                       *)
LEMMA ParentsAreAncestors ==
    ASSUME DagTypeOK, NEW e \in known
    PROVE  event[e].parents \subseteq Ancestors(e)
  BY DEF DagTypeOK, EventContent, Ancestors

(* The ancestors of an event are closed under parents of known events.     *)
LEMMA AncestorsClosed ==
    ASSUME DagTypeOK, NEW e \in known
    PROVE  ParentClosed(Ancestors(e))
  <1> SUFFICES ASSUME NEW x \in Ancestors(e) \cap known, NEW q \in event[x].parents
               PROVE  q \in Ancestors(e)
    BY DEF ParentClosed
  <1>1. q \in Id
    BY DEF DagTypeOK, EventContent
  <1>2. ASSUME NEW S \in SUBSET Id, event[e].parents \subseteq S, ParentClosed(S)
        PROVE  q \in S
    <2>1. x \in S
      BY <1>2 DEF Ancestors
    <2>2. QED
      BY <1>2, <2>1 DEF ParentClosed
  <1>3. QED
    BY <1>1, <1>2 DEF Ancestors

(* Ancestry is transitive: a known ancestor brings its own ancestors.      *)
LEMMA AncestorsTransitive ==
    ASSUME DagTypeOK, NEW e \in known, NEW x \in Ancestors(e) \cap known
    PROVE  Ancestors(x) \subseteq Ancestors(e)
  <1>1. ParentClosed(Ancestors(e))
    BY AncestorsClosed
  <1>2. event[x].parents \subseteq Ancestors(e)
    BY <1>1 DEF ParentClosed
  <1>3. Ancestors(e) \in SUBSET Id
    BY DEF Ancestors
  <1>4. QED
    BY <1>1, <1>2, <1>3 DEF Ancestors

(* Learning more events only adds ancestors.                               *)
LEMMA AncestorsGrow ==
    ASSUME DagTypeOK, event' = event, known \subseteq known', NEW e \in known
    PROVE  Ancestors(e) \subseteq Ancestors(e)'
  <1> SUFFICES ASSUME NEW a \in Ancestors(e)
               PROVE  a \in Ancestors(e)'
    OBVIOUS
  <1>1. a \in Id /\ e \in known'
    BY DEF Ancestors
  <1>2. ASSUME NEW S \in SUBSET Id, event[e].parents \subseteq S, ParentClosed(S)'
        PROVE  a \in S
    <2>1. ParentClosed(S)
      BY <1>2 DEF ParentClosed
    <2>2. QED
      BY <1>2, <2>1 DEF Ancestors
  <1>3. QED
    BY <1>1, <1>2 DEF Ancestors

(* The ancestry of an event is frozen once all of it is known.             *)
LEMMA AncestorsFrozen ==
    ASSUME DagTypeOK, event' = event, known \subseteq known', NEW e \in known,
           Ancestors(e) \subseteq known
    PROVE  Ancestors(e)' = Ancestors(e)
  <1>1. Ancestors(e) \subseteq Ancestors(e)'
    BY AncestorsGrow
  <1>2. Ancestors(e) \in SUBSET Id
    BY DEF Ancestors
  <1>3. event[e].parents \subseteq Ancestors(e)
    BY ParentsAreAncestors
  <1>4. ParentClosed(Ancestors(e))
    BY AncestorsClosed
  <1>5. ASSUME NEW a \in Ancestors(e)'
        PROVE  a \in Ancestors(e)
    <2>1. PICK T \in SUBSET Id : T = Ancestors(e)
      BY <1>2
    <2>2. ParentClosed(T)'
      BY <1>4, <2>1 DEF ParentClosed
    <2>3. event'[e].parents \subseteq T
      BY <1>3, <2>1
    <2>4. e \in known' /\ a \in Ancestors(e)'
      BY <1>5
    <2>5. a \in T
      BY <2>2, <2>3, <2>4 DEF Ancestors
    <2>6. QED
      BY <2>1, <2>5
  <1>6. QED
    BY <1>1, <1>5

----------------------------------------------------------------------------
(***************************************************************************)
(* Type correctness.                                                       *)
(***************************************************************************)

(* A quorum of n is more than two thirds of n, and at most n unless n is 0. *)
LEMMA QuorumBounds ==
    ASSUME NEW n \in Nat
    PROVE  /\ Quorum(n) \in Nat /\ Quorum(n) > 0 /\ 3 * Quorum(n) > 2 * n
           /\ n # 0 => Quorum(n) <= n
  <1>1. PICK q \in Int : q = (n * 2) \div 3
    OBVIOUS
  <1>2. 3 * q <= n * 2 /\ n * 2 < 3 * q + 3
    BY <1>1
  <1>3. QED
    BY <1>1, <1>2 DEF Quorum

(* AddEvent keeps the graph well typed.                                    *)
LEMMA AddEventType ==
    ASSUME DagAssumption, DagTypeOK, NEW e \in Id, AddEvent(e)
    PROVE  DagTypeOK'
  <1>1. event[e].round \in Rounds /\ event[e].parents \in SUBSET Id
    BY DEF DagTypeOK, EventContent
  <1>2. children' \in [Id -> SUBSET Id]
    BY <1>1 DEF DagTypeOK, AddEvent, LinkChild
  <1>3. witnesses' \in [Rounds -> Seq(Id)]
    <2>1. Append(witnesses[event[e].round], e) \in Seq(Id)
      BY <1>1, AppendProperties DEF DagTypeOK
    <2>2. QED
      BY <1>1, <2>1 DEF DagTypeOK, AddEvent
  <1>4. QED
    BY <1>2, <1>3 DEF DagTypeOK, AddEvent

(* So does marking an event final.                                         *)
LEMMA MarkFinalType ==
    ASSUME DagTypeOK, NEW e, MarkFinal(e)
    PROVE  DagTypeOK'
  BY DEF DagTypeOK, MarkFinal, Finalizable

(* The witnesses of any number of a round are a sequence of events.        *)
LEMMA GetWitnessesType ==
    ASSUME DagTypeOK, NEW r
    PROVE  GetWitnesses(r) \in Seq(Id)
  <1>1. <<>> \in Seq(Id)
    BY EmptySeq
  <1>2. QED
    BY <1>1 DEF DagTypeOK, GetWitnesses

(* The next frame of DetermineFame is well typed.                          *)
LEMMA NextCandidateType ==
    ASSUME DagTypeOK, fame \in FameState, fame.todo # <<>>
    PROVE  /\ NextCandidate \in FameState
           /\ NextCandidate.pc # "idle" => NextCandidate.todo # <<>>
  <1>1. Tail(fame.todo) \in Seq(Id)
    BY HeadTailProperties DEF FameState
  <1>2. <<>> \in Seq(Id)
    BY EmptySeq
  <1>3. CASE Tail(fame.todo) = <<>>
    BY <1>2, <1>3 DEF NextCandidate, NoCall, FameState
  <1>4. CASE Tail(fame.todo) # <<>>
    BY <1>1, <1>2, <1>4 DEF NextCandidate, FameState
  <1>5. QED
    BY <1>3, <1>4

(* CurrentRound yields a round.                                            *)
LEMMA CurrentRoundType ==
    ASSUME DagAssumption, TypeOK, CurrentRound
    PROVE  currentRound' \in Rounds
  <1>1. MaxRound \in Nat /\ 0 \in Rounds
    BY DEF DagAssumption, Rounds
  <1>2. LatestRound \in Rounds
    <2> DEFINE S == {0} \cup {event[x].round : x \in known}
    <2>1. S \in SUBSET Rounds /\ S # {}
      BY <1>1 DEF TypeOK, DagTypeOK, EventContent
    <2>2. Max(S) \in S
      <3> HIDE DEF S
      <3>1. QED
        BY <1>1, <2>1, MaxOfInterval DEF Rounds
    <2>3. QED
      BY <2>1, <2>2 DEF LatestRound
  <1>3. {currentRound, LatestRound} \in SUBSET Rounds
    BY <1>1, <1>2 DEF TypeOK
  <1>4. QED
    <2>1. Max({currentRound, LatestRound}) \in {currentRound, LatestRound}
      BY <1>1, <1>3, MaxOfInterval DEF Rounds
    <2>2. QED
      BY <1>3, <2>1 DEF CurrentRound

(* Every step keeps the types.                                             *)
LEMMA TypeStep ==
    ASSUME DagAssumption, ChannelAssumption, TypeOK, [Next]_vars
    PROVE  TypeOK'
  <1> USE DagAssumption, ChannelAssumption DEF ChannelAssumption
  <1>1. /\ DagTypeOK /\ eventChan \in Seq(Id \cup {NoId}) /\ finality \in Seq(Verdict)
        /\ fame \in FameState /\ loop \in LoopState
    BY DEF TypeOK
  <1>2. ASSUME NEW e \in Id \cup {NoId}, ReceiveEvent(e)
        PROVE  TypeOK'
    <2>1. eventChan' \in Seq(Id \cup {NoId}) /\ Len(eventChan') = Len(eventChan) + 1
      BY <1>1, <1>2, AppendProperties DEF ReceiveEvent
    <2>2. Len(eventChan) \in Nat
      BY <1>1, LenProperties
    <2>3. DagTypeOK'
      BY <1>1, <1>2 DEF ReceiveEvent, dagVars, DagTypeOK
    <2>4. QED
      BY <1>2, <2>1, <2>2, <2>3 DEF TypeOK, ReceiveEvent, roundVars, shutdownVars
  <1>3. ASSUME NEW e \in Id, AddLocalEvent(e)
        PROVE  TypeOK'
    BY <1>1, <1>3, AddEventType
       DEF TypeOK, AddLocalEvent, engineVars, roundVars, shutdownVars
  <1>4. ASSUME NEW e \in Id, CheckFinality(e)
        PROVE  TypeOK'
    BY <1>1, <1>4, MarkFinalType
       DEF TypeOK, CheckFinality, engineVars, roundVars, shutdownVars
  <1>5. ASSUME NEW r \in Rounds, FameBegin(r)
        PROVE  TypeOK'
    <2>1. fame' \in FameState /\ fame'.todo # <<>>
      BY <1>1, <1>5, GetWitnessesType DEF FameBegin, FameState
    <2>2. QED
      BY <1>1, <1>5, <2>1 DEF TypeOK, FameBegin, dagVars, DagTypeOK, roundVars, shutdownVars
  <1>6. ASSUME LoopAdd
        PROVE  TypeOK'
    <2> DEFINE e == Head(eventChan)
    <2>1. /\ e \in Id \cup {NoId}
          /\ eventChan' \in Seq(Id \cup {NoId}) /\ Len(eventChan') <= EventCap
      <3>1. Len(eventChan) \in Nat
        BY <1>1, LenProperties
      <3>2. QED
        BY <1>1, <1>6, <3>1, HeadTailProperties DEF LoopAdd, TypeOK
    <2>2. CASE AddEvent(e) /\ loop' = [pc |-> "check", event |-> e]
      <3>1. e \in Id
        BY <2>1, <2>2 DEF AddEvent, Addable
      <3>2. DagTypeOK'
        BY <1>1, <2>2, <3>1, AddEventType
      <3>3. QED
        BY <1>6, <2>1, <2>2, <3>1, <3>2
           DEF TypeOK, LoopAdd, LoopState, roundVars, shutdownVars
    <2>3. CASE RejectEvent(e) /\ UNCHANGED loop
      BY <1>1, <1>6, <2>1, <2>3
         DEF TypeOK, LoopAdd, RejectEvent, dagVars, DagTypeOK, roundVars, shutdownVars
    <2>4. QED
      BY <1>6, <2>2, <2>3 DEF LoopAdd
  <1>7. ASSUME LoopCheck
        PROVE  TypeOK'
    BY <1>1, <1>7, MarkFinalType
       DEF TypeOK, LoopCheck, Selecting, LoopState, roundVars, shutdownVars
  <1>8. ASSUME FameReadVoters
        PROVE  TypeOK'
    <2>1. fame' \in FameState /\ fame'.todo # <<>>
      BY <1>1, <1>8, GetWitnessesType DEF TypeOK, FameReadVoters, FameState
    <2>2. QED
      BY <1>1, <1>8, <2>1
         DEF TypeOK, FameReadVoters, dagVars, DagTypeOK, roundVars, shutdownVars
  <1>9. ASSUME FameAskVoter
        PROVE  TypeOK'
    <2> DEFINE sees == StronglySee(fame.voters[fame.asked + 1], Head(fame.todo))
               n == IF sees THEN fame.canSee + 1 ELSE fame.canSee
    <2>1. n \in Nat /\ fame.asked + 1 \in Nat
      BY <1>1 DEF FameState
    <2>2. fame' = [fame EXCEPT !.asked = fame.asked + 1, !.canSee = n]
      BY <1>9 DEF FameAskVoter
    <2>3. PICK k \in Nat, m \in Nat : fame' = [fame EXCEPT !.asked = k, !.canSee = m]
      BY <2>1, <2>2
    <2>4. fame' \in FameState /\ fame'.todo = fame.todo
      BY <1>1, <2>3 DEF FameState
    <2>5. fame.todo # <<>>
      BY <1>9 DEF TypeOK, FameAskVoter
    <2>6. QED
      BY <1>1, <1>9, <2>4, <2>5
         DEF TypeOK, FameAskVoter, dagVars, DagTypeOK, roundVars, shutdownVars
  <1>10. ASSUME FameRecord
         PROVE  TypeOK'
    <2>1. fame' \in FameState /\ fame'.todo = fame.todo /\ fame.todo # <<>>
      BY <1>1, <1>10 DEF TypeOK, FameRecord, FameState
    <2>2. Head(fame.todo) \in Id
      BY <1>1, <2>1, HeadTailProperties DEF FameState
    <2>3. DagTypeOK'
      BY <1>1, <1>10, <2>2 DEF FameRecord, DagTypeOK
    <2>4. QED
      BY <1>10, <2>1, <2>3 DEF TypeOK, FameRecord, roundVars, shutdownVars
  <1>11. ASSUME FameSend
         PROVE  TypeOK'
    <2>1. fame.todo # <<>>
      BY <1>11 DEF TypeOK, FameSend
    <2>2. [event |-> Head(fame.todo), round |-> fame.round, famous |-> IsFamous] \in Verdict
      <3>1. Head(fame.todo) \in Id
        BY <1>1, <2>1, HeadTailProperties DEF FameState
      <3>2. fame.round \in Rounds
        BY <1>1 DEF FameState, DagAssumption, Rounds
      <3>3. IsFamous \in BOOLEAN
        BY DEF IsFamous
      <3>4. QED
        BY <3>1, <3>2, <3>3 DEF Verdict
    <2>3. /\ finality' \in Seq(Verdict) /\ Len(finality') = Len(finality) + 1
          /\ Len(finality) \in Nat
      BY <1>1, <1>11, <2>2, AppendProperties, LenProperties DEF FameSend
    <2>4. fame' \in FameState /\ (fame'.pc # "idle" => fame'.todo # <<>>)
      BY <1>1, <1>11, <2>1, NextCandidateType DEF FameSend
    <2>5. QED
      BY <1>1, <1>11, <2>3, <2>4
         DEF TypeOK, FameSend, dagVars, DagTypeOK, roundVars, shutdownVars
  <1>12. ASSUME FameSendClosed
         PROVE  TypeOK'
    BY <1>1, <1>12 DEF TypeOK, FameSendClosed, dagVars, DagTypeOK, roundVars
  <1>13. ASSUME TakeVerdict
         PROVE  TypeOK'
    <2>1. finality' \in Seq(Verdict) /\ Len(finality') <= FinalityCap
      <3>1. Len(finality) \in Nat
        BY <1>1, LenProperties
      <3>2. QED
        BY <1>1, <1>13, <3>1, HeadTailProperties DEF TakeVerdict, TypeOK
    <2>2. QED
      BY <1>1, <1>13, <2>1 DEF TypeOK, TakeVerdict, dagVars, DagTypeOK, roundVars, shutdownVars
  <1>14. ASSUME CurrentRound
         PROVE  TypeOK'
    <2>1. currentRound' \in Rounds
      BY <1>14, CurrentRoundType
    <2>2. QED
      BY <1>1, <1>14, <2>1 DEF TypeOK, CurrentRound, dagVars, DagTypeOK, shutdownVars
  <1>15. ASSUME Shutdown
         PROVE  TypeOK'
    <2>1. CASE Cancel
      BY <1>1, <2>1 DEF TypeOK, Cancel, dagVars, DagTypeOK, roundVars
    <2>2. CASE LoopShutdown
      BY <1>1, <2>2
         DEF TypeOK, LoopShutdown, CloseFinality, LoopState, dagVars, DagTypeOK, roundVars
    <2>3. CASE Stop
      BY <1>1, <2>3 DEF TypeOK, Stop, CloseFinality, dagVars, DagTypeOK, roundVars
    <2>4. CASE ReadClosed
      BY <1>1, <2>4 DEF TypeOK, ReadClosed, dagVars, DagTypeOK, roundVars
    <2>5. QED
      BY <1>15, <2>1, <2>2, <2>3, <2>4 DEF Shutdown
  <1>16. CASE UNCHANGED vars
    BY <1>1, <1>16
       DEF TypeOK, vars, dagVars, engineVars, DagTypeOK, roundVars, shutdownVars
  <1>17. QED
    BY <1>2, <1>3, <1>4, <1>5, <1>6, <1>7, <1>8, <1>9, <1>10, <1>11, <1>12, <1>13,
       <1>14, <1>15, <1>16 DEF Next, Operate, FameStep

(* The initial state is well typed.                                        *)
LEMMA TypeInit ==
    ASSUME Init
    PROVE  TypeOK
  <1>1. /\ <<>> \in Seq(Id) /\ <<>> \in Seq(Verdict) /\ <<>> \in Seq(Id \cup {NoId})
        /\ Len(<<>>) = 0
    BY EmptySeq
  <1>2. DagTypeOK
    BY <1>1, DagAssumption DEF DagAssumption, Init, DagInit, DagTypeOK
  <1>3. fame \in FameState /\ fame.pc = "idle" /\ loop \in LoopState
    BY <1>1 DEF Init, NoCall, Selecting, FameState, LoopState
  <1>4. /\ eventChan \in Seq(Id \cup {NoId}) /\ Len(eventChan) <= EventCap
        /\ finality \in Seq(Verdict) /\ Len(finality) <= FinalityCap
    BY <1>1, ChannelAssumption DEF ChannelAssumption, Init
  <1>5. QED
    BY <1>2, <1>3, <1>4 DEF Init, TypeOK

(* The engine's state keeps its types: no channel overflows, no witness    *)
(* list or verdict names anything but an event, and DetermineFame never    *)
(* looks at the head of an empty list.                                     *)
THEOREM TypeCorrect == Spec => []TypeOK
  <1>1. Init => TypeOK
    BY TypeInit
  <1>2. TypeOK /\ [Next]_vars => TypeOK'
    BY DagAssumption, ChannelAssumption, TypeStep
  <1>3. QED
    BY <1>1, <1>2, PTL DEF Spec

----------------------------------------------------------------------------
(***************************************************************************)
(* Safety.  FinalizedClosed is not inductive alone: an event that is added *)
(* could become an ancestor of a final one unless all those ancestors are  *)
(* known, and a verdict is only as good as the ballot in the frame of the  *)
(* call that reached it.                                                   *)
(***************************************************************************)

(* children is the inverse of the parent lists of the known events.        *)
ChildrenExact ==
    \A p \in Id : children[p] = {e \in known : p \in event[e].parents}

IInv ==
    /\ TypeOK
    /\ ChildrenExact
    /\ WitnessListsSound
    /\ FinalizedClosed
    /\ JudgedByTwoThirds
    /\ CallSound

(* Adding an event appends it to the list of its round, or to none.        *)
LEMMA WitnessListsGrow ==
    ASSUME DagTypeOK, NEW e \in Id, AddEvent(e), NEW r \in Rounds
    PROVE  /\ ToSet(witnesses[r]) \subseteq ToSet(witnesses'[r])
           /\ \A w \in ToSet(witnesses'[r]) :
                  w \in ToSet(witnesses[r]) \/ (w = e /\ r = event[e].round)
  <1>1. witnesses[r] \in Seq(Id)
    BY DEF DagTypeOK
  <1>2. CASE witnesses'[r] = witnesses[r]
    BY <1>2
  <1>3. CASE witnesses'[r] # witnesses[r]
    <2>1. r = event[e].round /\ witnesses'[r] = Append(witnesses[r], e)
      BY <1>3 DEF AddEvent, DagTypeOK
    <2>2. ToSet(witnesses'[r]) = ToSet(witnesses[r]) \cup {e}
      BY <1>1, <2>1, ToSetAppend
    <2>3. QED
      BY <2>1, <2>2
  <1>4. QED
    BY <1>2, <1>3

(* Every list of witnesses is a prefix of what it becomes.                 *)
LEMMA WitnessListsExtend ==
    ASSUME DagTypeOK, NEW e \in Id, AddEvent(e), NEW r
    PROVE  /\ GetWitnesses(r) \in Seq(Id) /\ GetWitnesses(r)' \in Seq(Id)
           /\ IsPrefix(GetWitnesses(r), GetWitnesses(r)')
  <1>1. CASE r \notin Rounds
    <2>1. PICK s : s = <<>>
      OBVIOUS
    <2>2. s \in Seq(Id) /\ GetWitnesses(r) = s /\ GetWitnesses(r)' = s
      BY <1>1, <2>1 DEF GetWitnesses
    <2>3. IsPrefix(s, s)
      BY <2>2, PrefixOfItself
    <2>4. QED
      BY <2>2, <2>3
  <1>2. CASE r \in Rounds
    <2>1. PICK s, t : s = witnesses[r] /\ t = witnesses'[r]
      OBVIOUS
    <2>2. s \in Seq(Id) /\ (t = s \/ t = Append(s, e))
      BY <1>2, <2>1 DEF DagTypeOK, AddEvent
    <2>3. /\ Append(s, e) \in Seq(Id) /\ Len(Append(s, e)) = Len(s) + 1 /\ Len(s) \in Nat
          /\ \A i \in 1 .. Len(s) : Append(s, e)[i] = s[i]
      BY <2>2, AppendProperties, LenProperties
    <2>4. t \in Seq(Id) /\ Len(s) <= Len(t) /\ \A i \in 1 .. Len(s) : s[i] = t[i]
      BY <2>2, <2>3
    <2>5. IsPrefix(s, t)
      BY <2>2, <2>4, PrefixPointwise
    <2>6. QED
      BY <1>2, <2>1, <2>2, <2>4, <2>5 DEF GetWitnesses
  <1>3. QED
    BY <1>1, <1>2

(* What descended from an event still does.                                *)
LEMMA SeeingGrows ==
    ASSUME DagTypeOK, event' = event, known \subseteq known', NEW ws, NEW n \in Nat, NEW e,
           NEW A, A = Seeing(ws, n, e),
           NEW B, \A i : i \in B <=> i \in 1 .. n /\ e \in Ancestors(ws[i])'
    PROVE  /\ Cardinality(A) \in Nat /\ Cardinality(B) \in Nat
           /\ Cardinality(A) <= Cardinality(B)
  <1>1. \A w : Ancestors(w) \subseteq Ancestors(w)'
    <2>1. \A w \in known : Ancestors(w) \subseteq Ancestors(w)'
      BY AncestorsGrow
    <2>2. QED
      BY <2>1 DEF Ancestors
  <1>2. A \in SUBSET B /\ B \in SUBSET (1 .. n) /\ A \in SUBSET (1 .. n)
    BY <1>1 DEF Seeing
  <1>3. IsFiniteSet(B) /\ Cardinality(A) \in Nat /\ Cardinality(B) \in Nat
    BY <1>2, IndicesFinite
  <1>4. QED
    BY <1>2, <1>3, FS_Subset

(* Two thirds of a list that descended from an event still do.             *)
LEMMA TwoThirdsStay ==
    ASSUME DagTypeOK, event' = event, known \subseteq known', NEW ws, NEW n \in Nat, NEW e,
           3 * Cardinality(Seeing(ws, n, e)) > 2 * n
    PROVE  3 * Cardinality({i \in 1 .. n : e \in Ancestors(ws[i])'}) > 2 * n
  <1>1. PICK A, B : A = Seeing(ws, n, e) /\ B = {i \in 1 .. n : e \in Ancestors(ws[i])'}
    OBVIOUS
  <1>2. \A i : i \in B <=> i \in 1 .. n /\ e \in Ancestors(ws[i])'
    BY <1>1
  <1>3. /\ Cardinality(A) \in Nat /\ Cardinality(B) \in Nat
        /\ Cardinality(A) <= Cardinality(B)
    BY <1>1, <1>2, SeeingGrows
  <1>4. PICK a, b : a = Cardinality(A) /\ b = Cardinality(B)
    OBVIOUS
  <1>5. 3 * b > 2 * n
    BY <1>1, <1>3, <1>4
  <1>6. QED
    BY <1>1, <1>4, <1>5

(* The graph and its lists of witnesses only grow: an event that was seen  *)
(* by two thirds of the first to arrive still is.                          *)
LEMMA JudgementStays ==
    ASSUME DagTypeOK, event' = event, known \subseteq known', NEW f,
           \A r : /\ GetWitnesses(r) \in Seq(Id) /\ GetWitnesses(r)' \in Seq(Id)
                  /\ IsPrefix(GetWitnesses(r), GetWitnesses(r)'),
           f \in ToSet(GetWitnesses(event[f].round)), SeenByTwoThirds(f)
    PROVE  f \in ToSet(GetWitnesses(event[f].round)') /\ SeenByTwoThirds(f)'
  <1>1. \A r : /\ Len(GetWitnesses(r)) \in Nat /\ Len(GetWitnesses(r)') \in Nat
               /\ Len(GetWitnesses(r)) <= Len(GetWitnesses(r)')
               /\ \A i \in 1 .. Len(GetWitnesses(r)) : GetWitnesses(r)[i] = GetWitnesses(r)'[i]
    BY PrefixPointwise, LenProperties
  <1>2. f \in ToSet(GetWitnesses(event[f].round)')
    <2>1. PICK s, t : /\ s = GetWitnesses(event[f].round) /\ t = GetWitnesses(event[f].round)'
      OBVIOUS
    <2>2. /\ s \in Seq(Id) /\ t \in Seq(Id) /\ Len(s) \in Nat /\ Len(t) \in Nat
          /\ Len(s) <= Len(t) /\ \A i \in 1 .. Len(s) : s[i] = t[i]
          /\ f \in ToSet(s)
      BY <1>1, <2>1
    <2>3. DOMAIN s = 1 .. Len(s) /\ DOMAIN t = 1 .. Len(t)
      BY <2>2, LenProperties
    <2>4. f \in ToSet(t)
      BY <2>2, <2>3 DEF ToSet
    <2>5. QED
      BY <2>1, <2>4
  <1>3. SeenByTwoThirds(f)'
    <2>1. PICK r, s, t : r = event[f].round + 1 /\ s = GetWitnesses(r) /\ t = GetWitnesses(r)'
      OBVIOUS
    <2>2. PICK n \in 1 .. Len(s) : 3 * Cardinality(Seeing(s, n, f)) > 2 * n
      BY <2>1 DEF SeenByTwoThirds
    <2>3. /\ Len(s) \in Nat /\ Len(t) \in Nat /\ Len(s) <= Len(t)
          /\ \A i \in 1 .. Len(s) : s[i] = t[i]
      BY <1>1, <2>1
    <2>4. n \in Nat /\ n \in 1 .. Len(t) /\ \A i \in 1 .. n : s[i] = t[i]
      BY <2>3
    <2>5. DagTypeOK /\ event' = event /\ known \subseteq known'
      OBVIOUS
    <2>6. 3 * Cardinality({i \in 1 .. n : f \in Ancestors(s[i])'}) > 2 * n
      BY <2>2, <2>4, <2>5, TwoThirdsStay
    <2>7. {i \in 1 .. n : f \in Ancestors(s[i])'} = {i \in 1 .. n : f \in Ancestors(t[i])'}
      BY <2>4
    <2>8. 3 * Cardinality({i \in 1 .. n : f \in Ancestors(t[i])'}) > 2 * n
      BY <2>6, <2>7
    <2>9. event'[f].round + 1 = r
      BY <2>1
    <2>10. QED
      BY <2>1, <2>4, <2>8, <2>9 DEF SeenByTwoThirds, Seeing
  <1>4. QED
    BY <1>2, <1>3

(* A running call is sound as long as the graph only grows.                *)
LEMMA CallStays ==
    ASSUME IInv, event' = event, known \subseteq known', fame' = fame,
           \A r : /\ GetWitnesses(r) \in Seq(Id) /\ GetWitnesses(r)' \in Seq(Id)
                  /\ IsPrefix(GetWitnesses(r), GetWitnesses(r)')
    PROVE  CallSound'
  <1>1. DagTypeOK /\ CallSound /\ fame \in FameState
    BY DEF IInv, TypeOK
  <1>2. \A r : /\ Len(GetWitnesses(r)) \in Nat /\ Len(GetWitnesses(r)') \in Nat
               /\ Len(GetWitnesses(r)) <= Len(GetWitnesses(r)')
               /\ \A i \in 1 .. Len(GetWitnesses(r)) : GetWitnesses(r)[i] = GetWitnesses(r)'[i]
    BY PrefixPointwise, LenProperties
  <1>3. ASSUME fame.pc # "idle"
        PROVE  ToSet(fame.todo) \subseteq ToSet(GetWitnesses(fame.round)')
    <2>1. PICK s, t : s = GetWitnesses(fame.round) /\ t = GetWitnesses(fame.round)'
      OBVIOUS
    <2>2. /\ s \in Seq(Id) /\ t \in Seq(Id) /\ Len(s) \in Nat /\ Len(t) \in Nat
          /\ Len(s) <= Len(t) /\ \A i \in 1 .. Len(s) : s[i] = t[i]
          /\ ToSet(fame.todo) \subseteq ToSet(s)
      BY <1>1, <1>2, <1>3, <2>1 DEF CallSound
    <2>3. DOMAIN s = 1 .. Len(s) /\ DOMAIN t = 1 .. Len(t)
      BY <2>2, LenProperties
    <2>4. ToSet(s) \subseteq ToSet(t)
      BY <2>2, <2>3 DEF ToSet
    <2>5. QED
      BY <2>1, <2>2, <2>4
  <1>4. ASSUME fame.pc \in {"count", "send"}
        PROVE  /\ IsPrefix(fame.voters, GetWitnesses(fame.round + 1)')
               /\ fame.asked <= Len(fame.voters)
               /\ fame.canSee <= Cardinality(Seeing(fame.voters, fame.asked, Head(fame.todo)))'
    <2>1. PICK vs, s, t : /\ vs = fame.voters /\ s = GetWitnesses(fame.round + 1)
                          /\ t = GetWitnesses(fame.round + 1)'
      OBVIOUS
    <2>2. /\ vs \in Seq(Id) /\ s \in Seq(Id) /\ t \in Seq(Id) /\ Len(s) <= Len(t)
          /\ Len(s) \in Nat /\ Len(t) \in Nat
          /\ \A i \in 1 .. Len(s) : s[i] = t[i]
          /\ IsPrefix(vs, s)
      BY <1>1, <1>2, <1>4, <2>1 DEF CallSound, FameState
    <2>3. Len(vs) \in Nat /\ Len(vs) <= Len(s) /\ \A i \in 1 .. Len(vs) : vs[i] = s[i]
      BY <2>2, PrefixPointwise, LenProperties
    <2>4. Len(vs) <= Len(t) /\ \A i \in 1 .. Len(vs) : vs[i] = t[i]
      BY <2>2, <2>3
    <2>5. IsPrefix(vs, t)
      BY <2>2, <2>4, PrefixPointwise
    <2>6. PICK n, c, h : n = fame.asked /\ c = fame.canSee /\ h = Head(fame.todo)
      OBVIOUS
    <2>7. /\ n \in Nat /\ c \in Nat /\ n <= Len(vs)
          /\ c <= Cardinality(Seeing(vs, n, h))
      BY <1>1, <1>4, <2>1, <2>6 DEF CallSound, FameState
    <2>8. PICK a, b, A, B : /\ A = Seeing(vs, n, h) /\ a = Cardinality(A)
                            /\ B = {i \in 1 .. n : h \in Ancestors(vs[i])'}
                            /\ b = Cardinality(B)
      OBVIOUS
    <2>9. a \in Nat /\ b \in Nat /\ a <= b
      <3>1. \A i : i \in B <=> i \in 1 .. n /\ h \in Ancestors(vs[i])'
        BY <2>8
      <3>2. QED
        BY <1>1, <2>7, <2>8, <3>1, SeeingGrows
    <2>10. c <= b
      BY <2>7, <2>8, <2>9
    <2>11. c <= Cardinality({i \in 1 .. n : h \in Ancestors(vs[i])'})
      BY <2>8, <2>10
    <2>12. QED
      BY <2>1, <2>5, <2>6, <2>7, <2>11 DEF Seeing
  <1>5. QED
    BY <1>3, <1>4 DEF CallSound

(* Adding an event keeps every part of the invariant.                      *)
LEMMA AddEventSafe ==
    ASSUME IInv, NEW e \in Id, AddEvent(e), fame' = fame
    PROVE  (ChildrenExact /\ WitnessListsSound /\ FinalizedClosed /\ JudgedByTwoThirds
            /\ CallSound)'
  <1>1. /\ DagTypeOK /\ event' = event /\ known \subseteq known' /\ known' = known \cup {e}
        /\ e \notin known /\ famous' = famous /\ finalized' = finalized
    BY DEF IInv, TypeOK, AddEvent, Addable
  <1>3. ChildrenExact'
    BY <1>1 DEF IInv, ChildrenExact, AddEvent, LinkChild, DagTypeOK
  <1>4. WitnessListsSound'
    <2> SUFFICES ASSUME NEW r \in Rounds
                 PROVE  /\ \A w \in ToSet(witnesses'[r]) : w \in known' /\ event'[w].round = r
                        /\ \A i, j \in 1 .. Len(witnesses'[r]) :
                               witnesses'[r][i] = witnesses'[r][j] => i = j
      BY DEF WitnessListsSound
    <2>1. /\ \A w \in ToSet(witnesses[r]) : w \in known /\ event[w].round = r
          /\ \A i, j \in 1 .. Len(witnesses[r]) :
                 witnesses[r][i] = witnesses[r][j] => i = j
      BY DEF IInv, WitnessListsSound
    <2>2. \A w \in ToSet(witnesses'[r]) : w \in known' /\ event'[w].round = r
      BY <1>1, <2>1, WitnessListsGrow
    <2>3. CASE witnesses'[r] = witnesses[r]
      BY <2>1, <2>2, <2>3
    <2>4. CASE witnesses'[r] # witnesses[r]
      <3> DEFINE s == witnesses[r]
                 n == Len(witnesses[r])
      <3>1. witnesses'[r] = Append(s, e) /\ s \in Seq(Id)
        BY <1>1, <2>4 DEF AddEvent, DagTypeOK
      <3>2. /\ n \in Nat /\ Len(Append(s, e)) = n + 1 /\ Append(s, e)[n + 1] = e
            /\ \A i \in 1 .. n : Append(s, e)[i] = s[i]
        BY <3>1, AppendProperties, LenProperties
      <3>3. \A i \in 1 .. n : s[i] # e
        <4>1. DOMAIN s = 1 .. n
          BY <3>1, LenProperties
        <4>2. QED
          BY <1>1, <2>1, <4>1 DEF ToSet
      <3>4. \A i, j \in 1 .. n + 1 : Append(s, e)[i] = Append(s, e)[j] => i = j
        <4> HIDE DEF s, n
        <4>1. \A i \in 1 .. n + 1 : i \in 1 .. n \/ i = n + 1
          BY <3>2
        <4>2. \A i, j \in 1 .. n : s[i] = s[j] => i = j
          BY <2>1 DEF s, n
        <4>3. QED
          BY <3>2, <3>3, <4>1, <4>2
      <3>5. QED
        BY <2>2, <3>1, <3>2, <3>4
    <2>5. QED
      BY <2>3, <2>4
  <1>5. FinalizedClosed'
    <2> SUFFICES ASSUME NEW f \in finalized
                 PROVE  f \in known' /\ Ancestors(f)' \subseteq finalized
      BY <1>1 DEF FinalizedClosed
    <2>1. f \in known /\ Ancestors(f) \subseteq finalized /\ finalized \subseteq known
      BY DEF IInv, FinalizedClosed
    <2>2. Ancestors(f)' = Ancestors(f)
      BY <1>1, <2>1, AncestorsFrozen
    <2>3. QED
      BY <1>1, <2>1, <2>2
  <1>6. \A r : /\ GetWitnesses(r) \in Seq(Id) /\ GetWitnesses(r)' \in Seq(Id)
               /\ IsPrefix(GetWitnesses(r), GetWitnesses(r)')
    BY <1>1, WitnessListsExtend
  <1>7. JudgedByTwoThirds'
    <2> SUFFICES ASSUME NEW f \in famous \cup finalized
                 PROVE  f \in ToSet(GetWitnesses(event[f].round)') /\ SeenByTwoThirds(f)'
      BY <1>1 DEF JudgedByTwoThirds
    <2>1. f \in ToSet(GetWitnesses(event[f].round)) /\ SeenByTwoThirds(f)
      BY DEF IInv, JudgedByTwoThirds
    <2>2. QED
      BY <1>1, <1>6, <2>1, JudgementStays
  <1>8. CallSound'
    BY <1>1, <1>6, CallStays
  <1>9. QED
    BY <1>3, <1>4, <1>5, <1>7, <1>8

(* Ancestry depends on the events and on which of them are known.          *)
LEMMA AncestorsSame ==
    ASSUME event' = event, known' = known, NEW e
    PROVE  Ancestors(e)' = Ancestors(e)
  BY DEF Ancestors, ParentClosed

(* A list of witnesses that stays is a prefix of itself.                   *)
LEMMA WitnessListsStay ==
    ASSUME DagTypeOK, witnesses' = witnesses, NEW r
    PROVE  /\ GetWitnesses(r) \in Seq(Id) /\ GetWitnesses(r)' \in Seq(Id)
           /\ IsPrefix(GetWitnesses(r), GetWitnesses(r)')
  <1>1. PICK s : s = GetWitnesses(r)
    OBVIOUS
  <1>2. s \in Seq(Id) /\ GetWitnesses(r)' = s
    BY <1>1 DEF DagTypeOK, GetWitnesses
  <1>3. IsPrefix(s, s)
    BY <1>2, PrefixOfItself
  <1>4. QED
    BY <1>1, <1>2, <1>3

(* A step that leaves the graph alone need only keep CallSound.            *)
LEMMA GraphUnchangedSafe ==
    ASSUME IInv, UNCHANGED dagVars
    PROVE  (ChildrenExact /\ WitnessListsSound /\ FinalizedClosed /\ JudgedByTwoThirds)'
  <1>1. /\ event' = event /\ known' = known /\ children' = children
        /\ witnesses' = witnesses /\ famous' = famous /\ finalized' = finalized
    BY DEF dagVars
  <1>2. \A e : Ancestors(e)' = Ancestors(e)
    BY <1>1, AncestorsSame
  <1>4. ChildrenExact' /\ WitnessListsSound'
    BY <1>1 DEF IInv, ChildrenExact, WitnessListsSound
  <1>5. FinalizedClosed'
    BY <1>1, <1>2 DEF IInv, FinalizedClosed
  <1>6. JudgedByTwoThirds'
    <2> SUFFICES ASSUME NEW f \in famous \cup finalized
                 PROVE  f \in ToSet(GetWitnesses(event[f].round)') /\ SeenByTwoThirds(f)'
      BY <1>1 DEF JudgedByTwoThirds
    <2>1. f \in ToSet(GetWitnesses(event[f].round)) /\ SeenByTwoThirds(f) /\ DagTypeOK
      BY DEF IInv, TypeOK, JudgedByTwoThirds
    <2>2. \A r : /\ GetWitnesses(r) \in Seq(Id) /\ GetWitnesses(r)' \in Seq(Id)
                 /\ IsPrefix(GetWitnesses(r), GetWitnesses(r)')
      BY <1>1, <2>1, WitnessListsStay
    <2>3. QED
      BY <1>1, <2>1, <2>2, JudgementStays
  <1>7. QED
    BY <1>4, <1>5, <1>6

(* CallSound only depends on the graph and on the frame.                   *)
LEMMA CallUnchangedSafe ==
    ASSUME IInv, event' = event, known' = known, witnesses' = witnesses, fame' = fame
    PROVE  CallSound'
  <1>1. DagTypeOK
    BY DEF IInv, TypeOK
  <1>2. \A r : /\ GetWitnesses(r) \in Seq(Id) /\ GetWitnesses(r)' \in Seq(Id)
               /\ IsPrefix(GetWitnesses(r), GetWitnesses(r)')
    BY <1>1, WitnessListsStay
  <1>3. QED
    BY <1>2, CallStays

(* Marking an event final keeps every part of the invariant.               *)
LEMMA MarkFinalSafe ==
    ASSUME IInv, NEW e, MarkFinal(e), fame' = fame
    PROVE  (ChildrenExact /\ WitnessListsSound /\ FinalizedClosed /\ JudgedByTwoThirds
            /\ CallSound)'
  <1>1. /\ event' = event /\ known' = known /\ children' = children
        /\ witnesses' = witnesses /\ famous' = famous
    BY DEF MarkFinal
  <1>2. \A x : Ancestors(x)' = Ancestors(x)
    BY <1>1, AncestorsSame
  <1>4. ChildrenExact' /\ WitnessListsSound' /\ CallSound'
    BY <1>1, CallUnchangedSafe DEF IInv, ChildrenExact, WitnessListsSound
  <1>5. /\ finalized \subseteq finalized'
        /\ \A f \in finalized' : f \in finalized \/ Finalizable(f)
    BY DEF MarkFinal
  <1>6. FinalizedClosed'
    BY <1>1, <1>2, <1>5 DEF IInv, FinalizedClosed, Finalizable
  <1>7. JudgedByTwoThirds'
    <2> SUFFICES ASSUME NEW f \in famous \cup finalized'
                 PROVE  f \in ToSet(GetWitnesses(event[f].round)') /\ SeenByTwoThirds(f)'
      BY <1>1 DEF JudgedByTwoThirds
    <2>1. f \in famous \cup finalized
      BY <1>5 DEF Finalizable
    <2>2. f \in ToSet(GetWitnesses(event[f].round)) /\ SeenByTwoThirds(f) /\ DagTypeOK
      BY <2>1 DEF IInv, TypeOK, JudgedByTwoThirds
    <2>3. \A r : /\ GetWitnesses(r) \in Seq(Id) /\ GetWitnesses(r)' \in Seq(Id)
                 /\ IsPrefix(GetWitnesses(r), GetWitnesses(r)')
      BY <1>1, <2>2, WitnessListsStay
    <2>4. QED
      BY <1>1, <2>2, <2>3, JudgementStays
  <1>8. QED
    BY <1>4, <1>6, <1>7

(* The steps of DetermineFame that only read the graph keep CallSound.     *)
LEMMA BallotSafe ==
    ASSUME IInv, UNCHANGED dagVars,
           (\E r \in Rounds : FameBegin(r)) \/ FameReadVoters \/ FameAskVoter \/ FameSend
    PROVE  CallSound'
  <1>1. /\ event' = event /\ known' = known /\ witnesses' = witnesses
        /\ DagTypeOK /\ fame \in FameState /\ CallSound
    BY DEF dagVars, IInv, TypeOK
  <1>2. /\ \A e : Ancestors(e)' = Ancestors(e)
        /\ \A r : GetWitnesses(r)' = GetWitnesses(r)
    BY <1>1, AncestorsSame DEF GetWitnesses
  <1>3. \A vs, n, e : Seeing(vs, n, e)' = Seeing(vs, n, e)
    BY <1>2 DEF Seeing
  <1> SUFFICES ASSUME NEW c, c = fame'
               PROVE  /\ c.pc # "idle" => ToSet(c.todo) \subseteq ToSet(GetWitnesses(c.round))
                      /\ c.pc \in {"count", "send"} =>
                            /\ IsPrefix(c.voters, GetWitnesses(c.round + 1))
                            /\ c.asked <= Len(c.voters)
                            /\ c.canSee <= Cardinality(Seeing(c.voters, c.asked, Head(c.todo)))
    BY <1>2, <1>3 DEF CallSound
  <1>4. ASSUME NEW r \in Rounds, FameBegin(r)
        PROVE  c.pc = "vote" /\ c.todo = GetWitnesses(c.round)
    BY <1>1, <1>4 DEF FameBegin, FameState
  <1>5. CASE FameReadVoters
    <2>1. /\ fame.pc = "vote" /\ c.pc = "count" /\ c.todo = fame.todo /\ c.round = fame.round
          /\ c.voters = GetWitnesses(c.round + 1) /\ c.asked = 0 /\ c.canSee = 0
      BY <1>1, <1>5 DEF FameReadVoters, FameState
    <2>2. ToSet(c.todo) \subseteq ToSet(GetWitnesses(c.round))
      BY <1>1, <2>1 DEF CallSound
    <2>3. PICK vs : vs = c.voters
      OBVIOUS
    <2>4. vs \in Seq(Id) /\ IsPrefix(vs, vs)
      BY <1>1, <1>2, <2>1, <2>3, WitnessListsStay
    <2>5. Len(vs) \in Nat
      BY <2>4, LenProperties
    <2>6. Seeing(c.voters, 0, Head(c.todo)) = {}
      BY DEF Seeing
    <2>7. 0 <= Cardinality(Seeing(c.voters, 0, Head(c.todo)))
      BY <2>6, FS_EmptySet
    <2>8. QED
      BY <2>1, <2>2, <2>3, <2>4, <2>5, <2>7
  <1>6. CASE FameAskVoter
    <2>1. PICK vs, n, h : vs = fame.voters /\ n = fame.asked /\ h = Head(fame.todo)
      OBVIOUS
    <2>2. /\ fame.pc = "count" /\ c.pc = "count" /\ c.todo = fame.todo /\ c.round = fame.round
          /\ c.voters = vs /\ c.asked = n + 1 /\ n < Len(vs)
          /\ c.canSee = IF h \in Ancestors(vs[n + 1]) THEN fame.canSee + 1 ELSE fame.canSee
      BY <1>1, <1>6, <2>1 DEF FameAskVoter, FameState, StronglySee
    <2>3. /\ vs \in Seq(Id) /\ n \in Nat /\ fame.canSee \in Nat /\ Len(vs) \in Nat
      BY <1>1, <2>1, LenProperties DEF FameState
    <2>4. /\ ToSet(c.todo) \subseteq ToSet(GetWitnesses(c.round))
          /\ IsPrefix(c.voters, GetWitnesses(c.round + 1))
          /\ fame.canSee <= Cardinality(Seeing(vs, n, h))
      BY <1>1, <2>1, <2>2 DEF CallSound
    <2>5. PICK A, B : A = Seeing(vs, n, h) /\ B = Seeing(vs, n + 1, h)
      OBVIOUS
    <2>6. /\ A \in SUBSET (1 .. n)
          /\ B = IF h \in Ancestors(vs[n + 1]) THEN A \cup {n + 1} ELSE A
      BY <2>3, <2>5 DEF Seeing
    <2>7. IsFiniteSet(A) /\ n + 1 \notin A
      <3>1. IsFiniteSet(A)
        BY <2>3, <2>6, IndicesFinite
      <3>2. QED
        BY <2>3, <2>6, <3>1
    <2>8. /\ Cardinality(A) \in Nat
          /\ Cardinality(B) = IF h \in Ancestors(vs[n + 1]) THEN Cardinality(A) + 1
                                                            ELSE Cardinality(A)
      BY <2>6, <2>7, FS_AddElement, FS_CardinalityType
    <2>9. PICK a, b : a = Cardinality(A) /\ b = Cardinality(B)
      OBVIOUS
    <2>10. c.canSee <= b
      BY <2>2, <2>3, <2>4, <2>5, <2>8, <2>9
    <2>11. c.canSee <= Cardinality(Seeing(vs, n + 1, h))
      BY <2>5, <2>9, <2>10
    <2>12. n + 1 <= Len(vs)
      BY <2>2, <2>3
    <2>13. QED
      BY <2>1, <2>2, <2>4, <2>11, <2>12
  <1>7. CASE FameSend
    <2>1. fame.pc = "send" /\ c = NextCandidate /\ fame.todo # <<>>
      BY <1>7 DEF IInv, TypeOK, FameSend
    <2>2. CASE Tail(fame.todo) = <<>>
      BY <2>1, <2>2 DEF NextCandidate, NoCall
    <2>3. CASE Tail(fame.todo) # <<>>
      <3>1. c.pc = "vote" /\ c.todo = Tail(fame.todo) /\ c.round = fame.round
        BY <1>1, <2>1, <2>3 DEF NextCandidate, FameState
      <3>2. ToSet(Tail(fame.todo)) \subseteq ToSet(fame.todo)
        BY <1>1, <2>1, ToSetHeadTail DEF FameState
      <3>3. QED
        BY <1>1, <2>1, <3>1, <3>2 DEF CallSound
    <2>4. QED
      BY <2>2, <2>3
  <1>8. QED
    BY <1>4, <1>5, <1>6, <1>7

(* Recording a verdict: a famous one has a quorum of the voters behind it. *)
LEMMA FameRecordSafe ==
    ASSUME IInv, FameRecord
    PROVE  (ChildrenExact /\ WitnessListsSound /\ FinalizedClosed /\ JudgedByTwoThirds
            /\ CallSound)'
  <1> DEFINE h == Head(fame.todo)
  <1>1. /\ event' = event /\ known' = known /\ children' = children
        /\ witnesses' = witnesses /\ finalized' = finalized
    BY DEF FameRecord
  <1>2. \A e : Ancestors(e)' = Ancestors(e)
    BY <1>1, AncestorsSame
  <1>3. \A r : GetWitnesses(r)' = GetWitnesses(r)
    BY <1>1 DEF GetWitnesses
  <1>4. /\ fame \in FameState /\ CallSound /\ DagTypeOK /\ fame.pc = "count" /\ fame.todo # <<>>
        /\ WitnessListsSound
    BY DEF IInv, TypeOK, FameRecord
  <1>5. ChildrenExact' /\ WitnessListsSound'
    BY <1>1 DEF IInv, ChildrenExact, WitnessListsSound
  <1>6. FinalizedClosed'
    BY <1>1, <1>2 DEF IInv, FinalizedClosed
  <1>7. h \in ToSet(GetWitnesses(fame.round))
    BY <1>4, ToSetHeadTail DEF CallSound, FameState
  <1>8. event[h].round = fame.round
    <2>1. fame.round \in Rounds
      BY <1>7, EmptySeq DEF GetWitnesses, ToSet
    <2>2. QED
      BY <1>4, <1>7, <2>1 DEF WitnessListsSound, GetWitnesses
  <1>9. IsFamous => SeenByTwoThirds(h)
    <2> SUFFICES ASSUME IsFamous PROVE SeenByTwoThirds(h)
      OBVIOUS
    <2>1. PICK vs, ws, n, c, x : /\ vs = fame.voters /\ ws = GetWitnesses(fame.round + 1)
                                 /\ n = fame.asked /\ c = fame.canSee /\ x = h
      OBVIOUS
    <2>2. /\ vs \in Seq(Id) /\ ws \in Seq(Id) /\ n \in Nat /\ c \in Nat
          /\ n = Len(vs) /\ vs # <<>> /\ c >= Quorum(n)
          /\ IsPrefix(vs, ws) /\ c <= Cardinality(Seeing(vs, n, x))
      BY <1>1, <1>4, <2>1, WitnessListsStay DEF CallSound, FameState, IsFamous, FameRecord
    <2>3. /\ Len(ws) \in Nat /\ n <= Len(ws) /\ \A i \in 1 .. n : vs[i] = ws[i]
          /\ n # 0
      BY <2>2, PrefixPointwise, LenProperties, EmptySeq
    <2>4. Seeing(vs, n, x) = Seeing(ws, n, x)
      BY <2>3 DEF Seeing
    <2>5. PICK k, q : k = Cardinality(Seeing(ws, n, x)) /\ q = Quorum(n)
      OBVIOUS
    <2>6. k \in Nat
      <3>1. Seeing(ws, n, x) \in SUBSET (1 .. n)
        BY DEF Seeing
      <3>2. QED
        BY <2>2, <2>5, <3>1, IndicesFinite
    <2>7. q \in Nat /\ 3 * q > 2 * n /\ q <= k
      <3>1. n \in Nat /\ c \in Nat
        BY <2>2
      <3>2. q \in Nat /\ 3 * q > 2 * n
        BY <2>5, <3>1, QuorumBounds
      <3>3. q <= c /\ c <= k
        BY <2>2, <2>4, <2>5
      <3>4. QED
        BY <2>6, <3>1, <3>2, <3>3
    <2>8. 3 * k > 2 * n
      BY <2>2, <2>6, <2>7
    <2>9. n \in 1 .. Len(ws) /\ 3 * Cardinality(Seeing(ws, n, x)) > 2 * n
      BY <2>2, <2>3, <2>5, <2>8
    <2>10. ws = GetWitnesses(event[x].round + 1)
      BY <1>8, <2>1
    <2>11. QED
      BY <2>1, <2>9, <2>10 DEF SeenByTwoThirds
  <1>10. JudgedByTwoThirds'
    <2> SUFFICES ASSUME NEW f \in famous' \cup finalized
                 PROVE  f \in ToSet(GetWitnesses(event[f].round)') /\ SeenByTwoThirds(f)'
      BY <1>1 DEF JudgedByTwoThirds
    <2>1. f \in ToSet(GetWitnesses(event[f].round)) /\ SeenByTwoThirds(f)
      <3>1. CASE f \in famous \cup finalized
        BY <3>1 DEF IInv, JudgedByTwoThirds
      <3>2. CASE f \notin famous \cup finalized
        <4>1. f = h /\ IsFamous
          BY <3>2 DEF FameRecord
        <4>2. QED
          BY <1>7, <1>8, <1>9, <4>1
      <3>3. QED
        BY <3>1, <3>2
    <2>2. \A r : /\ GetWitnesses(r) \in Seq(Id) /\ GetWitnesses(r)' \in Seq(Id)
                 /\ IsPrefix(GetWitnesses(r), GetWitnesses(r)')
      BY <1>1, <1>4, WitnessListsStay
    <2>3. QED
      BY <1>1, <1>4, <2>1, <2>2, JudgementStays
  <1>11. CallSound'
    <2>1. \A vs, n, e : Seeing(vs, n, e)' = Seeing(vs, n, e)
      BY <1>2 DEF Seeing
    <2> SUFFICES ASSUME NEW c, c = fame'
                 PROVE  /\ c.pc # "idle" => ToSet(c.todo) \subseteq ToSet(GetWitnesses(c.round))
                        /\ c.pc \in {"count", "send"} =>
                              /\ IsPrefix(c.voters, GetWitnesses(c.round + 1))
                              /\ c.asked <= Len(c.voters)
                              /\ c.canSee
                                     <= Cardinality(Seeing(c.voters, c.asked, Head(c.todo)))
      BY <1>3, <2>1 DEF CallSound
    <2>2. /\ c.todo = fame.todo /\ c.round = fame.round /\ c.voters = fame.voters
          /\ c.asked = fame.asked /\ c.canSee = fame.canSee
      BY <1>4 DEF FameRecord, FameState
    <2>3. QED
      BY <1>4, <2>2 DEF CallSound
  <1>12. QED
    BY <1>5, <1>6, <1>10, <1>11

(* The invariant holds at the start and every step keeps it.               *)
LEMMA IInvHolds == Spec => []IInv
  <1>1. ASSUME Init
        PROVE  ChildrenExact /\ WitnessListsSound /\ FinalizedClosed /\ JudgedByTwoThirds
               /\ CallSound
    <2>1. Len(<<>>) = 0 /\ ToSet(<<>>) = {}
      BY EmptySeq DEF ToSet
    <2>2. ChildrenExact
      BY <1>1 DEF Init, DagInit, ChildrenExact
    <2>3. WitnessListsSound
      BY <1>1, <2>1 DEF Init, DagInit, WitnessListsSound
    <2>4. FinalizedClosed /\ JudgedByTwoThirds
      BY <1>1 DEF Init, DagInit, FinalizedClosed, JudgedByTwoThirds
    <2>5. CallSound
      BY <1>1 DEF Init, NoCall, CallSound
    <2>6. QED
      BY <2>2, <2>3, <2>4, <2>5
  <1>2. ASSUME IInv, [Next]_vars
        PROVE  (ChildrenExact /\ WitnessListsSound /\ FinalizedClosed /\ JudgedByTwoThirds
                /\ CallSound)'
    <2>1. CASE UNCHANGED dagVars /\ fame' = fame
      BY <1>2, <2>1, GraphUnchangedSafe, CallUnchangedSafe DEF dagVars
    <2>2. ASSUME NEW e \in Id, AddLocalEvent(e)
          PROVE  (ChildrenExact /\ WitnessListsSound /\ FinalizedClosed /\ JudgedByTwoThirds
                  /\ CallSound)'
      BY <1>2, <2>2, AddEventSafe DEF AddLocalEvent, engineVars
    <2>3. CASE LoopAdd
      <3>1. fame' = fame
        BY <2>3 DEF LoopAdd
      <3>2. CASE RejectEvent(Head(eventChan))
        BY <2>1, <3>1, <3>2 DEF RejectEvent
      <3>3. CASE AddEvent(Head(eventChan))
        <4>1. Head(eventChan) \in Id
          <5>1. eventChan \in Seq(Id \cup {NoId}) /\ eventChan # <<>>
            BY <1>2, <2>3 DEF IInv, TypeOK, LoopAdd
          <5>2. QED
            BY <3>3, <5>1, HeadTailProperties DEF AddEvent, Addable
        <4>2. QED
          BY <1>2, <3>1, <3>3, <4>1, AddEventSafe
      <3>4. QED
        BY <2>3, <3>2, <3>3 DEF LoopAdd
    <2>4. ASSUME NEW e \in Id, CheckFinality(e)
          PROVE  (ChildrenExact /\ WitnessListsSound /\ FinalizedClosed /\ JudgedByTwoThirds
                  /\ CallSound)'
      BY <1>2, <2>4, MarkFinalSafe DEF CheckFinality, engineVars
    <2>5. CASE LoopCheck
      BY <1>2, <2>5, MarkFinalSafe DEF LoopCheck
    <2>6. CASE (\E r \in Rounds : FameBegin(r)) \/ FameReadVoters \/ FameAskVoter \/ FameSend
      <3>1. UNCHANGED dagVars
        BY <2>6 DEF FameBegin, FameReadVoters, FameAskVoter, FameSend
      <3>2. QED
        BY <1>2, <2>6, <3>1, GraphUnchangedSafe, BallotSafe
    <2>7. CASE FameRecord
      BY <1>2, <2>7, FameRecordSafe
    <2>8. CASE \/ \E e \in Id \cup {NoId} : ReceiveEvent(e)
               \/ FameSendClosed \/ TakeVerdict \/ CurrentRound \/ Shutdown
      BY <2>1, <2>8 DEF ReceiveEvent, FameSendClosed, TakeVerdict, CurrentRound, Shutdown,
                        Cancel, LoopShutdown, Stop, ReadClosed
    <2>9. CASE UNCHANGED vars
      BY <2>1, <2>9 DEF vars, engineVars
    <2>10. QED
      BY <1>2, <2>2, <2>3, <2>4, <2>5, <2>6, <2>7, <2>8, <2>9 DEF Next, Operate, FameStep
  <1>3. Init => TypeOK
    BY TypeInit
  <1>4. IInv /\ [Next]_vars => TypeOK'
    BY DagAssumption, ChannelAssumption, TypeStep DEF IInv
  <1>5. Init => IInv
    BY <1>1, <1>3 DEF IInv
  <1>6. IInv /\ [Next]_vars => IInv'
    BY <1>2, <1>4 DEF IInv
  <1>7. QED
    BY <1>5, <1>6, PTL DEF Spec

(* A final event is known and so is, and is final, its whole ancestry.     *)
THEOREM FinalityClosed == Spec => []FinalizedClosed
  <1>1. IInv => FinalizedClosed
    BY DEF IInv
  <1>2. QED
    BY <1>1, IInvHolds, PTL

(* A famous or final event is a witness, and the ancestor of more than two *)
(* thirds of the voters its verdict was computed from (DetermineFame).     *)
THEOREM JudgementsHaveQuorums == Spec => []JudgedByTwoThirds
  <1>1. IInv => JudgedByTwoThirds
    BY DEF IInv
  <1>2. QED
    BY <1>1, IInvHolds, PTL

(* No event is twice, unknown, or in the wrong round in a witness list.    *)
THEOREM WitnessListsCorrect == Spec => []WitnessListsSound
  <1>1. IInv => WitnessListsSound
    BY DEF IInv
  <1>2. QED
    BY <1>1, IInvHolds, PTL

(* What a running DetermineFame has read stays true.                       *)
THEOREM CallsStaySound == Spec => []CallSound
  <1>1. IInv => CallSound
    BY DEF IInv
  <1>2. QED
    BY <1>1, IInvHolds, PTL

(* Children are descendants, and so are the descendants of descendants.    *)
LEMMA DescendantsClosed ==
    ASSUME DagTypeOK, NEW p \in Id
    PROVE  /\ children[p] \subseteq Descendants(p)
           /\ \A x \in Descendants(p) : Descendants(x) \subseteq Descendants(p)
  <1>1. children[p] \subseteq Descendants(p) /\ Descendants(p) \in SUBSET Id
    BY DEF DagTypeOK, Descendants
  <1>2. \A x \in Descendants(p) : children[x] \subseteq Descendants(p)
    BY DEF DagTypeOK, Descendants
  <1>3. ASSUME NEW x \in Descendants(p), NEW d \in Descendants(x)
        PROVE  d \in Descendants(p)
    <2>1. PICK T \in SUBSET Id : T = Descendants(p)
      BY <1>1
    <2>2. children[x] \subseteq T /\ \A y \in T : children[y] \subseteq T
      BY <1>2, <2>1
    <2>3. d \in T
      BY <2>2 DEF Descendants
    <2>4. QED
      BY <2>1, <2>3
  <1>4. QED
    BY <1>1, <1>3

(* The child links answer exactly what the parent links answer.            *)
THEOREM SearchesAgree == Spec => []DescendantsMirrorAncestors
  <1>1. ASSUME IInv
        PROVE  DescendantsMirrorAncestors
    <2> SUFFICES ASSUME NEW a \in Id, NEW d \in Id
                 PROVE  d \in Descendants(a) <=> a \in Ancestors(d)
      BY DEF DescendantsMirrorAncestors
    <2>1. DagTypeOK /\ \A p \in Id : children[p] = {e \in known : p \in event[e].parents}
      BY <1>1 DEF IInv, TypeOK, ChildrenExact
    <2>2. known \subseteq Id /\ \A e \in known : event[e].parents \subseteq Id
      BY <2>1 DEF DagTypeOK, EventContent
    <2>3. ASSUME d \in Descendants(a)
          PROVE  a \in Ancestors(d)
      <3>1. PICK S \in SUBSET Id : S = {x \in Id : a \in Ancestors(x)}
        OBVIOUS
      <3>2. children[a] \subseteq S
        BY <2>1, <2>2, <3>1, ParentsAreAncestors
      <3>3. ASSUME NEW x \in S, NEW y \in children[x]
            PROVE  y \in S
        <4>1. x \in known /\ a \in Ancestors(x)
          BY <3>1, <3>3 DEF Ancestors
        <4>2. y \in known /\ x \in Ancestors(y)
          BY <2>1, <3>3, <4>1, ParentsAreAncestors, <2>2
        <4>3. Ancestors(x) \subseteq Ancestors(y)
          BY <2>1, <4>1, <4>2, AncestorsTransitive
        <4>4. QED
          BY <2>2, <3>1, <4>1, <4>2, <4>3
      <3>4. d \in S
        BY <2>3, <3>2, <3>3 DEF Descendants
      <3>5. QED
        BY <3>1, <3>4
    <2>4. ASSUME a \in Ancestors(d)
          PROVE  d \in Descendants(a)
      <3>1. PICK S \in SUBSET Id : S = {x \in Id : d \in Descendants(x)}
        OBVIOUS
      <3>2. d \in known
        BY <2>4 DEF Ancestors
      <3>3. event[d].parents \subseteq S
        BY <2>1, <2>2, <3>1, <3>2, DescendantsClosed
      <3>4. ASSUME NEW x \in S \cap known, NEW q \in event[x].parents
            PROVE  q \in S
        <4>1. q \in Id /\ x \in children[q]
          BY <2>1, <2>2, <3>4
        <4>2. x \in Descendants(q) /\ Descendants(x) \subseteq Descendants(q)
          BY <2>1, <4>1, DescendantsClosed
        <4>3. QED
          BY <3>1, <3>4, <4>1, <4>2
      <3>5. ParentClosed(S)
        BY <3>4 DEF ParentClosed
      <3>6. a \in S
        BY <2>4, <3>3, <3>5 DEF Ancestors
      <3>7. QED
        BY <3>1, <3>6
    <2>5. QED
      BY <2>3, <2>4
  <1>2. QED
    BY <1>1, IInvHolds, PTL

(* Once final, an event stays final and its ancestry never changes.        *)
THEOREM FinalityIsPermanent == Spec => NoReorganization
  <1> DEFINE Frozen == \A e \in finalized : e \in finalized' /\ Ancestors(e)' = Ancestors(e)
  <1>1. ASSUME IInv, [Next]_vars
        PROVE  event' = event /\ known \subseteq known' /\ finalized \subseteq finalized'
    BY <1>1 DEF Next, Operate, FameStep, Shutdown, vars, dagVars, engineVars, ReceiveEvent,
                AddLocalEvent, AddEvent, RejectEvent, MarkFinal, CheckFinality, FameBegin,
                FameReadVoters, FameAskVoter, FameRecord, FameSend, FameSendClosed,
                LoopAdd, LoopCheck, TakeVerdict, CurrentRound, Cancel, LoopShutdown, Stop,
                ReadClosed
  <1>2. ASSUME IInv, [Next]_vars
        PROVE  Frozen
    <2> SUFFICES ASSUME NEW e \in finalized
                 PROVE  e \in finalized' /\ Ancestors(e)' = Ancestors(e)
      OBVIOUS
    <2>1. DagTypeOK /\ e \in known /\ Ancestors(e) \subseteq known
      BY <1>2 DEF IInv, TypeOK, FinalizedClosed
    <2>2. QED
      BY <1>1, <1>2, <2>1, AncestorsFrozen
  <1>3. IInv /\ [Next]_vars => [Frozen]_vars
    BY <1>2
  <1>4. QED
    BY <1>3, IInvHolds, PTL DEF Spec, NoReorganization

----------------------------------------------------------------------------
(***************************************************************************)
(* Shutdown.  To know why the process crashed, one must know who closed    *)
(* the channel before.                                                     *)
(***************************************************************************)

(* The channel is closed exactly when the loop left or the owner stopped.  *)
WhoClosed ==
    /\ ~crashed => (finalityOpen <=> ~stopCalled /\ loop.pc # "exited")
    /\ loop.pc = "exited" => cancelled
    /\ CrashCauses

(* The first closing is harmless: a crash is a second one, or a use of the *)
(* closed channel.                                                         *)
THEOREM CrashesHaveThreeCauses == Spec => []CrashCauses
  <1> DEFINE Inv == TypeOK /\ WhoClosed
  <1>1. Init => Inv
    <2>1. Init => TypeOK
      BY TypeInit
    <2>2. Init => WhoClosed
      BY DEF Init, WhoClosed, CrashCauses, Selecting
    <2>3. QED
      BY <2>1, <2>2
  <1>2. Inv /\ [Next]_vars => Inv'
    <2> SUFFICES ASSUME TypeOK, WhoClosed, [Next]_vars
                 PROVE  WhoClosed'
      BY DagAssumption, ChannelAssumption, TypeStep
    <2>1. {finalityOpen, cancelled, stopCalled, crashed} \subseteq BOOLEAN
      BY DEF TypeOK
    <2>2. CASE UNCHANGED shutdownVars /\ loop' = loop /\ ~crashed
      BY <2>2 DEF WhoClosed, CrashCauses, shutdownVars
    <2>3. CASE (LoopAdd \/ LoopCheck) /\ ~crashed
      <3>1. loop'.pc # "exited" /\ loop.pc # "exited" /\ UNCHANGED shutdownVars
        BY <2>3 DEF LoopAdd, LoopCheck, Selecting
      <3>2. QED
        BY <2>3, <3>1 DEF WhoClosed, CrashCauses, shutdownVars
    <2>4. CASE (FameSendClosed \/ ReadClosed) /\ ~crashed
      BY <2>4 DEF FameSendClosed, ReadClosed, WhoClosed, CrashCauses
    <2>5. CASE Cancel /\ ~crashed
      BY <2>1, <2>5 DEF Cancel, WhoClosed, CrashCauses
    <2>6. CASE LoopShutdown /\ ~crashed
      BY <2>1, <2>6 DEF LoopShutdown, CloseFinality, WhoClosed, CrashCauses
    <2>7. CASE Stop /\ ~crashed
      BY <2>1, <2>7 DEF Stop, CloseFinality, WhoClosed, CrashCauses
    <2>8. CASE UNCHANGED vars
      BY <2>8 DEF vars, engineVars, shutdownVars, WhoClosed, CrashCauses
    <2>9. CASE ~crashed /\ Operate /\ ~LoopAdd /\ ~LoopCheck /\ ~FameSendClosed
      BY <2>2, <2>9
         DEF Operate, FameStep, engineVars, ReceiveEvent, AddLocalEvent, CheckFinality,
             FameBegin, FameReadVoters, FameAskVoter, FameRecord, FameSend, TakeVerdict,
             CurrentRound
    <2>10. QED
      BY <2>3, <2>4, <2>5, <2>6, <2>7, <2>8, <2>9 DEF Next, Operate, FameStep, Shutdown
  <1>3. Inv => CrashCauses
    BY DEF WhoClosed
  <1>4. QED
    BY <1>1, <1>2, <1>3, PTL DEF Spec

----------------------------------------------------------------------------
(***************************************************************************)
(* Delivery in causal order.                                               *)
(***************************************************************************)

(* A step adds one event to the graph, or leaves events and witnesses as   *)
(* they are.                                                               *)
LEMMA GraphSteps ==
    ASSUME TypeOK, [Next]_vars
    PROVE  \/ UNCHANGED <<event, known, witnesses>>
           \/ \E e \in Id : AddEvent(e)
  <1>1. CASE LoopAdd
    <2>1. eventChan \in Seq(Id \cup {NoId}) /\ eventChan # <<>>
      BY <1>1 DEF TypeOK, LoopAdd
    <2>2. Head(eventChan) \in Id \cup {NoId}
      BY <2>1, HeadTailProperties
    <2>3. CASE AddEvent(Head(eventChan))
      BY <2>2, <2>3 DEF AddEvent, Addable
    <2>4. QED
      BY <1>1, <2>3 DEF LoopAdd, RejectEvent, dagVars
  <1>2. CASE ~ LoopAdd
    BY <1>2 DEF Next, Operate, FameStep, Shutdown, vars, dagVars, engineVars, ReceiveEvent,
                AddLocalEvent, MarkFinal, CheckFinality, FameBegin, FameReadVoters,
                FameAskVoter, FameRecord, FameSend, FameSendClosed, LoopCheck, TakeVerdict,
                CurrentRound, Cancel, LoopShutdown, Stop, ReadClosed
  <1>3. QED
    BY <1>1, <1>2

(* What delivery in causal order adds to the invariant.                    *)
CausalInv == IInv /\ WitnessesAreFirstInRound

(* An event whose parents are known is judged once and for all.            *)
LEMMA AddWitness ==
    ASSUME CausalInv, NEW e \in Id, AddEvent(e), ParentsFirst
    PROVE  WitnessesAreFirstInRound'
  <1>1. /\ DagTypeOK /\ event' = event /\ known' = known \cup {e} /\ e \notin known
        /\ WitnessListsSound /\ WitnessesAreFirstInRound /\ known \subseteq Id
    BY DEF CausalInv, IInv, TypeOK, DagTypeOK, AddEvent, Addable
  <1>2. event[e].parents \subseteq known
    BY <1>1 DEF ParentsFirst
  <1>3. IsWitness(e) <=> \A p \in event[e].parents : event[p].round # event[e].round
    BY <1>2 DEF IsWitness
  <1>4. \A x \in Id : event[x].round \in Rounds
    BY <1>1 DEF DagTypeOK, EventContent
  <1>5. ASSUME NEW x \in known
        PROVE  x \in ToSet(witnesses'[event[x].round])
                   <=> \A p \in event[x].parents : event[p].round # event[x].round
    <2>1. x \in Id /\ x # e /\ event[x].round \in Rounds
      BY <1>1, <1>4
    <2>2. x \in ToSet(witnesses'[event[x].round]) <=> x \in ToSet(witnesses[event[x].round])
      BY <1>1, <2>1, WitnessListsGrow
    <2>3. QED
      BY <1>1, <2>2 DEF WitnessesAreFirstInRound
  <1>6. e \in ToSet(witnesses'[event[e].round])
            <=> \A p \in event[e].parents : event[p].round # event[e].round
    <2> DEFINE r == event[e].round
    <2>1. r \in Rounds /\ witnesses \in [Rounds -> Seq(Id)]
      BY <1>1, <1>4 DEF DagTypeOK
    <2>2. e \notin ToSet(witnesses[r])
      BY <1>1, <2>1 DEF WitnessListsSound
    <2>3. CASE IsWitness(e)
      <3>1. witnesses'[r] = Append(witnesses[r], e) /\ witnesses[r] \in Seq(Id)
        BY <2>1, <2>3 DEF AddEvent
      <3>2. ToSet(witnesses'[r]) = ToSet(witnesses[r]) \cup {e}
        BY <3>1, ToSetAppend
      <3>3. QED
        BY <1>3, <2>3, <3>2
    <2>4. CASE ~ IsWitness(e)
      BY <1>3, <2>2, <2>4 DEF AddEvent
    <2>5. QED
      BY <2>3, <2>4
  <1>7. QED
    BY <1>1, <1>5, <1>6 DEF WitnessesAreFirstInRound

(* A step of CausalSpec is one of Spec, and keeps the invariant.           *)
LEMMA CausalInvHolds == CausalSpec => []CausalInv
  <1>1. [~crashed /\ Operate /\ ParentsFirst]_vars => [Next]_vars
    BY DEF Next
  <1>2. CausalSpec => []IInv
    BY <1>1, IInvHolds, PTL DEF CausalSpec, Spec
  <1>3. Init => WitnessesAreFirstInRound
    BY DEF Init, DagInit, WitnessesAreFirstInRound
  <1>4. ASSUME IInv, WitnessesAreFirstInRound, [~crashed /\ Operate /\ ParentsFirst]_vars
        PROVE  WitnessesAreFirstInRound'
    <2>1. \/ UNCHANGED <<event, known, witnesses>>
          \/ \E e \in Id : AddEvent(e)
      BY <1>1, <1>4, GraphSteps DEF IInv
    <2>2. CASE UNCHANGED <<event, known, witnesses>>
      BY <1>4, <2>2 DEF WitnessesAreFirstInRound
    <2>3. ASSUME NEW e \in Id, AddEvent(e), known' # known
          PROVE  WitnessesAreFirstInRound'
      <3>1. ParentsFirst
        BY <1>4, <2>3 DEF vars, dagVars
      <3>2. QED
        BY <1>4, <2>3, <3>1, AddWitness DEF CausalInv
    <2>4. \A e : AddEvent(e) => known' # known
      BY DEF AddEvent, Addable
    <2>5. QED
      BY <2>1, <2>2, <2>3, <2>4
  <1>5. QED
    BY <1>2, <1>3, <1>4, PTL DEF CausalSpec, CausalInv

(* Delivered after its parents, an event is a witness exactly when none of *)
(* its parents, known when it was judged or not, has its round (AddEvent). *)
THEOREM WitnessesComeFirst == CausalSpec => []WitnessesAreFirstInRound
  <1>1. CausalInv => WitnessesAreFirstInRound
    BY DEF CausalInv
  <1>2. QED
    BY <1>1, CausalInvHolds, PTL

(* A final event is a witness, no parent of it has its round, and no       *)
(* ancestor of a parent is in a later round than the parent.               *)
THEOREM FinalityClimbs ==
    ASSUME RoundsNeverFall
    PROVE  CausalSpec => []FinalizedRoundsIncrease
  <1> DEFINE Honest == event \in Gossip
  <1>1. ASSUME CausalInv, Honest
        PROVE  FinalizedRoundsIncrease
    <2> SUFFICES ASSUME NEW e \in finalized
                 PROVE  \A a \in Ancestors(e) : event[a].round < event[e].round
      BY DEF FinalizedRoundsIncrease
    <2>1. /\ DagTypeOK /\ FinalizedClosed /\ JudgedByTwoThirds /\ WitnessListsSound
          /\ WitnessesAreFirstInRound /\ e \in known /\ known \subseteq Id /\ e \in Id
      BY <1>1 DEF CausalInv, IInv, TypeOK, DagTypeOK, FinalizedClosed
    <2>2. \A x \in Id : event[x].round \in Rounds /\ event[x].round \in Nat
                        /\ event[x].parents \subseteq Id
      BY <2>1, DagAssumption DEF DagTypeOK, EventContent, Rounds
    <2>3. \A x \in Id : \A p \in event[x].parents : event[p].round <= event[x].round
      BY <1>1 DEF RoundsNeverFall
    <2>4. e \in ToSet(witnesses[event[e].round])
      BY <2>1, <2>2 DEF JudgedByTwoThirds, GetWitnesses
    <2>5. \A p \in event[e].parents : event[p].round # event[e].round
      BY <2>1, <2>4 DEF WitnessesAreFirstInRound
    <2>6. PICK S \in SUBSET Id : S = {a \in Id : event[a].round < event[e].round}
      OBVIOUS
    <2>7. event[e].parents \subseteq S
      BY <2>1, <2>2, <2>3, <2>5, <2>6
    <2>8. ASSUME NEW x \in S \cap known, NEW p \in event[x].parents
          PROVE  p \in S
      <3>1. x \in Id /\ p \in Id /\ event[x].round < event[e].round
        BY <2>2, <2>6
      <3>2. event[p].round <= event[x].round
        BY <2>3, <3>1
      <3>3. QED
        BY <2>1, <2>2, <2>6, <3>1, <3>2
    <2>9. ParentClosed(S)
      BY <2>8 DEF ParentClosed
    <2>10. Ancestors(e) \subseteq S
      BY <2>1, <2>7, <2>9 DEF Ancestors
    <2>11. QED
      BY <2>6, <2>10
  <1>2. Init => Honest
    BY DEF Init, DagInit
  <1>3. CausalInv /\ Honest /\ [~crashed /\ Operate /\ ParentsFirst]_vars => Honest'
    <2> SUFFICES ASSUME CausalInv, Honest, [~crashed /\ Operate /\ ParentsFirst]_vars
                 PROVE  event' = event
      OBVIOUS
    <2>1. [Next]_vars
      BY DEF Next
    <2>2. \/ UNCHANGED <<event, known, witnesses>>
          \/ \E e \in Id : AddEvent(e)
      BY <2>1, GraphSteps DEF CausalInv, IInv
    <2>3. QED
      BY <2>2 DEF AddEvent
  <1> HIDE DEF Honest
  <1>4. CausalSpec => []Honest
    BY <1>2, <1>3, CausalInvHolds, PTL DEF CausalSpec
  <1>5. QED
    BY <1>1, <1>4, CausalInvHolds, PTL

----------------------------------------------------------------------------
(***************************************************************************)
(* The depth-first searches.  A call of a search asks for others that have *)
(* less to find or less to go through, so every search ends, on graphs     *)
(* with cycles too; and what a call finds is right if what those found is. *)
(***************************************************************************)
(* What one call of a search returns, g standing for the calls it makes.   *)
Others(w) == w.todo \ {Chosen(w.todo)}

Deeper(links, w) == Call(links[Chosen(w.todo)], w.found \cup {Chosen(w.todo)})

Visited(links, g, w) ==
    IF w.todo = {} THEN w.found
    ELSE IF Chosen(w.todo) \in w.found THEN g[Call(Others(w), w.found)]
    ELSE g[Call(Others(w), g[Deeper(links, w)])]

(* The search is a function that does that at every call, if there is one. *)
LEMMA SearchIsChoice ==
    ASSUME NEW links
    PROVE  Search(links) = CHOOSE g : g = [w \in Pending |-> Visited(links, g, w)]
  BY Zenon DEF Search, Visited, Others, Deeper, Call, Chosen

(* Falls from call to call: what is not found yet counts for more than any *)
(* slice of ids.                                                           *)
Rank(w) == Cardinality(Id \ w.found) * (Cardinality(Id) + 1) + Cardinality(w.todo)

(* One more missing id outweighs whatever is left to go through.           *)
LEMMA RankOrder ==
    ASSUME NEW a \in Nat, NEW b \in Nat, NEW k \in Nat, NEW s \in Nat, NEW t \in Nat,
           \/ a < b /\ s <= k
           \/ a <= b /\ s < t
    PROVE  a * (k + 1) + s < b * (k + 1) + t
  <1>1. PICK m \in Nat : m = k + 1
    OBVIOUS
  <1>2. a * m \in Nat /\ b * m \in Nat
    OBVIOUS
  <1>3. CASE a < b /\ s <= k
    <2>1. PICK d \in Nat : b = a + 1 + d
      <3>1. b - a - 1 \in Nat /\ b = a + 1 + (b - a - 1)
        BY <1>3
      <3>2. QED
        BY <3>1
    <2>2. d * m \in Nat /\ b * m = a * m + m + d * m
      BY <2>1
    <2>3. QED
      BY <1>1, <1>2, <1>3, <2>2
  <1>4. CASE a <= b /\ s < t
    <2>1. PICK d \in Nat : b = a + d
      <3>1. b - a \in Nat /\ b = a + (b - a)
        BY <1>4
      <3>2. QED
        BY <3>1
    <2>2. d * m \in Nat /\ b * m = a * m + d * m
      BY <2>1
    <2>3. QED
      BY <1>1, <1>2, <1>4, <2>2
  <1>5. QED
    BY <1>3, <1>4

(* The rank of a call is one of finitely many numbers.                     *)
LEMMA RankBounded ==
    ASSUME IsFiniteSet(Id)
    PROVE  \E n \in Nat : \A w \in Pending : Rank(w) \in Nat /\ Rank(w) < n
  <1>1. PICK k : k = Cardinality(Id)
    OBVIOUS
  <1>2. k \in Nat
    BY <1>1, FS_CardinalityType
  <1>3. \A s \in SUBSET Id : Cardinality(s) \in Nat /\ Cardinality(s) <= k
    <2>1. \A s \in SUBSET Id : IsFiniteSet(s) /\ Cardinality(s) <= k
      BY <1>1, FS_Subset
    <2>2. QED
      BY <2>1, FS_CardinalityType
  <1>4. PICK n \in Nat : n = (k + 1) * (k + 1) + 0
    <2>1. (k + 1) * (k + 1) + 0 \in Nat
      BY <1>2
    <2>2. QED
      BY <2>1
  <1>5. ASSUME NEW w \in Pending
        PROVE  Rank(w) \in Nat /\ Rank(w) < n
    <2>1. PICK a, s : a = Cardinality(Id \ w.found) /\ s = Cardinality(w.todo)
      OBVIOUS
    <2>2. a \in Nat /\ a < k + 1 /\ s \in Nat /\ s <= k
      BY <1>2, <1>3, <2>1 DEF Pending
    <2>3. a * (k + 1) + s \in Nat
      BY <1>2, <2>2
    <2>4. a * (k + 1) + s < (k + 1) * (k + 1) + 0
      BY <1>2, <2>2, RankOrder
    <2>5. QED
      BY <1>1, <1>4, <2>1, <2>3, <2>4 DEF Rank
  <1>6. QED
    BY <1>5

(* Every call that a call makes is of a smaller rank, whatever the first   *)
(* of the two has found before the second is made.                         *)
LEMMA RankFalls ==
    ASSUME IsFiniteSet(Id), NEW links \in [Id -> SUBSET Id], NEW w \in Pending, w.todo # {}
    PROVE  /\ Call(Others(w), w.found) \in Pending
           /\ Rank(Call(Others(w), w.found)) < Rank(w)
           /\ Chosen(w.todo) \notin w.found =>
                  /\ Deeper(links, w) \in Pending
                  /\ Rank(Deeper(links, w)) < Rank(w)
                  /\ \A r \in SUBSET Id :
                         w.found \cup {Chosen(w.todo)} \subseteq r =>
                             /\ Call(Others(w), r) \in Pending
                             /\ Rank(Call(Others(w), r)) < Rank(w)
  <1>1. PICK k, x : k = Cardinality(Id) /\ x = Chosen(w.todo)
    OBVIOUS
  <1>2. w.todo \in SUBSET Id /\ w.found \in SUBSET Id /\ x \in w.todo /\ x \in Id
    BY <1>1 DEF Pending, Chosen
  <1>3. k \in Nat
    BY <1>1, FS_CardinalityType
  <1>4. \A s \in SUBSET Id : IsFiniteSet(s) /\ Cardinality(s) \in Nat /\ Cardinality(s) <= k
    <2>1. \A s \in SUBSET Id : IsFiniteSet(s) /\ Cardinality(s) <= k
      BY <1>1, FS_Subset
    <2>2. QED
      BY <2>1, FS_CardinalityType
  <1>5. PICK b, t : b = Cardinality(Id \ w.found) /\ t = Cardinality(w.todo)
    OBVIOUS
  <1>6. b \in Nat /\ t \in Nat /\ Rank(w) = b * (k + 1) + t
    BY <1>1, <1>2, <1>4, <1>5 DEF Rank
  <1>7. ASSUME NEW todo \in SUBSET Id, NEW r \in SUBSET Id
        PROVE  /\ Call(todo, r) \in Pending
               /\ \E a, s \in Nat : /\ a = Cardinality(Id \ r) /\ s = Cardinality(todo)
                                     /\ s <= k /\ Rank(Call(todo, r)) = a * (k + 1) + s
    <2>1. PICK a, s : a = Cardinality(Id \ r) /\ s = Cardinality(todo)
      OBVIOUS
    <2>2. Call(todo, r) \in Pending /\ a \in Nat /\ s \in Nat /\ s <= k
      BY <1>4, <2>1 DEF Call, Pending
    <2>3. Rank(Call(todo, r)) = a * (k + 1) + s
      BY <1>1, <2>1 DEF Call, Rank
    <2>4. QED
      BY <2>1, <2>2, <2>3
  <1>8. Others(w) \in SUBSET Id /\ Cardinality(Others(w)) < t
    <2>1. Cardinality(w.todo \ {x}) = Cardinality(w.todo) - 1
      BY <1>2, <1>4, FS_RemoveElement
    <2>2. QED
      BY <1>1, <1>2, <1>5, <1>6, <2>1 DEF Others
  <1>9. ASSUME NEW r \in SUBSET Id, w.found \cup {x} \subseteq r, x \notin w.found
        PROVE  Cardinality(Id \ r) < b
    <2>1. /\ Id \ r \in SUBSET ((Id \ w.found) \ {x})
          /\ IsFiniteSet(Id \ w.found) /\ IsFiniteSet((Id \ w.found) \ {x})
      BY <1>4, <1>9
    <2>2. Cardinality(Id \ r) <= Cardinality((Id \ w.found) \ {x})
      BY <2>1, FS_Subset
    <2>3. Cardinality((Id \ w.found) \ {x}) = Cardinality(Id \ w.found) - 1
      <3>1. PICK c : c = Id \ w.found
        OBVIOUS
      <3>2. IsFiniteSet(c) /\ x \in c
        BY <1>2, <1>9, <2>1, <3>1
      <3>3. Cardinality(c \ {x}) = Cardinality(c) - 1
        BY <3>2, FS_RemoveElement
      <3>4. QED
        BY <3>1, <3>3
    <2>4. Cardinality(Id \ r) \in Nat
      BY <1>4
    <2>5. QED
      BY <1>5, <1>6, <2>2, <2>3, <2>4
  <1>10. /\ Call(Others(w), w.found) \in Pending
         /\ Rank(Call(Others(w), w.found)) < Rank(w)
    <2>1. PICK a, s \in Nat :
              /\ a = Cardinality(Id \ w.found) /\ s = Cardinality(Others(w))
              /\ s <= k /\ Rank(Call(Others(w), w.found)) = a * (k + 1) + s
      BY <1>2, <1>7, <1>8
    <2>2. a = b /\ s < t
      BY <1>5, <1>8, <2>1
    <2>3. a * (k + 1) + s < b * (k + 1) + t
      BY <1>3, <1>6, <2>2, RankOrder
    <2>4. Call(Others(w), w.found) \in Pending
      BY <1>2, <1>7, <1>8
    <2>5. QED
      BY <1>6, <2>1, <2>3, <2>4
  <1>11. ASSUME NEW todo \in SUBSET Id, NEW r \in SUBSET Id,
                w.found \cup {x} \subseteq r, x \notin w.found
         PROVE  Call(todo, r) \in Pending /\ Rank(Call(todo, r)) < Rank(w)
    <2>1. PICK a, s \in Nat :
              /\ a = Cardinality(Id \ r) /\ s = Cardinality(todo)
              /\ s <= k /\ Rank(Call(todo, r)) = a * (k + 1) + s
      BY <1>7
    <2>2. a < b
      BY <1>9, <1>11, <2>1
    <2>3. a * (k + 1) + s < b * (k + 1) + t
      BY <1>3, <1>6, <2>1, <2>2, RankOrder
    <2>4. QED
      BY <1>6, <1>7, <2>1, <2>3
  <1>12. ASSUME x \notin w.found
         PROVE  Deeper(links, w) \in Pending /\ Rank(Deeper(links, w)) < Rank(w)
    <2>1. PICK r : r = w.found \cup {x}
      OBVIOUS
    <2>2. links[x] \in SUBSET Id /\ r \in SUBSET Id /\ Deeper(links, w) = Call(links[x], r)
      BY <1>1, <1>2, <2>1 DEF Deeper
    <2>3. QED
      BY <1>11, <1>12, <2>1, <2>2
  <1>13. QED
    BY <1>1, <1>8, <1>10, <1>11, <1>12

(* What holds of a call when it holds of all calls of a smaller rank holds *)
(* of every call.                                                          *)
LEMMA CallInduction ==
    ASSUME IsFiniteSet(Id), NEW Good,
           \A w \in Pending : (\A v \in Pending : Rank(v) < Rank(w) => v \in Good) => w \in Good
    PROVE  Pending \subseteq Good
  <1>1. PICK n \in Nat : \A w \in Pending : Rank(w) \in Nat /\ Rank(w) < n
    BY RankBounded
  <1> DEFINE T == {m \in 0 .. n : \A w \in Pending : Rank(w) < m => w \in Good}
  <1>2. 0 \in T
    BY <1>1
  <1>3. ASSUME NEW m \in 0 .. n - 1, m \in T
        PROVE  m + 1 \in T
    <2>1. ASSUME NEW w \in Pending, Rank(w) < m + 1
          PROVE  w \in Good
      <3>1. \A v \in Pending : Rank(v) < Rank(w) => Rank(v) < m
        BY <1>1, <2>1
      <3>2. QED
        BY <1>3, <3>1
    <2>2. QED
      BY <2>1
  <1>4. n \in T
    <2> HIDE DEF T
    <2>1. 0 .. n \subseteq T
      BY <1>2, <1>3, BoundedInduction
    <2>2. QED
      BY <2>1
  <1>5. QED
    BY <1>1, <1>4

(* The calls of a search that is known up to a rank: what each returns is  *)
(* settled by smaller ones and keeps what it was given.                    *)
SearchOf(links, D, g) ==
    /\ g = [w \in D |-> Visited(links, g, w)]
    /\ \A w \in D : g[w] \in SUBSET Id /\ w.found \subseteq g[w]

(* A call asks for nothing but smaller ones.                               *)
LEMMA VisitedLocal ==
    ASSUME IsFiniteSet(Id), NEW links \in [Id -> SUBSET Id], NEW w \in Pending, NEW g, NEW h,
           \A v \in Pending : Rank(v) < Rank(w) =>
               g[v] \in SUBSET Id /\ v.found \subseteq g[v] /\ h[v] = g[v]
    PROVE  /\ Visited(links, h, w) = Visited(links, g, w)
           /\ Visited(links, g, w) \in SUBSET Id
           /\ w.found \subseteq Visited(links, g, w)
  <1>1. CASE w.todo = {}
    BY <1>1 DEF Visited, Pending
  <1>2. CASE w.todo # {} /\ Chosen(w.todo) \in w.found
    <2>1. PICK v : v = Call(Others(w), w.found)
      OBVIOUS
    <2>2. v \in Pending /\ Rank(v) < Rank(w) /\ v.found = w.found
      BY <1>2, <2>1, RankFalls DEF Call
    <2>3. Visited(links, h, w) = h[v] /\ Visited(links, g, w) = g[v]
      BY <1>2, <2>1 DEF Visited
    <2>4. QED
      BY <2>2, <2>3
  <1>3. CASE w.todo # {} /\ Chosen(w.todo) \notin w.found
    <2>1. PICK u, r, v : u = Deeper(links, w) /\ r = g[u] /\ v = Call(Others(w), r)
      OBVIOUS
    <2>2. u \in Pending /\ Rank(u) < Rank(w) /\ u.found = w.found \cup {Chosen(w.todo)}
      BY <1>3, <2>1, RankFalls DEF Deeper, Call
    <2>3. r \in SUBSET Id /\ w.found \cup {Chosen(w.todo)} \subseteq r /\ h[u] = r
      BY <2>1, <2>2
    <2>4. v \in Pending /\ Rank(v) < Rank(w) /\ v.found = r
      BY <1>3, <2>1, <2>3, RankFalls DEF Call
    <2>5. Visited(links, h, w) = h[v] /\ Visited(links, g, w) = g[v]
      BY <1>3, <2>1, <2>3 DEF Visited
    <2>6. QED
      BY <2>3, <2>4, <2>5
  <1>4. QED
    BY <1>1, <1>2, <1>3

(* Every search ends, whatever cycles the links make: its function exists. *)
LEMMA SearchEnds ==
    ASSUME IsFiniteSet(Id), NEW links \in [Id -> SUBSET Id]
    PROVE  SearchOf(links, Pending, Search(links))
  <1>1. PICK n \in Nat : \A w \in Pending : Rank(w) \in Nat /\ Rank(w) < n
    BY RankBounded
  <1> DEFINE Small(m) == {w \in Pending : Rank(w) < m}
             T == {m \in 0 .. n : \E g : SearchOf(links, Small(m), g)}
  <1>2. 0 \in T
    <2>1. Small(0) = {}
      BY <1>1
    <2>2. PICK z : z = [w \in Small(0) |-> {}]
      OBVIOUS
    <2>3. z = [w \in Small(0) |-> Visited(links, z, w)]
      <3> HIDE DEF Small
      <3>1. QED
        BY <2>1, <2>2
    <2>4. SearchOf(links, Small(0), z)
      <3> HIDE DEF Small
      <3>1. QED
        BY <2>1, <2>3 DEF SearchOf
    <2> HIDE DEF Small
    <2>5. QED
      BY <1>1, <2>4
  <1>3. ASSUME NEW m \in 0 .. n - 1, m \in T
        PROVE  m + 1 \in T
    <2>1. PICK g : SearchOf(links, Small(m), g)
      BY <1>3
    <2>2. PICK h : h = [w \in Small(m + 1) |-> Visited(links, g, w)]
      OBVIOUS
    <2>3. PICK D, E : D = Small(m) /\ E = Small(m + 1)
      OBVIOUS
    <2>4. D \subseteq E /\ E \subseteq Pending
      BY <1>1, <2>3
    <2>5. \A w \in E, v \in Pending : Rank(v) < Rank(w) => v \in D
      BY <1>1, <2>3
    <2> HIDE DEF Small
    <2>6. \A v \in D : g[v] = Visited(links, g, v) /\ g[v] \in SUBSET Id /\ v.found \subseteq g[v]
      BY <2>1, <2>3 DEF SearchOf
    <2>7. \A w \in E : h[w] = Visited(links, g, w)
      BY <2>2, <2>3
    <2>8. \A v \in D : g[v] \in SUBSET Id /\ v.found \subseteq g[v] /\ h[v] = g[v]
      BY <2>4, <2>6, <2>7
    <2>9. ASSUME NEW w \in E
          PROVE  /\ Visited(links, h, w) = Visited(links, g, w)
                 /\ h[w] \in SUBSET Id /\ w.found \subseteq h[w]
      <3>1. /\ w \in Pending
            /\ \A v \in Pending : Rank(v) < Rank(w) =>
                   g[v] \in SUBSET Id /\ v.found \subseteq g[v] /\ h[v] = g[v]
        BY <2>4, <2>5, <2>8
      <3>2. /\ Visited(links, h, w) = Visited(links, g, w)
            /\ Visited(links, g, w) \in SUBSET Id
            /\ w.found \subseteq Visited(links, g, w)
        BY <3>1, VisitedLocal
      <3>3. QED
        BY <2>7, <3>2
    <2>10. h = [w \in E |-> Visited(links, h, w)]
      BY <2>2, <2>3, <2>9
    <2>11. SearchOf(links, E, h)
      BY <2>9, <2>10 DEF SearchOf
    <2>12. QED
      BY <1>1, <2>3, <2>11
  <1>4. n \in T
    <2> HIDE DEF T
    <2>1. 0 .. n \subseteq T
      BY <1>2, <1>3, BoundedInduction
    <2>2. QED
      BY <2>1
  <1>5. Small(n) = Pending
    BY <1>1
  <1>6. PICK g : SearchOf(links, Pending, g)
    BY <1>4, <1>5
  <1>7. g = [w \in Pending |-> Visited(links, g, w)]
    BY <1>6 DEF SearchOf
  <1>8. PICK h : h = Search(links)
    OBVIOUS
  <1>9. h = [w \in Pending |-> Visited(links, h, w)]
    BY <1>7, <1>8, SearchIsChoice
  <1>10. ASSUME NEW w \in Pending,
                \A v \in Pending : Rank(v) < Rank(w) => v \in {u \in Pending : h[u] = g[u]}
         PROVE  w \in {u \in Pending : h[u] = g[u]}
    <2>1. \A v \in Pending : Rank(v) < Rank(w) =>
              g[v] \in SUBSET Id /\ v.found \subseteq g[v] /\ h[v] = g[v]
      BY <1>6, <1>10 DEF SearchOf
    <2>2. Visited(links, h, w) = Visited(links, g, w)
      BY <2>1, VisitedLocal
    <2>3. h[w] = Visited(links, h, w) /\ g[w] = Visited(links, g, w)
      BY <1>7, <1>9
    <2>4. QED
      BY <2>2, <2>3
  <1>11. \A w \in Pending : h[w] = g[w]
    <2>1. Pending \subseteq {u \in Pending : h[u] = g[u]}
      BY <1>10, CallInduction
    <2>2. QED
      BY <2>1
  <1>12. QED
    BY <1>6, <1>8, <1>9, <1>11 DEF SearchOf

(* A call finds all it is given to go through, with every new id all that  *)
(* id links to, and nothing that links do not lead to.                     *)
FoundRight(links, w, r) ==
    /\ w.found \subseteq r /\ w.todo \subseteq r /\ r \subseteq Id
    /\ \A x \in r \ w.found : links[x] \subseteq r
    /\ \A S \in SUBSET Id :
           w.todo \subseteq S /\ (\A x \in S : links[x] \subseteq S) => r \subseteq w.found \cup S

(* Two calls after another find what the one that makes them should.       *)
LEMMA FoundTogether ==
    ASSUME NEW links \in [Id -> SUBSET Id], NEW w \in Pending, NEW x \in w.todo, x \notin w.found,
           NEW q, FoundRight(links, Call(links[x], w.found \cup {x}), q),
           NEW r, FoundRight(links, Call(w.todo \ {x}, q), r)
    PROVE  FoundRight(links, w, r)
  <1>1. w.found \cup {x} \subseteq q /\ links[x] \subseteq q /\ q \subseteq Id
    BY DEF FoundRight, Call
  <1>2. \A y \in q \ (w.found \cup {x}) : links[y] \subseteq q
    BY DEF FoundRight, Call
  <1>3. q \subseteq r /\ w.todo \ {x} \subseteq r /\ r \subseteq Id
    BY DEF FoundRight, Call
  <1>4. \A y \in r \ q : links[y] \subseteq r
    BY DEF FoundRight, Call
  <1>5. ASSUME NEW y \in r \ w.found
        PROVE  links[y] \subseteq r
    <2>1. CASE y = x
      BY <1>1, <1>3, <2>1
    <2>2. CASE y # x /\ y \in q
      BY <1>2, <1>3, <1>5, <2>2
    <2>3. CASE y \notin q
      BY <1>4, <1>5, <2>3
    <2>4. QED
      BY <2>1, <2>2, <2>3
  <1>6. ASSUME NEW S \in SUBSET Id, w.todo \subseteq S, \A y \in S : links[y] \subseteq S
        PROVE  r \subseteq w.found \cup S
    <2>1. links[x] \subseteq S /\ x \in S
      BY <1>6
    <2>2. q \subseteq (w.found \cup {x}) \cup S
      BY <1>6, <2>1 DEF FoundRight, Call
    <2>3. r \subseteq q \cup S
      <3>1. w.todo \ {x} \subseteq S
        BY <1>6
      <3>2. QED
        BY <1>6, <3>1 DEF FoundRight, Call
    <2>4. QED
      BY <2>1, <2>2, <2>3
  <1>7. w.found \subseteq r /\ w.todo \subseteq r
    BY <1>1, <1>3
  <1>8. QED
    BY <1>3, <1>5, <1>6, <1>7 DEF FoundRight

(* So it is for every call of every search.                                *)
LEMMA SearchRight ==
    ASSUME IsFiniteSet(Id), NEW links \in [Id -> SUBSET Id], NEW c \in Pending
    PROVE  FoundRight(links, c, Search(links)[c])
  <1>1. PICK g : g = Search(links)
    OBVIOUS
  <1>2. /\ \A w \in Pending : g[w] = Visited(links, g, w)
        /\ \A w \in Pending : g[w] \in SUBSET Id /\ w.found \subseteq g[w]
    <2>1. SearchOf(links, Pending, g)
      BY <1>1, SearchEnds
    <2>2. QED
      BY <2>1 DEF SearchOf
  <1>3. PICK Good : Good = {w \in Pending : FoundRight(links, w, g[w])}
    OBVIOUS
  <1>4. ASSUME NEW w \in Pending, \A v \in Pending : Rank(v) < Rank(w) => v \in Good
        PROVE  w \in Good
    <2>1. g[w] = Visited(links, g, w) /\ w.todo \subseteq Id
      BY <1>2 DEF Pending
    <2>2. CASE w.todo = {}
      <3>1. g[w] = w.found
        BY <2>1, <2>2 DEF Visited
      <3>2. QED
        BY <1>2, <1>3, <2>2, <3>1 DEF FoundRight
    <2>3. CASE w.todo # {} /\ Chosen(w.todo) \in w.found
      <3>1. PICK v, x : v = Call(Others(w), w.found) /\ x = Chosen(w.todo)
        OBVIOUS
      <3>2. v \in Good /\ v.found = w.found /\ v.todo = w.todo \ {x}
        BY <1>4, <2>3, <3>1, RankFalls DEF Call, Others
      <3>3. g[w] = g[v]
        BY <2>1, <2>3, <3>1 DEF Visited
      <3>4. FoundRight(links, v, g[v])
        BY <1>3, <3>2
      <3>5. FoundRight(links, w, g[v])
        BY <2>3, <3>1, <3>2, <3>4 DEF FoundRight
      <3>6. QED
        BY <1>3, <3>3, <3>5
    <2>4. CASE w.todo # {} /\ Chosen(w.todo) \notin w.found
      <3>1. PICK x, u, q, v :
                /\ x = Chosen(w.todo) /\ u = Deeper(links, w)
                /\ q = g[u] /\ v = Call(Others(w), q)
        OBVIOUS
      <3>2. u \in Good /\ u = Call(links[x], w.found \cup {x})
        BY <1>4, <2>4, <3>1, RankFalls DEF Deeper
      <3>3. q \in SUBSET Id /\ w.found \cup {x} \subseteq q
        BY <1>2, <1>3, <3>1, <3>2 DEF Call
      <3>4. v \in Good /\ v = Call(w.todo \ {x}, q)
        BY <1>4, <2>4, <3>1, <3>3, RankFalls DEF Others
      <3>5. g[w] = g[v]
        BY <2>1, <2>4, <3>1 DEF Visited
      <3>6. FoundRight(links, u, q) /\ FoundRight(links, v, g[v])
        BY <1>3, <3>1, <3>2, <3>4
      <3>7. x \in w.todo /\ x \notin w.found
        BY <2>4, <3>1 DEF Chosen
      <3>8. FoundRight(links, w, g[v])
        BY <3>2, <3>4, <3>6, <3>7, FoundTogether
      <3>9. QED
        BY <1>3, <3>5, <3>8
    <2>5. QED
      BY <2>2, <2>3, <2>4
  <1>5. Pending \subseteq Good
    BY <1>4, CallInduction
  <1>6. QED
    BY <1>1, <1>3, <1>5

(* A search that starts with nothing found ends with the least set that    *)
(* holds what it starts from and is closed under links.                    *)
LEMMA SearchLeast ==
    ASSUME IsFiniteSet(Id), NEW links \in [Id -> SUBSET Id], NEW from \in SUBSET Id
    PROVE  Search(links)[Call(from, {})] =
               {d \in Id : \A S \in SUBSET Id :
                               from \subseteq S /\ (\A x \in S : links[x] \subseteq S) => d \in S}
  <1>1. PICK c, r : c = Call(from, {}) /\ r = Search(links)[c]
    OBVIOUS
  <1>2. c \in Pending /\ c.todo = from /\ c.found = {}
    BY <1>1 DEF Call, Pending
  <1>3. FoundRight(links, c, r)
    BY <1>1, <1>2, SearchRight
  <1>4. /\ from \subseteq r /\ r \in SUBSET Id /\ \A x \in r : links[x] \subseteq r
        /\ \A S \in SUBSET Id :
               from \subseteq S /\ (\A x \in S : links[x] \subseteq S) => r \subseteq S
    BY <1>2, <1>3 DEF FoundRight
  <1>5. QED
    BY <1>1, <1>4

(* What GetAncestors and GetDescendants return, at any state of the graph. *)
LEMMA SearchesFind ==
    ASSUME IsFiniteSet(Id), DagTypeOK
    PROVE  SearchesFindAll
  <1> SUFFICES ASSUME NEW e \in Id
               PROVE  SearchParents(e) = Ancestors(e) /\ SearchChildren(e) = Descendants(e)
    BY DEF SearchesFindAll
  <1>1. SearchParents(e) = Ancestors(e)
    <2>1. PICK links, from : links = [x \in Id |-> ParentLinks(x)] /\ from = ParentLinks(e)
      OBVIOUS
    <2>2. links \in [Id -> SUBSET Id] /\ from \in SUBSET Id
      BY <2>1 DEF ParentLinks, DagTypeOK, EventContent
    <2>3. SearchParents(e) =
              {d \in Id : \A S \in SUBSET Id :
                              from \subseteq S /\ (\A x \in S : links[x] \subseteq S) => d \in S}
      <3>1. SearchParents(e) = Search(links)[Call(from, {})]
        BY <2>1 DEF SearchParents
      <3>2. QED
        BY <2>2, <3>1, SearchLeast
    <2>4. \A S \in SUBSET Id : (\A x \in S : links[x] \subseteq S) <=> ParentClosed(S)
      BY <2>1 DEF ParentLinks, ParentClosed
    <2>5. CASE e \in known
      BY <2>1, <2>3, <2>4, <2>5 DEF Ancestors, ParentLinks
    <2>6. CASE e \notin known
      <3>1. from = {} /\ \A x \in {} : links[x] \subseteq {}
        BY <2>1, <2>6 DEF ParentLinks
      <3>2. SearchParents(e) = {}
        BY <2>3, <3>1
      <3>3. QED
        BY <2>6, <3>2 DEF Ancestors
    <2>7. QED
      BY <2>5, <2>6
  <1>2. SearchChildren(e) = Descendants(e)
    <2>1. PICK links, from : links = children /\ from = children[e]
      OBVIOUS
    <2>2. links \in [Id -> SUBSET Id] /\ from \in SUBSET Id
      BY <2>1 DEF DagTypeOK
    <2>3. SearchChildren(e) =
              {d \in Id : \A S \in SUBSET Id :
                              from \subseteq S /\ (\A x \in S : links[x] \subseteq S) => d \in S}
      BY <2>1, <2>2, SearchLeast DEF SearchChildren
    <2>4. QED
      BY <2>1, <2>3 DEF Descendants
  <1>3. QED
    BY <1>1, <1>2

(* GetAncestors and GetDescendants return exactly the events that lead to  *)
(* one and those it leads to, whatever graph has been received, parents    *)
(* missing and cycles included.  The ids of events are finitely many.      *)
THEOREM SearchesComplete ==
    ASSUME IsFiniteSet(Id)
    PROVE  Spec => []SearchesFindAll
  <1>1. TypeOK => SearchesFindAll
    BY SearchesFind DEF TypeOK
  <1>2. QED
    BY <1>1, TypeCorrect, PTL

=============================================================================

