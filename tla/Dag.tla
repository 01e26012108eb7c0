-------------------------------- MODULE Dag --------------------------------
(***************************************************************************)
(* The event graph of pkg/consensus/types.go: type DAG and its methods.    *)
(*                                                                         *)
(* An event is immutable once its creator has signed it, so its content is *)
(* kept in the variable event, which Init picks from the constant Gossip   *)
(* and no step changes; known is the set of keys of the Go map d.events.   *)
(* An event may name parents that this node has not received (yet): the    *)
(* code accepts it, and so does the model.                                 *)
(*                                                                         *)
(* Go maps from ids to bool (famous, finalized) are the set of ids mapped  *)
(* to true, and a slice whose order nobody reads (children) is a set; the  *)
(* witness slices keep their order.  d.parents is written and never read,  *)
(* and event metadata only mirrors these maps: neither is modelled.        *)
(***************************************************************************)
EXTENDS Naturals, Sequences, SequencesExt

CONSTANTS
    Id,          \* names of events
    NoId,        \* the empty name, which AddEvent refuses
    Validators,  \* creators of events
    MaxRound,    \* the largest round an event carries; uint64 in the code
    Gossip       \* the families of events the validators may have created

Rounds == 0 .. MaxRound

EventContent == [creator : Validators, round : Rounds, parents : SUBSET Id]

ASSUME DagAssumption ==
    /\ NoId \notin Id
    /\ MaxRound \in Nat
    /\ Gossip \subseteq [Id -> EventContent]

VARIABLES
    event,      \* event[e]: the content of the event named e
    known,      \* the events this node has added to its graph
    children,   \* children[p]: the known events that name p as a parent
    witnesses,  \* witnesses[r]: the witnesses of round r, oldest first
    famous,     \* the events last judged famous
    finalized   \* the events marked final

dagVars == <<event, known, children, witnesses, famous, finalized>>

DagTypeOK ==
    /\ event \in [Id -> EventContent]
    /\ known \subseteq Id
    /\ children \in [Id -> SUBSET Id]
    /\ witnesses \in [Rounds -> Seq(Id)]
    /\ famous \subseteq Id
    /\ finalized \subseteq Id

DagInit ==
    /\ event \in Gossip
    /\ known = {}
    /\ children = [p \in Id |-> {}]
    /\ witnesses = [r \in Rounds |-> <<>>]
    /\ famous = {}
    /\ finalized = {}

----------------------------------------------------------------------------
(***************************************************************************)
(* Queries.                                                                *)
(***************************************************************************)

(* S is closed under following the parents of known events.                *)
ParentClosed(S) == \A x \in S \cap known : event[x].parents \subseteq S

(* What the depth-first search returns: the ids reachable from e through   *)
(* parents of known events, unknown ids included.  Stated as a least set   *)
(* so that it can be reasoned about; DagSearch checks the search itself.   *)
Ancestors(e) ==
    IF e \in known
    THEN {a \in Id : \A S \in SUBSET Id :
                        event[e].parents \subseteq S /\ ParentClosed(S) => a \in S}
    ELSE {}

(* The ids reachable from e through child links; e need not be known.      *)
Descendants(e) ==
    {d \in Id : \A S \in SUBSET Id :
                    /\ children[e] \subseteq S
                    /\ \A x \in S : children[x] \subseteq S
                    => d \in S}

StronglySee(a, b) == b \in Ancestors(a)

(* The code's filter keeps every entry: WitnessListsSound.                 *)
GetWitnesses(r) == IF r \in Rounds THEN witnesses[r] ELSE <<>>

TwoThirdsBug(n) == (n * 2) \div 3

Quorum(n) == (n * 2) \div 3 + 1

LatestRound == Max({0} \cup {event[x].round : x \in known})

MaxParentRound(e) == Max({0} \cup {event[p].round : p \in event[e].parents \cap known})

CanCreateNewRound(e, r) ==
    LET ws == GetWitnesses(r) IN
    /\ ws # <<>>
    /\ Len(SelectSeq(ws, LAMBDA w : StronglySee(e, w))) >= Quorum(Len(ws))

RoundNumber(e) ==
    LET r == MaxParentRound(e) IN IF CanCreateNewRound(e, r) THEN r + 1 ELSE r

----------------------------------------------------------------------------
(***************************************************************************)
(* Adding an event.  An operator named ...Bug is a plausible mistake in    *)
(* the definition that follows it, kept to show which property notices.    *)
(***************************************************************************)

AddableTwiceBug(e) == e # NoId

AddableAfterParentsBug(e) ==
    e # NoId /\ e \notin known /\ event[e].parents \subseteq known

Addable(e) == e # NoId /\ e \notin known

AnyParentEarlierBug(e) ==
    event[e].parents \cap known # {} =>
        \E p \in event[e].parents \cap known : event[p].round # event[e].round

AlwaysWitnessBug(e) == TRUE

(* Judged with the parents known when e arrives; d.events already has e.   *)
IsWitness(e) ==
    \A p \in event[e].parents \cap (known \cup {e}) : event[p].round # event[e].round

LinkKnownParentsBug(e) ==
    [p \in Id |-> IF p \in event[e].parents \cap known
                  THEN children[p] \cup {e} ELSE children[p]]

LinkChild(e) ==
    [p \in Id |-> IF p \in event[e].parents THEN children[p] \cup {e} ELSE children[p]]

AddEvent(e) ==
    /\ Addable(e)
    /\ known' = known \cup {e}
    /\ children' = LinkChild(e)
    /\ witnesses' = IF IsWitness(e)
                    THEN [witnesses EXCEPT ![event[e].round] = Append(@, e)]
                    ELSE witnesses
    /\ UNCHANGED <<event, famous, finalized>>

RejectEvent(e) == ~Addable(e) /\ UNCHANGED dagVars

=============================================================================
