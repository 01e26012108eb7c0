---------------------------- MODULE MCConsensus ----------------------------
(***************************************************************************)
(* Instances of Consensus for TLC.  Events are numbered in the order their *)
(* creators made them, so parents have smaller numbers and no larger       *)
(* rounds; event 1 is the genesis event.                                   *)
(***************************************************************************)
EXTENDS Consensus, DagSearch

CONSTANTS
    NEvents    \* how many events are ever created

MCId == 1 .. NEvents

MCGossip ==
    {g \in [MCId -> [creator : Validators, round : Rounds, parents : SUBSET MCId]] :
        \A e \in MCId :
            /\ e = 1 => g[e].round = 0
            /\ \A p \in g[e].parents : p < e /\ g[p].round <= g[e].round}

(* One family: 2 is in the round of its parent 1, 3 in the next, 4 votes.  *)
MCChain ==
    {[e \in MCId |-> [creator |-> CHOOSE v \in Validators : TRUE,
                      round |-> IF e <= 2 THEN 0 ELSE e - 2,
                      parents |-> {p \in MCId : p = e - 1}]]}

ASSUME GossipAssumption == RoundsNeverFall

(* As in the tests: events are added directly, parents first, fame is      *)
(* determined for every round and finality checked for every event, again  *)
(* and again.                                                              *)
DiligentSpec ==
    /\ Init
    /\ [][~crashed /\ Operate /\ ParentsFirst /\ eventChan' = <<>> /\ currentRound' = 0]_vars
    /\ Fairness
    /\ \A e \in Id : WF_vars(CheckFinality(e))
    /\ \A r \in Rounds : SF_vars(FameBegin(r))

=============================================================================
