------------------------------ MODULE Producer ------------------------------
(***************************************************************************)
(* How transactions travel from clients through the Mempool into events:   *)
(* processMempool of pkg/node/node_production.go, which runs on every tick *)
(* of the event loop, beside the API and sync handlers that call Add, the  *)
(* pool's cleanup goroutine and Stop.                                      *)
(*                                                                         *)
(* processMempool reads the pool, signs an event and adds it to the graph, *)
(* then removes the transactions one by one; the pool's lock is free in    *)
(* between.  accepted and included are history variables.                  *)
(***************************************************************************)
EXTENDS Mempool

CONSTANTS
    MaxTxs,    \* the argument of GetPending, 100 in the code
    MaxAdds    \* bound on how often one transaction is accepted

ASSUME ProducerAssumption == MaxTxs \in Nat /\ MaxAdds \in Nat

VARIABLES
    pc,        \* where processMempool is
    batch,     \* what it read; in "remove", what it has still to remove
    accepted,  \* accepted[t]: how often Add(t) returned true
    included,  \* included[t]: how many events of this node contain t
    stopping,  \* Stop has emptied the pool
    crashed    \* Add sent on the closed channel

history == <<accepted, included>>
producerVars == <<pc, batch, history, stopping, crashed>>
vars == <<poolVars, producerVars>>

TypeOK ==
    /\ PoolTypeOK
    /\ pc \in {"idle", "sign", "remove"}
    /\ batch \in Seq(Tx)
    /\ accepted \in [Tx -> 0 .. MaxAdds]
    /\ included \in [Tx -> Nat]
    /\ {stopping, crashed} \subseteq BOOLEAN

Init ==
    /\ PoolInit
    /\ pc = "idle"
    /\ batch = <<>>
    /\ accepted = [t \in Tx |-> 0]
    /\ included = [t \in Tx |-> 0]
    /\ stopping = FALSE
    /\ crashed = FALSE

----------------------------------------------------------------------------
(* A client submits t, for the first time or again.                        *)
Submit(t) ==
    /\ accepted[t] < MaxAdds
    /\ Add(t)
    /\ accepted' = [accepted EXCEPT ![t] = @ + 1]
    /\ crashed' = ~chanOpen
    /\ UNCHANGED <<pc, batch, included, stopping>>

ReadPending ==
    /\ pc = "idle"
    /\ \E b \in Pending(MaxTxs) : b # <<>> /\ batch' = b
    /\ pc' = "sign"
    /\ UNCHANGED <<poolVars, history, stopping, crashed>>

(* Sign and AddEvent succeed.                                              *)
AddToDag ==
    /\ pc = "sign"
    /\ pc' = "remove"
    /\ included' = [t \in Tx |-> IF t \in ToSet(batch) THEN included[t] + 1 ELSE included[t]]
    /\ UNCHANGED <<poolVars, batch, accepted, stopping, crashed>>

FailForwardBug ==
    /\ pc = "sign"
    /\ pc' = "remove"
    /\ UNCHANGED <<poolVars, batch, history, stopping, crashed>>

(* Sign fails, or the generated event id is taken.                         *)
FailToAdd ==
    /\ pc = "sign"
    /\ pc' = "idle"
    /\ batch' = <<>>
    /\ UNCHANGED <<poolVars, history, stopping, crashed>>

LeaveIncludedBug ==
    /\ pc = "remove"
    /\ batch # <<>>
    /\ batch' = Tail(batch)
    /\ UNCHANGED <<poolVars, pc, history, stopping, crashed>>

RemoveNext ==
    /\ pc = "remove"
    /\ batch # <<>>
    /\ RemoveTx(Head(batch))
    /\ batch' = Tail(batch)
    /\ UNCHANGED <<pc, history, stopping, crashed>>

Finish ==
    /\ pc = "remove"
    /\ batch = <<>>
    /\ pc' = "idle"
    /\ UNCHANGED <<poolVars, batch, history, stopping, crashed>>

StopClear ==
    /\ ~stopping
    /\ stopping' = TRUE
    /\ Clear
    /\ UNCHANGED <<pc, batch, history, crashed>>

StopClose ==
    /\ stopping
    /\ chanOpen
    /\ CloseChannel
    /\ UNCHANGED producerVars

----------------------------------------------------------------------------
Background ==
    \/ \E t \in Tx : Age(t)
    \/ Cleanup

Next ==
    /\ ~crashed
    /\ \/ \E t \in Tx : Submit(t)
       \/ ReadPending \/ AddToDag \/ FailToAdd \/ RemoveNext \/ Finish
       \/ Background /\ UNCHANGED producerVars
       \/ StopClear \/ StopClose

Spec == Init /\ [][Next]_vars

(* Until it is stopped, the event loop ticks, and signing an event         *)
(* succeeds again and again.                                               *)
Fairness ==
    /\ WF_vars(~stopping /\ ReadPending)
    /\ SF_vars(~stopping /\ AddToDag)
    /\ WF_vars(~stopping /\ RemoveNext)
    /\ WF_vars(~stopping /\ Finish)

FairSpec == Spec /\ Fairness

----------------------------------------------------------------------------
(* The heap holds exactly one live entry for every pooled transaction,     *)
(* through removals by tombstone, resubmissions and rebuilds.              *)
QueueExact == \A t \in Tx : queued[t] = IF t \in txs THEN 1 ELSE 0

(* An accepted transaction leaves the pool of a running node only because  *)
(* an event contains it or because it is too old, never because it was     *)
(* read by a processMempool that failed.                                   *)
NoSilentDrop ==
    [][\A t \in txs \ txs' : stopping' \/ t \in aged \/ included[t] > 0]_vars

(* Each acceptance puts a transaction into at most one event, although the *)
(* pool may change between reading it and removing what was read.          *)
OneEventPerAcceptance == \A t \in Tx : included[t] <= accepted[t]

(* What is read for one event stays within the gas limit.                  *)
BatchWithinGas == pc = "sign" => Gas(batch) <= MaxGas

(* When every transaction fits the limit by itself, none waits forever in  *)
(* a running node: it is neither starved by better paid ones nor blocked   *)
(* by the limit.                                                           *)
PooledLeave ==
    (\A t \in Tx : tx[t].gas <= MaxGas) =>
        \A t \in Tx : t \in txs ~> t \notin txs \/ stopping

(***************************************************************************)
(* What documents say, and the code does not do.                           *)
(***************************************************************************)

(* A duplicate is detected: no transaction is in two events.               *)
IncludedOnce == \A t \in Tx : included[t] <= 1

=============================================================================
