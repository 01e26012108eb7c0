------------------------------ MODULE Mempool ------------------------------
(***************************************************************************)
(* type Mempool of pkg/mempool/mempool.go.  Every method holds m.mu from   *)
(* its first line to its last, except Stop, and is one step.               *)
(*                                                                         *)
(* The heap array is abstracted to how many live entries it holds for each *)
(* transaction and how many tombstones (entries of Priority -1): the array *)
(* itself is only ever copied and heapified again by GetPending.           *)
(* A priority is the quotient fee / gas, compared by cross-multiplication. *)
(* Nobody in this node reads txChannel: it fills up and then drops.        *)
(***************************************************************************)
EXTENDS Naturals, Sequences, FiniteSets, SequencesExt

CONSTANTS
    Tx,         \* names of transactions
    Offers,     \* the families of transactions clients may have signed
    MaxSize,    \* 10000 in the code
    MaxGas,     \* max_gas_per_round of the configuration
    ChanCap,    \* capacity of txChannel, 1000 in the code
    Word        \* 2^64: gas is summed in a uint64

TxContent == [fee : Nat, gas : Nat \ {0}, time : Nat]

ASSUME PoolAssumption ==
    /\ IsFiniteSet(Tx)
    /\ Offers \subseteq [Tx -> TxContent]
    /\ MaxSize \in Nat /\ MaxGas \in Nat /\ ChanCap \in Nat /\ Word \in Nat \ {0}

VARIABLES
    tx,         \* tx[t]: the content of transaction t
    txs,        \* the keys of m.txs
    queued,     \* queued[t]: entries of t in the heap that are not tombstones
    tombstones, \* entries of the heap with Priority -1
    aged,       \* the transactions older than 24 hours
    notices,    \* how many notifications txChannel holds
    chanOpen    \* FALSE once txChannel is closed

poolVars == <<tx, txs, queued, tombstones, aged, notices, chanOpen>>

PoolTypeOK ==
    /\ tx \in [Tx -> TxContent]
    /\ txs \subseteq Tx
    /\ Cardinality(txs) <= MaxSize
    /\ queued \in [Tx -> Nat]
    /\ tombstones \in Nat
    /\ aged \subseteq Tx
    /\ notices \in 0 .. ChanCap
    /\ chanOpen \in BOOLEAN

PoolInit ==
    /\ tx \in Offers
    /\ txs = {}
    /\ queued = [t \in Tx |-> 0]
    /\ tombstones = 0
    /\ aged = {}
    /\ notices = 0
    /\ chanOpen = TRUE

----------------------------------------------------------------------------
(***************************************************************************)
(* GetPending.  An operator named ...Bug is a plausible mistake in the     *)
(* definition that follows it.                                             *)
(***************************************************************************)

Before(a, b) ==
    LET x == tx[a].fee * tx[b].gas
        y == tx[b].fee * tx[a].gas
    IN  x > y \/ (x = y /\ tx[a].time < tx[b].time)

Live == {t \in Tx : queued[t] > 0}

(* The orders in which a heap of the live entries may be popped.           *)
PopOrders ==
    {s \in [1 .. Cardinality(Live) -> Live] :
        \A i, j \in DOMAIN s : i < j => s[i] # s[j] /\ ~Before(s[j], s[i])}

Gas(s) ==
    LET sum[n \in 0 .. Len(s)] == IF n = 0 THEN 0 ELSE sum[n - 1] + tx[s[n]].gas
    IN  sum[Len(s)]

StrictFitsBug(s) == Gas(s) % Word < MaxGas

Fits(s) == Gas(s) % Word <= MaxGas

TakeBeforeCheckBug(s, maxTxs) ==
    Max({n \in 0 .. Len(s) : n <= maxTxs /\ \A i \in 0 .. n - 1 : Fits(SubSeq(s, 1, i))})

(* How many are popped before the limit, the gas or the queue runs out.    *)
Taken(s, maxTxs) ==
    Max({n \in 0 .. Len(s) : n <= maxTxs /\ \A i \in 1 .. n : Fits(SubSeq(s, 1, i))})

Pending(maxTxs) == {SubSeq(s, 1, Taken(s, maxTxs)) : s \in PopOrders}

----------------------------------------------------------------------------
FullPoolBug(t) == t \notin txs /\ Cardinality(txs) <= MaxSize

Acceptable(t) == t \notin txs /\ Cardinality(txs) < MaxSize

(* The entry is in the pool before the send, which a closed channel turns  *)
(* into a panic and a full one into a dropped notification.                *)
Add(t) ==
    /\ Acceptable(t)
    /\ txs' = txs \cup {t}
    /\ queued' = [queued EXCEPT ![t] = @ + 1]
    /\ notices' = IF chanOpen /\ notices < ChanCap THEN notices + 1 ELSE notices
    /\ UNCHANGED <<tx, tombstones, aged, chanOpen>>

RemoveKeepsEntryBug(t) ==
    /\ txs' = txs \ {t}
    /\ UNCHANGED <<tx, queued, tombstones, aged, notices, chanOpen>>

(* The heap entry becomes a tombstone.                                     *)
RemoveTx(t) ==
    /\ txs' = txs \ {t}
    /\ queued' = IF t \in txs THEN [queued EXCEPT ![t] = @ - 1] ELSE queued
    /\ tombstones' = IF t \in txs THEN tombstones + 1 ELSE tombstones
    /\ UNCHANGED <<tx, aged, notices, chanOpen>>

(* cleanup rebuilds the heap only when it removed something.               *)
Cleanup ==
    /\ txs \cap aged # {}
    /\ txs' = txs \ aged
    /\ queued' = [t \in Tx |-> IF t \in txs' THEN 1 ELSE 0]
    /\ tombstones' = 0
    /\ UNCHANGED <<tx, aged, notices, chanOpen>>

(* 24 hours have passed since the timestamp of t.                          *)
Age(t) ==
    /\ t \notin aged
    /\ aged' = aged \cup {t}
    /\ UNCHANGED <<tx, txs, queued, tombstones, notices, chanOpen>>

Clear ==
    /\ txs' = {}
    /\ queued' = [t \in Tx |-> 0]
    /\ tombstones' = 0
    /\ UNCHANGED <<tx, aged, notices, chanOpen>>

CloseChannel ==
    /\ chanOpen' = FALSE
    /\ UNCHANGED <<tx, txs, queued, tombstones, aged, notices>>

=============================================================================
