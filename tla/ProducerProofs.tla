--------------------------- MODULE ProducerProofs ---------------------------
(***************************************************************************)
(* Theorems about Producer for every finite set of transactions, every     *)
(* pool size, gas limit, batch size and channel capacity.                  *)
(***************************************************************************)
EXTENDS Producer, DataFacts, FiniteSetTheorems, TLAPS

----------------------------------------------------------------------------
(***************************************************************************)
(* Gas and batches.                                                        *)
(***************************************************************************)

(* The gas of a batch is a number, at most its length times a bound on the *)
(* gas of each transaction.                                                *)
LEMMA GasBounded ==
    ASSUME tx \in [Tx -> TxContent], NEW s \in Seq(Tx),
           NEW B \in Nat, \A t \in ToSet(s) : tx[t].gas <= B
    PROVE  Gas(s) \in Nat /\ Gas(s) <= Len(s) * B
  <1> DEFINE n == Len(s)
             g == [k \in 1 .. n |-> tx[s[k]].gas]
             Total(h) == h = [k \in 0 .. n |-> IF k = 0 THEN 0 ELSE h[k - 1] + tx[s[k]].gas]
             sum == CHOOSE h : Total(h)
  <1>1. /\ n \in Nat /\ g \in [1 .. n -> Nat]
        /\ \A k \in 1 .. n : g[k] = tx[s[k]].gas /\ g[k] <= B
    <2>1. n \in Nat /\ DOMAIN s = 1 .. n /\ \A k \in 1 .. n : s[k] \in Tx /\ s[k] \in ToSet(s)
      BY LenProperties DEF ToSet
    <2>2. \A k \in 1 .. n : tx[s[k]].gas \in Nat /\ tx[s[k]].gas <= B
      BY <2>1 DEF TxContent
    <2>3. QED
      BY <2>1, <2>2
  <1>2. ASSUME NEW h
        PROVE  Total(h) <=> h = [k \in 0 .. n |-> IF k = 0 THEN 0 ELSE h[k - 1] + g[k]]
    <2>1. \A k \in 0 .. n : k # 0 => g[k] = tx[s[k]].gas
      BY <1>1
    <2>2. [k \in 0 .. n |-> IF k = 0 THEN 0 ELSE h[k - 1] + tx[s[k]].gas]
            = [k \in 0 .. n |-> IF k = 0 THEN 0 ELSE h[k - 1] + g[k]]
      BY <2>1
    <2>3. QED
      BY <2>2
  <1>3. \E h : Total(h)
    <2> HIDE DEF n, g, Total
    <2>1. PICK h : h = [k \in 0 .. n |-> IF k = 0 THEN 0 ELSE h[k - 1] + g[k]]
      BY <1>1, TotalsExist
    <2>2. QED
      BY <2>1, <1>2
  <1>4. Total(sum)
    <2> HIDE DEF Total
    <2>1. QED
      BY <1>3
  <1>5. Gas(s) = sum[n]
    BY DEF Gas
  <1>6. \A k \in 0 .. n : sum[k] \in Nat /\ sum[k] <= k * B
    <2> HIDE DEF n, g, Total, sum
    <2>1. QED
      BY <1>1, <1>2, <1>4, TotalsBounded
  <1>7. QED
    <2> HIDE DEF n, sum
    <2>1. n \in 0 .. n
      BY <1>1
    <2>2. QED
      BY <1>5, <1>6, <2>1 DEF n

(* What GetPending returns is pooled, short enough and, read as a word,    *)
(* within the gas limit.                                                   *)
LEMMA PendingSound ==
    ASSUME PoolTypeOK, QueueExact, MaxTxs \in Nat, NEW b \in Pending(MaxTxs)
    PROVE  /\ b \in Seq(Tx)
           /\ ToSet(b) \subseteq txs
           /\ Len(b) <= MaxTxs
           /\ b # <<>> => Fits(b)
  <1>1. Live = txs
    BY DEF Live, QueueExact, PoolTypeOK
  <1>2. Cardinality(Live) \in Nat
    BY <1>1, FS_Subset, FS_CardinalityType, PoolAssumption DEF PoolTypeOK
  <1>3. PICK s \in PopOrders : b = SubSeq(s, 1, Taken(s, MaxTxs))
    BY DEF Pending
  <1>4. s \in Seq(txs) /\ Len(s) \in Nat
    <2>1. s \in [1 .. Cardinality(Live) -> txs]
      BY <1>1 DEF PopOrders
    <2>2. QED
      BY <1>2, <2>1, LenProperties
  <1> DEFINE n == Taken(s, MaxTxs)
             Takes == {m \in 0 .. Len(s) :
                         m <= MaxTxs /\ \A i \in 1 .. m : Fits(SubSeq(s, 1, i))}
  <1>5. n \in Takes
    <2>1. 0 \in Takes
      BY <1>4
    <2>2. n = Max(Takes)
      BY DEF Taken
    <2> HIDE DEF n, Takes
    <2>3. Takes \in SUBSET (0 .. Len(s))
      BY DEF Takes
    <2>4. QED
      BY <1>4, <2>1, <2>2, <2>3, MaxOfInterval
  <1>6. b \in Seq(txs) /\ Len(b) = n /\ ToSet(b) \subseteq ToSet(s)
    <2>1. n \in 0 .. Len(s)
      BY <1>5
    <2> HIDE DEF n, Takes
    <2>2. QED
      BY <1>3, <1>4, <2>1, ToSetPrefix DEF n
  <1>7. ToSet(s) \subseteq txs
    BY <1>4, LenProperties DEF ToSet
  <1>8. ASSUME b # <<>>
        PROVE  Fits(b)
    <2>1. n # 0
      BY <1>6, <1>8, EmptySeq
    <2>2. n \in 1 .. n
      BY <1>5, <2>1
    <2>3. QED
      BY <1>3, <1>5, <2>2
  <1>9. b \in Seq(Tx)
    BY <1>6 DEF PoolTypeOK
  <1>10. QED
    BY <1>5, <1>6, <1>7, <1>8, <1>9

----------------------------------------------------------------------------
(***************************************************************************)
(* The inductive invariant.  An acceptance is owed an event from the       *)
(* moment it is pooled until processMempool, having put it into an event,  *)
(* has yet to remove it: a pooled transaction in that state was paid for   *)
(* by the event, and one resubmitted meanwhile is removed with it.         *)
(***************************************************************************)
InBatch(t) == t \in ToSet(batch)

Owed(t) ==
    /\ t \in txs \/ (pc = "sign" /\ InBatch(t))
    /\ ~(pc = "remove" /\ InBatch(t))

(* Every acceptance has one event at most, and none while one is owed.     *)
Accounted ==
    \A t \in Tx : /\ included[t] <= accepted[t]
                  /\ Owed(t) => included[t] < accepted[t]

(* What is being removed is in an event.                                   *)
RemovingIncluded == pc = "remove" => \A t \in Tx : InBatch(t) => included[t] > 0

(* What is being signed was accepted by GetPending.                        *)
SigningFits == pc = "sign" => Fits(batch) /\ Len(batch) <= MaxTxs

IInv == TypeOK /\ QueueExact /\ Accounted /\ RemovingIncluded /\ SigningFits

(* The initial states satisfy the invariant.                               *)
LEMMA InitIInv == Init => IInv
  <1> SUFFICES ASSUME Init PROVE IInv
    OBVIOUS
  <1>1. Cardinality({}) = 0 /\ MaxSize \in Nat /\ ChanCap \in Nat /\ MaxAdds \in Nat
    BY FS_EmptySet, PoolAssumption, ProducerAssumption
  <1>2. PoolTypeOK
    BY <1>1, PoolAssumption DEF Init, PoolInit, PoolTypeOK
  <1>3. TypeOK
    <2>1. 0 \in 0 .. MaxAdds /\ <<>> \in Seq(Tx)
      BY <1>1
    <2>2. accepted \in [Tx -> 0 .. MaxAdds] /\ included \in [Tx -> Nat]
      BY <2>1 DEF Init
    <2>3. QED
      BY <1>2, <2>1, <2>2 DEF Init, TypeOK
  <1>4. QueueExact
    BY DEF Init, PoolInit, QueueExact
  <1>5. Accounted
    BY DEF Init, PoolInit, Accounted, Owed
  <1>6. QED
    BY <1>3, <1>4, <1>5 DEF Init, IInv, RemovingIncluded, SigningFits

(* Every step of the pool, but for Add, keeps its types; so does Add.      *)
LEMMA PoolStepTyped ==
    ASSUME PoolTypeOK, QueueExact,
           \/ \E t \in Tx : Add(t) \/ RemoveTx(t) \/ Age(t)
           \/ Cleanup \/ Clear \/ CloseChannel
    PROVE  PoolTypeOK' /\ QueueExact'
  <1>1. /\ tx \in [Tx -> TxContent] /\ txs \subseteq Tx /\ queued \in [Tx -> Nat]
        /\ tombstones \in Nat /\ aged \subseteq Tx /\ notices \in 0 .. ChanCap
        /\ chanOpen \in BOOLEAN /\ ChanCap \in Nat /\ MaxSize \in Nat
        /\ Cardinality(txs) <= MaxSize /\ IsFiniteSet(txs) /\ Cardinality(txs) \in Nat
    BY PoolAssumption, FS_Subset, FS_CardinalityType DEF PoolTypeOK
  <1>2. \A t \in Tx : queued[t] = IF t \in txs THEN 1 ELSE 0
    BY DEF QueueExact
  <1>3. \A S \in SUBSET txs : Cardinality(S) \in Nat /\ Cardinality(S) <= MaxSize
    BY <1>1, FS_Subset, FS_CardinalityType
  <1>4. ASSUME NEW t \in Tx, Add(t)
        PROVE  PoolTypeOK' /\ QueueExact'
    <2>1. t \notin txs /\ Cardinality(txs) < MaxSize /\ txs' = txs \cup {t}
      BY <1>4 DEF Add, Acceptable
    <2>2. Cardinality(txs') = Cardinality(txs) + 1
      BY <1>1, <2>1, FS_AddElement
    <2>3. Cardinality(txs') <= MaxSize
      BY <1>1, <2>1, <2>2
    <2>4. queued' \in [Tx -> Nat] /\ QueueExact'
      BY <1>1, <1>2, <1>4, <2>1 DEF Add, QueueExact
    <2>5. notices' \in 0 .. ChanCap
      BY <1>1, <1>4 DEF Add
    <2>6. QED
      BY <1>1, <1>4, <2>1, <2>3, <2>4, <2>5 DEF Add, PoolTypeOK
  <1>5. ASSUME NEW t \in Tx, RemoveTx(t)
        PROVE  PoolTypeOK' /\ QueueExact'
    <2>1. txs' = txs \ {t} /\ Cardinality(txs') <= MaxSize
      BY <1>3, <1>5 DEF RemoveTx
    <2>2. queued' \in [Tx -> Nat] /\ QueueExact'
      BY <1>1, <1>2, <1>5 DEF RemoveTx, QueueExact
    <2>3. QED
      BY <1>1, <1>5, <2>1, <2>2 DEF RemoveTx, PoolTypeOK
  <1>6. CASE Cleanup
    <2>1. txs' = txs \ aged /\ Cardinality(txs') <= MaxSize
      BY <1>3, <1>6 DEF Cleanup
    <2>2. QED
      BY <1>1, <1>6, <2>1 DEF Cleanup, PoolTypeOK, QueueExact
  <1>7. CASE Clear
    <2>1. txs' = {} /\ Cardinality(txs') <= MaxSize
      BY <1>3, <1>7 DEF Clear
    <2>2. QED
      BY <1>1, <1>7, <2>1 DEF Clear, PoolTypeOK, QueueExact
  <1>8. CASE CloseChannel
    BY <1>1, <1>2, <1>8 DEF CloseChannel, PoolTypeOK, QueueExact
  <1>9. ASSUME NEW t \in Tx, Age(t)
        PROVE  PoolTypeOK' /\ QueueExact'
    BY <1>1, <1>2, <1>9 DEF Age, PoolTypeOK, QueueExact
  <1>10. QED
    BY <1>4, <1>5, <1>6, <1>7, <1>8, <1>9

(* Every step keeps the types and the match of heap and pool.              *)
LEMMA TypeStep == TypeOK /\ QueueExact /\ [Next]_vars => TypeOK' /\ QueueExact'
  <1> SUFFICES ASSUME TypeOK, QueueExact, [Next]_vars
               PROVE  TypeOK' /\ QueueExact'
    OBVIOUS
  <1>1. /\ PoolTypeOK /\ pc \in {"idle", "sign", "remove"} /\ batch \in Seq(Tx)
        /\ accepted \in [Tx -> 0 .. MaxAdds] /\ included \in [Tx -> Nat]
        /\ {stopping, crashed} \subseteq BOOLEAN
    BY DEF TypeOK
  <1>2. UNCHANGED poolVars => PoolTypeOK' /\ QueueExact'
    BY <1>1 DEF poolVars, PoolTypeOK, QueueExact
  <1>3. ASSUME NEW t \in Tx, Submit(t)
        PROVE  TypeOK' /\ QueueExact'
    <2>1. PoolTypeOK' /\ QueueExact'
      BY <1>1, <1>3, PoolStepTyped DEF Submit
    <2>2. accepted' \in [Tx -> 0 .. MaxAdds]
      BY <1>1, <1>3, ProducerAssumption DEF Submit
    <2>3. chanOpen \in BOOLEAN
      BY <1>1 DEF PoolTypeOK
    <2>4. QED
      BY <1>1, <1>3, <2>1, <2>2, <2>3 DEF Submit, TypeOK
  <1>4. CASE ReadPending
    <2>1. batch' \in Seq(Tx)
      BY <1>1, <1>4, PendingSound, ProducerAssumption DEF ReadPending
    <2>2. QED
      BY <1>1, <1>2, <1>4, <2>1 DEF ReadPending, TypeOK, history
  <1>5. CASE AddToDag
    <2>1. included' \in [Tx -> Nat]
      BY <1>1, <1>5 DEF AddToDag
    <2>2. QED
      BY <1>1, <1>2, <1>5, <2>1 DEF AddToDag, TypeOK
  <1>6. CASE FailToAdd
    BY <1>1, <1>2, <1>6 DEF FailToAdd, TypeOK, history
  <1>7. CASE RemoveNext
    <2>1. Head(batch) \in Tx /\ Tail(batch) \in Seq(Tx)
      BY <1>1, <1>7 DEF RemoveNext
    <2>2. PoolTypeOK' /\ QueueExact'
      BY <1>1, <1>7, <2>1, PoolStepTyped DEF RemoveNext
    <2>3. QED
      BY <1>1, <1>7, <2>1, <2>2 DEF RemoveNext, TypeOK, history
  <1>8. CASE Finish
    BY <1>1, <1>2, <1>8 DEF Finish, TypeOK, history
  <1>9. CASE Background /\ UNCHANGED producerVars
    <2>1. PoolTypeOK' /\ QueueExact'
      BY <1>1, <1>9, PoolStepTyped DEF Background
    <2>2. QED
      BY <1>1, <1>9, <2>1 DEF producerVars, TypeOK, history
  <1>10. CASE StopClear
    <2>1. PoolTypeOK' /\ QueueExact'
      BY <1>1, <1>10, PoolStepTyped DEF StopClear
    <2>2. QED
      BY <1>1, <1>10, <2>1 DEF StopClear, TypeOK, history
  <1>11. CASE StopClose
    <2>1. PoolTypeOK' /\ QueueExact'
      BY <1>1, <1>11, PoolStepTyped DEF StopClose
    <2>2. QED
      BY <1>1, <1>11, <2>1 DEF StopClose, producerVars, TypeOK, history
  <1>12. CASE UNCHANGED vars
    BY <1>1, <1>2, <1>12 DEF vars, producerVars, TypeOK, history
  <1>13. QED
    BY <1>3, <1>4, <1>5, <1>6, <1>7, <1>8, <1>9, <1>10, <1>11, <1>12 DEF Next

(* Events and acceptances stay accounted for.                              *)
LEMMA AccountedStep ==
    ASSUME IInv, [Next]_vars
    PROVE  Accounted' /\ RemovingIncluded'
  <1>1. /\ PoolTypeOK /\ pc \in {"idle", "sign", "remove"} /\ batch \in Seq(Tx)
        /\ accepted \in [Tx -> 0 .. MaxAdds] /\ included \in [Tx -> Nat]
        /\ txs \subseteq Tx /\ MaxAdds \in Nat
    BY ProducerAssumption DEF IInv, TypeOK, PoolTypeOK
  <1>2. \A t \in Tx : accepted[t] \in Nat /\ included[t] \in Nat
    BY <1>1
  <1>3. /\ \A t \in Tx : included[t] <= accepted[t] /\ (Owed(t) => included[t] < accepted[t])
        /\ pc = "remove" => \A t \in Tx : InBatch(t) => included[t] > 0
    BY DEF IInv, Accounted, RemovingIncluded
  <1>4. ToSet(<<>>) = {}
    BY DEF ToSet
  <1>5. ASSUME UNCHANGED <<pc, batch, accepted, included>>, txs' \subseteq txs
        PROVE  Accounted' /\ RemovingIncluded'
    BY <1>3, <1>5 DEF Accounted, RemovingIncluded, Owed, InBatch
  <1>6. ASSUME NEW u \in Tx, Submit(u)
        PROVE  Accounted' /\ RemovingIncluded'
    <2>1. /\ txs' = txs \cup {u} /\ UNCHANGED <<pc, batch, included>>
          /\ accepted'[u] = accepted[u] + 1
          /\ \A t \in Tx \ {u} : accepted'[t] = accepted[t]
      BY <1>1, <1>6 DEF Submit, Add
    <2>2. RemovingIncluded'
      BY <1>3, <2>1 DEF RemovingIncluded, InBatch
    <2>3. \A t \in Tx \ {u} : Owed(t)' => Owed(t)
      BY <2>1 DEF Owed, InBatch
    <2>4. QED
      BY <1>2, <1>3, <2>1, <2>2, <2>3 DEF Accounted
  <1>7. CASE ReadPending
    <2>1. /\ ToSet(batch') \subseteq txs /\ pc = "idle" /\ pc' = "sign"
          /\ UNCHANGED <<txs, accepted, included>>
      BY <1>1, <1>7, PendingSound, ProducerAssumption DEF ReadPending, IInv, poolVars, history
    <2>2. \A t \in Tx : Owed(t)' => Owed(t)
      BY <2>1 DEF Owed, InBatch
    <2>3. Accounted'
      BY <1>3, <2>1, <2>2 DEF Accounted
    <2>4. RemovingIncluded'
      BY <2>1 DEF RemovingIncluded
    <2>5. QED
      BY <2>3, <2>4
  <1>8. CASE AddToDag
    <2>1. /\ pc = "sign" /\ pc' = "remove" /\ UNCHANGED <<txs, batch, accepted>>
          /\ \A t \in Tx : included'[t] = IF InBatch(t) THEN included[t] + 1 ELSE included[t]
      BY <1>8 DEF AddToDag, poolVars, InBatch
    <2>2. \A t \in Tx : IF InBatch(t) THEN Owed(t) /\ ~Owed(t)' ELSE Owed(t)' => Owed(t)
      BY <2>1 DEF Owed, InBatch
    <2>3. Accounted'
      BY <1>2, <1>3, <2>1, <2>2 DEF Accounted
    <2>4. RemovingIncluded'
      BY <1>2, <2>1 DEF RemovingIncluded, InBatch
    <2>5. QED
      BY <2>3, <2>4
  <1>9. CASE FailToAdd
    <2>1. pc' = "idle" /\ UNCHANGED <<txs, accepted, included>> /\ pc = "sign"
      BY <1>9 DEF FailToAdd, poolVars, history
    <2>2. \A t \in Tx : Owed(t)' => Owed(t)
      BY <2>1 DEF Owed
    <2>3. Accounted'
      BY <1>3, <2>1, <2>2 DEF Accounted
    <2>4. RemovingIncluded'
      BY <2>1 DEF RemovingIncluded
    <2>5. QED
      BY <2>3, <2>4
  <1>10. CASE RemoveNext
    <2>1. /\ pc = "remove" /\ batch # <<>> /\ txs' = txs \ {Head(batch)}
          /\ batch' = Tail(batch) /\ UNCHANGED <<pc, accepted, included>>
      BY <1>10 DEF RemoveNext, RemoveTx, history
    <2>2. /\ ToSet(batch') \subseteq ToSet(batch)
          /\ ToSet(batch) \subseteq {Head(batch)} \cup ToSet(batch')
      BY <1>1, <2>1, ToSetHeadTail
    <2>3. \A t \in Tx : Owed(t)' => Owed(t)
      BY <2>1, <2>2 DEF Owed, InBatch
    <2>4. QED
      BY <1>3, <2>1, <2>2, <2>3 DEF Accounted, RemovingIncluded, InBatch
  <1>11. CASE Finish
    <2>1. /\ pc = "remove" /\ pc' = "idle" /\ batch = <<>>
          /\ UNCHANGED <<txs, batch, accepted, included>>
      BY <1>11 DEF Finish, poolVars, history
    <2>2. \A t \in Tx : Owed(t)' => Owed(t)
      BY <1>4, <2>1 DEF Owed, InBatch
    <2>3. QED
      BY <1>3, <2>1, <2>2 DEF Accounted, RemovingIncluded
  <1>12. CASE Background /\ UNCHANGED producerVars
    BY <1>5, <1>12 DEF Background, Age, Cleanup, producerVars, history
  <1>13. CASE StopClear
    BY <1>5, <1>13 DEF StopClear, Clear, history
  <1>14. CASE StopClose
    BY <1>5, <1>14 DEF StopClose, CloseChannel, producerVars, history
  <1>15. CASE UNCHANGED vars
    BY <1>5, <1>15 DEF vars, poolVars, producerVars, history
  <1>16. QED
    BY <1>6, <1>7, <1>8, <1>9, <1>10, <1>11, <1>12, <1>13, <1>14, <1>15 DEF Next

(* What was read for an event does not change before it is signed.         *)
LEMMA SigningStep ==
    ASSUME IInv, [Next]_vars
    PROVE  SigningFits'
  <1>1. CASE ReadPending
    <2>1. batch' \in Pending(MaxTxs) /\ batch' # <<>> /\ UNCHANGED tx
      BY <1>1 DEF ReadPending, poolVars
    <2>2. Fits(batch') /\ Len(batch') <= MaxTxs
      BY <2>1, PendingSound, ProducerAssumption DEF IInv, TypeOK
    <2>3. Fits(batch)' <=> Fits(batch')
      BY <2>1 DEF Fits, Gas
    <2>4. QED
      BY <2>2, <2>3 DEF SigningFits
  <1>2. ASSUME UNCHANGED <<tx, pc, batch>>
        PROVE  SigningFits'
    BY <1>2 DEF IInv, SigningFits, Fits, Gas
  <1>3. ASSUME pc' # "sign"
        PROVE  SigningFits'
    BY <1>3 DEF SigningFits
  <1>4. CASE UNCHANGED vars
    BY <1>2, <1>4 DEF vars, poolVars, producerVars
  <1>5. CASE Next /\ ~ReadPending
    <2>1. UNCHANGED <<tx, pc, batch>> \/ pc' # "sign"
      BY <1>5
         DEF Next, Submit, Add, AddToDag, FailToAdd, RemoveNext, RemoveTx, Finish,
             Background, Age, Cleanup, StopClear, Clear, StopClose, CloseChannel,
             poolVars, producerVars
    <2>2. QED
      BY <1>2, <1>3, <2>1
  <1>6. QED
    BY <1>1, <1>4, <1>5

(* The invariant holds always.                                             *)
LEMMA IInvHolds == Spec => []IInv
  <1>1. IInv /\ [Next]_vars => IInv'
    <2> SUFFICES ASSUME IInv, [Next]_vars PROVE IInv'
      OBVIOUS
    <2>1. TypeOK' /\ QueueExact'
      BY TypeStep DEF IInv
    <2>2. Accounted' /\ RemovingIncluded'
      BY AccountedStep
    <2>3. SigningFits'
      BY SigningStep
    <2>4. QED
      BY <2>1, <2>2, <2>3 DEF IInv
  <1>2. QED
    BY <1>1, InitIInv, PTL DEF Spec

----------------------------------------------------------------------------
(***************************************************************************)
(* Theorems.                                                               *)
(***************************************************************************)

(* Every variable keeps its type; the pool never exceeds MaxSize.          *)
THEOREM TypeCorrect == Spec => []TypeOK
  BY IInvHolds, PTL DEF IInv

(* The heap of Mempool always has one live entry per pooled transaction,   *)
(* although Remove leaves tombstones and only cleanup rebuilds it.         *)
THEOREM QueueMatchesPool == Spec => []QueueExact
  BY IInvHolds, PTL DEF IInv

(* No acceptance is included twice, however Add, Remove and cleanup run    *)
(* between the steps of processMempool.                                    *)
THEOREM AcceptanceOnce == Spec => []OneEventPerAcceptance
  <1>1. IInv => OneEventPerAcceptance
    BY DEF IInv, Accounted, OneEventPerAcceptance
  <1>2. QED
    BY <1>1, IInvHolds, PTL

(* Only inclusion, age or Stop takes a transaction out of the pool.        *)
THEOREM NothingDropped == Spec => NoSilentDrop
  <1> DEFINE Kept == \A t \in txs \ txs' : stopping' \/ t \in aged \/ included[t] > 0
  <1>1. ASSUME IInv, [Next]_vars
        PROVE  Kept
    <2>1. /\ txs \subseteq Tx /\ batch \in Seq(Tx)
          /\ pc = "remove" => \A t \in Tx : InBatch(t) => included[t] > 0
      BY <1>1 DEF IInv, TypeOK, PoolTypeOK, RemovingIncluded
    <2>2. CASE RemoveNext
      <3>1. pc = "remove" /\ batch # <<>> /\ txs' = txs \ {Head(batch)}
        BY <2>2 DEF RemoveNext, RemoveTx
      <3>2. InBatch(Head(batch))
        BY <2>1, <3>1, ToSetHeadTail DEF InBatch
      <3>3. QED
        BY <2>1, <3>1, <3>2
    <2>3. CASE Cleanup
      BY <2>3 DEF Cleanup
    <2>4. CASE StopClear
      BY <2>4 DEF StopClear
    <2>5. CASE ~RemoveNext /\ ~Cleanup /\ ~StopClear
      <3>1. txs \subseteq txs'
        BY <1>1, <2>5
           DEF Next, vars, Submit, Add, ReadPending, AddToDag, FailToAdd, Finish,
               Background, Age, StopClose, CloseChannel, poolVars
      <3>2. QED
        BY <3>1
    <2>6. QED
      BY <2>2, <2>3, <2>4, <2>5
  <1>2. IInv /\ [Next]_vars => [Kept]_vars
    BY <1>1
  <1>3. QED
    BY <1>2, IInvHolds, PTL DEF Spec, NoSilentDrop

(* A batch stays within the gas limit, provided that as many transactions  *)
(* as one reads cannot overflow the word GetPending sums in: the code has  *)
(* no such provision, and MCBatchOverflow shows what then happens.         *)
THEOREM BatchesFit ==
    ASSUME NEW B \in Nat, MaxTxs * B < Word,
           \A o \in Offers : \A t \in Tx : o[t].gas <= B
    PROVE  Spec => []BatchWithinGas
  <1> DEFINE Small == tx \in Offers
  <1>1. Spec => []Small
    <2>1. Init => Small
      BY DEF Init, PoolInit
    <2>2. Small /\ [Next]_vars => Small'
      BY DEF Next, vars, Submit, Add, ReadPending, AddToDag, FailToAdd, RemoveNext, RemoveTx,
             Finish, Background, Age, Cleanup, StopClear, Clear,
             StopClose, CloseChannel, poolVars
    <2>3. QED
      BY <2>1, <2>2, PTL DEF Spec
  <1>2. IInv /\ Small => BatchWithinGas
    <2> SUFFICES ASSUME IInv, Small, pc = "sign"
                 PROVE  Gas(batch) <= MaxGas
      BY DEF BatchWithinGas
    <2>1. /\ batch \in Seq(Tx) /\ tx \in [Tx -> TxContent] /\ Len(batch) <= MaxTxs
          /\ Gas(batch) % Word <= MaxGas
      BY DEF IInv, TypeOK, PoolTypeOK, SigningFits, Fits
    <2>2. Gas(batch) \in Nat /\ Gas(batch) <= Len(batch) * B
      <3>1. \A t \in ToSet(batch) : t \in Tx
        BY <2>1, LenProperties DEF ToSet
      <3>2. \A t \in ToSet(batch) : tx[t].gas <= B
        BY <3>1
      <3>3. QED
        BY <2>1, <3>2, GasBounded
    <2>3. Len(batch) \in Nat /\ MaxTxs \in Nat /\ Word \in Nat \ {0}
      BY <2>1, LenProperties, PoolAssumption, ProducerAssumption
    <2>4. Len(batch) * B <= MaxTxs * B /\ Len(batch) * B \in Nat /\ MaxTxs * B \in Nat
      BY <2>1, <2>3
    <2>5. Gas(batch) < Word
      BY <2>2, <2>3, <2>4
    <2>6. Gas(batch) % Word = Gas(batch)
      BY <2>2, <2>3, <2>5
    <2>7. QED
      BY <2>1, <2>6
  <1>3. QED
    BY <1>1, <1>2, IInvHolds, PTL

=============================================================================
