--------------------------- MODULE ExecutorProofs ---------------------------
(***************************************************************************)
(* Theorems about Executor.  A write of an execution keeps every nonce but *)
(* the last one, which sets the sender's to the transaction's; so the      *)
(* nonces are intact wherever an execution is cut off, although accounts   *)
(* are saved from copies.  The same holds, up to what the execution under  *)
(* way has added, of the coins, the tokens and the stakes.                 *)
(***************************************************************************)
EXTENDS Executor, DataFacts, TLAPS

NonceOf(l, a) == l.accounts[a].nonce

SameNonces(l, m) == \A a \in Addr : NonceOf(l, a) = NonceOf(m, a)

(* m has the nonces of l, except that t has been executed.                 *)
NonceMoved(t, l, m) ==
    \A a \in Addr : NonceOf(m, a) = IF a = tx[t].sender THEN tx[t].nonce ELSE NonceOf(l, a)

CacheSound(l) ==
    \A v \in Addr : l.registry[v].stored => l.registry[v] = l.validators[v]

(* A sound ledger with the nonces of the present one.                      *)
Intermediate(l) == l \in Ledger /\ CacheSound(l) /\ SameNonces(l, ledger)

Outcome(t, l) == l \in Ledger /\ CacheSound(l) /\ NonceMoved(t, ledger, l)

(* What an execution that has begun will write.                            *)
Plan ==
    /\ pc \in {"idle", "dead"} => todo = <<>>
    /\ pc = "doomed" => \A i \in 1 .. Len(todo) : Intermediate(todo[i])
    /\ pc = "commit" =>
           /\ tx[current].nonce = NonceOf(ledger, tx[current].sender) + 1
           /\ \A i \in 1 .. Len(todo) - 1 : Intermediate(todo[i])
           /\ Outcome(current, todo[Len(todo)])

IInv == TypeOK /\ CacheSound(ledger) /\ ExecutedOnce /\ NonceIsHistory /\ Plan

----------------------------------------------------------------------------
(* Amounts stay within the word.                                           *)
LEMMA AmountsWrap ==
    ASSUME NEW m \in Amount, NEW n \in Amount
    PROVE  Plus(m, n) \in Amount /\ Minus(m, n) \in Amount
  <1>1. Word \in Nat /\ Word > 0
    BY ExecutorAssumption
  <1>2. \A k \in Nat : k % Word \in 0 .. Word - 1
    BY <1>1
  <1>3. m + n \in Nat /\ m + Word - n \in Nat
    BY <1>1 DEF Amount
  <1>4. QED
    BY <1>2, <1>3 DEF Plus, Minus, Amount

(* Reading and setting token balances.                                     *)
LEMMA Wallets ==
    ASSUME NEW acc \in Account, NEW k \in Asset, NEW n \in Amount
    PROVE  /\ Holding(acc, k) \in Amount
           /\ SetHolding(acc, k, n) \in Account
           /\ SetHolding(acc, k, n).nonce = acc.nonce
  <1>1. PICK S \in SUBSET Asset : acc.tokens \in [S -> Amount]
    BY DEF Account, Wallet
  <1>2. 0 \in Amount
    BY ExecutorAssumption DEF Amount
  <1>3. Holding(acc, k) \in Amount
    BY <1>1, <1>2 DEF Holding
  <1> DEFINE w == [x \in DOMAIN acc.tokens \cup {k} |-> IF x = k THEN n ELSE acc.tokens[x]]
  <1>4. w \in [S \cup {k} -> Amount]
    BY <1>1
  <1>5. w \in Wallet
    BY <1>1, <1>4 DEF Wallet
  <1>6. SetHolding(acc, k, n) = [acc EXCEPT !.tokens = w]
    BY DEF SetHolding, Account
  <1> HIDE DEF w
  <1>7. QED
    BY <1>3, <1>5, <1>6 DEF Account

(* Saving an account whose nonce is the stored one.                        *)
LEMMA SaveKeeps ==
    ASSUME TypeOK, NEW l, Intermediate(l), NEW a \in Addr, NEW acc \in Account,
           acc.nonce = NonceOf(ledger, a)
    PROVE  Intermediate(Save(l, a, acc))
  <1>1. [acc EXCEPT !.stored = TRUE] \in Account /\ [acc EXCEPT !.stored = TRUE].nonce = acc.nonce
    BY DEF Account
  <1> DEFINE b == [acc EXCEPT !.stored = TRUE]
  <1> HIDE DEF b
  <1>2. b \in Account /\ b.nonce = acc.nonce /\ Save(l, a, acc) = [l EXCEPT !.accounts[a] = b]
    BY <1>1 DEF b, Save
  <1>3. l \in Ledger
    BY DEF Intermediate
  <1>4. [l EXCEPT !.accounts[a] = b] \in Ledger
    BY <1>2, <1>3 DEF Ledger
  <1>5. CacheSound([l EXCEPT !.accounts[a] = b])
    BY <1>3 DEF Intermediate, CacheSound, Ledger
  <1>6. SameNonces([l EXCEPT !.accounts[a] = b], ledger)
    BY <1>2, <1>3 DEF Intermediate, SameNonces, NonceOf, Ledger
  <1>7. QED
    BY <1>2, <1>4, <1>5, <1>6 DEF Intermediate

(* The last write.                                                         *)
LEMMA SaveSenderMoves ==
    ASSUME TypeOK, NEW t \in Tx, NEW l, Intermediate(l), NEW acc \in Account
    PROVE  Outcome(t, SaveSender(t, l, acc))
  <1> DEFINE b == [acc EXCEPT !.nonce = tx[t].nonce, !.balance = Minus(@, tx[t].fee),
                              !.stored = TRUE]
  <1>1. tx[t].nonce \in Amount /\ tx[t].fee \in Amount /\ tx[t].sender \in Addr
    BY DEF TypeOK, TxContent
  <1>2. Minus(acc.balance, tx[t].fee) \in Amount
    BY <1>1, AmountsWrap DEF Account
  <1>3. b \in Account /\ b.nonce = tx[t].nonce
    BY <1>1, <1>2 DEF Account
  <1>4. SaveSender(t, l, acc) = [l EXCEPT !.accounts[tx[t].sender] = b]
    BY DEF SaveSender, Save, Account
  <1> HIDE DEF b
  <1>5. l \in Ledger
    BY DEF Intermediate
  <1>6. [l EXCEPT !.accounts[tx[t].sender] = b] \in Ledger
    BY <1>1, <1>3, <1>5 DEF Ledger
  <1>7. CacheSound([l EXCEPT !.accounts[tx[t].sender] = b])
    BY <1>5 DEF Intermediate, CacheSound, Ledger
  <1>8. NonceMoved(t, ledger, [l EXCEPT !.accounts[tx[t].sender] = b])
    BY <1>1, <1>3, <1>5 DEF Intermediate, SameNonces, NonceMoved, NonceOf, Ledger
  <1>9. QED
    BY <1>4, <1>6, <1>7, <1>8 DEF Outcome

(* The shapes of a plan.                                                   *)
LEMMA TwoWrites ==
    ASSUME TypeOK, NEW t \in Tx, tx[t].nonce = NonceOf(ledger, tx[t].sender) + 1,
           NEW l1, Intermediate(l1), NEW l2, Outcome(t, l2), Commit(t, <<l1, l2>>)
    PROVE  TypeOK' /\ Plan'
  <1>1. l1 \in Ledger /\ l2 \in Ledger
    BY DEF Intermediate, Outcome
  <1>2. todo' = <<l1, l2>> /\ pc' = "commit" /\ current' = t
        /\ UNCHANGED <<tx, ledger, completed, faults>>
    BY DEF Commit
  <1>3. TypeOK'
    BY <1>1, <1>2 DEF TypeOK
  <1>4. Intermediate(l1)' /\ Outcome(t, l2)'
    BY <1>2 DEF Intermediate, Outcome, SameNonces, NonceMoved, NonceOf, CacheSound
  <1>5. Len(todo') = 2 /\ todo'[1] = l1 /\ todo'[2] = l2
    BY <1>2
  <1>6. Plan'
    BY <1>2, <1>4, <1>5 DEF Plan, NonceOf
  <1>7. QED
    BY <1>3, <1>6

(* The same of a run that writes three ledgers.                            *)
LEMMA ThreeWrites ==
    ASSUME TypeOK, NEW t \in Tx, tx[t].nonce = NonceOf(ledger, tx[t].sender) + 1,
           NEW l1, Intermediate(l1), NEW l2, Intermediate(l2), NEW l3, Outcome(t, l3),
           Commit(t, <<l1, l2, l3>>)
    PROVE  TypeOK' /\ Plan'
  <1>1. l1 \in Ledger /\ l2 \in Ledger /\ l3 \in Ledger
    BY DEF Intermediate, Outcome
  <1>2. todo' = <<l1, l2, l3>> /\ pc' = "commit" /\ current' = t
        /\ UNCHANGED <<tx, ledger, completed, faults>>
    BY DEF Commit
  <1>3. TypeOK'
    BY <1>1, <1>2 DEF TypeOK
  <1>4. Intermediate(l1)' /\ Intermediate(l2)' /\ Outcome(t, l3)'
    BY <1>2 DEF Intermediate, Outcome, SameNonces, NonceMoved, NonceOf, CacheSound
  <1>5. Len(todo') = 3 /\ todo'[1] = l1 /\ todo'[2] = l2 /\ todo'[3] = l3
    BY <1>2
  <1>6. Plan'
    BY <1>2, <1>4, <1>5 DEF Plan, NonceOf
  <1>7. QED
    BY <1>3, <1>6

(* And of a run that panics, with a write made before or none.             *)
LEMMA DoomedWrites ==
    ASSUME TypeOK, NEW t \in Tx,
           NEW s \in {<<>>} \cup {<<l>> : l \in {m \in Ledger : Intermediate(m)}},
           Panic(t, s)
    PROVE  TypeOK' /\ Plan'
  <1>1. todo' = s /\ pc' = "doomed" /\ current' = t /\ UNCHANGED <<tx, ledger, completed, faults>>
    BY DEF Panic
  <1>2. s \in Seq(Ledger) /\ \A i \in 1 .. Len(s) : Intermediate(s[i])
    <2>1. CASE s = <<>>
      BY <2>1
    <2>2. ASSUME NEW l \in Ledger, Intermediate(l), s = <<l>>
          PROVE  s \in Seq(Ledger) /\ Len(s) = 1 /\ Intermediate(s[1])
      BY <2>2
    <2>3. QED
      BY <2>1, <2>2
  <1>3. TypeOK'
    BY <1>1, <1>2 DEF TypeOK
  <1>4. \A i \in 1 .. Len(s) : Intermediate(s[i])'
    BY <1>1, <1>2 DEF Intermediate, SameNonces, NonceOf, CacheSound
  <1>5. Plan'
    BY <1>1, <1>4 DEF Plan
  <1>6. QED
    BY <1>3, <1>5

(* Every kind of transaction makes a plan.                                 *)
LEMMA BeginPlans ==
    ASSUME TypeOK, CacheSound(ledger), NEW t \in Tx, Begin(t)
    PROVE  TypeOK' /\ Plan'
  <1> DEFINE k == tx[t].asset
             to == tx[t].to
             n == tx[t].amount
             from == tx[t].sender
  <1>1. /\ k \in Asset /\ to \in Addr /\ from \in Addr /\ n \in Amount
        /\ tx[t].nonce \in Amount \ {0} /\ tx[t].mintable \in BOOLEAN
    BY DEF TypeOK, TxContent
  <1>2. ledger \in Ledger /\ Sender(t) \in Account /\ Other(t) \in Account
    BY <1>1 DEF TypeOK, Ledger, Sender, Other
  <1>3. tx[t].nonce = NonceOf(ledger, from) + 1
    <2>1. tx[t].nonce = (NonceOf(ledger, from) + 1) % Word
      BY DEF Begin, Executable, Plus, NonceOf, Sender
    <2>2. NonceOf(ledger, from) \in 0 .. Word - 1 /\ Word \in Nat
      BY <1>2, ExecutorAssumption DEF Account, NonceOf, Sender, Amount
    <2>3. CASE NonceOf(ledger, from) = Word - 1
      <3>1. (NonceOf(ledger, from) + 1) % Word = 0
        BY <2>2, <2>3
      <3>2. QED
        BY <1>1, <2>1, <3>1
    <2>4. CASE NonceOf(ledger, from) # Word - 1
      <3>1. NonceOf(ledger, from) + 1 \in 0 .. Word - 1
        BY <2>2, <2>4
      <3>2. (NonceOf(ledger, from) + 1) % Word = NonceOf(ledger, from) + 1
        BY <2>2, <3>1
      <3>3. QED
        BY <2>1, <3>2
    <2>5. QED
      BY <2>3, <2>4
  <1>4. Intermediate(ledger)
    BY <1>2 DEF Intermediate, SameNonces
  <1>5. Sender(t).nonce = NonceOf(ledger, from) /\ Other(t).nonce = NonceOf(ledger, to)
    BY DEF Sender, Other, NonceOf
  <1>6. CASE Transfer(t)
    <2> DEFINE s == [Sender(t) EXCEPT !.balance = Minus(@, n)]
               r == [Other(t) EXCEPT !.balance = Plus(@, n)]
               l1 == Save(ledger, to, r)
               l2 == SaveSender(t, l1, s)
    <2>1. s \in Account /\ r \in Account /\ r.nonce = NonceOf(ledger, to)
      BY <1>1, <1>2, <1>5, AmountsWrap DEF Account
    <2>2. Commit(t, <<l1, l2>>)
      BY <1>6 DEF Transfer
    <2> HIDE DEF s, r
    <2>3. Intermediate(l1)
      BY <1>1, <1>4, <2>1, SaveKeeps
    <2> HIDE DEF l1
    <2>4. Outcome(t, l2)
      BY <2>1, <2>3, SaveSenderMoves
    <2> HIDE DEF l2
    <2>5. QED
      BY <1>3, <2>2, <2>3, <2>4, TwoWrites
  <1>7. CASE CreateValidator(t)
    <2> DEFINE s == [Sender(t) EXCEPT !.balance = Minus(@, MinStake), !.delegated = MinStake,
                                      !.validator = to]
               v == [stored |-> TRUE, stake |-> MinStake]
               l1 == [ledger EXCEPT !.validators[to] = v, !.registry[to] = v]
               l2 == SaveSender(t, l1, s)
    <2>1. MinStake \in Amount
      BY ExecutorAssumption
    <2>2. s \in Account
      BY <1>1, <1>2, <2>1, AmountsWrap DEF Account
    <2>3. v \in Validator
      BY <2>1 DEF Validator
    <2>4. Commit(t, <<l1, l2>>)
      BY <1>7 DEF CreateValidator
    <2> HIDE DEF s, v
    <2>5. Intermediate(l1)
      BY <1>1, <1>2, <2>3 DEF Intermediate, SameNonces, NonceOf, CacheSound, Ledger
    <2> HIDE DEF l1
    <2>6. Outcome(t, l2)
      BY <2>2, <2>5, SaveSenderMoves
    <2> HIDE DEF l2
    <2>7. QED
      BY <1>3, <2>4, <2>5, <2>6, TwoWrites
  <1>8. CASE DelegateStake(t)
    <2> DEFINE s == [Sender(t) EXCEPT !.delegated = Plus(@, n), !.validator = to]
               v == [ledger.validators[to] EXCEPT !.stake = Plus(@, n)]
               l1 == SetStake(ledger, to, v)
               l2 == SaveSender(t, l1, s)
    <2>1. s \in Account
      BY <1>1, <1>2, AmountsWrap DEF Account
    <2>2. v \in Validator
      BY <1>1, <1>2, AmountsWrap DEF Ledger, Validator
    <2>3. Commit(t, <<l1, l2>>)
      BY <1>8 DEF DelegateStake
    <2> HIDE DEF s, v
    <2>4. Intermediate(l1)
      BY <1>1, <1>2, <2>2 DEF Intermediate, SameNonces, NonceOf, CacheSound, Ledger, SetStake
    <2> HIDE DEF l1
    <2>5. Outcome(t, l2)
      BY <2>1, <2>4, SaveSenderMoves
    <2> HIDE DEF l2
    <2>6. QED
      BY <1>3, <2>3, <2>4, <2>5, TwoWrites
  <1>9. CASE CreateToken(t)
    <2> DEFINE v == [stored |-> TRUE, supply |-> n, admin |-> to, mintable |-> tx[t].mintable]
               b == SetHolding(Other(t), k, n)
               l1 == [ledger EXCEPT !.tokens[k] = v]
               l2 == Save(l1, to, b)
               l3 == SaveSender(t, l2, Sender(t))
    <2>1. v \in Token
      BY <1>1 DEF Token
    <2>2. b \in Account /\ b.nonce = NonceOf(ledger, to)
      BY <1>1, <1>2, <1>5, Wallets
    <2>3. Panic(t, <<l1>>) \/ Commit(t, <<l1, l2, l3>>)
      BY <1>9 DEF CreateToken
    <2> HIDE DEF v, b
    <2>4. Intermediate(l1)
      BY <1>1, <1>2, <1>4, <2>1 DEF Intermediate, SameNonces, NonceOf, CacheSound, Ledger
    <2> HIDE DEF l1
    <2>5. Intermediate(l2)
      BY <1>1, <2>2, <2>4, SaveKeeps
    <2> HIDE DEF l2
    <2>6. Outcome(t, l3)
      BY <1>2, <2>5, SaveSenderMoves
    <2> HIDE DEF l3
    <2>7. CASE Panic(t, <<l1>>)
      BY <2>4, <2>7, DoomedWrites DEF Intermediate
    <2>8. QED
      BY <1>3, <2>3, <2>4, <2>5, <2>6, <2>7, ThreeWrites
  <1>10. CASE MintToken(t)
    <2> DEFINE b == SetHolding(Other(t), k, Plus(Holding(Other(t), k), n))
               l1 == [ledger EXCEPT !.tokens[k].supply = Plus(@, n)]
               l2 == Save(l1, to, b)
               l3 == SaveSender(t, l2, Sender(t))
    <2>1. Plus(Holding(Other(t), k), n) \in Amount
      BY <1>1, <1>2, Wallets, AmountsWrap
    <2>2. b \in Account /\ b.nonce = NonceOf(ledger, to)
      BY <1>1, <1>2, <1>5, <2>1, Wallets
    <2>3. Panic(t, <<>>) \/ Commit(t, <<l1, l2, l3>>)
      BY <1>10 DEF MintToken
    <2> HIDE DEF b
    <2>4. Intermediate(l1)
      <3>1. ledger.tokens[k] \in Token
        BY <1>1, <1>2 DEF Ledger
      <3>2. Plus(ledger.tokens[k].supply, n) \in Amount
        BY <1>1, <3>1, AmountsWrap DEF Token
      <3>3. QED
        BY <1>1, <1>2, <1>4, <3>1, <3>2
           DEF Intermediate, SameNonces, NonceOf, CacheSound, Ledger, Token
    <2> HIDE DEF l1
    <2>5. Intermediate(l2)
      BY <1>1, <2>2, <2>4, SaveKeeps
    <2> HIDE DEF l2
    <2>6. Outcome(t, l3)
      BY <1>2, <2>5, SaveSenderMoves
    <2> HIDE DEF l3
    <2>7. QED
      BY <1>3, <2>3, <2>4, <2>5, <2>6, DoomedWrites, ThreeWrites
  <1>11. CASE TransferToken(t)
    <2> DEFINE s == SetHolding(Sender(t), k, Holding(Sender(t), k) - n)
               r == SetHolding(Other(t), k, Plus(Holding(Other(t), k), n))
               l1 == Save(ledger, from, s)
               l2 == Save(l1, to, r)
               l3 == SaveSender(t, l2, s)
    <2>1. Plus(Holding(Other(t), k), n) \in Amount
      BY <1>1, <1>2, Wallets, AmountsWrap
    <2>2. Holding(Sender(t), k) - n \in Amount
      <3>1. Holding(Sender(t), k) \in Amount /\ Holding(Sender(t), k) >= n
        BY <1>1, <1>2, <1>11, Wallets DEF TransferToken
      <3>2. QED
        BY <1>1, <3>1, ExecutorAssumption DEF Amount
    <2>3. s \in Account /\ s.nonce = NonceOf(ledger, from)
      BY <1>1, <1>2, <1>5, <2>2, Wallets
    <2>4. r \in Account /\ r.nonce = NonceOf(ledger, to)
      BY <1>1, <1>2, <1>5, <2>1, Wallets
    <2>5. Panic(t, <<>>) \/ Commit(t, <<l1, l2, l3>>)
      BY <1>11 DEF TransferToken
    <2> HIDE DEF s, r
    <2>6. Intermediate(l1)
      BY <1>1, <1>4, <2>3, SaveKeeps
    <2> HIDE DEF l1
    <2>7. Intermediate(l2)
      BY <1>1, <2>4, <2>6, SaveKeeps
    <2> HIDE DEF l2
    <2>8. Outcome(t, l3)
      BY <2>3, <2>7, SaveSenderMoves
    <2> HIDE DEF l3
    <2>9. QED
      BY <1>3, <2>5, <2>6, <2>7, <2>8, DoomedWrites, ThreeWrites
  <1>12. CASE CreateCollection(t)
    <2>0. PICK c \in Asset :
            LET put == [ledger EXCEPT !.collections[c] = from]
            IN  Commit(t, <<put, SaveSender(t, put, Sender(t))>>)
      BY <1>12 DEF CreateCollection
    <2> DEFINE l1 == [ledger EXCEPT !.collections[c] = from]
               l2 == SaveSender(t, l1, Sender(t))
    <2>1. Commit(t, <<l1, l2>>)
      BY <2>0
    <2>2. Intermediate(l1)
      BY <1>1, <1>2, <1>4 DEF Intermediate, SameNonces, NonceOf, CacheSound, Ledger
    <2> HIDE DEF l1
    <2>3. Outcome(t, l2)
      BY <1>2, <2>2, SaveSenderMoves
    <2> HIDE DEF l2
    <2>4. QED
      BY <1>3, <2>1, <2>2, <2>3, TwoWrites
  <1>13. CASE MintNFT(t)
    <2> DEFINE l1 == [ledger EXCEPT !.nfts[k] = to]
               l2 == SaveSender(t, l1, Sender(t))
    <2>1. Commit(t, <<l1, l2>>)
      BY <1>13 DEF MintNFT
    <2>2. Intermediate(l1)
      BY <1>1, <1>2, <1>4 DEF Intermediate, SameNonces, NonceOf, CacheSound, Ledger
    <2> HIDE DEF l1
    <2>3. Outcome(t, l2)
      BY <1>2, <2>2, SaveSenderMoves
    <2> HIDE DEF l2
    <2>4. QED
      BY <1>3, <2>1, <2>2, <2>3, TwoWrites
  <1>14. QED
    BY <1>6, <1>7, <1>8, <1>9, <1>10, <1>11, <1>12, <1>13 DEF Begin

----------------------------------------------------------------------------
(* The invariant holds at the start ...                                    *)
LEMMA InitIInv == Init => IInv
  <1> SUFFICES ASSUME Init
               PROVE  IInv
    OBVIOUS
  <1>1. 0 \in Amount /\ {} \in SUBSET Asset
    BY ExecutorAssumption DEF Amount
  <1>2. NoValidators \in [Addr -> Validator]
    BY <1>1 DEF NoValidators, Validator
  <1>3. [k \in Asset |-> [stored |-> FALSE, supply |-> 0, admin |-> NoAddr, mintable |-> FALSE]]
            \in [Asset -> Token]
    BY <1>1 DEF Token
  <1>4. [k \in Asset |-> NoAddr] \in [Asset -> Addr \cup {NoAddr}]
    OBVIOUS
  <1>5. ledger \in Ledger
    BY <1>2, <1>3, <1>4, ExecutorAssumption DEF Init, Ledger
  <1>6. current \in Tx
    BY ExecutorAssumption DEF Init
  <1>7. TypeOK
    BY <1>5, <1>6, ExecutorAssumption DEF Init, TypeOK
  <1>8. CacheSound(ledger)
    BY DEF Init, CacheSound, NoValidators
  <1>9. Done = {}
    BY DEF Init, Done
  <1>10. ExecutedOnce
    BY <1>9 DEF Init, ExecutedOnce
  <1>11. ASSUME NEW a \in Addr
         PROVE  ledger.accounts[a].nonce = 0
    BY ExecutorAssumption DEF Init
  <1>12. NonceIsHistory
    <2>1. 1 .. 0 = {}
      OBVIOUS
    <2>2. QED
      BY <1>9, <1>11, <2>1 DEF NonceIsHistory
  <1>13. Plan
    BY DEF Init, Plan
  <1>14. QED
    BY <1>7, <1>8, <1>10, <1>12, <1>13 DEF IInv

(* ... survives a step that keeps the nonces and completes nothing ...     *)
LEMMA HistoryKept ==
    ASSUME ExecutedOnce, NonceIsHistory, UNCHANGED <<tx, completed>>,
           SameNonces(ledger', ledger)
    PROVE  ExecutedOnce' /\ NonceIsHistory'
  <1>1. Done' = Done
    BY DEF Done
  <1>2. ExecutedOnce'
    BY <1>1 DEF ExecutedOnce
  <1>3. NonceIsHistory'
    BY <1>1 DEF NonceIsHistory, SameNonces, NonceOf
  <1>4. QED
    BY <1>2, <1>3

(* ... and a completion, which adds the next nonce to the sender's.        *)
LEMMA HistoryGrows ==
    ASSUME IInv, LastPut
    PROVE  ExecutedOnce' /\ NonceIsHistory'
  <1> DEFINE s == tx[current].sender
             n == NonceOf(ledger, s)
  <1>1. /\ current \in Tx /\ s \in Addr /\ completed \in [Tx -> Nat]
        /\ todo \in Seq(Ledger) /\ todo # <<>> /\ pc = "commit"
    BY DEF IInv, TypeOK, LastPut, TxContent
  <1>2. Len(todo) = 1 /\ Head(todo) = todo[Len(todo)]
    <2>1. Tail(todo) = <<>>
      BY DEF LastPut
    <2>2. QED
      BY <1>1, <2>1, TailFacts
  <1>3. tx[current].nonce = n + 1 /\ NonceMoved(current, ledger, ledger')
    BY <1>1, <1>2 DEF IInv, Plan, Outcome, LastPut
  <1>4. n \in Nat
    BY <1>1 DEF IInv, TypeOK, Ledger, Account, NonceOf, Amount
  <1>5. ASSUME NEW u \in Done, tx[u].sender = s
        PROVE  tx[u].nonce # n + 1
    <2>1. {tx[t].nonce : t \in {v \in Done : tx[v].sender = s}} = 1 .. n
      BY <1>1 DEF IInv, NonceIsHistory, NonceOf
    <2>2. tx[u].nonce \in {tx[t].nonce : t \in {v \in Done : tx[v].sender = s}}
      BY <1>5
    <2>3. QED
      BY <1>4, <2>1, <2>2
  <1>6. current \notin Done
    BY <1>3, <1>5
  <1>7. tx' = tx /\ completed' = [completed EXCEPT ![current] = @ + 1]
    BY DEF LastPut
  <1>8. completed[current] = 0
    BY <1>1, <1>6 DEF Done
  <1>9. Done' = Done \cup {current}
    BY <1>1, <1>7, <1>8 DEF Done
  <1>10. ExecutedOnce'
    <2>1. \A t \in Tx : completed'[t] <= 1
      BY <1>1, <1>7, <1>8 DEF IInv, ExecutedOnce
    <2>2. \A t, u \in Done' : tx[t].sender = tx[u].sender /\ tx[t].nonce = tx[u].nonce => t = u
      BY <1>3, <1>5, <1>9 DEF IInv, ExecutedOnce
    <2>3. QED
      BY <1>7, <2>1, <2>2 DEF ExecutedOnce
  <1>11. ASSUME NEW a \in Addr
         PROVE  {tx[t].nonce : t \in {u \in Done' : tx[u].sender = a}}
                    = 1 .. ledger'.accounts[a].nonce
    <2> DEFINE old == {tx[t].nonce : t \in {u \in Done : tx[u].sender = a}}
    <2>1. old = 1 .. ledger.accounts[a].nonce
      BY DEF IInv, NonceIsHistory
    <2>2. CASE a = s
      <3>1. {tx[t].nonce : t \in {u \in Done' : tx[u].sender = a}} = old \cup {n + 1}
        BY <1>3, <1>9, <2>2
      <3>2. ledger'.accounts[a].nonce = n + 1 /\ ledger.accounts[a].nonce = n
        BY <1>3, <2>2 DEF NonceMoved, NonceOf
      <3>3. 1 .. n + 1 = (1 .. n) \cup {n + 1}
        BY <1>4
      <3>4. QED
        BY <2>1, <3>1, <3>2, <3>3
    <2>3. CASE a # s
      <3>1. {tx[t].nonce : t \in {u \in Done' : tx[u].sender = a}} = old
        BY <1>9, <2>3
      <3>2. ledger'.accounts[a].nonce = ledger.accounts[a].nonce
        BY <1>3, <2>3 DEF NonceMoved, NonceOf
      <3>3. QED
        BY <2>1, <3>1, <3>2
    <2>4. QED
      BY <2>2, <2>3
  <1>12. NonceIsHistory'
    BY <1>7, <1>11 DEF NonceIsHistory
  <1>13. QED
    BY <1>10, <1>12

(* Whatever is left undone, the rest of a plan is none of a later one.     *)
LEMMA CutOff ==
    ASSUME TypeOK, todo' = <<>>, pc' \in {"idle", "dead"}, ledger' \in Ledger,
           UNCHANGED <<tx, current, completed>>, faults' \in 0 .. MaxFaults
    PROVE  TypeOK' /\ Plan'
  <1>1. todo' \in Seq(Ledger)
    OBVIOUS
  <1>2. QED
    BY <1>1 DEF TypeOK, Plan

(* The invariant is inductive.                                             *)
LEMMA StepIInv == IInv /\ [Next]_vars => IInv'
  <1> SUFFICES ASSUME IInv, [Next]_vars
               PROVE  IInv'
    OBVIOUS
  <1>1. TypeOK /\ CacheSound(ledger) /\ ExecutedOnce /\ NonceIsHistory /\ Plan
    BY DEF IInv
  <1>2. ASSUME NEW t \in Tx, Begin(t)
        PROVE  IInv'
    <2>1. UNCHANGED <<tx, ledger, completed>>
      BY <1>2 DEF Begin, Transfer, CreateValidator, DelegateStake, CreateToken, MintToken,
                  TransferToken, CreateCollection, MintNFT, Commit, Panic
    <2>2. TypeOK' /\ Plan'
      BY <1>1, <1>2, BeginPlans
    <2>3. CacheSound(ledger')
      BY <1>1, <2>1
    <2>4. ExecutedOnce' /\ NonceIsHistory'
      BY <1>1, <2>1, HistoryKept DEF SameNonces
    <2>5. QED
      BY <2>2, <2>3, <2>4 DEF IInv
  <1>3. CASE Put
    <2>1. /\ todo \in Seq(Ledger) /\ todo # <<>> /\ pc \in {"commit", "doomed"}
          /\ ledger' = todo[1] /\ todo' = Tail(todo)
          /\ UNCHANGED <<tx, pc, current, completed, faults>>
      BY <1>1, <1>3 DEF Put, TypeOK
    <2>2. /\ Tail(todo) \in Seq(Ledger) /\ Len(Tail(todo)) = Len(todo) - 1
          /\ \A i \in 1 .. Len(todo) - 1 : Tail(todo)[i] = todo[i + 1]
          /\ Len(todo) \in Nat /\ Len(todo) > 0
      BY <2>1, TailFacts
    <2>3. pc = "commit" => Len(todo) > 1 /\ Tail(todo) # <<>>
      <3>1. pc = "commit" => Tail(todo) # <<>>
        BY <1>3 DEF Put
      <3>2. Tail(todo) # <<>> => Len(Tail(todo)) # 0
        BY <2>2
      <3>3. QED
        BY <2>2, <3>1, <3>2
    <2>4. Intermediate(ledger')
      BY <1>1, <2>1, <2>2, <2>3 DEF Plan
    <2>5. ledger' \in Ledger /\ CacheSound(ledger') /\ SameNonces(ledger', ledger)
      BY <2>4 DEF Intermediate
    <2>6. TypeOK'
      BY <1>1, <2>1, <2>2, <2>3, <2>5 DEF TypeOK
    <2>7. ExecutedOnce' /\ NonceIsHistory'
      BY <1>1, <2>1, <2>5, HistoryKept
    <2>8. ASSUME NEW l, Intermediate(l)
          PROVE  Intermediate(l)'
      BY <2>5, <2>8 DEF Intermediate, SameNonces, NonceOf, CacheSound
    <2>9. ASSUME pc = "doomed"
          PROVE  Plan'
      <3>1. ASSUME NEW i \in 1 .. Len(todo')
            PROVE  Intermediate(todo[i])'
        <4>1. i + 1 \in 1 .. Len(todo) /\ todo'[i] = todo[i + 1]
          BY <2>1, <2>2
        <4>2. Intermediate(todo[i + 1])
          BY <1>1, <2>9, <4>1 DEF Plan
        <4>3. QED
          BY <2>5, <4>1, <4>2 DEF Intermediate, SameNonces, NonceOf, CacheSound
      <3>2. QED
        BY <2>1, <2>9, <3>1 DEF Plan
    <2>10. ASSUME pc = "commit"
           PROVE  Plan'
      <3>1. current \in Tx /\ tx[current].sender \in Addr
        BY <1>1 DEF TypeOK, TxContent
      <3>2. tx'[current'].nonce = NonceOf(ledger', tx'[current'].sender) + 1
        BY <1>1, <2>1, <2>5, <2>10, <3>1 DEF Plan, SameNonces
      <3>3. ASSUME NEW i \in 1 .. Len(todo') - 1
            PROVE  Intermediate(todo[i])'
        <4>1. i + 1 \in 1 .. Len(todo) - 1 /\ todo'[i] = todo[i + 1]
          BY <2>1, <2>2
        <4>2. Intermediate(todo[i + 1])
          BY <1>1, <2>10, <4>1 DEF Plan
        <4>3. QED
          BY <2>5, <4>1, <4>2 DEF Intermediate, SameNonces, NonceOf, CacheSound
      <3>4. todo'[Len(todo')] = todo[Len(todo)]
        <4>1. Len(todo) - 1 \in 1 .. Len(todo) - 1 /\ Len(todo') = Len(todo) - 1
          BY <2>1, <2>2, <2>3, <2>10
        <4>2. Tail(todo)[Len(todo) - 1] = todo[Len(todo) - 1 + 1]
          BY <2>2, <4>1
        <4>3. Len(todo) - 1 + 1 = Len(todo)
          BY <2>2
        <4>4. QED
          BY <2>1, <4>1, <4>2, <4>3
      <3>5. Outcome(current, todo[Len(todo)])
        BY <1>1, <2>10 DEF Plan
      <3>6. Outcome(current, todo[Len(todo)])'
        BY <2>1, <2>5, <3>4, <3>5 DEF Outcome, NonceMoved, SameNonces, NonceOf, CacheSound
      <3>7. QED
        BY <2>1, <2>10, <3>2, <3>3, <3>6 DEF Plan, NonceOf
    <2>11. QED
      BY <1>1, <2>1, <2>5, <2>6, <2>7, <2>9, <2>10 DEF IInv
  <1>4. CASE LastPut
    <2>1. /\ current \in Tx /\ completed \in [Tx -> Nat]
          /\ todo \in Seq(Ledger) /\ todo # <<>> /\ pc = "commit"
      BY <1>1, <1>4 DEF TypeOK, LastPut
    <2>2. Len(todo) = 1
      <3>1. Tail(todo) = <<>>
        BY <1>4 DEF LastPut
      <3>2. QED
        BY <2>1, <3>1, TailFacts
    <2>3. Outcome(current, ledger')
      BY <1>1, <1>4, <2>1, <2>2 DEF Plan, LastPut
    <2>4. ledger' \in Ledger /\ CacheSound(ledger')
      BY <2>3 DEF Outcome
    <2>5. completed' \in [Tx -> Nat] /\ UNCHANGED <<tx, current, faults>>
          /\ todo' = <<>> /\ pc' = "idle"
      BY <1>4, <2>1 DEF LastPut
    <2>6. TypeOK' /\ Plan'
      BY <1>1, <2>4, <2>5 DEF TypeOK, Plan
    <2>7. QED
      BY <1>4, <2>4, <2>6, HistoryGrows DEF IInv
  <1>5. CASE Die
    <2>1. todo' = <<>> /\ pc' = "dead" /\ UNCHANGED <<tx, ledger, current, completed, faults>>
      BY <1>5 DEF Die
    <2>2. TypeOK' /\ Plan'
      BY <1>1, <2>1, CutOff DEF TypeOK
    <2>3. ExecutedOnce' /\ NonceIsHistory'
      BY <1>1, <2>1, HistoryKept DEF SameNonces
    <2>4. QED
      BY <1>1, <2>1, <2>2, <2>3 DEF IInv
  <1>6. CASE PutFails
    <2>1. todo' = <<>> /\ pc' = "idle" /\ UNCHANGED <<tx, ledger, current, completed>>
          /\ faults' \in 0 .. MaxFaults
      BY <1>1, <1>6, ExecutorAssumption DEF PutFails, TypeOK
    <2>2. TypeOK' /\ Plan'
      BY <1>1, <2>1, CutOff DEF TypeOK
    <2>3. ExecutedOnce' /\ NonceIsHistory'
      BY <1>1, <2>1, HistoryKept DEF SameNonces
    <2>4. QED
      BY <1>1, <2>1, <2>2, <2>3 DEF IInv
  <1>7. CASE Restart
    <2>1. todo' = <<>> /\ pc' = "idle" /\ UNCHANGED <<tx, current, completed>>
          /\ faults' \in 0 .. MaxFaults
      BY <1>1, <1>7, ExecutorAssumption DEF Restart, TypeOK
    <2>2. ledger' = [ledger EXCEPT !.registry = NoValidators] /\ ledger \in Ledger
      BY <1>1, <1>7 DEF Restart, TypeOK
    <2>3. NoValidators \in [Addr -> Validator]
      BY ExecutorAssumption DEF NoValidators, Validator, Amount
    <2>4. ledger' \in Ledger /\ SameNonces(ledger', ledger)
      BY <2>2, <2>3 DEF Ledger, SameNonces, NonceOf
    <2>5. CacheSound(ledger')
      BY <2>2 DEF CacheSound, NoValidators, Ledger
    <2>6. TypeOK' /\ Plan'
      BY <1>1, <2>1, <2>4, CutOff
    <2>7. ExecutedOnce' /\ NonceIsHistory'
      BY <1>1, <2>1, <2>4, HistoryKept
    <2>8. QED
      BY <2>5, <2>6, <2>7 DEF IInv
  <1>8. CASE UNCHANGED vars
    <2>1. TypeOK' /\ CacheSound(ledger')
      BY <1>1, <1>8 DEF vars, TypeOK
    <2>2. ExecutedOnce' /\ NonceIsHistory'
      BY <1>1, <1>8, HistoryKept DEF vars, SameNonces
    <2>3. Plan'
      BY <1>1, <1>8
         DEF vars, Plan, Intermediate, Outcome, SameNonces, NonceMoved, NonceOf, CacheSound
    <2>4. QED
      BY <2>1, <2>2, <2>3 DEF IInv
  <1>9. QED
    BY <1>2, <1>3, <1>4, <1>5, <1>6, <1>7, <1>8 DEF Next, Run

(* So the invariant holds in every state of every behaviour.               *)
LEMMA IInvHolds == Spec => []IInv
  BY InitIInv, StepIInv, PTL DEF Spec

----------------------------------------------------------------------------
(* Amounts, nonces and stakes stay within the word, and every record keeps *)
(* its type, through every plan, fault and restart.                        *)
THEOREM TypeCorrect == Spec => []TypeOK
  <1>1. IInv => TypeOK
    BY DEF IInv
  <1>2. QED
    BY <1>1, IInvHolds, PTL

(* The nonces of the completed transactions of an account are 1 up to the  *)
(* nonce in its record, whatever fails and is tried again.                 *)
THEOREM NoncesCountExecutions == Spec => []NonceIsHistory
  <1>1. IInv => NonceIsHistory
    BY DEF IInv
  <1>2. QED
    BY <1>1, IInvHolds, PTL

(* No transaction is completed twice, nor are two of one sender and nonce. *)
THEOREM NothingExecutedTwice == Spec => []ExecutedOnce
  <1>1. IInv => ExecutedOnce
    BY DEF IInv
  <1>2. QED
    BY <1>1, IInvHolds, PTL

(* The stake the engine caches is the stored one, also between the writes  *)
(* of an execution and after a restart.                                    *)
THEOREM RegistryIsStore == Spec => []RegistryMatchesStore
  <1>1. IInv => RegistryMatchesStore
    BY DEF IInv, CacheSound, RegistryMatchesStore
  <1>2. QED
    BY <1>1, IInvHolds, PTL

----------------------------------------------------------------------------
(* Every step but the last Put of an execution keeps the nonces and        *)
(* completes nothing.                                                      *)
LEMMA OnlyLastPutSettles ==
    ASSUME IInv, [Next]_vars, ~LastPut
    PROVE  UNCHANGED <<tx, completed>> /\ SameNonces(ledger', ledger)
  <1>1. ASSUME NEW t \in Tx, Begin(t)
        PROVE  UNCHANGED <<tx, ledger, completed>>
    BY <1>1 DEF Begin, Transfer, CreateValidator, DelegateStake, CreateToken, MintToken,
                TransferToken, CreateCollection, MintNFT, Commit, Panic
  <1>2. CASE Put
    <2>1. /\ todo \in Seq(Ledger) /\ todo # <<>> /\ pc \in {"commit", "doomed"}
          /\ ledger' = todo[1] /\ UNCHANGED <<tx, completed>>
      BY <1>2 DEF Put, IInv, TypeOK
    <2>2. /\ Len(Tail(todo)) = Len(todo) - 1 /\ Tail(todo) \in Seq(Ledger)
          /\ Len(todo) \in Nat /\ Len(todo) > 0
      BY <2>1, TailFacts
    <2>3. pc = "commit" => Len(todo) > 1
      <3>1. pc = "commit" => Tail(todo) # <<>>
        BY <1>2 DEF Put
      <3>2. Tail(todo) # <<>> => Len(Tail(todo)) # 0
        BY <2>2
      <3>3. QED
        BY <2>2, <3>1, <3>2
    <2>4. Intermediate(todo[1])
      BY <2>1, <2>2, <2>3 DEF IInv, Plan
    <2>5. QED
      BY <2>1, <2>4 DEF Intermediate
  <1>3. CASE Restart
    BY <1>3 DEF Restart, IInv, TypeOK, Ledger, SameNonces, NonceOf
  <1>4. CASE Die \/ PutFails \/ UNCHANGED vars
    BY <1>4 DEF Die, PutFails, vars, SameNonces
  <1>5. QED
    BY <1>1, <1>2, <1>3, <1>4 DEF Next, Run, SameNonces

(* The last Put settles the transaction that is being executed.            *)
LEMMA LastPutSettles ==
    ASSUME IInv, LastPut
    PROVE  Ledgers!Settle(current)
  <1> DEFINE s == tx[current].sender
             height == [a \in Addr |-> ledger.accounts[a].nonce]
  <1>1. /\ current \in Tx /\ s \in Addr /\ completed \in [Tx -> Nat]
        /\ todo \in Seq(Ledger) /\ todo # <<>> /\ pc = "commit"
        /\ tx' = tx /\ completed' = [completed EXCEPT ![current] = @ + 1]
    BY DEF IInv, TypeOK, LastPut, TxContent
  <1>2. Len(todo) = 1 /\ ledger' = todo[Len(todo)]
    <2>1. Tail(todo) = <<>> /\ ledger' = Head(todo)
      BY DEF LastPut
    <2>2. QED
      BY <1>1, <2>1, TailFacts
  <1>3. tx[current].nonce = NonceOf(ledger, s) + 1 /\ NonceMoved(current, ledger, ledger')
    BY <1>1, <1>2 DEF IInv, Plan, Outcome
  <1>4. height[s] \in Nat /\ tx[current].nonce = height[s] + 1
    BY <1>1, <1>3 DEF IInv, TypeOK, Ledger, Account, NonceOf, Amount
  <1>5. [a \in Addr |-> ledger'.accounts[a].nonce] = [height EXCEPT ![s] = tx[current].nonce]
    BY <1>1, <1>3 DEF NonceMoved, NonceOf
  <1>6. Done' = Done \cup {current}
    BY <1>1 DEF Done
  <1>7. /\ [t \in Tx |-> tx[t].sender][current] = s
        /\ [t \in Tx |-> tx[t].nonce][current] = tx[current].nonce
    BY <1>1
  <1>8. UNCHANGED <<[t \in Tx |-> tx[t].sender], [t \in Tx |-> tx[t].nonce]>>
    BY <1>1
  <1>9. [a \in Addr |-> ledger.accounts[a].nonce]' = [height EXCEPT ![s] = tx[current].nonce]
    BY <1>5
  <1>10. tx[current].nonce > height[s]
    BY <1>4
  <1> HIDE DEF s, height
  <1>11. QED
    BY <1>4, <1>6, <1>7, <1>8, <1>9, <1>10 DEF Ledgers!Settle, height

(* The executor implements Settlement.                                     *)
THEOREM ImplementsSettlement == Spec => SettlesInOrder
  <1>1. Init => Ledgers!Init
    <2> SUFFICES ASSUME Init
                 PROVE  Ledgers!Init
      OBVIOUS
    <2>1. /\ \A t \in Tx : tx[t].sender \in Addr /\ tx[t].nonce \in Nat \ {0}
          /\ \A a \in Addr : ledger.accounts[a].nonce = 0
      BY ExecutorAssumption DEF Init, TxContent, Amount
    <2>2. Done = {}
      BY DEF Init, Done
    <2>3. QED
      BY <2>1, <2>2 DEF Ledgers!Init
  <1>2. ASSUME IInv, [Next]_vars
        PROVE  \/ Ledgers!Next
               \/ UNCHANGED <<[t \in Tx |-> tx[t].sender], [t \in Tx |-> tx[t].nonce],
                              [a \in Addr |-> ledger.accounts[a].nonce], Done>>
    <2>1. CASE LastPut
      <3>1. current \in Tx
        BY <1>2 DEF IInv, TypeOK
      <3>2. Ledgers!Settle(current)
        BY <1>2, <2>1, LastPutSettles
      <3>3. QED
        BY <3>1, <3>2 DEF Ledgers!Next, Ledgers!Settle
    <2>2. CASE ~LastPut
      BY <1>2, <2>2, OnlyLastPutSettles DEF SameNonces, NonceOf, Done
    <2>3. QED
      BY <2>1, <2>2
  <1>3. QED
    BY <1>1, <1>2, IInvHolds, PTL DEF Spec, SettlesInOrder, Ledgers!Spec

----------------------------------------------------------------------------
(***************************************************************************)
(* Sums of what the accounts hold.                                         *)
(***************************************************************************)

(* Amounts are numbers below the word.                                     *)
LEMMA AmountsAreNat ==
    /\ Word \in Nat \ {0} /\ 0 \in Amount /\ MinStake \in Amount
    /\ \A n \in Amount : n \in Nat /\ n < Word
    /\ \A n \in Nat : n < Word => n \in Amount
  BY ExecutorAssumption DEF Amount

(* Addition of uint64 wraps at most once; without need it does not.        *)
LEMMA PlusWraps ==
    ASSUME NEW m \in Amount, NEW n \in Amount
    PROVE  Plus(m, n) = IF m + n < Word THEN m + n ELSE m + n - Word
  <1>1. m \in Nat /\ n \in Nat /\ m < Word /\ n < Word /\ Word \in Nat \ {0}
    BY AmountsAreNat
  <1>2. m + n \in Int /\ - Word <= m + n /\ m + n < 2 * Word /\ ~ (m + n < 0)
    BY <1>1
  <1>3. (m + n) % Word = IF m + n < Word THEN m + n ELSE m + n - Word
    BY <1>1, <1>2
  <1>4. QED
    BY <1>3 DEF Plus

(* So does subtraction.                                                    *)
LEMMA MinusWraps ==
    ASSUME NEW m \in Amount, NEW n \in Amount
    PROVE  Minus(m, n) = IF n <= m THEN m - n ELSE m + Word - n
  <1>1. m \in Nat /\ n \in Nat /\ m < Word /\ n < Word /\ Word \in Nat \ {0}
    BY AmountsAreNat
  <1>2. PICK a \in Int : a = m + Word - n
    BY <1>1
  <1>3. - Word <= a /\ a < 2 * Word /\ ~ (a < 0)
    BY <1>1, <1>2
  <1>4. a % Word = IF a < Word THEN a ELSE a - Word
    BY <1>1, <1>3
  <1>5. QED
    BY <1>1, <1>2, <1>4 DEF Minus

(* Amounts have a sum, and each is part of it.                             *)
LEMMA TotalOfAmounts ==
    ASSUME NEW f \in [Addr -> Amount]
    PROVE  /\ Total(f) \in Nat
           /\ \A a \in Addr : f[a] \in Nat /\ f[a] <= Total(f)
           /\ \A a, b \in Addr : a # b => f[a] + f[b] <= Total(f)
           /\ (\A a \in Addr : f[a] = 0) => Total(f) = 0
  <1>1. IsFiniteSet(Addr) /\ \A a \in Addr : f[a] \in Nat
    BY ExecutorAssumption, AmountsAreNat
  <1>2. /\ SumFunctionOnSet(f, Addr) \in Nat
        /\ \A a \in Addr : f[a] <= SumFunctionOnSet(f, Addr)
    BY <1>1, SumTyped
  <1>3. (\A a \in Addr : f[a] = 0) => SumFunctionOnSet(f, Addr) = 0
    BY <1>1, SumOfZeros
  <1>4. \A a, b \in Addr : a # b => f[a] + f[b] <= SumFunctionOnSet(f, Addr)
    BY <1>1, SumOfTwo
  <1>5. QED
    BY <1>1, <1>2, <1>3, <1>4 DEF Total

(* One account changes.                                                    *)
LEMMA TotalAfter ==
    ASSUME NEW f \in [Addr -> Amount], NEW e \in [Addr -> Amount], NEW a \in Addr,
           \A x \in Addr : x # a => e[x] = f[x]
    PROVE  Total(e) = Total(f) - f[a] + e[a]
  <1>1. IsFiniteSet(Addr)
    BY ExecutorAssumption
  <1>2. \A x \in Addr : f[x] \in Int /\ e[x] \in Int
    BY AmountsAreNat
  <1>3. SumFunctionOnSet(e, Addr) = SumFunctionOnSet(f, Addr) - f[a] + e[a]
    BY <1>1, <1>2, SumChange
  <1>4. QED
    BY <1>3 DEF Total

----------------------------------------------------------------------------
(***************************************************************************)
(* Balances.                                                               *)
(***************************************************************************)
BalanceOf(l, a) == l.accounts[a].balance

SameBalances(l, m) == \A a \in Addr : BalanceOf(l, a) = BalanceOf(m, a)

(* The balances of a ledger are amounts.                                   *)
LEMMA BalancesTyped ==
    ASSUME NEW l \in Ledger
    PROVE  /\ [a \in Addr |-> l.accounts[a].balance] \in [Addr -> Amount]
           /\ \A a \in Addr : BalanceOf(l, a) \in Amount
  BY DEF Ledger, Account, BalanceOf

(* Saving an account replaces it, and its balance.                         *)
LEMMA SaveReplaces ==
    ASSUME NEW l \in Ledger, NEW a \in Addr, NEW acc \in Account
    PROVE  /\ Save(l, a, acc) \in Ledger
           /\ Save(l, a, acc).accounts[a] = [acc EXCEPT !.stored = TRUE]
           /\ \A b \in Addr : b # a => Save(l, a, acc).accounts[b] = l.accounts[b]
           /\ Save(l, a, acc).tokens = l.tokens
           /\ Save(l, a, acc).validators = l.validators
           /\ Balances(Save(l, a, acc)) = Balances(l) - BalanceOf(l, a) + acc.balance
  <1> DEFINE new == [acc EXCEPT !.stored = TRUE]
             m == Save(l, a, acc)
             f == [b \in Addr |-> l.accounts[b].balance]
             e == [b \in Addr |-> m.accounts[b].balance]
  <1>1. new \in Account /\ new.balance = acc.balance
    BY DEF Account
  <1>2. /\ m \in Ledger
        /\ m.accounts[a] = new
        /\ \A b \in Addr : b # a => m.accounts[b] = l.accounts[b]
        /\ m.tokens = l.tokens /\ m.validators = l.validators
    <2>1. m = [l EXCEPT !.accounts[a] = new]
      BY DEF Save
    <2> HIDE DEF m, new
    <2>2. QED
      BY <1>1, <2>1 DEF Ledger
  <1>3. f \in [Addr -> Amount] /\ e \in [Addr -> Amount]
    <2> HIDE DEF m
    <2>1. QED
      BY <1>2, BalancesTyped
  <1>4. e[a] = acc.balance /\ f[a] = BalanceOf(l, a) /\ \A b \in Addr : b # a => e[b] = f[b]
    <2> HIDE DEF m
    <2>1. QED
      BY <1>1, <1>2 DEF BalanceOf
  <1>5. Balances(m) = Total(e) /\ Balances(l) = Total(f)
    BY DEF Balances
  <1> HIDE DEF e, f, m
  <1>6. Total(e) = Total(f) - f[a] + e[a]
    BY <1>3, <1>4, TotalAfter
  <1>7. QED
    BY <1>2, <1>4, <1>5, <1>6 DEF m

(* The same balances have the same total.                                  *)
LEMMA SameBalancesTotal ==
    ASSUME NEW l \in Ledger, NEW m \in Ledger, SameBalances(l, m)
    PROVE  Balances(l) = Balances(m)
  <1>1. [a \in Addr |-> l.accounts[a].balance] = [a \in Addr |-> m.accounts[a].balance]
    BY DEF SameBalances, BalanceOf
  <1>2. QED
    BY <1>1 DEF Balances

(* The sender's last record: the copy it is made from, less the fee.       *)
LEMMA SaveSenderReplaces ==
    ASSUME TypeOK, NEW t \in Tx, NEW l \in Ledger, NEW acc \in Account, NEW m,
           m = SaveSender(t, l, acc)
    PROVE  /\ m \in Ledger
           /\ Balances(m) = Balances(l) - BalanceOf(l, tx[t].sender)
                                + Minus(acc.balance, tx[t].fee)
           /\ m.accounts[tx[t].sender].tokens = acc.tokens
           /\ m.accounts[tx[t].sender].delegated = acc.delegated
           /\ m.accounts[tx[t].sender].validator = acc.validator
           /\ \A b \in Addr : b # tx[t].sender => m.accounts[b] = l.accounts[b]
           /\ m.tokens = l.tokens /\ m.validators = l.validators
  <1> DEFINE b == [acc EXCEPT !.nonce = tx[t].nonce, !.balance = Minus(@, tx[t].fee)]
             c == [b EXCEPT !.stored = TRUE]
  <1>1. tx[t].nonce \in Amount /\ tx[t].fee \in Amount /\ tx[t].sender \in Addr
    BY DEF TypeOK, TxContent
  <1>2. Minus(acc.balance, tx[t].fee) \in Amount
    BY <1>1, AmountsWrap DEF Account
  <1>3. /\ b \in Account /\ b.balance = Minus(acc.balance, tx[t].fee)
        /\ c.tokens = acc.tokens /\ c.delegated = acc.delegated /\ c.validator = acc.validator
    BY <1>1, <1>2 DEF Account
  <1>4. m = Save(l, tx[t].sender, b)
    BY DEF SaveSender
  <1> HIDE DEF b
  <1>5. /\ Save(l, tx[t].sender, b) \in Ledger
        /\ Save(l, tx[t].sender, b).accounts[tx[t].sender] = c
        /\ \A x \in Addr : x # tx[t].sender =>
               Save(l, tx[t].sender, b).accounts[x] = l.accounts[x]
        /\ Save(l, tx[t].sender, b).tokens = l.tokens
        /\ Save(l, tx[t].sender, b).validators = l.validators
        /\ Balances(Save(l, tx[t].sender, b))
               = Balances(l) - BalanceOf(l, tx[t].sender) + b.balance
    BY <1>1, <1>3, SaveReplaces
  <1> HIDE DEF c
  <1>6. QED
    BY <1>3, <1>4, <1>5

----------------------------------------------------------------------------
(***************************************************************************)
(* Plans, by the sets their writes are in: M for those on the way, E for   *)
(* the last one.                                                           *)
(***************************************************************************)
PlanIn(t, M, E) ==
    /\ current' = t
    /\ UNCHANGED <<tx, ledger, completed, faults>>
    /\ \/ /\ pc' = "commit"
          /\ \A i \in 1 .. Len(todo') - 1 : todo'[i] \in M
          /\ todo'[Len(todo')] \in E
       \/ /\ pc' = "doomed"
          /\ \A i \in 1 .. Len(todo') : todo'[i] \in M

(* One write and the last.                                                 *)
LEMMA PlanOfTwo ==
    ASSUME NEW t, NEW M, NEW E, NEW l1 \in M, NEW l2 \in E, Commit(t, <<l1, l2>>)
    PROVE  PlanIn(t, M, E)
  <1>1. todo' = <<l1, l2>> /\ pc' = "commit" /\ current' = t
        /\ UNCHANGED <<tx, ledger, completed, faults>>
    BY DEF Commit
  <1>2. Len(todo') = 2 /\ todo'[1] = l1 /\ todo'[2] = l2
    BY <1>1
  <1>3. QED
    BY <1>1, <1>2 DEF PlanIn

(* Two writes and the last.                                                *)
LEMMA PlanOfThree ==
    ASSUME NEW t, NEW M, NEW E, NEW l1 \in M, NEW l2 \in M, NEW l3 \in E,
           Commit(t, <<l1, l2, l3>>)
    PROVE  PlanIn(t, M, E)
  <1>1. todo' = <<l1, l2, l3>> /\ pc' = "commit" /\ current' = t
        /\ UNCHANGED <<tx, ledger, completed, faults>>
    BY DEF Commit
  <1>2. Len(todo') = 3 /\ todo'[1] = l1 /\ todo'[2] = l2 /\ todo'[3] = l3
    BY <1>1
  <1>3. QED
    BY <1>1, <1>2 DEF PlanIn

(* No more than one write, and a panic.                                    *)
LEMMA PlanOfPanic ==
    ASSUME NEW t, NEW M, NEW E, NEW l1 \in M, Panic(t, <<>>) \/ Panic(t, <<l1>>)
    PROVE  PlanIn(t, M, E)
  <1>1. /\ pc' = "doomed" /\ current' = t
        /\ UNCHANGED <<tx, ledger, completed, faults>>
        /\ todo' = <<>> \/ todo' = <<l1>>
    BY DEF Panic
  <1>2. CASE todo' = <<>>
    BY <1>1, <1>2 DEF PlanIn
  <1>3. CASE todo' = <<l1>>
    <2>1. Len(todo') = 1 /\ todo'[1] = l1
      BY <1>3
    <2>2. QED
      BY <1>1, <2>1 DEF PlanIn
  <1>4. QED
    BY <1>1, <1>2, <1>3

----------------------------------------------------------------------------
(***************************************************************************)
(* What a transaction does to the total of the balances.                   *)
(***************************************************************************)
Needed(t) == Spent(t) + (IF tx[t].kind = "transfer" THEN tx[t].amount ELSE 0)

(* On the way the recipient may have what the sender still has as well.    *)
MidCoins(t) ==
    {l \in Ledger :
        \/ Balances(l) = Balances(ledger)
        \/ Balances(l) = Balances(ledger) + tx[t].amount
        \/ Balances(l) = Balances(ledger) + tx[t].amount - Word /\ Balances(ledger) >= Word}

(* In the end the costs are gone, up to overflow.                          *)
EndCoins(t) ==
    {l \in Ledger :
        \/ Balances(l) = Balances(ledger) - Spent(t)
        \/ Balances(l) = Balances(ledger) - Spent(t) + Word /\ Needed(t) > Sender(t).balance
        \/ Balances(l) = Balances(ledger) - Spent(t) - Word /\ Balances(ledger) >= Word}

(* The last write of a transaction of which nothing but the fee is taken.  *)
LEMMA FeeTaken ==
    ASSUME TypeOK, NEW t \in Tx, Executable(t), tx[t].kind # "createValidator",
           NEW l \in Ledger, SameBalances(l, ledger),
           NEW acc \in Account, acc.balance = Sender(t).balance
    PROVE  SaveSender(t, l, acc) \in EndCoins(t)
  <1>1. tx[t].fee \in Amount /\ tx[t].sender \in Addr /\ ledger \in Ledger
    BY DEF TypeOK, TxContent
  <1>2. acc.balance \in Amount /\ acc.balance >= tx[t].fee
        /\ BalanceOf(l, tx[t].sender) = acc.balance
    BY <1>1 DEF Account, Executable, SameBalances, BalanceOf, Sender
  <1>3. Minus(acc.balance, tx[t].fee) = acc.balance - tx[t].fee
    BY <1>1, <1>2, MinusWraps, AmountsAreNat
  <1>4. Balances(l) = Balances(ledger) /\ Balances(l) \in Nat
    BY <1>1, SameBalancesTotal, TotalOfAmounts, BalancesTyped DEF Balances
  <1>5. PICK m : m = SaveSender(t, l, acc)
    OBVIOUS
  <1>6. m \in Ledger /\ Balances(m) = Balances(l) - BalanceOf(l, tx[t].sender)
                                          + Minus(acc.balance, tx[t].fee)
    BY <1>5, SaveSenderReplaces
  <1>7. Spent(t) = tx[t].fee /\ acc.balance \in Nat /\ tx[t].fee \in Nat
    BY <1>1, <1>2, AmountsAreNat DEF Spent
  <1>8. Balances(m) = Balances(ledger) - Spent(t)
    BY <1>2, <1>3, <1>4, <1>6, <1>7
  <1>9. QED
    BY <1>5, <1>6, <1>8 DEF EndCoins

----------------------------------------------------------------------------
(* What is saved, and nothing else, is in the ledger afterwards.           *)
LEMMA Saved ==
    ASSUME NEW l \in Ledger, NEW a \in Addr, NEW acc \in Account, NEW m,
           m = Save(l, a, acc)
    PROVE  /\ m \in Ledger
           /\ Balances(m) = Balances(l) - BalanceOf(l, a) + acc.balance
           /\ m.accounts[a].balance = acc.balance
           /\ m.accounts[a].tokens = acc.tokens
           /\ m.accounts[a].delegated = acc.delegated
           /\ m.accounts[a].validator = acc.validator
           /\ \A b \in Addr : b # a => m.accounts[b] = l.accounts[b]
           /\ m.tokens = l.tokens /\ m.validators = l.validators
  <1> DEFINE c == [acc EXCEPT !.stored = TRUE]
  <1>1. /\ c.tokens = acc.tokens /\ c.delegated = acc.delegated
        /\ c.validator = acc.validator /\ c.balance = acc.balance
    BY DEF Account
  <1>2. /\ Save(l, a, acc) \in Ledger
        /\ Save(l, a, acc).accounts[a] = c
        /\ \A b \in Addr : b # a => Save(l, a, acc).accounts[b] = l.accounts[b]
        /\ Save(l, a, acc).tokens = l.tokens
        /\ Save(l, a, acc).validators = l.validators
        /\ Balances(Save(l, a, acc)) = Balances(l) - BalanceOf(l, a) + acc.balance
    BY SaveReplaces
  <1> HIDE DEF c
  <1>3. QED
    BY <1>1, <1>2

(* A payment.                                                              *)
LEMMA TransferCoins ==
    ASSUME TypeOK, NEW t \in Tx, Executable(t), Transfer(t), tx[t].to # tx[t].sender
    PROVE  PlanIn(t, MidCoins(t), EndCoins(t))
  <1> DEFINE n == tx[t].amount
             from == tx[t].sender
             to == tx[t].to
             s == [Sender(t) EXCEPT !.balance = Minus(@, n)]
             r == [Other(t) EXCEPT !.balance = Plus(@, n)]
             l1 == Save(ledger, to, r)
             l2 == SaveSender(t, l1, s)
             bs == Sender(t).balance
             bo == Other(t).balance
             B == Balances(ledger)
  <1>1. /\ n \in Amount /\ from \in Addr /\ to \in Addr /\ tx[t].fee \in Amount
        /\ ledger \in Ledger /\ Sender(t) \in Account /\ Other(t) \in Account
    BY DEF TypeOK, TxContent, Ledger, Sender, Other
  <1>2. bs \in Amount /\ bo \in Amount
    BY <1>1 DEF Account
  <1>3. /\ s \in Account /\ s.balance = Minus(bs, n)
        /\ r \in Account /\ r.balance = Plus(bo, n)
    BY <1>1, <1>2, AmountsWrap DEF Account
  <1>4. /\ Commit(t, <<l1, l2>>) /\ bs >= n /\ tx[t].kind = "transfer"
    BY DEF Transfer
  <1> HIDE DEF s, r
  <1>5. PICK m1 : m1 = Save(ledger, to, r)
    OBVIOUS
  <1>6. PICK m2 : m2 = SaveSender(t, m1, s)
    OBVIOUS
  <1>7. Commit(t, <<m1, m2>>)
    BY <1>4, <1>5, <1>6
  <1> HIDE DEF l1, l2, n, bs, bo, B
  <1>8. /\ m1 \in Ledger
        /\ Balances(m1) = Balances(ledger) - BalanceOf(ledger, to) + r.balance
        /\ \A b \in Addr : b # to => m1.accounts[b] = ledger.accounts[b]
    <2>1. PICK l : l = ledger
      OBVIOUS
    <2>2. PICK a : a = to
      OBVIOUS
    <2>3. PICK acc : acc = r
      OBVIOUS
    <2>4. l \in Ledger /\ a \in Addr /\ acc \in Account /\ m1 = Save(l, a, acc)
      BY <1>1, <1>3, <1>5, <2>1, <2>2, <2>3
    <2>5. /\ m1 \in Ledger
          /\ Balances(m1) = Balances(l) - BalanceOf(l, a) + acc.balance
          /\ \A b \in Addr : b # a => m1.accounts[b] = l.accounts[b]
      BY <2>4, Saved
    <2>6. QED
      BY <2>1, <2>2, <2>3, <2>5
  <1>9. /\ m2 \in Ledger
        /\ Balances(m2) = Balances(m1) - BalanceOf(m1, from) + Minus(s.balance, tx[t].fee)
    BY <1>3, <1>6, <1>8, SaveSenderReplaces
  <1>10. BalanceOf(ledger, to) = bo /\ BalanceOf(m1, from) = bs
    BY <1>1, <1>8 DEF BalanceOf, Sender, Other, bs, bo
  <1>11. B \in Nat /\ bs + bo <= B
    <2>1. PICK f : f = [a \in Addr |-> ledger.accounts[a].balance]
      OBVIOUS
    <2>2. f \in [Addr -> Amount] /\ f[from] = bs /\ f[to] = bo /\ Total(f) = B
      BY <1>1, <2>1, BalancesTyped DEF Sender, Other, Balances, B, bs, bo
    <2>3. QED
      BY <1>1, <2>2, TotalOfAmounts
  <1>12. /\ n \in Nat /\ bs \in Nat /\ bo \in Nat /\ tx[t].fee \in Nat /\ Word \in Nat
         /\ bs < Word /\ bo < Word /\ tx[t].fee < Word /\ n <= bs
    BY <1>1, <1>2, <1>4, AmountsAreNat
  <1>13. s.balance = bs - n /\ s.balance \in Amount
    <2>1. s.balance = bs - n
      BY <1>1, <1>2, <1>3, <1>4, MinusWraps, AmountsAreNat
    <2>2. s.balance \in Amount
      BY <1>3 DEF Account
    <2>3. QED
      BY <2>1, <2>2
  <1>14. r.balance = IF bo + n < Word THEN bo + n ELSE bo + n - Word
    BY <1>1, <1>2, <1>3, PlusWraps
  <1>15. PICK sb : sb = Minus(s.balance, tx[t].fee)
    OBVIOUS
  <1>16. sb = IF tx[t].fee <= bs - n THEN bs - n - tx[t].fee ELSE bs - n + Word - tx[t].fee
    BY <1>1, <1>13, <1>15, MinusWraps
  <1>17. Spent(t) = tx[t].fee /\ Needed(t) = tx[t].fee + n
    BY <1>4, <1>12 DEF Spent, Needed, n
  <1>18. /\ \/ B - bo + r.balance = B + n
            \/ B - bo + r.balance = B + n - Word /\ B >= Word
         /\ \/ B - bo + r.balance - bs + sb = B - tx[t].fee
            \/ B - bo + r.balance - bs + sb = B - tx[t].fee + Word /\ tx[t].fee + n > bs
            \/ B - bo + r.balance - bs + sb = B - tx[t].fee - Word /\ B >= Word
    <2>1. PICK b, x, y, v, fee, rb :
              b = B /\ x = bs /\ y = bo /\ v = n /\ fee = tx[t].fee /\ rb = r.balance
      OBVIOUS
    <2>2. /\ b \in Nat /\ x \in Nat /\ y \in Nat /\ v \in Nat /\ fee \in Nat
          /\ x < Word /\ y < Word /\ fee < Word /\ x + y <= b /\ v <= x
      BY <1>11, <1>12, <2>1
    <2>3. rb = IF y + v < Word THEN y + v ELSE y + v - Word
      BY <1>14, <2>1
    <2>4. sb = IF fee <= x - v THEN x - v - fee ELSE x - v + Word - fee
      BY <1>16, <2>1
    <2>5. /\ \/ b - y + rb = b + v
             \/ b - y + rb = b + v - Word /\ b >= Word
          /\ \/ b - y + rb - x + sb = b - fee
             \/ b - y + rb - x + sb = b - fee + Word /\ fee + v > x
             \/ b - y + rb - x + sb = b - fee - Word /\ b >= Word
      <3>1. Word \in Nat
        BY AmountsAreNat
      <3>2. /\ \/ rb = y + v
               \/ rb = y + v - Word /\ y + v >= Word
            /\ rb \in Int
        BY <2>2, <2>3, <3>1
      <3>3. /\ \/ sb = x - v - fee
               \/ sb = x - v - fee + Word /\ fee + v > x
            /\ sb \in Int
        BY <2>2, <2>4, <3>1
      <3>4. y + v >= Word => b >= Word
        BY <2>2, <3>1
      <3>5. QED
        BY <2>2, <3>1, <3>2, <3>3, <3>4
    <2>6. QED
      BY <2>1, <2>5
  <1>19. Balances(m1) = B - bo + r.balance
    BY <1>8, <1>10 DEF B
  <1>20. Balances(m2) = B - bo + r.balance - bs + sb
    <2>1. Balances(m2) = Balances(m1) - bs + sb
      BY <1>9, <1>10, <1>15
    <2>2. r.balance \in Int /\ sb \in Int
      BY <1>12, <1>14, <1>16
    <2>3. QED
      BY <1>11, <1>12, <1>19, <2>1, <2>2
  <1>21. m1 \in MidCoins(t)
    BY <1>8, <1>18, <1>19 DEF MidCoins, B, n
  <1>22. m2 \in EndCoins(t)
    BY <1>9, <1>17, <1>18, <1>20 DEF EndCoins, B, bs
  <1>23. QED
    BY <1>7, <1>21, <1>22, PlanOfTwo

----------------------------------------------------------------------------
(***************************************************************************)
(* What the plan of each kind leaves alone: all but the payments and the   *)
(* creation of validators the balances on the way, all but three kinds the *)
(* tokens, all but two the stakes.                                         *)
(***************************************************************************)
CoinKinds == {"transfer", "createValidator"}
TokenKinds == {"createToken", "mintToken", "transferToken"}
StakeKinds == {"createValidator", "delegate"}

SameTokens(l, m) ==
    l.tokens = m.tokens /\ \A a \in Addr : l.accounts[a].tokens = m.accounts[a].tokens

SameStakes(l, m) ==
    /\ l.validators = m.validators
    /\ \A a \in Addr : /\ l.accounts[a].delegated = m.accounts[a].delegated
                       /\ l.accounts[a].validator = m.accounts[a].validator

KeepsRest(t, l) ==
    /\ tx[t].kind \notin TokenKinds => SameTokens(l, ledger)
    /\ tx[t].kind \notin StakeKinds => SameStakes(l, ledger)

Keeps(t) ==
    {l \in Ledger : /\ tx[t].kind \notin CoinKinds => SameBalances(l, ledger)
                    /\ KeepsRest(t, l)}

Ends(t) ==
    {l \in Ledger : /\ tx[t].kind \notin CoinKinds => l \in EndCoins(t)
                    /\ KeepsRest(t, l)}

(* A record that differs from the stored one in what its kind may change.  *)
RecordKept(t, a, acc) ==
    /\ acc \in Account
    /\ tx[t].kind \notin CoinKinds => acc.balance = ledger.accounts[a].balance
    /\ tx[t].kind \notin TokenKinds => acc.tokens = ledger.accounts[a].tokens
    /\ tx[t].kind \notin StakeKinds => /\ acc.delegated = ledger.accounts[a].delegated
                                       /\ acc.validator = ledger.accounts[a].validator

(* Saving such a record.                                                   *)
LEMMA SaveKeepsRest ==
    ASSUME NEW t \in Tx, NEW l \in Keeps(t), NEW a \in Addr, NEW acc, RecordKept(t, a, acc)
    PROVE  Save(l, a, acc) \in Keeps(t)
  <1>1. l \in Ledger /\ acc \in Account /\ KeepsRest(t, l)
    BY DEF Keeps, RecordKept
  <1>2. PICK m : m = Save(l, a, acc)
    OBVIOUS
  <1>3. /\ m \in Ledger
        /\ m.accounts[a].balance = acc.balance /\ m.accounts[a].tokens = acc.tokens
        /\ m.accounts[a].delegated = acc.delegated /\ m.accounts[a].validator = acc.validator
        /\ \A b \in Addr : b # a => m.accounts[b] = l.accounts[b]
        /\ m.tokens = l.tokens /\ m.validators = l.validators
    BY <1>1, <1>2, Saved
  <1>4. tx[t].kind \notin CoinKinds => SameBalances(m, ledger)
    BY <1>3 DEF Keeps, RecordKept, SameBalances, BalanceOf
  <1>5. tx[t].kind \notin TokenKinds => SameTokens(m, ledger)
    BY <1>1, <1>3 DEF KeepsRest, RecordKept, SameTokens
  <1>6. tx[t].kind \notin StakeKinds => SameStakes(m, ledger)
    BY <1>1, <1>3 DEF KeepsRest, RecordKept, SameStakes
  <1>7. QED
    BY <1>2, <1>3, <1>4, <1>5, <1>6 DEF Keeps, KeepsRest

(* Saving it as the sender's, with the nonce and less the fee.             *)
LEMMA SaveSenderEnds ==
    ASSUME TypeOK, NEW t \in Tx, Executable(t), NEW l \in Keeps(t), NEW acc,
           RecordKept(t, tx[t].sender, acc)
    PROVE  SaveSender(t, l, acc) \in Ends(t)
  <1>1. l \in Ledger /\ acc \in Account /\ KeepsRest(t, l) /\ tx[t].sender \in Addr
    BY DEF Keeps, RecordKept, TypeOK, TxContent
  <1>2. PICK m : m = SaveSender(t, l, acc)
    OBVIOUS
  <1>3. /\ m \in Ledger
        /\ m.accounts[tx[t].sender].tokens = acc.tokens
        /\ m.accounts[tx[t].sender].delegated = acc.delegated
        /\ m.accounts[tx[t].sender].validator = acc.validator
        /\ \A b \in Addr : b # tx[t].sender => m.accounts[b] = l.accounts[b]
        /\ m.tokens = l.tokens /\ m.validators = l.validators
    BY <1>1, <1>2, SaveSenderReplaces
  <1>4. ASSUME tx[t].kind \notin CoinKinds
        PROVE  m \in EndCoins(t)
    <2>1. SameBalances(l, ledger) /\ acc.balance = Sender(t).balance
      BY <1>4 DEF Keeps, RecordKept, Sender
    <2>2. tx[t].kind # "createValidator"
      BY <1>4 DEF CoinKinds
    <2>3. QED
      BY <1>1, <1>2, <2>1, <2>2, FeeTaken
  <1>5. tx[t].kind \notin TokenKinds => SameTokens(m, ledger)
    BY <1>1, <1>3 DEF KeepsRest, RecordKept, SameTokens
  <1>6. tx[t].kind \notin StakeKinds => SameStakes(m, ledger)
    BY <1>1, <1>3 DEF KeepsRest, RecordKept, SameStakes
  <1>7. QED
    BY <1>2, <1>3, <1>4, <1>5, <1>6 DEF Ends, KeepsRest

(* Setting a holding changes the wallet, and in it nothing else.           *)
LEMMA SetHoldingKept ==
    ASSUME NEW acc \in Account, NEW k \in Asset, NEW n \in Amount, NEW b,
           b = SetHolding(acc, k, n)
    PROVE  /\ b \in Account
           /\ b.balance = acc.balance
           /\ b.delegated = acc.delegated
           /\ b.validator = acc.validator
           /\ Holding(b, k) = n
           /\ \A j \in Asset : j # k => Holding(b, j) = Holding(acc, j)
  <1> DEFINE w == [x \in DOMAIN acc.tokens \cup {k} |-> IF x = k THEN n ELSE acc.tokens[x]]
  <1>1. b \in Account
    BY Wallets
  <1>2. b = [acc EXCEPT !.tokens = w]
    BY DEF SetHolding, Account
  <1>3. /\ DOMAIN w = DOMAIN acc.tokens \cup {k} /\ w[k] = n
        /\ \A x \in DOMAIN acc.tokens : x # k => w[x] = acc.tokens[x]
    OBVIOUS
  <1> HIDE DEF w
  <1>4. b.tokens = w
    BY <1>2 DEF Account
  <1>5. /\ Holding(b, k) = n
        /\ \A j \in Asset : j # k => Holding(b, j) = Holding(acc, j)
    BY <1>3, <1>4 DEF Holding
  <1>6. QED
    BY <1>1, <1>2, <1>5 DEF Account

(* Every plan keeps what its kind has no business with.                    *)
LEMMA PlanKeeps ==
    ASSUME TypeOK, NEW t \in Tx, Begin(t)
    PROVE  PlanIn(t, Keeps(t), Ends(t))
  <1> DEFINE k == tx[t].asset
             to == tx[t].to
             n == tx[t].amount
             from == tx[t].sender
  <1> USE DEF CoinKinds, TokenKinds, StakeKinds
  <1>1. /\ k \in Asset /\ to \in Addr /\ from \in Addr /\ n \in Amount
        /\ tx[t].mintable \in BOOLEAN /\ Executable(t)
    BY DEF TypeOK, TxContent, Begin
  <1>2. ledger \in Ledger /\ Sender(t) \in Account /\ Other(t) \in Account
    BY <1>1 DEF TypeOK, Ledger, Sender, Other
  <1>3. ledger \in Keeps(t)
    BY <1>2 DEF Keeps, KeepsRest, SameBalances, SameTokens, SameStakes
  <1>4. RecordKept(t, from, Sender(t)) /\ RecordKept(t, to, Other(t))
    BY <1>2 DEF RecordKept, Sender, Other
  <1>5. CASE Transfer(t)
    <2> DEFINE s == [Sender(t) EXCEPT !.balance = Minus(@, n)]
               r == [Other(t) EXCEPT !.balance = Plus(@, n)]
               l1 == Save(ledger, to, r)
               l2 == SaveSender(t, l1, s)
    <2>1. RecordKept(t, from, s) /\ RecordKept(t, to, r)
      BY <1>1, <1>2, <1>5, AmountsWrap DEF Account, RecordKept, Transfer, Sender, Other
    <2>2. Commit(t, <<l1, l2>>)
      BY <1>5 DEF Transfer
    <2> HIDE DEF s, r
    <2>3. l1 \in Keeps(t)
      BY <1>1, <1>3, <2>1, SaveKeepsRest
    <2> HIDE DEF l1
    <2>4. l2 \in Ends(t)
      BY <1>1, <2>1, <2>3, SaveSenderEnds
    <2> HIDE DEF l2
    <2>5. QED
      BY <2>2, <2>3, <2>4, PlanOfTwo
  <1>6. CASE CreateValidator(t)
    <2> DEFINE s == [Sender(t) EXCEPT !.balance = Minus(@, MinStake), !.delegated = MinStake,
                                      !.validator = to]
               v == [stored |-> TRUE, stake |-> MinStake]
               l1 == [ledger EXCEPT !.validators[to] = v, !.registry[to] = v]
               l2 == SaveSender(t, l1, s)
    <2>1. tx[t].kind = "createValidator" /\ Commit(t, <<l1, l2>>)
      BY <1>6 DEF CreateValidator
    <2>2. RecordKept(t, from, s)
      <3>1. MinStake \in Amount
        BY ExecutorAssumption
      <3>2. s \in Account /\ s.tokens = Sender(t).tokens
        BY <1>1, <1>2, <3>1, AmountsWrap DEF Account
      <3> HIDE DEF s
      <3>3. QED
        BY <2>1, <3>2 DEF RecordKept, Sender
    <2>3. v \in Validator
      BY ExecutorAssumption DEF Validator
    <2> HIDE DEF s, v
    <2>4. l1 \in Ledger
      BY <1>1, <1>2, <2>3 DEF Ledger
    <2>5. l1 \in Keeps(t)
      BY <1>1, <1>2, <2>1, <2>4 DEF Keeps, KeepsRest, SameTokens, Ledger
    <2> HIDE DEF l1
    <2>6. l2 \in Ends(t)
      BY <1>1, <2>2, <2>5, SaveSenderEnds
    <2> HIDE DEF l2
    <2>7. QED
      BY <2>1, <2>5, <2>6, PlanOfTwo
  <1>7. CASE DelegateStake(t)
    <2> DEFINE s == [Sender(t) EXCEPT !.delegated = Plus(@, n), !.validator = to]
               v == [ledger.validators[to] EXCEPT !.stake = Plus(@, n)]
               l1 == SetStake(ledger, to, v)
               l2 == SaveSender(t, l1, s)
    <2>1. tx[t].kind = "delegate" /\ Commit(t, <<l1, l2>>)
      BY <1>7 DEF DelegateStake
    <2>2. RecordKept(t, from, s)
      <3>1. /\ s \in Account /\ s.tokens = Sender(t).tokens
            /\ s.balance = Sender(t).balance
        BY <1>1, <1>2, AmountsWrap DEF Account
      <3> HIDE DEF s
      <3>2. QED
        BY <2>1, <3>1 DEF RecordKept, Sender
    <2>3. v \in Validator
      BY <1>1, <1>2, AmountsWrap DEF Ledger, Validator
    <2> HIDE DEF s, v
    <2>4. l1 \in Ledger
      BY <1>1, <1>2, <2>3 DEF Ledger, SetStake
    <2>5. l1.accounts = ledger.accounts /\ l1.tokens = ledger.tokens
      BY <1>2 DEF Ledger, SetStake
    <2> HIDE DEF l1
    <2>6. l1 \in Keeps(t)
      BY <2>1, <2>4, <2>5 DEF Keeps, KeepsRest, SameTokens, SameBalances, BalanceOf
    <2>7. l2 \in Ends(t)
      BY <1>1, <2>2, <2>6, SaveSenderEnds
    <2> HIDE DEF l2
    <2>8. QED
      BY <2>1, <2>6, <2>7, PlanOfTwo
  <1>8. CASE CreateToken(t)
    <2> DEFINE v == [stored |-> TRUE, supply |-> n, admin |-> to, mintable |-> tx[t].mintable]
               b == SetHolding(Other(t), k, n)
               l1 == [ledger EXCEPT !.tokens[k] = v]
               l2 == Save(l1, to, b)
               l3 == SaveSender(t, l2, Sender(t))
    <2>1. /\ tx[t].kind = "createToken"
          /\ Panic(t, <<l1>>) \/ Commit(t, <<l1, l2, l3>>)
      BY <1>8 DEF CreateToken
    <2>2. v \in Token
      BY <1>1 DEF Token
    <2>3. RecordKept(t, to, b)
      BY <1>1, <1>2, <2>1, SetHoldingKept DEF RecordKept, Other
    <2> HIDE DEF v, b
    <2>4. l1 \in Keeps(t)
      BY <1>1, <1>2, <2>1, <2>2
         DEF Keeps, KeepsRest, SameStakes, SameBalances, BalanceOf, Ledger
    <2> HIDE DEF l1
    <2>5. l2 \in Keeps(t)
      BY <1>1, <2>3, <2>4, SaveKeepsRest
    <2> HIDE DEF l2
    <2>6. l3 \in Ends(t)
      BY <1>1, <1>4, <2>5, SaveSenderEnds
    <2> HIDE DEF l3
    <2>7. CASE Panic(t, <<l1>>)
      BY <2>4, <2>7, PlanOfPanic
    <2>8. CASE Commit(t, <<l1, l2, l3>>)
      BY <2>4, <2>5, <2>6, <2>8, PlanOfThree
    <2>9. QED
      BY <2>1, <2>7, <2>8
  <1>9. CASE MintToken(t)
    <2> DEFINE b == SetHolding(Other(t), k, Plus(Holding(Other(t), k), n))
               l1 == [ledger EXCEPT !.tokens[k].supply = Plus(@, n)]
               l2 == Save(l1, to, b)
               l3 == SaveSender(t, l2, Sender(t))
    <2>1. /\ tx[t].kind = "mintToken"
          /\ Panic(t, <<>>) \/ Commit(t, <<l1, l2, l3>>)
      BY <1>9 DEF MintToken
    <2>2. RecordKept(t, to, b)
      <3>1. Plus(Holding(Other(t), k), n) \in Amount
        BY <1>1, <1>2, Wallets, AmountsWrap
      <3>2. QED
        BY <1>1, <1>2, <2>1, <3>1, SetHoldingKept DEF RecordKept, Other
    <2> HIDE DEF b
    <2>3. l1 \in Keeps(t)
      <3>1. ledger.tokens[k] \in Token
        BY <1>1, <1>2 DEF Ledger
      <3>2. [ledger.tokens[k] EXCEPT !.supply = Plus(@, n)] \in Token
        BY <1>1, <3>1, AmountsWrap DEF Token
      <3>3. l1 \in Ledger
        BY <1>1, <1>2, <3>2 DEF Ledger
      <3>4. /\ l1.accounts = ledger.accounts /\ l1.validators = ledger.validators
        BY <1>2 DEF Ledger
      <3> HIDE DEF l1
      <3>5. QED
        BY <2>1, <3>3, <3>4 DEF Keeps, KeepsRest, SameStakes, SameBalances, BalanceOf
    <2> HIDE DEF l1
    <2>4. l2 \in Keeps(t)
      BY <1>1, <2>2, <2>3, SaveKeepsRest
    <2> HIDE DEF l2
    <2>5. l3 \in Ends(t)
      BY <1>1, <1>4, <2>4, SaveSenderEnds
    <2> HIDE DEF l3
    <2>6. QED
      BY <2>1, <2>3, <2>4, <2>5, PlanOfThree, PlanOfPanic
  <1>10. CASE TransferToken(t)
    <2> DEFINE s == SetHolding(Sender(t), k, Holding(Sender(t), k) - n)
               r == SetHolding(Other(t), k, Plus(Holding(Other(t), k), n))
               l1 == Save(ledger, from, s)
               l2 == Save(l1, to, r)
               l3 == SaveSender(t, l2, s)
    <2>1. /\ tx[t].kind = "transferToken"
          /\ Panic(t, <<>>) \/ Commit(t, <<l1, l2, l3>>)
          /\ Holding(Sender(t), k) >= n
      BY <1>10 DEF TransferToken
    <2>2. RecordKept(t, to, r)
      <3>1. Plus(Holding(Other(t), k), n) \in Amount
        BY <1>1, <1>2, Wallets, AmountsWrap
      <3>2. QED
        BY <1>1, <1>2, <2>1, <3>1, SetHoldingKept DEF RecordKept, Other
    <2>3. RecordKept(t, from, s)
      <3>1. Holding(Sender(t), k) \in Amount
        BY <1>1, <1>2, Wallets
      <3>2. Holding(Sender(t), k) - n \in Amount
        BY <1>1, <2>1, <3>1, ExecutorAssumption DEF Amount
      <3>3. QED
        BY <1>1, <1>2, <2>1, <3>2, SetHoldingKept DEF RecordKept, Sender
    <2> HIDE DEF s, r
    <2>4. l1 \in Keeps(t)
      BY <1>1, <1>3, <2>3, SaveKeepsRest
    <2> HIDE DEF l1
    <2>5. l2 \in Keeps(t)
      BY <1>1, <2>2, <2>4, SaveKeepsRest
    <2> HIDE DEF l2
    <2>6. l3 \in Ends(t)
      BY <1>1, <2>3, <2>5, SaveSenderEnds
    <2> HIDE DEF l3
    <2>7. QED
      BY <2>1, <2>4, <2>5, <2>6, PlanOfThree, PlanOfPanic
  <1>11. CASE CreateCollection(t)
    <2>0. PICK c \in Asset :
            LET put == [ledger EXCEPT !.collections[c] = from]
            IN  tx[t].kind = "createCollection" /\ Commit(t, <<put, SaveSender(t, put, Sender(t))>>)
      BY <1>11 DEF CreateCollection
    <2> DEFINE l1 == [ledger EXCEPT !.collections[c] = from]
               l2 == SaveSender(t, l1, Sender(t))
    <2>1. Commit(t, <<l1, l2>>)
      BY <2>0
    <2>2. l1 \in Keeps(t)
      BY <1>1, <1>2
         DEF Keeps, KeepsRest, SameTokens, SameStakes, SameBalances, BalanceOf, Ledger
    <2> HIDE DEF l1
    <2>3. l2 \in Ends(t)
      BY <1>1, <1>4, <2>2, SaveSenderEnds
    <2> HIDE DEF l2
    <2>4. QED
      BY <2>1, <2>2, <2>3, PlanOfTwo
  <1>12. CASE MintNFT(t)
    <2> DEFINE l1 == [ledger EXCEPT !.nfts[k] = to]
               l2 == SaveSender(t, l1, Sender(t))
    <2>1. Commit(t, <<l1, l2>>)
      BY <1>12 DEF MintNFT
    <2>2. l1 \in Keeps(t)
      BY <1>1, <1>2
         DEF Keeps, KeepsRest, SameTokens, SameStakes, SameBalances, BalanceOf, Ledger
    <2> HIDE DEF l1
    <2>3. l2 \in Ends(t)
      BY <1>1, <1>4, <2>2, SaveSenderEnds
    <2> HIDE DEF l2
    <2>4. QED
      BY <2>1, <2>2, <2>3, PlanOfTwo
  <1>13. QED
    BY <1>5, <1>6, <1>7, <1>8, <1>9, <1>10, <1>11, <1>12 DEF Begin

(* The creation of a validator.                                            *)
LEMMA CreateValidatorCoins ==
    ASSUME TypeOK, NEW t \in Tx, Executable(t), CreateValidator(t)
    PROVE  PlanIn(t, MidCoins(t), EndCoins(t))
  <1> DEFINE from == tx[t].sender
             to == tx[t].to
             s == [Sender(t) EXCEPT !.balance = Minus(@, MinStake), !.delegated = MinStake,
                                    !.validator = to]
             v == [stored |-> TRUE, stake |-> MinStake]
             l1 == [ledger EXCEPT !.validators[to] = v, !.registry[to] = v]
             bs == Sender(t).balance
  <1>1. /\ from \in Addr /\ to \in Addr /\ tx[t].fee \in Amount
        /\ ledger \in Ledger /\ Sender(t) \in Account /\ MinStake \in Amount
    BY ExecutorAssumption DEF TypeOK, TxContent, Ledger, Sender
  <1>2. bs \in Amount
    BY <1>1 DEF Account
  <1>3. s \in Account /\ s.balance = Minus(bs, MinStake)
    BY <1>1, <1>2, AmountsWrap DEF Account
  <1>4. /\ Commit(t, <<l1, SaveSender(t, l1, s)>>)
        /\ bs >= MinStake /\ tx[t].kind = "createValidator"
    BY DEF CreateValidator
  <1>5. v \in Validator
    BY <1>1 DEF Validator
  <1> HIDE DEF s, v
  <1>6. l1 \in Ledger /\ SameBalances(l1, ledger)
    BY <1>1, <1>5 DEF Ledger, SameBalances, BalanceOf
  <1> HIDE DEF l1
  <1>7. PICK m1 : m1 = l1
    OBVIOUS
  <1>8. PICK m2 : m2 = SaveSender(t, m1, s)
    OBVIOUS
  <1>9. Commit(t, <<m1, m2>>)
    BY <1>4, <1>7, <1>8
  <1>10. m1 \in Ledger /\ Balances(m1) = Balances(ledger) /\ BalanceOf(m1, from) = bs
    BY <1>1, <1>6, <1>7, SameBalancesTotal DEF SameBalances, BalanceOf, Sender
  <1>11. /\ m2 \in Ledger
         /\ Balances(m2) = Balances(m1) - BalanceOf(m1, from) + Minus(s.balance, tx[t].fee)
    BY <1>3, <1>8, <1>10, SaveSenderReplaces
  <1>12. /\ MinStake \in Nat /\ bs \in Nat /\ tx[t].fee \in Nat /\ Word \in Nat
         /\ bs < Word /\ tx[t].fee < Word /\ MinStake <= bs
    BY <1>1, <1>2, <1>4, AmountsAreNat
  <1>13. s.balance = bs - MinStake /\ s.balance \in Amount
    <2>1. s.balance = bs - MinStake
      BY <1>1, <1>2, <1>3, <1>4, MinusWraps, AmountsAreNat
    <2>2. s.balance \in Amount
      BY <1>3 DEF Account
    <2>3. QED
      BY <2>1, <2>2
  <1>14. PICK sb : sb = Minus(s.balance, tx[t].fee)
    OBVIOUS
  <1>15. sb = IF tx[t].fee <= bs - MinStake THEN bs - MinStake - tx[t].fee
                                            ELSE bs - MinStake + Word - tx[t].fee
    BY <1>1, <1>13, <1>14, MinusWraps
  <1>16. Spent(t) = tx[t].fee + MinStake /\ Needed(t) = tx[t].fee + MinStake
    BY <1>4, <1>12 DEF Spent, Needed
  <1>17. Balances(ledger) \in Nat
    BY <1>1, TotalOfAmounts, BalancesTyped DEF Balances
  <1>18. Balances(m2) = Balances(ledger) - bs + sb
    BY <1>10, <1>11, <1>14
  <1> HIDE DEF bs
  <1>19. PICK B : B = Balances(ledger)
    OBVIOUS
  <1>20. PICK fee : fee = tx[t].fee
    OBVIOUS
  <1>21. \/ Balances(m2) = B - (fee + MinStake)
         \/ Balances(m2) = B - (fee + MinStake) + Word /\ fee + MinStake > bs
    BY <1>12, <1>15, <1>17, <1>18, <1>19, <1>20
  <1>22. m1 \in MidCoins(t)
    BY <1>10 DEF MidCoins
  <1>23. m2 \in EndCoins(t)
    BY <1>11, <1>16, <1>19, <1>20, <1>21 DEF EndCoins, bs
  <1>24. QED
    BY <1>9, <1>22, <1>23, PlanOfTwo

(* Larger sets hold the same plan.                                         *)
LEMMA PlanWeakened ==
    ASSUME NEW t, NEW M, NEW E, PlanIn(t, M, E), NEW M2, NEW E2, M \subseteq M2, E \subseteq E2
    PROVE  PlanIn(t, M2, E2)
  BY DEF PlanIn

(* What any execution does to the total.                                   *)
LEMMA PlanCoins ==
    ASSUME TypeOK, NEW t \in Tx, Begin(t), tx[t].kind = "transfer" => tx[t].to # tx[t].sender
    PROVE  PlanIn(t, MidCoins(t), EndCoins(t))
  <1>1. Executable(t)
    BY DEF Begin
  <1>2. CASE Transfer(t)
    BY <1>1, <1>2, TransferCoins DEF Transfer
  <1>3. CASE CreateValidator(t)
    BY <1>1, <1>3, CreateValidatorCoins
  <1>4. CASE tx[t].kind \notin CoinKinds
    <2>1. ledger \in Ledger
      BY DEF TypeOK
    <2>2. \A l \in Keeps(t) : l \in MidCoins(t)
      BY <1>4, <2>1, SameBalancesTotal DEF Keeps, MidCoins
    <2>3. \A l \in Ends(t) : l \in EndCoins(t)
      BY <1>4 DEF Ends
    <2>4. PlanIn(t, Keeps(t), Ends(t))
      BY PlanKeeps
    <2>5. QED
      BY <2>2, <2>3, <2>4, PlanWeakened
  <1>5. tx[t].kind \in CoinKinds => Transfer(t) \/ CreateValidator(t)
    BY DEF CoinKinds, Begin, DelegateStake, CreateToken, MintToken, TransferToken,
           CreateCollection, MintNFT
  <1>6. QED
    BY <1>2, <1>3, <1>4, <1>5

(* An execution that is not cut off, of a transaction its sender can pay,  *)
(* takes the fee and the stake and nothing else.                           *)
THEOREM ChargesWhatIsDue == Spec => ChargesExactly
  <1> DEFINE Charged(t) ==
        NoSelfTransfers /\ Needed(t) <= Sender(t).balance /\ Balances(ledger) < Word
            => Balances(Last(todo')) + Spent(t) = Balances(ledger)
  <1>1. ASSUME IInv, NEW t \in Tx, Begin(t), pc' = "commit"
        PROVE  current' = t /\ Charged(t)
    <2> SUFFICES ASSUME NoSelfTransfers, Needed(t) <= Sender(t).balance, Balances(ledger) < Word
                 PROVE  current' = t /\ Balances(Last(todo')) + Spent(t) = Balances(ledger)
      <3>1. PlanIn(t, Keeps(t), Ends(t))
        BY <1>1, PlanKeeps DEF IInv
      <3>2. QED
        BY <3>1 DEF PlanIn
    <2>1. PlanIn(t, MidCoins(t), EndCoins(t))
      BY <1>1, PlanCoins DEF IInv, NoSelfTransfers
    <2>2. PICK l : l = todo'[Len(todo')]
      OBVIOUS
    <2>3. current' = t /\ l \in EndCoins(t)
      BY <1>1, <2>1, <2>2 DEF PlanIn
    <2>4. Balances(ledger) \in Nat
      BY <1>1, TotalOfAmounts, BalancesTyped DEF Balances, IInv, TypeOK
    <2>5. /\ tx[t].fee \in Amount /\ MinStake \in Amount /\ tx[t].amount \in Amount
          /\ Sender(t).balance \in Amount
      BY <1>1, ExecutorAssumption DEF IInv, TypeOK, TxContent, Sender, Ledger, Account
    <2>6. Spent(t) \in Nat /\ Needed(t) \in Nat /\ Sender(t).balance \in Nat
      BY <2>5, AmountsAreNat DEF Spent, Needed
    <2>7. Word \in Nat
      BY AmountsAreNat
    <2>8. Balances(l) = Balances(ledger) - Spent(t)
      BY <2>3, <2>4, <2>6, <2>7 DEF EndCoins
    <2>9. Last(todo') = l
      BY <2>2 DEF Last
    <2>10. QED
      BY <2>3, <2>4, <2>6, <2>8, <2>9
  <1>2. ASSUME IInv, [Next]_vars, pc = "idle", pc' = "commit"
        PROVE  \E t \in Tx : Begin(t)
    BY <1>2 DEF Next, Run, Put, LastPut, Die, PutFails, Restart, vars
  <1>3. IInv /\ [Next]_vars => [pc = "idle" /\ pc' = "commit" => Charged(current')]_vars
    BY <1>1, <1>2
  <1>4. [pc = "idle" /\ pc' = "commit" => Charged(current')]_vars =>
        [pc = "idle" /\ pc' = "commit" =>
            LET t == current'
                needed == Spent(t) + (IF tx[t].kind = "transfer" THEN tx[t].amount ELSE 0)
            IN  NoSelfTransfers /\ needed <= Sender(t).balance /\ Balances(ledger) < Word
                    => Balances(Last(todo')) + Spent(t) = Balances(ledger)]_vars
    BY DEF Needed
  <1> HIDE DEF Charged
  <1>5. QED
    BY <1>3, <1>4, IInvHolds, PTL DEF Spec, ChargesExactly

----------------------------------------------------------------------------
(***************************************************************************)
(* Invariants about what is in the store and on its way there: I holds     *)
(* the ledger between executions, M the ledgers during one, E the last.    *)
(***************************************************************************)
Follows(I, M, E) ==
    /\ pc = "idle" => ledger \in I
    /\ pc # "idle" => ledger \in M
    /\ pc = "doomed" => \A i \in 1 .. Len(todo) : todo[i] \in M
    /\ pc = "commit" => /\ \A i \in 1 .. Len(todo) - 1 : todo[i] \in M
                        /\ todo[Len(todo)] \in E

(* A Put moves along the plan.                                             *)
LEMMA FollowsPut ==
    ASSUME IInv, Put, NEW I, NEW M, NEW E, Follows(I, M, E)
    PROVE  Follows(I, M, E)'
  <1>1. /\ todo \in Seq(Ledger) /\ todo # <<>> /\ pc \in {"commit", "doomed"}
        /\ ledger' = todo[1] /\ todo' = Tail(todo) /\ pc' = pc
    BY DEF IInv, TypeOK, Put
  <1>2. /\ Tail(todo) \in Seq(Ledger) /\ Len(Tail(todo)) = Len(todo) - 1
        /\ \A i \in 1 .. Len(todo) - 1 : Tail(todo)[i] = todo[i + 1]
        /\ Len(todo) \in Nat /\ Len(todo) > 0
        /\ Tail(todo) = <<>> <=> Len(todo) = 1
    BY <1>1, TailFacts
  <1>3. pc = "commit" => Len(todo) > 1
    BY <1>2 DEF Put
  <1>4. Len(todo') = Len(todo) - 1
    BY <1>1, <1>2
  <1>5. ledger' \in M
    BY <1>1, <1>2, <1>3 DEF Follows
  <1>6. CASE pc = "doomed"
    <2>1. ASSUME NEW i \in 1 .. Len(todo')
          PROVE  todo'[i] \in M
      <3>1. i + 1 \in 1 .. Len(todo) /\ todo'[i] = todo[i + 1]
        BY <1>1, <1>2, <1>4
      <3>2. QED
        BY <1>6, <3>1 DEF Follows
    <2>2. QED
      BY <1>1, <1>5, <1>6, <2>1 DEF Follows
  <1>7. CASE pc = "commit"
    <2>1. ASSUME NEW i \in 1 .. Len(todo') - 1
          PROVE  todo'[i] \in M
      <3>1. i + 1 \in 1 .. Len(todo) - 1 /\ todo'[i] = todo[i + 1]
        BY <1>1, <1>2, <1>4
      <3>2. QED
        BY <1>7, <3>1 DEF Follows
    <2>2. todo'[Len(todo')] = todo[Len(todo)]
      <3>1. Len(todo) - 1 \in 1 .. Len(todo) - 1 /\ Len(todo) - 1 + 1 = Len(todo)
        BY <1>2, <1>3, <1>7
      <3>2. Tail(todo)[Len(todo) - 1] = todo[Len(todo) - 1 + 1]
        BY <1>2, <3>1
      <3>3. QED
        BY <1>1, <1>4, <3>1, <3>2
    <2>3. todo[Len(todo)] \in E
      BY <1>7 DEF Follows
    <2>4. QED
      BY <1>1, <1>5, <1>7, <2>1, <2>2, <2>3 DEF Follows
  <1>8. QED
    BY <1>1, <1>6, <1>7

(* How such an invariant is carried over a step: I2, M2 and E2 are the     *)
(* sets after it.                                                          *)
LEMMA Carried ==
    ASSUME IInv, [Next]_vars, NEW I, NEW M, NEW E, Follows(I, M, E), I \subseteq M,
           NEW I2, NEW M2, NEW E2,
           \A t \in Tx : Begin(t) => I \subseteq M2 /\ PlanIn(t, M2, E2),
           Put \/ Die \/ UNCHANGED vars => I2 = I /\ M2 = M /\ E2 = E,
           LastPut => E \subseteq I2,
           PutFails \/ Restart => M \subseteq I2,
           Restart => \A l \in I2 : [l EXCEPT !.registry = NoValidators] \in I2
    PROVE  Follows(I2, M2, E2)'
  <1>1. ASSUME NEW t \in Tx, Begin(t)
        PROVE  Follows(I2, M2, E2)'
    <2>1. I \subseteq M2 /\ PlanIn(t, M2, E2) /\ ledger \in I
      BY <1>1 DEF Begin, Follows
    <2>2. QED
      BY <2>1 DEF PlanIn, Follows
  <1>2. CASE Put
    BY <1>2, FollowsPut
  <1>3. CASE LastPut
    <2>1. Tail(todo) = <<>> /\ todo \in Seq(Ledger) /\ todo # <<>>
          /\ ledger' = Head(todo) /\ pc = "commit" /\ pc' = "idle"
      BY <1>3 DEF LastPut, IInv, TypeOK
    <2>2. ledger' = todo[Len(todo)]
      BY <2>1, TailFacts
    <2>3. QED
      BY <1>3, <2>1, <2>2 DEF Follows
  <1>4. CASE Die
    <2>1. pc' = "dead" /\ pc = "doomed" /\ ledger' = ledger
      BY <1>4 DEF Die
    <2>2. QED
      BY <1>4, <2>1 DEF Follows
  <1>5. ledger \in M
    BY DEF Follows
  <1>6. CASE PutFails
    <2>1. pc' = "idle" /\ ledger' = ledger
      BY <1>6 DEF PutFails
    <2>2. QED
      BY <1>5, <1>6, <2>1 DEF Follows
  <1>7. CASE Restart
    <2>1. pc' = "idle" /\ ledger' = [ledger EXCEPT !.registry = NoValidators]
      BY <1>7 DEF Restart
    <2>2. QED
      BY <1>5, <1>7, <2>1 DEF Follows
  <1>8. CASE UNCHANGED vars
    <2>1. pc' = pc /\ ledger' = ledger /\ todo' = todo
      BY <1>8 DEF vars
    <2>2. QED
      BY <1>8, <2>1 DEF Follows
  <1>9. QED
    BY <1>1, <1>2, <1>3, <1>4, <1>6, <1>7, <1>8 DEF Next, Run

----------------------------------------------------------------------------
(***************************************************************************)
(* How often an amount can have been added to anything: once for each      *)
(* completed transaction and for each fault, and once more by the          *)
(* execution under way.                                                    *)
(***************************************************************************)
Attempts == Cardinality(Tx) + MaxFaults + 1

Biggest == Max({tx[t].amount : t \in Tx})

Count == Cardinality(Done) + faults

Costs == [t \in Tx |-> completed[t] * Spent(t)]

Paid == SumFunctionOnSet(Costs, Tx)

(* No amount is larger than the biggest; what fits, fits with as many of   *)
(* them as there are attempts.                                             *)
LEMMA BiggestAmount ==
    ASSUME TypeOK
    PROVE  /\ Biggest \in Nat
           /\ \A t \in Tx : tx[t].amount \in Nat /\ tx[t].amount <= Biggest
           /\ \A s \in Nat : Fits(s) => s + Biggest * Attempts < Word
  <1> DEFINE S == {tx[t].amount : t \in Tx}
  <1>1. \A t \in Tx : tx[t].amount \in Amount
    BY DEF TypeOK, TxContent
  <1>2. S \in SUBSET (0 .. Word - 1) /\ S # {} /\ Word - 1 \in Nat
    BY <1>1, ExecutorAssumption DEF Amount
  <1>3. Max(S) \in S /\ \A y \in S : y <= Max(S)
    <2> HIDE DEF S
    <2>1. QED
      BY <1>2, MaxOfInterval
  <1>4. PICK t \in Tx : Biggest = tx[t].amount
    BY <1>3 DEF Biggest
  <1>5. \A s \in Nat : Fits(s) => s + Biggest * Attempts < Word
    BY <1>4 DEF Fits, Attempts
  <1>6. Biggest \in Nat
    BY <1>1, <1>4, AmountsAreNat
  <1>7. \A u \in Tx : tx[u].amount <= Biggest
    BY <1>3 DEF Biggest
  <1>8. QED
    BY <1>1, <1>5, <1>6, <1>7, AmountsAreNat

(* The bound on the sum of the amounts grows by the biggest one with each  *)
(* attempt, and no more often than there are attempts.                     *)
LEMMA Ceiling ==
    ASSUME TypeOK, NEW n \in Nat, n + 1 <= Attempts
    PROVE  /\ n * Biggest \in Nat
           /\ (n + 1) * Biggest = n * Biggest + Biggest
           /\ \A s \in Nat : Fits(s) => s + (n * Biggest + Biggest) < Word
  <1>1. PICK b \in Nat : b = Biggest
    BY BiggestAmount
  <1>2. PICK a \in Nat : a = Attempts
    <2>1. Cardinality(Tx) \in Nat /\ MaxFaults \in Nat
      BY ExecutorAssumption, FS_CardinalityType
    <2>2. QED
      BY <2>1 DEF Attempts
  <1>3. n * b \in Nat /\ (n + 1) * b = n * b + b
    OBVIOUS
  <1>4. PICK d \in Nat : a = n + 1 + d
    <2>1. a - (n + 1) \in Nat /\ a = n + 1 + (a - (n + 1))
      BY <1>2
    <2>2. QED
      BY <2>1
  <1>5. b * a = n * b + b + d * b /\ d * b \in Nat
    BY <1>4
  <1>6. n * b + b <= b * a /\ b * a \in Nat
    BY <1>3, <1>5
  <1>7. \A s \in Nat : Fits(s) => s + b * a < Word
    BY <1>1, <1>2, BiggestAmount
  <1>8. Word \in Nat
    BY AmountsAreNat
  <1>9. \A s \in Nat : Fits(s) => s + (n * b + b) < Word
    BY <1>3, <1>6, <1>7, <1>8
  <1>10. QED
    BY <1>1, <1>3, <1>9

(* The counts are numbers, and there is room for one more attempt.         *)
LEMMA CountTyped ==
    ASSUME IInv
    PROVE  /\ Count \in Nat /\ Count + 1 <= Attempts
           /\ Paid \in Nat /\ \A t \in Tx : Spent(t) \in Nat /\ Costs[t] \in Nat
           /\ IsFiniteSet(Done)
  <1>1. faults \in Nat /\ faults <= MaxFaults /\ MaxFaults \in Nat
    BY ExecutorAssumption DEF IInv, TypeOK
  <1>2. /\ IsFiniteSet(Done) /\ Cardinality(Done) <= Cardinality(Tx)
        /\ Cardinality(Done) \in Nat /\ Cardinality(Tx) \in Nat
    <2>1. IsFiniteSet(Tx) /\ Done \subseteq Tx
      BY ExecutorAssumption DEF Done
    <2>2. IsFiniteSet(Done) /\ Cardinality(Done) <= Cardinality(Tx)
      BY <2>1, FS_Subset
    <2>3. QED
      BY <2>1, <2>2, FS_CardinalityType
  <1>3. ASSUME NEW t \in Tx
        PROVE  Spent(t) \in Nat /\ Costs[t] \in Nat
    <2>1. tx[t].fee \in Nat /\ MinStake \in Nat
      BY ExecutorAssumption DEF IInv, TypeOK, TxContent, Amount
    <2>2. Spent(t) \in Nat
      BY <2>1 DEF Spent
    <2>3. completed[t] \in Nat
      BY DEF IInv, TypeOK
    <2>4. completed[t] * Spent(t) \in Nat
      BY <2>2, <2>3
    <2>5. QED
      BY <2>2, <2>4 DEF Costs
  <1>4. Paid \in Nat
    BY <1>3, SumTyped, ExecutorAssumption DEF Paid
  <1>5. QED
    BY <1>1, <1>2, <1>3, <1>4 DEF Count, Attempts

(* What is being executed is not done.                                     *)
LEMMA NotDone ==
    ASSUME IInv, NEW t \in Tx, tx[t].nonce = NonceOf(ledger, tx[t].sender) + 1
    PROVE  t \notin Done
  <1> DEFINE s == tx[t].sender
             n == NonceOf(ledger, s)
  <1>1. s \in Addr /\ n \in Nat
    BY DEF IInv, TypeOK, TxContent, Ledger, Account, NonceOf, Amount
  <1>2. {tx[u].nonce : u \in {v \in Done : tx[v].sender = s}} = 1 .. n
    BY <1>1 DEF IInv, NonceIsHistory, NonceOf
  <1>3. ASSUME t \in Done
        PROVE  FALSE
    <2>1. tx[t].nonce \in {tx[u].nonce : u \in {v \in Done : tx[v].sender = s}}
      BY <1>3
    <2>2. QED
      BY <1>1, <1>2, <2>1
  <1>4. QED
    BY <1>3

(* What each step counts.                                                  *)
LEMMA CountSteps ==
    ASSUME IInv, [Next]_vars
    PROVE  /\ tx' = tx
           /\ LastPut => /\ Count' = Count + 1 /\ Paid' = Paid + Spent(current)
                         /\ Done' = Done \cup {current} /\ faults' = faults
           /\ PutFails \/ Restart => /\ Count' = Count + 1 /\ Paid' = Paid
                                     /\ Done' = Done /\ faults' = faults + 1
           /\ ~LastPut /\ ~PutFails /\ ~Restart =>
                  UNCHANGED <<completed, faults, Count, Paid, Done>>
  <1>1. ASSUME NEW t \in Tx, Begin(t)
        PROVE  UNCHANGED <<tx, completed, faults>>
    BY <1>1, PlanKeeps DEF IInv, PlanIn
  <1>2. /\ tx' = tx
        /\ ~LastPut => completed' = completed
        /\ ~LastPut /\ ~PutFails /\ ~Restart => faults' = faults
        /\ PutFails \/ Restart => faults' = faults + 1 /\ completed' = completed
    BY <1>1 DEF Next, Run, Put, LastPut, Die, PutFails, Restart, vars
  <1>3. completed' = completed => Done' = Done /\ Costs' = Costs
    BY <1>2 DEF Done, Costs, Spent
  <1>4. completed' = completed => Paid' = Paid
    BY <1>3 DEF Paid
  <1>5. faults \in Nat /\ Cardinality(Done) \in Nat /\ Count \in Nat
    <2>1. IsFiniteSet(Done)
      BY CountTyped
    <2>2. QED
      BY <2>1, FS_CardinalityType, CountTyped DEF IInv, TypeOK
  <1>6. ASSUME LastPut
        PROVE  /\ Count' = Count + 1 /\ Paid' = Paid + Spent(current)
               /\ Done' = Done \cup {current} /\ faults' = faults
    <2>1. /\ current \in Tx /\ completed \in [Tx -> Nat]
          /\ completed' = [completed EXCEPT ![current] = @ + 1] /\ faults' = faults
      BY <1>6 DEF IInv, TypeOK, LastPut
    <2>2. current \notin Done
      <3>1. tx[current].nonce = NonceOf(ledger, tx[current].sender) + 1
        BY <1>6 DEF LastPut, IInv, Plan
      <3>2. QED
        BY <2>1, <3>1, NotDone
    <2>3. completed[current] = 0
      BY <2>1, <2>2 DEF Done
    <2>4. Done' = Done \cup {current}
      BY <1>2, <2>1, <2>3 DEF Done
    <2>5. Cardinality(Done \cup {current}) = Cardinality(Done) + 1
      BY <2>2, CountTyped, FS_AddElement
    <2>6. Count' = Count + 1
      BY <1>5, <2>1, <2>4, <2>5 DEF Count
    <2>7. Paid' = Paid + Spent(current)
      <3>1. \A t \in Tx : Spent(t)' = Spent(t)
        BY <1>2 DEF Spent
      <3>2. /\ \A t \in Tx : t # current => Costs'[t] = Costs[t]
            /\ Costs[current] = 0 * Spent(current)
            /\ Costs'[current] = 1 * Spent(current)
        BY <2>1, <2>3, <3>1 DEF Costs
      <3>3. \A t \in Tx : Costs[t] \in Nat /\ Spent(t) \in Nat
        BY CountTyped
      <3>4. Costs[current] = 0 /\ Costs'[current] = Spent(current)
        BY <2>1, <3>2, <3>3
      <3>5. \A t \in Tx : Costs[t] \in Int /\ Costs'[t] \in Int
        BY <3>2, <3>3, <3>4
      <3>6. PICK f : f = Costs
        OBVIOUS
      <3>7. PICK e : e = Costs'
        OBVIOUS
      <3>8. PICK c \in Tx : c = current
        BY <2>1
      <3>9. SumFunctionOnSet(e, Tx) = SumFunctionOnSet(f, Tx) - f[c] + e[c]
        <4>1. \A t \in Tx : f[t] \in Int /\ e[t] \in Int
          BY <3>5, <3>6, <3>7
        <4>2. \A t \in Tx : t # c => e[t] = f[t]
          BY <3>2, <3>6, <3>7, <3>8
        <4>3. QED
          BY <4>1, <4>2, SumChange, ExecutorAssumption
      <3>10. Paid = SumFunctionOnSet(f, Tx) /\ Paid' = SumFunctionOnSet(e, Tx)
        BY <3>6, <3>7 DEF Paid
      <3>11. Paid \in Nat /\ Spent(current) \in Nat
        BY <2>1, CountTyped
      <3>12. QED
        BY <3>4, <3>6, <3>7, <3>8, <3>9, <3>10, <3>11
    <2>8. QED
      BY <2>1, <2>4, <2>6, <2>7
  <1>7. ASSUME PutFails \/ Restart
        PROVE  Count' = Count + 1
    <2>1. Done' = Done /\ faults' = faults + 1
      BY <1>2, <1>3, <1>7
    <2>2. QED
      BY <1>5, <2>1 DEF Count
  <1>8. completed' = completed /\ faults' = faults => Count' = Count
    BY <1>3 DEF Count
  <1>9. QED
    BY <1>2, <1>3, <1>4, <1>6, <1>7, <1>8

(* What the biggest amount, and the other conditions on transactions, are  *)
(* does not change.                                                        *)
LEMMA ConditionsKept ==
    ASSUME tx' = tx
    PROVE  /\ Biggest' = Biggest
           /\ NoSelfTransfers' = NoSelfTransfers
           /\ NoneCreatedTwice' = NoneCreatedTwice
           /\ \A s \in Nat : Fits(s)' = Fits(s)
  <1>1. Biggest' = Biggest
    BY DEF Biggest
  <1>2. NoSelfTransfers' = NoSelfTransfers
    BY DEF NoSelfTransfers
  <1>3. NoneCreatedTwice' = NoneCreatedTwice
    BY DEF NoneCreatedTwice
  <1>4. \A s \in Nat : Fits(s)' = Fits(s)
    BY DEF Fits
  <1>5. QED
    BY <1>1, <1>2, <1>3, <1>4

----------------------------------------------------------------------------
(***************************************************************************)
(* Coins: there are as many as at genesis, less what was paid, and what a  *)
(* cut-off payment has credited to the recipient and not yet taken from    *)
(* the sender; or whole words more, when costs were taken that the balance *)
(* did not cover.                                                          *)
(***************************************************************************)
CoinSet(top, paid) ==
    {l \in Ledger : \E c \in 0 .. top, k \in Nat :
                        Balances(l) + paid = AtGenesis + c + k * Word}

CoinsFollow ==
    NoSelfTransfers /\ Fits(AtGenesis) =>
        Follows(CoinSet(Count * Biggest, Paid),
                CoinSet((Count + 1) * Biggest, Paid),
                CoinSet((Count + 1) * Biggest, Paid + Spent(current)))

(* Genesis balances are amounts.                                           *)
LEMMA GenesisSum == AtGenesis \in Nat
  <1>1. PICK f : f = [a \in Addr |-> Genesis[a].balance]
    OBVIOUS
  <1>2. f \in [Addr -> Amount]
    BY <1>1, ExecutorAssumption DEF Account
  <1>3. QED
    BY <1>1, <1>2, TotalOfAmounts DEF AtGenesis

(* A larger bound allows more; the registry holds no coins.                *)
LEMMA CoinSetGrows ==
    ASSUME NEW n \in Nat, NEW m \in Nat, n <= m, NEW paid
    PROVE  CoinSet(n, paid) \subseteq CoinSet(m, paid)
  <1>1. 0 .. n \subseteq 0 .. m
    OBVIOUS
  <1>2. QED
    BY <1>1 DEF CoinSet

(* The registry of delegations is no part of what the set is about.        *)
LEMMA CoinSetRegistry ==
    ASSUME NEW n, NEW paid, NEW l \in CoinSet(n, paid)
    PROVE  [l EXCEPT !.registry = NoValidators] \in CoinSet(n, paid)
  <1>1. PICK m : m = [l EXCEPT !.registry = NoValidators]
    OBVIOUS
  <1>2. NoValidators \in [Addr -> Validator]
    BY ExecutorAssumption DEF NoValidators, Validator, Amount
  <1>3. l \in Ledger
    BY DEF CoinSet
  <1>4. m \in Ledger /\ m.accounts = l.accounts
    BY <1>1, <1>2, <1>3 DEF Ledger
  <1>5. Balances(m) = Balances(l)
    BY <1>3, <1>4, SameBalancesTotal DEF SameBalances, BalanceOf
  <1>6. QED
    BY <1>1, <1>4, <1>5 DEF CoinSet

(* A plan adds one amount at most on the way, and pays in the end.         *)
LEMMA CoinPlan ==
    ASSUME IInv, NEW t \in Tx, Begin(t), NoSelfTransfers, Fits(AtGenesis),
           ledger \in CoinSet(Count * Biggest, Paid)
    PROVE  PlanIn(t, CoinSet((Count + 1) * Biggest, Paid),
                     CoinSet((Count + 1) * Biggest, Paid + Spent(t)))
  <1>1. PlanIn(t, MidCoins(t), EndCoins(t))
    BY PlanCoins DEF IInv, NoSelfTransfers
  <1>2. PICK W \in Nat : W = Word
    BY AmountsAreNat
  <1>3. PICK n \in Nat : n = tx[t].amount /\ n <= Biggest
    BY BiggestAmount DEF IInv
  <1>4. PICK spent \in Nat, paid \in Nat : spent = Spent(t) /\ paid = Paid
    BY CountTyped
  <1>5. PICK top \in Nat : top = Count * Biggest /\ (Count + 1) * Biggest = top + Biggest
                           /\ AtGenesis + (top + Biggest) < W
    BY <1>2, CountTyped, Ceiling, GenesisSum DEF IInv
  <1>6. PICK A \in Nat, big \in Nat : A = AtGenesis /\ big = Biggest
    BY GenesisSum, BiggestAmount DEF IInv
  <1>7. PICK B \in Nat : B = Balances(ledger)
    BY TotalOfAmounts, BalancesTyped DEF Balances, IInv, TypeOK
  <1>8. PICK c \in 0 .. top, k \in Nat : B + paid = A + c + k * W
    BY <1>2, <1>4, <1>5, <1>6, <1>7 DEF CoinSet
  <1>9. B >= W => k - 1 \in Nat
    <2>1. CASE k = 0
      <3>1. k * W = 0
        BY <2>1
      <3>2. B + paid = A + c
        BY <1>8, <3>1
      <3>3. A + c < W
        BY <1>5, <1>6, <1>8
      <3>4. QED
        BY <1>2, <1>4, <1>7, <3>2, <3>3
    <2>2. QED
      BY <2>1
  <1>10. k * W \in Nat /\ (k + 1) * W = k * W + W /\ (k - 1) * W = k * W - W
    <2>1. k * W \in Nat
      OBVIOUS
    <2>2. (k + 1) * W = k * W + W
      OBVIOUS
    <2>3. (k - 1) * W = k * W - W
      OBVIOUS
    <2>4. QED
      BY <2>1, <2>2, <2>3
  <1>11. c \in 0 .. top + big /\ c + n \in 0 .. top + big
    BY <1>3, <1>6, <1>8
  <1>12. CoinSet((Count + 1) * Biggest, Paid)
             = {l \in Ledger : \E d \in 0 .. top + big, j \in Nat :
                                   Balances(l) + paid = A + d + j * W}
    BY <1>2, <1>4, <1>5, <1>6 DEF CoinSet
  <1>13. CoinSet((Count + 1) * Biggest, Paid + Spent(t))
             = {l \in Ledger : \E d \in 0 .. top + big, j \in Nat :
                                   Balances(l) + (paid + spent) = A + d + j * W}
    BY <1>2, <1>4, <1>5, <1>6 DEF CoinSet
  <1>14. ASSUME NEW l \in MidCoins(t)
         PROVE  l \in CoinSet((Count + 1) * Biggest, Paid)
    <2>1. /\ l \in Ledger
          /\ \/ Balances(l) = B
             \/ Balances(l) = B + n
             \/ Balances(l) = B + n - W /\ B >= W
      BY <1>2, <1>3, <1>7 DEF MidCoins
    <2>2. PICK b : b = Balances(l)
      OBVIOUS
    <2>3. \E d \in 0 .. top + big, j \in Nat : b + paid = A + d + j * W
      <3>1. CASE b = B
        BY <1>8, <1>11, <3>1
      <3>2. CASE b = B + n
        <4>1. b + paid = A + (c + n) + k * W
          BY <1>8, <1>10, <3>2
        <4>2. QED
          BY <1>11, <4>1
      <3>3. CASE b = B + n - W /\ B >= W
        <4>1. b + paid = A + (c + n) + (k - 1) * W
          BY <1>8, <1>10, <3>3
        <4>2. QED
          BY <1>9, <1>11, <3>3, <4>1
      <3>4. QED
        BY <2>1, <2>2, <3>1, <3>2, <3>3
    <2>4. QED
      BY <1>12, <2>1, <2>2, <2>3
  <1>15. ASSUME NEW l \in EndCoins(t)
         PROVE  l \in CoinSet((Count + 1) * Biggest, Paid + Spent(t))
    <2>1. /\ l \in Ledger
          /\ \/ Balances(l) = B - spent
             \/ Balances(l) = B - spent + W
             \/ Balances(l) = B - spent - W /\ B >= W
      BY <1>2, <1>4, <1>7 DEF EndCoins
    <2>2. PICK b : b = Balances(l)
      OBVIOUS
    <2>3. \E d \in 0 .. top + big, j \in Nat : b + (paid + spent) = A + d + j * W
      <3>1. CASE b = B - spent
        <4>1. b + (paid + spent) = A + c + k * W
          BY <1>8, <1>10, <3>1
        <4>2. QED
          BY <1>11, <4>1
      <3>2. CASE b = B - spent + W
        <4>1. b + (paid + spent) = A + c + (k + 1) * W
          BY <1>8, <1>10, <3>2
        <4>2. k + 1 \in Nat
          OBVIOUS
        <4>3. QED
          BY <1>11, <4>1, <4>2
      <3>3. CASE b = B - spent - W /\ B >= W
        <4>1. b + (paid + spent) = A + c + (k - 1) * W
          BY <1>8, <1>10, <3>3
        <4>2. QED
          BY <1>9, <1>11, <3>3, <4>1
      <3>4. QED
        BY <2>1, <2>2, <3>1, <3>2, <3>3
    <2>4. QED
      BY <1>13, <2>1, <2>2, <2>3
  <1>16. MidCoins(t) \subseteq CoinSet((Count + 1) * Biggest, Paid)
    BY <1>14
  <1>17. EndCoins(t) \subseteq CoinSet((Count + 1) * Biggest, Paid + Spent(t))
    BY <1>15
  <1>18. QED
    BY <1>1, <1>16, <1>17, PlanWeakened

(* It holds at the start ...                                               *)
LEMMA InitCoins == Init => CoinsFollow
  <1> SUFFICES ASSUME Init
               PROVE  CoinsFollow
    OBVIOUS
  <1>1. IInv
    BY InitIInv
  <1>2. pc = "idle" /\ ledger \in Ledger
    BY <1>1 DEF Init, IInv, TypeOK
  <1>3. Balances(ledger) = AtGenesis
    BY DEF Init, Balances, AtGenesis
  <1>4. Paid = 0
    <2>1. \A t \in Tx : Spent(t) \in Nat /\ completed[t] = 0
      BY <1>1, CountTyped DEF Init
    <2>2. \A t \in Tx : Costs[t] = 0
      BY <2>1 DEF Costs
    <2>3. QED
      BY <2>2, SumOfZeros, ExecutorAssumption DEF Paid
  <1>5. Count * Biggest \in Nat
    BY <1>1, CountTyped, Ceiling DEF IInv
  <1>6. Balances(ledger) + Paid = AtGenesis + 0 + 0 * Word /\ 0 \in 0 .. Count * Biggest
    BY <1>3, <1>4, <1>5, GenesisSum, AmountsAreNat
  <1>7. ledger \in CoinSet(Count * Biggest, Paid)
    BY <1>2, <1>6 DEF CoinSet
  <1>8. QED
    BY <1>2, <1>7 DEF CoinsFollow, Follows

(* ... and every step carries it on.                                       *)
LEMMA StepCoins == IInv /\ CoinsFollow /\ [Next]_vars => CoinsFollow'
  <1> SUFFICES ASSUME IInv, CoinsFollow, [Next]_vars, NoSelfTransfers', Fits(AtGenesis)'
               PROVE  Follows(CoinSet(Count * Biggest, Paid),
                              CoinSet((Count + 1) * Biggest, Paid),
                              CoinSet((Count + 1) * Biggest, Paid + Spent(current)))'
    BY DEF CoinsFollow
  <1>1. tx' = tx
    BY CountSteps
  <1>2. Biggest' = Biggest /\ NoSelfTransfers /\ Fits(AtGenesis)
    BY <1>1, ConditionsKept, GenesisSum
  <1>3. PICK I, M, E : /\ I = CoinSet(Count * Biggest, Paid)
                       /\ M = CoinSet((Count + 1) * Biggest, Paid)
                       /\ E = CoinSet((Count + 1) * Biggest, Paid + Spent(current))
    OBVIOUS
  <1>4. PICK I2, M2, E2 : /\ I2 = CoinSet(Count' * Biggest', Paid')
                          /\ M2 = CoinSet((Count' + 1) * Biggest', Paid')
                          /\ E2 = CoinSet((Count' + 1) * Biggest', Paid' + Spent(current)')
    OBVIOUS
  <1>5. Follows(I, M, E)
    BY <1>2, <1>3 DEF CoinsFollow
  <1>6. I \subseteq M
    <2>1. Count * Biggest \in Nat /\ (Count + 1) * Biggest \in Nat
          /\ Count * Biggest <= (Count + 1) * Biggest
      BY CountTyped, Ceiling, BiggestAmount DEF IInv
    <2>2. QED
      BY <1>3, <2>1, CoinSetGrows
  <1>7. ASSUME NEW t \in Tx, Begin(t)
        PROVE  I \subseteq M2 /\ PlanIn(t, M2, E2)
    <2>1. PlanIn(t, Keeps(t), Ends(t)) /\ pc = "idle"
      BY <1>7, PlanKeeps DEF IInv, Begin
    <2>2. current' = t /\ UNCHANGED <<tx, completed, faults>>
      BY <2>1 DEF PlanIn
    <2>3. Count' = Count /\ Paid' = Paid
      BY <2>2 DEF Count, Paid, Done, Costs, Spent
    <2>4. Spent(current)' = Spent(t)
      BY <2>2 DEF Spent
    <2>5. M2 = M /\ E2 = CoinSet((Count + 1) * Biggest, Paid + Spent(t))
      BY <1>2, <1>3, <1>4, <2>3, <2>4
    <2>6. ledger \in CoinSet(Count * Biggest, Paid)
      BY <1>3, <1>5, <2>1 DEF Follows
    <2>7. PlanIn(t, M2, E2)
      BY <1>2, <1>3, <1>7, <2>5, <2>6, CoinPlan
    <2>8. QED
      BY <1>6, <2>5, <2>7
  <1>8. ASSUME Put \/ Die \/ UNCHANGED vars
        PROVE  I2 = I /\ M2 = M /\ E2 = E
    <2>1. UNCHANGED <<current, completed, faults>>
      BY <1>8 DEF Put, Die, vars
    <2>2. Count' = Count /\ Paid' = Paid /\ Spent(current)' = Spent(current)
      BY <1>1, <2>1 DEF Count, Paid, Done, Costs, Spent
    <2>3. QED
      BY <1>2, <1>3, <1>4, <2>2
  <1>9. LastPut => E \subseteq I2
    <2>1. LastPut => Count' = Count + 1 /\ Paid' = Paid + Spent(current)
      BY CountSteps
    <2>2. QED
      BY <1>2, <1>3, <1>4, <2>1
  <1>10. PutFails \/ Restart => M \subseteq I2
    <2>1. PutFails \/ Restart => Count' = Count + 1 /\ Paid' = Paid
      BY CountSteps
    <2>2. QED
      BY <1>2, <1>3, <1>4, <2>1
  <1>11. \A l \in I2 : [l EXCEPT !.registry = NoValidators] \in I2
    BY <1>4, CoinSetRegistry
  <1>12. Follows(I2, M2, E2)'
    BY <1>5, <1>6, <1>7, <1>8, <1>9, <1>10, <1>11, Carried
  <1>13. QED
    BY <1>4, <1>12 DEF Follows

(* Value leaves the accounts only as a fee or a stake, wherever an         *)
(* execution is cut off.                                                   *)
THEOREM ValueIsKept == Spec => []NothingVanishes
  <1>1. IInv /\ CoinsFollow => NothingVanishes
    <2> SUFFICES ASSUME IInv, CoinsFollow, NoSelfTransfers, Fits(AtGenesis)
                 PROVE  Balances(ledger) + Paid >= AtGenesis
      BY DEF NothingVanishes, Paid, Costs
    <2>1. PICK top \in {Count * Biggest, (Count + 1) * Biggest} : ledger \in CoinSet(top, Paid)
      BY DEF CoinsFollow, Follows
    <2>2. PICK c \in 0 .. top, k \in Nat : Balances(ledger) + Paid = AtGenesis + c + k * Word
      BY <2>1 DEF CoinSet
    <2>3. top \in Nat
      BY <2>1, CountTyped, Ceiling, BiggestAmount DEF IInv
    <2>4. k * Word \in Nat
      BY AmountsAreNat
    <2>5. QED
      BY <2>2, <2>3, <2>4, GenesisSum
  <1>2. Spec => [](IInv /\ CoinsFollow)
    <2>1. Init => IInv /\ CoinsFollow
      BY InitIInv, InitCoins
    <2>2. (IInv /\ CoinsFollow) /\ [Next]_vars => (IInv /\ CoinsFollow)'
      BY StepIInv, StepCoins
    <2>3. QED
      BY <2>1, <2>2, PTL DEF Spec
  <1>3. QED
    BY <1>1, <1>2, PTL

----------------------------------------------------------------------------
(***************************************************************************)
(* Tokens: the accounts hold no more of one than its supply, which grows   *)
(* by one amount with each attempt, so that it does not overflow.          *)
(***************************************************************************)
Held(l, k) == Total([a \in Addr |-> Holding(l.accounts[a], k)])

HoldSet(top) ==
    {l \in Ledger : \A k \in Asset : /\ Held(l, k) <= l.tokens[k].supply
                                     /\ l.tokens[k].supply <= top
                                     /\ ~l.tokens[k].stored => l.tokens[k].supply = 0}

TokensFollow ==
    NoSelfTransfers /\ Fits(0) =>
        Follows(HoldSet(Count * Biggest), HoldSet((Count + 1) * Biggest),
                HoldSet((Count + 1) * Biggest))

(* Holdings are amounts and have a sum.                                    *)
LEMMA HeldTyped ==
    ASSUME NEW l \in Ledger, NEW k \in Asset
    PROVE  /\ Held(l, k) \in Nat
           /\ l.tokens[k].supply \in Nat
           /\ \A a \in Addr : /\ Holding(l.accounts[a], k) \in Nat
                              /\ Holding(l.accounts[a], k) \in Amount
                              /\ Holding(l.accounts[a], k) <= Held(l, k)
           /\ \A a, b \in Addr :
                  a # b => Holding(l.accounts[a], k) + Holding(l.accounts[b], k) <= Held(l, k)
  <1>1. PICK f : f = [a \in Addr |-> Holding(l.accounts[a], k)]
    OBVIOUS
  <1>2. ASSUME NEW a \in Addr
        PROVE  Holding(l.accounts[a], k) \in Amount
    <2>1. l.accounts[a] \in Account /\ 0 \in Amount
      BY AmountsAreNat DEF Ledger
    <2>2. QED
      BY <2>1, Wallets
  <1>3. f \in [Addr -> Amount] /\ \A a \in Addr : f[a] = Holding(l.accounts[a], k)
    BY <1>1, <1>2
  <1>4. Held(l, k) = Total(f)
    BY <1>1 DEF Held
  <1>5. l.tokens[k].supply \in Amount
    BY DEF Ledger, Token
  <1>6. QED
    BY <1>3, <1>4, <1>5, TotalOfAmounts, AmountsAreNat

(* One account changes.                                                    *)
LEMMA HeldAfter ==
    ASSUME NEW l \in Ledger, NEW m \in Ledger, NEW a \in Addr, NEW k \in Asset,
           \A b \in Addr : b # a => m.accounts[b].tokens = l.accounts[b].tokens
    PROVE  Held(m, k) = Held(l, k) - Holding(l.accounts[a], k) + Holding(m.accounts[a], k)
  <1>1. PICK f : f = [b \in Addr |-> Holding(l.accounts[b], k)]
    OBVIOUS
  <1>2. PICK e : e = [b \in Addr |-> Holding(m.accounts[b], k)]
    OBVIOUS
  <1>3. \A b \in Addr : /\ Holding(l.accounts[b], k) \in Amount
                        /\ Holding(m.accounts[b], k) \in Amount
    BY HeldTyped
  <1>4. f \in [Addr -> Amount] /\ e \in [Addr -> Amount]
    BY <1>1, <1>2, <1>3
  <1>5. \A b \in Addr : b # a => e[b] = f[b]
    BY <1>1, <1>2 DEF Holding
  <1>6. Total(e) = Total(f) - f[a] + e[a]
    BY <1>4, <1>5, TotalAfter
  <1>7. QED
    BY <1>1, <1>2, <1>6 DEF Held

(* The same wallets hold the same.                                         *)
LEMMA HeldSame ==
    ASSUME NEW l, NEW m, NEW k, \A a \in Addr : m.accounts[a].tokens = l.accounts[a].tokens
    PROVE  Held(m, k) = Held(l, k)
  <1>1. [a \in Addr |-> Holding(l.accounts[a], k)] = [a \in Addr |-> Holding(m.accounts[a], k)]
    BY DEF Holding
  <1>2. QED
    BY <1>1 DEF Held

(* An account may hold less than before, or more where the supply covers   *)
(* it.                                                                     *)
LEMMA HoldSave ==
    ASSUME NEW top, NEW l \in HoldSet(top), NEW m \in Ledger, NEW a \in Addr,
           m.tokens = l.tokens, \A b \in Addr : b # a => m.accounts[b] = l.accounts[b],
           \A k \in Asset :
               \/ Holding(m.accounts[a], k) <= Holding(l.accounts[a], k)
               \/ Held(l, k) - Holding(l.accounts[a], k) + Holding(m.accounts[a], k)
                      <= l.tokens[k].supply
    PROVE  m \in HoldSet(top)
  <1>1. l \in Ledger
    BY DEF HoldSet
  <1>2. ASSUME NEW k \in Asset
        PROVE  Held(m, k) <= m.tokens[k].supply
    <2>1. /\ Held(l, k) \in Nat /\ Held(l, k) <= l.tokens[k].supply
          /\ l.tokens[k].supply \in Nat /\ Holding(l.accounts[a], k) \in Nat
      BY <1>1, HeldTyped DEF HoldSet
    <2>2. Holding(m.accounts[a], k) \in Nat
      BY HeldTyped
    <2>3. Held(m, k) = Held(l, k) - Holding(l.accounts[a], k) + Holding(m.accounts[a], k)
      BY <1>1, HeldAfter
    <2>4. \/ Holding(m.accounts[a], k) <= Holding(l.accounts[a], k)
          \/ Held(l, k) - Holding(l.accounts[a], k) + Holding(m.accounts[a], k)
                 <= l.tokens[k].supply
      OBVIOUS
    <2>5. QED
      BY <2>1, <2>2, <2>3, <2>4
  <1>3. QED
    BY <1>2 DEF HoldSet

(* What changes no token and no holding.                                   *)
LEMMA HoldSame ==
    ASSUME NEW top, NEW l \in HoldSet(top), NEW m \in Ledger, SameTokens(m, l)
    PROVE  m \in HoldSet(top)
  <1>1. \A k \in Asset : Held(m, k) = Held(l, k)
    BY HeldSame DEF SameTokens
  <1>2. QED
    BY <1>1 DEF HoldSet, SameTokens

(* A larger bound allows more; the registry holds no tokens.               *)
LEMMA HoldSetGrows ==
    ASSUME NEW n \in Nat, NEW m \in Nat, n <= m
    PROVE  HoldSet(n) \subseteq HoldSet(m)
  <1>1. \A l \in Ledger, k \in Asset : l.tokens[k].supply \in Nat
    BY HeldTyped
  <1>2. QED
    BY <1>1 DEF HoldSet

(* Nor does the registry matter to what a ledger holds of its assets.      *)
LEMMA HoldSetRegistry ==
    ASSUME NEW n, NEW l \in HoldSet(n)
    PROVE  [l EXCEPT !.registry = NoValidators] \in HoldSet(n)
  <1>1. PICK m : m = [l EXCEPT !.registry = NoValidators]
    OBVIOUS
  <1>2. NoValidators \in [Addr -> Validator]
    BY ExecutorAssumption DEF NoValidators, Validator, Amount
  <1>3. l \in Ledger
    BY DEF HoldSet
  <1>4. m \in Ledger /\ m.accounts = l.accounts /\ m.tokens = l.tokens
    BY <1>1, <1>2, <1>3 DEF Ledger
  <1>5. QED
    BY <1>1, <1>4, HoldSame DEF SameTokens

(* The last record of a sender that holds there no more than before it.    *)
LEMMA HoldSaveSender ==
    ASSUME TypeOK, NEW t \in Tx, NEW top, NEW l \in HoldSet(top), NEW acc \in Account,
           \A k \in Asset : Holding(acc, k) <= Holding(l.accounts[tx[t].sender], k)
    PROVE  SaveSender(t, l, acc) \in HoldSet(top)
  <1>1. PICK m : m = SaveSender(t, l, acc)
    OBVIOUS
  <1>2. l \in Ledger /\ tx[t].sender \in Addr
    BY DEF HoldSet, TypeOK, TxContent
  <1>3. /\ m \in Ledger
        /\ m.accounts[tx[t].sender].tokens = acc.tokens
        /\ \A b \in Addr : b # tx[t].sender => m.accounts[b] = l.accounts[b]
        /\ m.tokens = l.tokens
    BY <1>1, <1>2, SaveSenderReplaces
  <1>4. \A k \in Asset : Holding(m.accounts[tx[t].sender], k) = Holding(acc, k)
    BY <1>3 DEF Holding
  <1>5. m \in HoldSet(top)
    BY <1>2, <1>3, <1>4, HoldSave
  <1>6. QED
    BY <1>1, <1>5

(* A new token.                                                            *)
LEMMA CreateTokenHolds ==
    ASSUME TypeOK, NEW t \in Tx, CreateToken(t), NEW top \in Nat,
           ledger \in HoldSet(top), tx[t].amount <= top
    PROVE  PlanIn(t, HoldSet(top), HoldSet(top))
  <1> DEFINE k == tx[t].asset
             to == tx[t].to
             n == tx[t].amount
             from == tx[t].sender
             v == [stored |-> TRUE, supply |-> n, admin |-> to, mintable |-> tx[t].mintable]
             b == SetHolding(Other(t), k, n)
             l1 == [ledger EXCEPT !.tokens[k] = v]
             l2 == Save(l1, to, b)
             l3 == SaveSender(t, l2, Sender(t))
  <1>1. /\ k \in Asset /\ to \in Addr /\ from \in Addr /\ n \in Amount
        /\ tx[t].mintable \in BOOLEAN /\ ledger \in Ledger
        /\ Sender(t) \in Account /\ Other(t) \in Account
    BY DEF TypeOK, TxContent, Ledger, Sender, Other
  <1>2. n \in Nat
    BY <1>1, AmountsAreNat
  <1>3. ~ledger.tokens[k].stored
    BY DEF CreateToken
  <1>4. Panic(t, <<l1>>) \/ Commit(t, <<l1, l2, l3>>)
    BY DEF CreateToken
  <1>5. Held(ledger, k) = 0 /\ \A a \in Addr : Holding(ledger.accounts[a], k) = 0
    BY <1>1, <1>3, HeldTyped DEF HoldSet
  <1>6. v \in Token /\ v.supply = n /\ v.stored
    BY <1>1 DEF Token
  <1>7. /\ b \in Account /\ Holding(b, k) = n
        /\ \A j \in Asset : j # k => Holding(b, j) = Holding(Other(t), j)
    BY <1>1, SetHoldingKept
  <1> HIDE DEF v, b
  <1>8. PICK m1 : m1 = l1
    OBVIOUS
  <1>9. /\ m1 \in Ledger /\ m1.accounts = ledger.accounts
        /\ m1.tokens[k] = v /\ \A j \in Asset : j # k => m1.tokens[j] = ledger.tokens[j]
    BY <1>1, <1>6, <1>8 DEF Ledger
  <1>10. \A j \in Asset : Held(m1, j) = Held(ledger, j)
    BY <1>9, HeldSame
  <1>11. m1 \in HoldSet(top)
    BY <1>2, <1>5, <1>6, <1>9, <1>10 DEF HoldSet
  <1>12. PICK m2 : m2 = Save(m1, to, b)
    OBVIOUS
  <1>13. /\ m2 \in Ledger /\ m2.accounts[to].tokens = b.tokens /\ m2.tokens = m1.tokens
         /\ \A a \in Addr : a # to => m2.accounts[a] = m1.accounts[a]
    <2>1. PICK acc, x : acc = b /\ x = to
      OBVIOUS
    <2>2. acc \in Account /\ x \in Addr /\ m1 \in Ledger /\ m2 = Save(m1, x, acc)
      BY <1>1, <1>7, <1>9, <1>12, <2>1
    <2>3. /\ m2 \in Ledger /\ m2.accounts[x].tokens = acc.tokens
          /\ m2.tokens = m1.tokens
          /\ \A a \in Addr : a # x => m2.accounts[a] = m1.accounts[a]
      BY <2>2, Saved
    <2>4. QED
      BY <2>1, <2>3
  <1>14. \A j \in Asset : Holding(m2.accounts[to], j) = Holding(b, j)
    BY <1>13 DEF Holding
  <1>15. m2 \in HoldSet(top)
    <2>1. ASSUME NEW j \in Asset
          PROVE  \/ Holding(m2.accounts[to], j) <= Holding(m1.accounts[to], j)
                 \/ Held(m1, j) - Holding(m1.accounts[to], j) + Holding(m2.accounts[to], j)
                        <= m1.tokens[j].supply
      <3>1. CASE j = k
        BY <1>1, <1>2, <1>5, <1>6, <1>7, <1>9, <1>10, <1>14, <3>1
      <3>2. CASE j # k
        <4>1. Holding(m2.accounts[to], j) = Holding(m1.accounts[to], j)
          BY <1>7, <1>9, <1>14, <3>2 DEF Other
        <4>2. Holding(m1.accounts[to], j) \in Nat
          BY <1>1, <1>9, HeldTyped
        <4>3. QED
          BY <4>1, <4>2
      <3>3. QED
        BY <3>1, <3>2
    <2>2. QED
      BY <1>1, <1>11, <1>13, <2>1, HoldSave
  <1>16. PICK m3 : m3 = SaveSender(t, m2, Sender(t))
    OBVIOUS
  <1>17. m3 \in HoldSet(top)
    <2>1. ASSUME NEW j \in Asset
          PROVE  Holding(Sender(t), j) <= Holding(m2.accounts[from], j)
      <3>1. Holding(m2.accounts[from], j) \in Nat /\ Holding(ledger.accounts[from], j) \in Nat
        BY <1>1, <1>13, HeldTyped
      <3>2. CASE from # to
        BY <1>1, <1>9, <1>13, <3>1, <3>2 DEF Sender
      <3>3. CASE from = to /\ j = k
        BY <1>1, <1>5, <3>1, <3>3 DEF Sender
      <3>4. CASE from = to /\ j # k
        BY <1>7, <1>14, <3>1, <3>4 DEF Sender, Other
      <3>5. QED
        BY <3>2, <3>3, <3>4
    <2>2. QED
      BY <1>1, <1>15, <1>16, <2>1, HoldSaveSender
  <1>18. Panic(t, <<m1>>) \/ Commit(t, <<m1, m2, m3>>)
    BY <1>4, <1>8, <1>12, <1>16
  <1>19. QED
    BY <1>11, <1>15, <1>17, <1>18, PlanOfThree, PlanOfPanic

(* More of a token.                                                        *)
LEMMA MintTokenHolds ==
    ASSUME TypeOK, NEW t \in Tx, MintToken(t), NEW low \in Nat, NEW top \in Nat,
           ledger \in HoldSet(low), low + tx[t].amount <= top, top < Word
    PROVE  PlanIn(t, HoldSet(top), HoldSet(top))
  <1> DEFINE k == tx[t].asset
             to == tx[t].to
             n == tx[t].amount
             from == tx[t].sender
             b == SetHolding(Other(t), k, Plus(Holding(Other(t), k), n))
             l1 == [ledger EXCEPT !.tokens[k].supply = Plus(@, n)]
             l2 == Save(l1, to, b)
             l3 == SaveSender(t, l2, Sender(t))
             supply == ledger.tokens[k].supply
             had == Holding(Other(t), k)
  <1>1. /\ k \in Asset /\ to \in Addr /\ from \in Addr /\ n \in Amount /\ ledger \in Ledger
        /\ Sender(t) \in Account /\ Other(t) \in Account /\ ledger.tokens[k] \in Token
    BY DEF TypeOK, TxContent, Ledger, Sender, Other
  <1>2. n \in Nat /\ Word \in Nat /\ supply \in Amount /\ supply \in Nat /\ supply <= low
    BY <1>1, AmountsAreNat DEF HoldSet, Token
  <1>3. had \in Nat /\ had \in Amount /\ had <= Held(ledger, k) /\ Held(ledger, k) <= supply
        /\ Held(ledger, k) \in Nat
    BY <1>1, HeldTyped DEF HoldSet, Other
  <1>4. Plus(supply, n) = supply + n /\ Plus(had, n) = had + n
    <2>1. supply + n < Word /\ had + n < Word
      BY <1>2, <1>3
    <2>2. QED
      BY <1>1, <1>2, <1>3, <2>1, PlusWraps
  <1>5. ledger.tokens[k].stored
    BY DEF MintToken
  <1>6. Panic(t, <<>>) \/ Commit(t, <<l1, l2, l3>>)
    BY DEF MintToken
  <1>7. had + n \in Amount
    BY <1>1, <1>3, <1>4, AmountsWrap
  <1>8. /\ b \in Account /\ Holding(b, k) = had + n
        /\ \A j \in Asset : j # k => Holding(b, j) = Holding(Other(t), j)
    BY <1>1, <1>4, <1>7, SetHoldingKept
  <1>9. PICK m1 : m1 = l1
    OBVIOUS
  <1>10. /\ m1 \in Ledger /\ m1.accounts = ledger.accounts
         /\ m1.tokens[k].supply = supply + n /\ m1.tokens[k].stored
         /\ \A j \in Asset : j # k => m1.tokens[j] = ledger.tokens[j]
    <2>1. PICK v : v = [ledger.tokens[k] EXCEPT !.supply = Plus(@, n)]
      OBVIOUS
    <2>2. v \in Token /\ v.supply = supply + n /\ v.stored
      BY <1>1, <1>2, <1>4, <1>5, <2>1, AmountsWrap DEF Token
    <2>3. m1 = [ledger EXCEPT !.tokens[k] = v]
      BY <1>9, <2>1
    <2>4. QED
      BY <1>1, <2>2, <2>3 DEF Ledger
  <1> HIDE DEF b, had, supply
  <1>11. \A j \in Asset : Held(m1, j) = Held(ledger, j)
    BY <1>10, HeldSame
  <1>12. m1 \in HoldSet(top)
    <2>1. ASSUME NEW j \in Asset
          PROVE  /\ Held(m1, j) <= m1.tokens[j].supply
                 /\ m1.tokens[j].supply <= top
                 /\ ~m1.tokens[j].stored => m1.tokens[j].supply = 0
      <3>1. CASE j = k
        BY <1>2, <1>3, <1>10, <1>11, <3>1
      <3>2. CASE j # k
        <4>1. /\ Held(ledger, j) <= ledger.tokens[j].supply /\ ledger.tokens[j].supply <= low
              /\ ~ledger.tokens[j].stored => ledger.tokens[j].supply = 0
          BY DEF HoldSet
        <4>2. ledger.tokens[j].supply \in Nat
          BY <1>1, HeldTyped
        <4>3. QED
          BY <1>2, <1>10, <1>11, <3>2, <4>1, <4>2
      <3>3. QED
        BY <3>1, <3>2
    <2>2. QED
      BY <1>10, <2>1 DEF HoldSet
  <1>13. PICK m2 : m2 = Save(m1, to, b)
    OBVIOUS
  <1>14. /\ m2 \in Ledger /\ m2.accounts[to].tokens = b.tokens /\ m2.tokens = m1.tokens
         /\ \A a \in Addr : a # to => m2.accounts[a] = m1.accounts[a]
    <2>1. PICK acc, x : acc = b /\ x = to
      OBVIOUS
    <2>2. acc \in Account /\ x \in Addr /\ m1 \in Ledger /\ m2 = Save(m1, x, acc)
      BY <1>1, <1>8, <1>10, <1>13, <2>1
    <2>3. /\ m2 \in Ledger /\ m2.accounts[x].tokens = acc.tokens
          /\ m2.tokens = m1.tokens
          /\ \A a \in Addr : a # x => m2.accounts[a] = m1.accounts[a]
      BY <2>2, Saved
    <2>4. QED
      BY <2>1, <2>3
  <1>15. \A j \in Asset : Holding(m2.accounts[to], j) = Holding(b, j)
    BY <1>14 DEF Holding
  <1>16. m2 \in HoldSet(top)
    <2>1. ASSUME NEW j \in Asset
          PROVE  \/ Holding(m2.accounts[to], j) <= Holding(m1.accounts[to], j)
                 \/ Held(m1, j) - Holding(m1.accounts[to], j) + Holding(m2.accounts[to], j)
                        <= m1.tokens[j].supply
      <3>1. CASE j = k
        <4>1. Holding(m1.accounts[to], k) = had
          BY <1>10 DEF Other, had
        <4>2. QED
          BY <1>2, <1>3, <1>8, <1>10, <1>11, <1>15, <3>1, <4>1
      <3>2. CASE j # k
        <4>1. Holding(m2.accounts[to], j) = Holding(m1.accounts[to], j)
          BY <1>8, <1>10, <1>15, <3>2 DEF Other
        <4>2. Holding(m1.accounts[to], j) \in Nat
          BY <1>1, <1>10, HeldTyped
        <4>3. QED
          BY <4>1, <4>2
      <3>3. QED
        BY <3>1, <3>2
    <2>2. QED
      BY <1>1, <1>12, <1>14, <2>1, HoldSave
  <1>17. PICK m3 : m3 = SaveSender(t, m2, Sender(t))
    OBVIOUS
  <1>18. m3 \in HoldSet(top)
    <2>1. ASSUME NEW j \in Asset
          PROVE  Holding(Sender(t), j) <= Holding(m2.accounts[from], j)
      <3>1. Holding(m2.accounts[from], j) \in Nat /\ Holding(ledger.accounts[from], j) \in Nat
        BY <1>1, <1>14, HeldTyped
      <3>2. CASE from # to
        BY <1>1, <1>10, <1>14, <3>1, <3>2 DEF Sender
      <3>3. CASE from = to /\ j = k
        <4>1. Holding(Sender(t), k) = had
          BY <3>3 DEF Sender, Other, had
        <4>2. QED
          BY <1>2, <1>3, <1>8, <1>15, <3>3, <4>1
      <3>4. CASE from = to /\ j # k
        BY <1>8, <1>15, <3>1, <3>4 DEF Sender, Other
      <3>5. QED
        BY <3>2, <3>3, <3>4
    <2>2. QED
      BY <1>1, <1>16, <1>17, <2>1, HoldSaveSender
  <1>19. Panic(t, <<>>) \/ Commit(t, <<m1, m2, m3>>)
    BY <1>6, <1>9, <1>13, <1>17
  <1>20. QED
    BY <1>12, <1>16, <1>18, <1>19, PlanOfThree, PlanOfPanic

(* Part of a token, to someone else.                                       *)
LEMMA TransferTokenHolds ==
    ASSUME TypeOK, NEW t \in Tx, TransferToken(t), tx[t].to # tx[t].sender,
           NEW top \in Nat, ledger \in HoldSet(top), top < Word
    PROVE  PlanIn(t, HoldSet(top), HoldSet(top))
  <1> DEFINE k == tx[t].asset
             to == tx[t].to
             n == tx[t].amount
             from == tx[t].sender
             has == Holding(Sender(t), k)
             had == Holding(Other(t), k)
             s == SetHolding(Sender(t), k, has - n)
             r == SetHolding(Other(t), k, Plus(had, n))
             l1 == Save(ledger, from, s)
             l2 == Save(l1, to, r)
             l3 == SaveSender(t, l2, s)
  <1>1. /\ k \in Asset /\ to \in Addr /\ from \in Addr /\ n \in Amount /\ ledger \in Ledger
        /\ Sender(t) \in Account /\ Other(t) \in Account
    BY DEF TypeOK, TxContent, Ledger, Sender, Other
  <1>2. has >= n /\ (Panic(t, <<>>) \/ Commit(t, <<l1, l2, l3>>))
    BY DEF TransferToken
  <1>3. /\ has \in Nat /\ had \in Nat /\ had \in Amount /\ has \in Amount
        /\ has + had <= Held(ledger, k) /\ Held(ledger, k) \in Nat
        /\ Held(ledger, k) <= ledger.tokens[k].supply
        /\ ledger.tokens[k].supply <= top /\ ledger.tokens[k].supply \in Nat
    BY <1>1, HeldTyped DEF HoldSet, Sender, Other
  <1>4. n \in Nat /\ Word \in Nat /\ has - n \in Amount
    <2>1. n \in Nat /\ Word \in Nat /\ has < Word
      BY <1>1, <1>3, AmountsAreNat
    <2>2. has - n \in Nat /\ has - n < Word
      BY <1>2, <1>3, <2>1
    <2>3. QED
      BY <2>1, <2>2, AmountsAreNat
  <1>5. Plus(had, n) = had + n /\ had + n \in Amount
    <2>1. PICK h, m, c, held, supply :
              /\ h = has /\ m = had /\ c = n
              /\ held = Held(ledger, k) /\ supply = ledger.tokens[k].supply
      OBVIOUS
    <2>2. /\ h \in Nat /\ m \in Nat /\ c \in Nat /\ held \in Nat /\ supply \in Nat
          /\ c <= h /\ h + m <= held /\ held <= supply /\ supply <= top
          /\ m \in Amount /\ c \in Amount
      BY <1>1, <1>2, <1>3, <1>4, <2>1
    <2>3. m + c < Word /\ m + c \in Nat
      BY <2>2, <1>4
    <2>4. Plus(m, c) = m + c /\ m + c \in Amount
      BY <2>2, <2>3, PlusWraps, AmountsAreNat
    <2>5. QED
      BY <2>1, <2>4
  <1>6. /\ s \in Account /\ Holding(s, k) = has - n
        /\ \A j \in Asset : j # k => Holding(s, j) = Holding(Sender(t), j)
    BY <1>1, <1>4, SetHoldingKept
  <1>7. /\ r \in Account /\ Holding(r, k) = had + n
        /\ \A j \in Asset : j # k => Holding(r, j) = Holding(Other(t), j)
    BY <1>1, <1>5, SetHoldingKept
  <1> HIDE DEF s, r
  <1>8. PICK m0 : m0 = ledger
    OBVIOUS
  <1>9. PICK m1 : m1 = Save(m0, from, s)
    OBVIOUS
  <1>10. /\ m1 \in Ledger /\ m1.accounts[from].tokens = s.tokens /\ m1.tokens = m0.tokens
         /\ \A a \in Addr : a # from => m1.accounts[a] = m0.accounts[a]
    <2>1. PICK acc, x : acc = s /\ x = from
      OBVIOUS
    <2>2. acc \in Account /\ x \in Addr /\ m0 \in Ledger /\ m1 = Save(m0, x, acc)
      BY <1>1, <1>6, <1>8, <1>9, <2>1
    <2>3. /\ m1 \in Ledger /\ m1.accounts[x].tokens = acc.tokens
          /\ m1.tokens = m0.tokens
          /\ \A a \in Addr : a # x => m1.accounts[a] = m0.accounts[a]
      BY <2>2, Saved
    <2>4. QED
      BY <2>1, <2>3
  <1>11. \A j \in Asset : Holding(m1.accounts[from], j) = Holding(s, j)
    BY <1>10 DEF Holding
  <1>12. /\ has = Holding(m0.accounts[from], k) /\ had = Holding(m0.accounts[to], k)
         /\ \A j \in Asset : j # k => /\ Holding(s, j) = Holding(m0.accounts[from], j)
                                      /\ Holding(r, j) = Holding(m0.accounts[to], j)
    BY <1>6, <1>7, <1>8 DEF Sender, Other
  <1> HIDE DEF has, had
  <1>13. m1 \in HoldSet(top)
    <2>1. ASSUME NEW j \in Asset
          PROVE  Holding(m1.accounts[from], j) <= Holding(m0.accounts[from], j)
      <3>1. CASE j = k
        BY <1>2, <1>3, <1>4, <1>6, <1>11, <1>12, <3>1
      <3>2. CASE j # k
        <4>1. Holding(m0.accounts[from], j) \in Nat
          BY <1>1, <1>8, HeldTyped
        <4>2. QED
          BY <1>11, <1>12, <3>2, <4>1
      <3>3. QED
        BY <3>1, <3>2
    <2>2. QED
      BY <1>1, <1>8, <1>10, <2>1, HoldSave
  <1>14. Held(m1, k) = Held(m0, k) - n
    <2>1. Held(m1, k) = Held(m0, k) - Holding(m0.accounts[from], k)
                            + Holding(m1.accounts[from], k)
      BY <1>1, <1>8, <1>10, HeldAfter
    <2>2. Held(m1, k) = Held(m0, k) - has + (has - n)
      BY <1>1, <1>6, <1>11, <1>12, <2>1
    <2>3. Held(m0, k) \in Nat
      BY <1>3, <1>8
    <2>4. QED
      BY <1>3, <1>4, <2>2, <2>3
  <1>15. PICK m2 : m2 = Save(m1, to, r)
    OBVIOUS
  <1>16. /\ m2 \in Ledger /\ m2.accounts[to].tokens = r.tokens /\ m2.tokens = m1.tokens
         /\ \A a \in Addr : a # to => m2.accounts[a] = m1.accounts[a]
    <2>1. PICK acc, x : acc = r /\ x = to
      OBVIOUS
    <2>2. acc \in Account /\ x \in Addr /\ m1 \in Ledger /\ m2 = Save(m1, x, acc)
      BY <1>1, <1>7, <1>10, <1>15, <2>1
    <2>3. /\ m2 \in Ledger /\ m2.accounts[x].tokens = acc.tokens
          /\ m2.tokens = m1.tokens
          /\ \A a \in Addr : a # x => m2.accounts[a] = m1.accounts[a]
      BY <2>2, Saved
    <2>4. QED
      BY <2>1, <2>3
  <1>17. \A j \in Asset : Holding(m2.accounts[to], j) = Holding(r, j)
    BY <1>16 DEF Holding
  <1>18. m1.accounts[to] = m0.accounts[to]
    BY <1>1, <1>10
  <1>19. m2 \in HoldSet(top)
    <2>1. ASSUME NEW j \in Asset
          PROVE  \/ Holding(m2.accounts[to], j) <= Holding(m1.accounts[to], j)
                 \/ Held(m1, j) - Holding(m1.accounts[to], j) + Holding(m2.accounts[to], j)
                        <= m1.tokens[j].supply
      <3>1. CASE j = k
        <4>1. Holding(m1.accounts[to], k) = had /\ Holding(m2.accounts[to], k) = had + n
          BY <1>1, <1>7, <1>12, <1>17, <1>18
        <4>2. Held(m0, k) \in Nat /\ Held(m0, k) <= m1.tokens[k].supply
              /\ m1.tokens[k].supply \in Nat
          BY <1>3, <1>8, <1>10
        <4>3. QED
          BY <1>3, <1>4, <1>14, <3>1, <4>1, <4>2
      <3>2. CASE j # k
        <4>1. Holding(m0.accounts[to], j) \in Nat
          BY <1>1, <1>8, HeldTyped
        <4>2. QED
          BY <1>12, <1>17, <1>18, <3>2, <4>1
      <3>3. QED
        BY <3>1, <3>2
    <2>2. QED
      BY <1>1, <1>13, <1>16, <2>1, HoldSave
  <1>20. PICK m3 : m3 = SaveSender(t, m2, s)
    OBVIOUS
  <1>21. m3 \in HoldSet(top)
    <2>1. ASSUME NEW j \in Asset
          PROVE  Holding(s, j) <= Holding(m2.accounts[from], j)
      <3>1. m2.accounts[from] = m1.accounts[from]
        BY <1>1, <1>16
      <3>2. Holding(m2.accounts[from], j) \in Nat
        BY <1>1, <1>16, HeldTyped
      <3>3. QED
        BY <1>11, <3>1, <3>2
    <2>2. QED
      BY <1>6, <1>19, <1>20, <2>1, HoldSaveSender
  <1>22. Panic(t, <<>>) \/ Commit(t, <<m1, m2, m3>>)
    BY <1>2, <1>8, <1>9, <1>15, <1>20
  <1>23. QED
    BY <1>13, <1>19, <1>21, <1>22, PlanOfThree, PlanOfPanic

(* Every plan keeps the holdings within the supply.                        *)
LEMMA TokenPlan ==
    ASSUME IInv, NEW t \in Tx, Begin(t), NoSelfTransfers, Fits(0),
           ledger \in HoldSet(Count * Biggest)
    PROVE  PlanIn(t, HoldSet((Count + 1) * Biggest), HoldSet((Count + 1) * Biggest))
  <1>1. PICK low \in Nat, top \in Nat : /\ low = Count * Biggest
                                        /\ top = (Count + 1) * Biggest
                                        /\ top = low + Biggest /\ top < Word
    BY CountTyped, Ceiling, BiggestAmount, AmountsAreNat DEF IInv
  <1>2. tx[t].amount \in Nat /\ tx[t].amount <= Biggest /\ Biggest \in Nat /\ TypeOK
    BY BiggestAmount DEF IInv
  <1>3. ledger \in HoldSet(low) /\ ledger \in HoldSet(top)
    BY <1>1, <1>2, HoldSetGrows
  <1>4. CASE CreateToken(t)
    BY <1>1, <1>2, <1>3, <1>4, CreateTokenHolds
  <1>5. CASE MintToken(t)
    BY <1>1, <1>2, <1>3, <1>5, MintTokenHolds
  <1>6. CASE TransferToken(t)
    BY <1>1, <1>2, <1>3, <1>6, TransferTokenHolds DEF TransferToken, NoSelfTransfers
  <1>7. CASE tx[t].kind \notin TokenKinds
    <2>1. PlanIn(t, Keeps(t), Ends(t))
      BY <1>2, PlanKeeps
    <2>2. \A l \in Keeps(t) \cup Ends(t) : l \in Ledger /\ SameTokens(l, ledger)
      BY <1>7 DEF Keeps, Ends, KeepsRest
    <2>3. \A l \in Keeps(t) \cup Ends(t) : l \in HoldSet(top)
      BY <1>3, <2>2, HoldSame
    <2>4. QED
      BY <1>1, <2>1, <2>3, PlanWeakened
  <1>8. tx[t].kind \in TokenKinds => CreateToken(t) \/ MintToken(t) \/ TransferToken(t)
    BY DEF TokenKinds, Begin, Transfer, CreateValidator, DelegateStake, CreateCollection,
           MintNFT
  <1>9. QED
    BY <1>4, <1>5, <1>6, <1>7, <1>8

(* It holds at the start ...                                               *)
LEMMA InitTokens == Init => TokensFollow
  <1> SUFFICES ASSUME Init
               PROVE  TokensFollow
    OBVIOUS
  <1>1. IInv
    BY InitIInv
  <1>2. pc = "idle" /\ ledger \in Ledger
    BY <1>1 DEF Init, IInv, TypeOK
  <1>3. Count * Biggest \in Nat
    BY <1>1, CountTyped, Ceiling DEF IInv
  <1>4. ASSUME NEW k \in Asset
        PROVE  Held(ledger, k) = 0 /\ ledger.tokens[k].supply = 0
    <2>1. \A a \in Addr : Holding(ledger.accounts[a], k) = 0
      BY ExecutorAssumption DEF Init, Holding
    <2>2. Held(ledger, k) = 0
      <3>1. PICK f : f = [a \in Addr |-> Holding(ledger.accounts[a], k)]
        OBVIOUS
      <3>2. f \in [Addr -> Amount] /\ \A a \in Addr : f[a] = 0
        BY <2>1, <3>1, AmountsAreNat
      <3>3. QED
        BY <3>1, <3>2, TotalOfAmounts DEF Held
    <2>3. QED
      BY <2>2 DEF Init
  <1>5. ledger \in HoldSet(Count * Biggest)
    BY <1>2, <1>3, <1>4 DEF HoldSet
  <1>6. QED
    BY <1>2, <1>5 DEF TokensFollow, Follows

(* ... and every step carries it on.                                       *)
LEMMA StepTokens == IInv /\ TokensFollow /\ [Next]_vars => TokensFollow'
  <1> SUFFICES ASSUME IInv, TokensFollow, [Next]_vars, NoSelfTransfers', Fits(0)'
               PROVE  Follows(HoldSet(Count * Biggest), HoldSet((Count + 1) * Biggest),
                              HoldSet((Count + 1) * Biggest))'
    BY DEF TokensFollow
  <1>1. tx' = tx
    BY CountSteps
  <1>2. Biggest' = Biggest /\ NoSelfTransfers /\ Fits(0)
    BY <1>1, ConditionsKept
  <1>3. PICK I, M : I = HoldSet(Count * Biggest) /\ M = HoldSet((Count + 1) * Biggest)
    OBVIOUS
  <1>4. PICK I2, M2 : I2 = HoldSet(Count' * Biggest') /\ M2 = HoldSet((Count' + 1) * Biggest')
    OBVIOUS
  <1>5. Follows(I, M, M)
    BY <1>2, <1>3 DEF TokensFollow
  <1>6. I \subseteq M
    <2>1. Count * Biggest \in Nat /\ (Count + 1) * Biggest \in Nat
          /\ Count * Biggest <= (Count + 1) * Biggest
      BY CountTyped, Ceiling, BiggestAmount DEF IInv
    <2>2. QED
      BY <1>3, <2>1, HoldSetGrows
  <1>7. ASSUME NEW t \in Tx, Begin(t)
        PROVE  I \subseteq M2 /\ PlanIn(t, M2, M2)
    <2>1. PlanIn(t, Keeps(t), Ends(t)) /\ pc = "idle"
      BY <1>7, PlanKeeps DEF IInv, Begin
    <2>2. Count' = Count
      BY <2>1 DEF PlanIn, Count, Done
    <2>3. M2 = M
      BY <1>2, <1>3, <1>4, <2>2
    <2>4. ledger \in HoldSet(Count * Biggest)
      BY <1>3, <1>5, <2>1 DEF Follows
    <2>5. PlanIn(t, M2, M2)
      BY <1>2, <1>3, <1>7, <2>3, <2>4, TokenPlan
    <2>6. QED
      BY <1>6, <2>3, <2>5
  <1>8. Put \/ Die \/ UNCHANGED vars => I2 = I /\ M2 = M
    <2>1. Put \/ Die \/ UNCHANGED vars => UNCHANGED <<completed, faults>>
      BY DEF Put, Die, vars
    <2>2. Put \/ Die \/ UNCHANGED vars => Count' = Count
      BY <1>1, <2>1 DEF Count, Done
    <2>3. QED
      BY <1>2, <1>3, <1>4, <2>2
  <1>9. LastPut \/ PutFails \/ Restart => M \subseteq I2
    <2>1. LastPut \/ PutFails \/ Restart => Count' = Count + 1
      BY CountSteps
    <2>2. QED
      BY <1>2, <1>3, <1>4, <2>1
  <1>10. \A l \in I2 : [l EXCEPT !.registry = NoValidators] \in I2
    BY <1>4, HoldSetRegistry
  <1>11. Follows(I2, M2, M2)'
    BY <1>5, <1>6, <1>7, <1>8, <1>9, <1>10, Carried
  <1>12. QED
    BY <1>4, <1>11 DEF Follows

(* What the accounts hold of a token never exceeds its supply, wherever an *)
(* execution is cut off and however often it is tried again.               *)
THEOREM SupplyCoversHoldings == Spec => []HoldingsWithinSupply
  <1>1. IInv /\ TokensFollow => HoldingsWithinSupply
    <2>1. TokensFollow /\ NoSelfTransfers /\ Fits(0) =>
              \A k \in Asset : Held(ledger, k) <= ledger.tokens[k].supply
      BY DEF TokensFollow, Follows, HoldSet
    <2>2. QED
      BY <2>1 DEF HoldingsWithinSupply, Held
  <1>2. Spec => [](IInv /\ TokensFollow)
    <2>1. Init => IInv /\ TokensFollow
      BY InitIInv, InitTokens
    <2>2. (IInv /\ TokensFollow) /\ [Next]_vars => (IInv /\ TokensFollow)'
      BY StepIInv, StepTokens
    <2>3. QED
      BY <2>1, <2>2, PTL DEF Spec
  <1>3. QED
    BY <1>1, <1>2, PTL

----------------------------------------------------------------------------
(***************************************************************************)
(* Stakes: what is delegated to a validator is backed by its stake, which  *)
(* is the minimum and one amount at most for each attempt.  A validator    *)
(* that is stored was created by a completed transaction or by the one     *)
(* under way, so that none is created over it.                             *)
(***************************************************************************)
Part(acc, v) == IF acc.validator = v THEN acc.delegated ELSE 0

Delegated(l, v) ==
    Total([a \in Addr |-> IF l.accounts[a].validator = v THEN l.accounts[a].delegated ELSE 0])

Made(done) == {tx[t].to : t \in {u \in done : tx[u].kind = "createValidator"}}

StakeSet(top, made) ==
    {l \in Ledger :
        /\ \A v \in Addr : /\ Delegated(l, v) <= l.validators[v].stake
                           /\ l.validators[v].stake <= top
                           /\ ~l.validators[v].stored => l.validators[v].stake = 0
                           /\ l.validators[v].stored => v \in made
        /\ \A a \in Addr : l.accounts[a].validator = NoAddr => l.accounts[a].delegated = 0}

StakesFollow ==
    faults = 0 /\ NoneCreatedTwice /\ Fits(MinStake) =>
        Follows(StakeSet(MinStake + Count * Biggest, Made(Done)),
                StakeSet(MinStake + (Count + 1) * Biggest, Made(Done \cup {current})),
                StakeSet(MinStake + (Count + 1) * Biggest, Made(Done \cup {current})))

(* Delegations are amounts and have a sum.                                 *)
LEMMA DelegatedTyped ==
    ASSUME NEW l \in Ledger, NEW v \in Addr
    PROVE  /\ Delegated(l, v) \in Nat
           /\ l.validators[v].stake \in Amount /\ l.validators[v].stake \in Nat
           /\ \A a \in Addr : /\ Part(l.accounts[a], v) \in Amount
                              /\ Part(l.accounts[a], v) \in Nat
                              /\ Part(l.accounts[a], v) <= Delegated(l, v)
                              /\ l.accounts[a].delegated \in Amount
  <1>1. PICK f : f = [a \in Addr |-> IF l.accounts[a].validator = v
                                     THEN l.accounts[a].delegated ELSE 0]
    OBVIOUS
  <1>2. \A a \in Addr : l.accounts[a].delegated \in Amount
    BY DEF Ledger, Account
  <1>3. /\ f \in [Addr -> Amount]
        /\ \A a \in Addr : f[a] = Part(l.accounts[a], v)
    BY <1>1, <1>2, AmountsAreNat DEF Part
  <1>4. Delegated(l, v) = Total(f)
    BY <1>1 DEF Delegated
  <1>5. l.validators[v].stake \in Amount
    BY DEF Ledger, Validator
  <1>6. QED
    BY <1>2, <1>3, <1>4, <1>5, TotalOfAmounts, AmountsAreNat

(* One account changes.                                                    *)
LEMMA DelegatedAfter ==
    ASSUME NEW l \in Ledger, NEW m \in Ledger, NEW a \in Addr, NEW v \in Addr,
           \A b \in Addr : b # a => m.accounts[b] = l.accounts[b]
    PROVE  Delegated(m, v) = Delegated(l, v) - Part(l.accounts[a], v) + Part(m.accounts[a], v)
  <1>1. PICK f : f = [b \in Addr |-> IF l.accounts[b].validator = v
                                     THEN l.accounts[b].delegated ELSE 0]
    OBVIOUS
  <1>2. PICK e : e = [b \in Addr |-> IF m.accounts[b].validator = v
                                     THEN m.accounts[b].delegated ELSE 0]
    OBVIOUS
  <1>3. \A b \in Addr : l.accounts[b].delegated \in Amount /\ m.accounts[b].delegated \in Amount
    BY DelegatedTyped
  <1>4. f \in [Addr -> Amount] /\ e \in [Addr -> Amount]
    BY <1>1, <1>2, <1>3, AmountsAreNat
  <1>5. \A b \in Addr : b # a => e[b] = f[b]
    BY <1>1, <1>2
  <1>6. Total(e) = Total(f) - f[a] + e[a]
    BY <1>4, <1>5, TotalAfter
  <1>7. Delegated(l, v) = Total(f) /\ Delegated(m, v) = Total(e)
    BY <1>1, <1>2 DEF Delegated
  <1>8. f[a] = Part(l.accounts[a], v) /\ e[a] = Part(m.accounts[a], v)
    BY <1>1, <1>2 DEF Part
  <1>9. QED
    BY <1>6, <1>7, <1>8

(* The same delegations have the same sum.                                 *)
LEMMA DelegatedSame ==
    ASSUME NEW l, NEW m, NEW v,
           \A a \in Addr : /\ m.accounts[a].delegated = l.accounts[a].delegated
                           /\ m.accounts[a].validator = l.accounts[a].validator
    PROVE  Delegated(m, v) = Delegated(l, v)
  <1>1. [a \in Addr |-> IF m.accounts[a].validator = v THEN m.accounts[a].delegated ELSE 0]
        = [a \in Addr |-> IF l.accounts[a].validator = v THEN l.accounts[a].delegated ELSE 0]
    OBVIOUS
  <1>2. QED
    BY <1>1 DEF Delegated

(* An account may delegate less than before, or more where the stake       *)
(* covers it.                                                              *)
LEMMA StakeSave ==
    ASSUME NEW top, NEW made, NEW l \in StakeSet(top, made), NEW m \in Ledger, NEW a \in Addr,
           m.validators = l.validators, \A b \in Addr : b # a => m.accounts[b] = l.accounts[b],
           m.accounts[a].validator # NoAddr,
           \A v \in Addr :
               \/ Part(m.accounts[a], v) = 0
               \/ Delegated(l, v) - Part(l.accounts[a], v) + Part(m.accounts[a], v)
                      <= l.validators[v].stake
    PROVE  m \in StakeSet(top, made)
  <1>1. l \in Ledger
    BY DEF StakeSet
  <1>2. ASSUME NEW v \in Addr
        PROVE  Delegated(m, v) <= m.validators[v].stake
    <2>1. /\ Delegated(l, v) \in Nat /\ Delegated(l, v) <= l.validators[v].stake
          /\ l.validators[v].stake \in Nat /\ Part(l.accounts[a], v) \in Nat
      BY <1>1, DelegatedTyped DEF StakeSet
    <2>2. Part(m.accounts[a], v) \in Nat
      BY DelegatedTyped
    <2>3. Delegated(m, v) = Delegated(l, v) - Part(l.accounts[a], v) + Part(m.accounts[a], v)
      BY <1>1, DelegatedAfter
    <2>4. \/ Part(m.accounts[a], v) = 0
          \/ Delegated(l, v) - Part(l.accounts[a], v) + Part(m.accounts[a], v)
                 <= l.validators[v].stake
      OBVIOUS
    <2>5. QED
      BY <2>1, <2>2, <2>3, <2>4
  <1>3. \A b \in Addr : m.accounts[b].validator = NoAddr => m.accounts[b].delegated = 0
    BY DEF StakeSet
  <1>4. QED
    BY <1>2, <1>3 DEF StakeSet

(* What changes no stake and no delegation.                                *)
LEMMA StakeSame ==
    ASSUME NEW top, NEW made, NEW l \in StakeSet(top, made), NEW m \in Ledger, SameStakes(m, l)
    PROVE  m \in StakeSet(top, made)
  <1>1. \A v \in Addr : Delegated(m, v) = Delegated(l, v)
    BY DelegatedSame DEF SameStakes
  <1>2. QED
    BY <1>1 DEF StakeSet, SameStakes

(* A larger bound and more creations allow more.                           *)
LEMMA StakeSetGrows ==
    ASSUME NEW n \in Nat, NEW m \in Nat, n <= m, NEW S, NEW T, S \subseteq T
    PROVE  StakeSet(n, S) \subseteq StakeSet(m, T)
  <1>1. \A l \in Ledger, v \in Addr : l.validators[v].stake \in Nat
    BY DelegatedTyped
  <1>2. QED
    BY <1>1 DEF StakeSet

(* A new validator.                                                        *)
LEMMA CreateValidatorBacked ==
    ASSUME TypeOK, NEW t \in Tx, CreateValidator(t), NEW top \in Nat, MinStake <= top,
           NEW made, tx[t].to \in made, ledger \in StakeSet(top, made),
           ~ledger.validators[tx[t].to].stored
    PROVE  PlanIn(t, StakeSet(top, made), StakeSet(top, made))
  <1> DEFINE from == tx[t].sender
             to == tx[t].to
             s == [Sender(t) EXCEPT !.balance = Minus(@, MinStake), !.delegated = MinStake,
                                    !.validator = to]
             v == [stored |-> TRUE, stake |-> MinStake]
             l1 == [ledger EXCEPT !.validators[to] = v, !.registry[to] = v]
  <1>1. /\ from \in Addr /\ to \in Addr /\ to # NoAddr /\ ledger \in Ledger
        /\ Sender(t) \in Account /\ MinStake \in Amount /\ MinStake \in Nat
    BY ExecutorAssumption, AmountsAreNat DEF TypeOK, TxContent, Ledger, Sender
  <1>2. s \in Account /\ s.delegated = MinStake /\ s.validator = to
    BY <1>1, AmountsWrap DEF Account
  <1>3. v \in Validator /\ v.stored /\ v.stake = MinStake
    BY <1>1 DEF Validator
  <1>4. Commit(t, <<l1, SaveSender(t, l1, s)>>)
    BY DEF CreateValidator
  <1>5. /\ l1 \in Ledger /\ l1.accounts = ledger.accounts /\ l1.validators[to] = v
        /\ \A x \in Addr : x # to => l1.validators[x] = ledger.validators[x]
    <2> HIDE DEF v
    <2>1. QED
      BY <1>1, <1>3 DEF Ledger
  <1> HIDE DEF s, v, l1
  <1>6. PICK m1 : m1 = l1
    OBVIOUS
  <1>7. \A x \in Addr : Delegated(m1, x) = Delegated(ledger, x)
    BY <1>5, <1>6, DelegatedSame
  <1>8. /\ Delegated(m1, to) = 0
        /\ \A a \in Addr : Part(m1.accounts[a], to) = 0
    <2>1. Delegated(ledger, to) <= 0
      BY <1>1 DEF StakeSet
    <2>2. Delegated(m1, to) \in Nat /\ Delegated(m1, to) = Delegated(ledger, to)
      BY <1>1, <1>5, <1>6, <1>7, DelegatedTyped
    <2>3. Delegated(m1, to) = 0
      BY <2>1, <2>2
    <2>4. \A a \in Addr : /\ Part(m1.accounts[a], to) \in Nat
                          /\ Part(m1.accounts[a], to) <= Delegated(m1, to)
      BY <1>1, <1>5, <1>6, DelegatedTyped
    <2>5. QED
      BY <2>3, <2>4
  <1>9. m1 \in StakeSet(top, made)
    <2>1. ASSUME NEW x \in Addr
          PROVE  /\ Delegated(m1, x) <= m1.validators[x].stake
                 /\ m1.validators[x].stake <= top
                 /\ ~m1.validators[x].stored => m1.validators[x].stake = 0
                 /\ m1.validators[x].stored => x \in made
      <3>1. CASE x = to
        BY <1>1, <1>3, <1>5, <1>6, <1>8, <3>1
      <3>2. CASE x # to
        BY <1>5, <1>6, <1>7, <3>2 DEF StakeSet
      <3>3. QED
        BY <3>1, <3>2
    <2>2. \A a \in Addr : m1.accounts[a].validator = NoAddr => m1.accounts[a].delegated = 0
      BY <1>5, <1>6 DEF StakeSet
    <2>3. QED
      BY <1>5, <1>6, <2>1, <2>2 DEF StakeSet
  <1>10. PICK m2 : m2 = SaveSender(t, m1, s)
    OBVIOUS
  <1>11. /\ m2 \in Ledger /\ m2.validators = m1.validators
         /\ m2.accounts[from].delegated = MinStake /\ m2.accounts[from].validator = to
         /\ \A b \in Addr : b # from => m2.accounts[b] = m1.accounts[b]
    BY <1>2, <1>5, <1>6, <1>10, SaveSenderReplaces
  <1>12. m2 \in StakeSet(top, made)
    <2>1. ASSUME NEW x \in Addr
          PROVE  \/ Part(m2.accounts[from], x) = 0
                 \/ Delegated(m1, x) - Part(m1.accounts[from], x) + Part(m2.accounts[from], x)
                        <= m1.validators[x].stake
      <3>1. CASE x = to
        <4>1. Part(m2.accounts[from], to) = MinStake
          BY <1>11 DEF Part
        <4>2. m1.validators[to].stake = MinStake
          BY <1>3, <1>5, <1>6
        <4>3. QED
          BY <1>1, <1>8, <3>1, <4>1, <4>2
      <3>2. CASE x # to
        BY <1>11, <3>2 DEF Part
      <3>3. QED
        BY <3>1, <3>2
    <2>2. QED
      BY <1>1, <1>9, <1>11, <2>1, StakeSave
  <1>13. Commit(t, <<m1, m2>>)
    BY <1>4, <1>6, <1>10
  <1>14. QED
    BY <1>9, <1>12, <1>13, PlanOfTwo

(* More stake, and as much more delegated.                                 *)
LEMMA DelegateBacked ==
    ASSUME TypeOK, NEW t \in Tx, DelegateStake(t), NEW low \in Nat, NEW top \in Nat,
           low + tx[t].amount <= top, top < Word,
           NEW made, ledger \in StakeSet(low, made)
    PROVE  PlanIn(t, StakeSet(top, made), StakeSet(top, made))
  <1> DEFINE from == tx[t].sender
             to == tx[t].to
             n == tx[t].amount
             d == Sender(t).delegated
             stake == ledger.validators[to].stake
             s == [Sender(t) EXCEPT !.delegated = Plus(@, n), !.validator = to]
             v == [ledger.validators[to] EXCEPT !.stake = Plus(@, n)]
             l1 == SetStake(ledger, to, v)
  <1>1. /\ from \in Addr /\ to \in Addr /\ to # NoAddr /\ ledger \in Ledger
        /\ Sender(t) \in Account /\ ledger.validators[to] \in Validator
        /\ n \in Amount /\ n \in Nat /\ Word \in Nat
    <2>1. /\ from \in Addr /\ to \in Addr /\ ledger \in Ledger /\ n \in Amount
      BY DEF TypeOK, TxContent
    <2>2. Sender(t) \in Account /\ ledger.validators[to] \in Validator
      BY <2>1 DEF Ledger, Sender
    <2>3. to # NoAddr
      BY <2>1, ExecutorAssumption
    <2>4. n \in Nat /\ Word \in Nat
      BY <2>1, AmountsAreNat
    <2>5. QED
      BY <2>1, <2>2, <2>3, <2>4
  <1>2. /\ ledger.validators[to].stored /\ Sender(t).validator \in {NoAddr, to}
        /\ Commit(t, <<l1, SaveSender(t, l1, s)>>)
    BY DEF DelegateStake
  <1>3. /\ stake \in Nat /\ stake \in Amount /\ stake <= low
        /\ Delegated(ledger, to) \in Nat /\ Delegated(ledger, to) <= stake
    BY <1>1, DelegatedTyped DEF StakeSet
  <1>4. /\ d \in Amount /\ d \in Nat /\ d <= stake /\ Part(ledger.accounts[from], to) = d
    <2>1. d \in Amount /\ d \in Nat
      BY <1>1, AmountsAreNat DEF Account
    <2>2. Part(ledger.accounts[from], to) <= Delegated(ledger, to)
      BY <1>1, DelegatedTyped
    <2>3. CASE Sender(t).validator = to
      BY <1>3, <2>1, <2>2, <2>3 DEF Part, Sender
    <2>4. CASE Sender(t).validator = NoAddr
      <3>1. d = 0
        BY <1>1, <2>4 DEF StakeSet, Sender
      <3>2. Part(ledger.accounts[from], to) = 0
        BY <1>1, <2>4 DEF Part, Sender
      <3>3. QED
        BY <1>3, <2>1, <3>1, <3>2
    <2>5. QED
      BY <1>2, <2>3, <2>4
  <1>5. Plus(stake, n) = stake + n /\ Plus(d, n) = d + n
    <2>1. stake + n < Word /\ d + n < Word
      BY <1>1, <1>3, <1>4
    <2>2. QED
      BY <1>1, <1>3, <1>4, <2>1, PlusWraps
  <1>6. s \in Account /\ s.delegated = d + n /\ s.validator = to
    BY <1>1, <1>5, AmountsWrap DEF Account
  <1>7. v \in Validator /\ v.stored /\ v.stake = stake + n
    BY <1>1, <1>2, <1>5, AmountsWrap DEF Validator
  <1> HIDE DEF s, v
  <1>8. /\ l1 \in Ledger /\ l1.accounts = ledger.accounts /\ l1.validators[to] = v
        /\ \A x \in Addr : x # to => l1.validators[x] = ledger.validators[x]
    BY <1>1, <1>7 DEF Ledger, SetStake
  <1> HIDE DEF l1, d, stake
  <1>9. PICK m1 : m1 = l1
    OBVIOUS
  <1>10. \A x \in Addr : Delegated(m1, x) = Delegated(ledger, x)
    BY <1>8, <1>9, DelegatedSame
  <1>11. m1 \in StakeSet(top, made)
    <2>1. ASSUME NEW x \in Addr
          PROVE  /\ Delegated(m1, x) <= m1.validators[x].stake
                 /\ m1.validators[x].stake <= top
                 /\ ~m1.validators[x].stored => m1.validators[x].stake = 0
                 /\ m1.validators[x].stored => x \in made
      <3>1. /\ Delegated(ledger, x) <= ledger.validators[x].stake
            /\ ledger.validators[x].stake <= low /\ ledger.validators[x].stake \in Nat
            /\ ~ledger.validators[x].stored => ledger.validators[x].stake = 0
            /\ ledger.validators[x].stored => x \in made
        BY <1>1, DelegatedTyped DEF StakeSet
      <3>2. CASE x = to
        BY <1>1, <1>2, <1>3, <1>7, <1>8, <1>9, <1>10, <3>1, <3>2
      <3>3. CASE x # to
        BY <1>1, <1>8, <1>9, <1>10, <3>1, <3>3
      <3>4. QED
        BY <3>2, <3>3
    <2>2. \A a \in Addr : m1.accounts[a].validator = NoAddr => m1.accounts[a].delegated = 0
      BY <1>8, <1>9 DEF StakeSet
    <2>3. QED
      BY <1>8, <1>9, <2>1, <2>2 DEF StakeSet
  <1>12. PICK m2 : m2 = SaveSender(t, m1, s)
    OBVIOUS
  <1>13. /\ m2 \in Ledger /\ m2.validators = m1.validators
         /\ m2.accounts[from].delegated = d + n /\ m2.accounts[from].validator = to
         /\ \A b \in Addr : b # from => m2.accounts[b] = m1.accounts[b]
    BY <1>6, <1>8, <1>9, <1>12, SaveSenderReplaces
  <1>14. m2 \in StakeSet(top, made)
    <2>1. ASSUME NEW x \in Addr
          PROVE  \/ Part(m2.accounts[from], x) = 0
                 \/ Delegated(m1, x) - Part(m1.accounts[from], x) + Part(m2.accounts[from], x)
                        <= m1.validators[x].stake
      <3>1. CASE x = to
        <4>1. Part(m2.accounts[from], to) = d + n
          BY <1>13 DEF Part
        <4>2. m1.validators[to].stake = stake + n /\ Part(m1.accounts[from], to) = d
          BY <1>4, <1>7, <1>8, <1>9
        <4>3. Delegated(m1, to) = Delegated(ledger, to)
          BY <1>1, <1>10
        <4>4. QED
          BY <1>1, <1>3, <1>4, <3>1, <4>1, <4>2, <4>3
      <3>2. CASE x # to
        BY <1>13, <3>2 DEF Part
      <3>3. QED
        BY <3>1, <3>2
    <2>2. QED
      BY <1>1, <1>11, <1>13, <2>1, StakeSave
  <1>15. Commit(t, <<m1, m2>>)
    BY <1>2, <1>9, <1>12
  <1>16. QED
    BY <1>11, <1>14, <1>15, PlanOfTwo

(* Every plan keeps the delegations backed.                                *)
LEMMA StakePlan ==
    ASSUME IInv, NEW t \in Tx, Begin(t), NoneCreatedTwice, Fits(MinStake),
           ledger \in StakeSet(MinStake + Count * Biggest, Made(Done))
    PROVE  PlanIn(t, StakeSet(MinStake + (Count + 1) * Biggest, Made(Done \cup {t})),
                     StakeSet(MinStake + (Count + 1) * Biggest, Made(Done \cup {t})))
  <1>1. PICK low \in Nat, top \in Nat : /\ low = MinStake + Count * Biggest
                                        /\ top = MinStake + (Count + 1) * Biggest
                                        /\ top = low + Biggest /\ top < Word
                                        /\ MinStake <= top
    <2>1. PICK c \in Nat, b \in Nat, min \in Nat :
              c = Count * Biggest /\ b = Biggest /\ min = MinStake
      BY CountTyped, Ceiling, BiggestAmount, AmountsAreNat DEF IInv
    <2>2. (Count + 1) * Biggest = c + b /\ min + (c + b) < Word /\ Word \in Nat
      BY <2>1, CountTyped, Ceiling, AmountsAreNat DEF IInv
    <2>3. min + c \in Nat /\ min + (c + b) \in Nat /\ min + (c + b) = (min + c) + b
          /\ min <= min + (c + b)
      OBVIOUS
    <2>4. QED
      BY <2>1, <2>2, <2>3
  <1>2. tx[t].amount \in Nat /\ tx[t].amount <= Biggest /\ Biggest \in Nat /\ TypeOK
    BY BiggestAmount DEF IInv
  <1>3. PICK had : had = Made(Done)
    OBVIOUS
  <1>4. PICK made : made = Made(Done \cup {t})
    OBVIOUS
  <1>5. had \subseteq made
    BY <1>3, <1>4 DEF Made
  <1>6. ledger \in StakeSet(low, made) /\ ledger \in StakeSet(top, made)
    <2>1. StakeSet(low, had) \subseteq StakeSet(low, made)
      BY <1>5, StakeSetGrows
    <2>2. low <= top
      BY <1>1, <1>2
    <2>3. StakeSet(low, made) \subseteq StakeSet(top, made)
      BY <2>2, StakeSetGrows
    <2>4. QED
      BY <1>1, <1>3, <2>1, <2>3
  <1>7. CASE CreateValidator(t)
    <2>1. tx[t].kind = "createValidator" /\ pc' = "commit" /\ current' = t
          /\ tx' = tx /\ ledger' = ledger
      BY <1>7 DEF CreateValidator, Commit
    <2>2. Plan'
      BY BeginPlans DEF IInv
    <2>3. tx[t].nonce = NonceOf(ledger, tx[t].sender) + 1
      BY <2>1, <2>2 DEF Plan, NonceOf
    <2>4. t \notin Done
      BY <2>3, NotDone
    <2>5. tx[t].to \in Addr
      BY <1>2 DEF TypeOK, TxContent
    <2>6. ~ledger.validators[tx[t].to].stored
      <3>1. SUFFICES ASSUME ledger.validators[tx[t].to].stored
                     PROVE  FALSE
        OBVIOUS
      <3>2. tx[t].to \in Made(Done)
        BY <2>5, <3>1 DEF StakeSet
      <3>3. PICK u \in Done : tx[u].kind = "createValidator" /\ tx[u].to = tx[t].to
        BY <3>2 DEF Made
      <3>4. u = t
        BY <2>1, <3>3 DEF NoneCreatedTwice, Done
      <3>5. QED
        BY <2>4, <3>4
    <2>7. tx[t].to \in made
      BY <1>4, <2>1 DEF Made
    <2>8. QED
      BY <1>1, <1>2, <1>4, <1>6, <1>7, <2>6, <2>7, CreateValidatorBacked
  <1>8. CASE DelegateStake(t)
    BY <1>1, <1>2, <1>4, <1>6, <1>8, DelegateBacked
  <1>9. CASE tx[t].kind \notin StakeKinds
    <2>1. PlanIn(t, Keeps(t), Ends(t))
      BY <1>2, PlanKeeps
    <2>2. \A l \in Keeps(t) \cup Ends(t) : l \in Ledger /\ SameStakes(l, ledger)
      BY <1>9 DEF Keeps, Ends, KeepsRest
    <2>3. \A l \in Keeps(t) \cup Ends(t) : l \in StakeSet(top, made)
      BY <1>6, <2>2, StakeSame
    <2>4. QED
      BY <1>1, <1>4, <2>1, <2>3, PlanWeakened
  <1>10. tx[t].kind \in StakeKinds => CreateValidator(t) \/ DelegateStake(t)
    BY DEF StakeKinds, Begin, Transfer, CreateToken, MintToken, TransferToken,
           CreateCollection, MintNFT
  <1>11. QED
    BY <1>7, <1>8, <1>9, <1>10

(* It holds at the start ...                                               *)
LEMMA InitStakes == Init => StakesFollow
  <1> SUFFICES ASSUME Init
               PROVE  StakesFollow
    OBVIOUS
  <1>1. IInv
    BY InitIInv
  <1>2. pc = "idle" /\ ledger \in Ledger
    BY <1>1 DEF Init, IInv, TypeOK
  <1>3. MinStake + Count * Biggest \in Nat
    BY <1>1, CountTyped, Ceiling, AmountsAreNat DEF IInv
  <1>4. \A a \in Addr : ledger.accounts[a].delegated = 0
    BY ExecutorAssumption DEF Init
  <1>5. ASSUME NEW v \in Addr
        PROVE  /\ Delegated(ledger, v) = 0 /\ ledger.validators[v].stake = 0
               /\ ~ledger.validators[v].stored
    <2>1. PICK f : f = [a \in Addr |-> IF ledger.accounts[a].validator = v
                                       THEN ledger.accounts[a].delegated ELSE 0]
      OBVIOUS
    <2>2. f \in [Addr -> Amount] /\ \A a \in Addr : f[a] = 0
      BY <1>4, <2>1, AmountsAreNat
    <2>3. Delegated(ledger, v) = 0
      BY <2>1, <2>2, TotalOfAmounts DEF Delegated
    <2>4. QED
      BY <2>3 DEF Init, NoValidators
  <1>6. ledger \in StakeSet(MinStake + Count * Biggest, Made(Done))
    BY <1>2, <1>3, <1>4, <1>5 DEF StakeSet
  <1>7. QED
    BY <1>2, <1>6 DEF StakesFollow, Follows

(* ... and every step carries it on.                                       *)
LEMMA StepStakes == IInv /\ StakesFollow /\ [Next]_vars => StakesFollow'
  <1> SUFFICES ASSUME IInv, StakesFollow, [Next]_vars,
                      faults' = 0, NoneCreatedTwice', Fits(MinStake)'
               PROVE  Follows(StakeSet(MinStake + Count * Biggest, Made(Done)),
                        StakeSet(MinStake + (Count + 1) * Biggest, Made(Done \cup {current})),
                        StakeSet(MinStake + (Count + 1) * Biggest, Made(Done \cup {current})))'
    BY DEF StakesFollow
  <1>1. tx' = tx
    BY CountSteps
  <1>2. Biggest' = Biggest /\ NoneCreatedTwice /\ Fits(MinStake)
    BY <1>1, ConditionsKept, AmountsAreNat
  <1>3. faults = 0 /\ ~PutFails /\ ~Restart
    <2>1. faults \in Nat
      BY DEF IInv, TypeOK
    <2>2. PutFails \/ Restart => faults' = faults + 1
      BY CountSteps
    <2>3. ~PutFails /\ ~Restart => faults' = faults
      BY CountSteps
    <2>4. QED
      BY <2>1, <2>2, <2>3
  <1>5. PICK I, M : /\ I = StakeSet(MinStake + Count * Biggest, Made(Done))
                    /\ M = StakeSet(MinStake + (Count + 1) * Biggest, Made(Done \cup {current}))
    OBVIOUS
  <1>6. PICK I2, M2 : /\ I2 = StakeSet(MinStake + Count' * Biggest', Made(Done)')
                      /\ M2 = StakeSet(MinStake + (Count' + 1) * Biggest',
                                       Made(Done \cup {current})')
    OBVIOUS
  <1>7. Follows(I, M, M)
    BY <1>2, <1>3, <1>5 DEF StakesFollow
  <1>8. I \subseteq M
    <2>1. PICK c \in Nat, d \in Nat : /\ c = MinStake + Count * Biggest
                                      /\ d = MinStake + (Count + 1) * Biggest /\ c <= d
      <3>1. Count * Biggest \in Nat /\ (Count + 1) * Biggest \in Nat
            /\ Count * Biggest <= (Count + 1) * Biggest /\ MinStake \in Nat
        BY CountTyped, Ceiling, BiggestAmount, AmountsAreNat DEF IInv
      <3>2. QED
        BY <3>1
    <2>2. PICK S, T : S = Made(Done) /\ T = Made(Done \cup {current})
      OBVIOUS
    <2>3. S \subseteq T
      BY <2>2 DEF Made
    <2>4. StakeSet(c, S) \subseteq StakeSet(d, T)
      BY <2>1, <2>3, StakeSetGrows
    <2>5. QED
      BY <1>5, <2>1, <2>2, <2>4
  <1>9. ASSUME NEW t \in Tx, Begin(t)
        PROVE  I \subseteq M2 /\ PlanIn(t, M2, M2)
    <2>1. PlanIn(t, Keeps(t), Ends(t)) /\ pc = "idle"
      BY <1>9, PlanKeeps DEF IInv, Begin
    <2>2. current' = t /\ UNCHANGED <<completed, faults>>
      BY <2>1 DEF PlanIn
    <2>3. Count' = Count /\ Done' = Done
      BY <2>2 DEF Count, Done
    <2>4. Made(Done \cup {current})' = Made(Done \cup {t})
      BY <1>1, <2>2, <2>3 DEF Made
    <2>5. M2 = StakeSet(MinStake + (Count + 1) * Biggest, Made(Done \cup {t}))
      BY <1>2, <1>6, <2>3, <2>4
    <2>6. ledger \in StakeSet(MinStake + Count * Biggest, Made(Done))
      BY <1>5, <1>7, <2>1 DEF Follows
    <2>7. PlanIn(t, M2, M2)
      BY <1>2, <1>9, <2>5, <2>6, StakePlan
    <2>8. I \subseteq M2
      <3>1. PICK c \in Nat, d \in Nat : /\ c = MinStake + Count * Biggest
                                        /\ d = MinStake + (Count + 1) * Biggest /\ c <= d
        <4>1. Count * Biggest \in Nat /\ (Count + 1) * Biggest \in Nat
              /\ Count * Biggest <= (Count + 1) * Biggest /\ MinStake \in Nat
          BY CountTyped, Ceiling, BiggestAmount, AmountsAreNat DEF IInv
        <4>2. QED
          BY <4>1
      <3>2. PICK S, T : S = Made(Done) /\ T = Made(Done \cup {t})
        OBVIOUS
      <3>3. S \subseteq T
        BY <3>2 DEF Made
      <3>4. StakeSet(c, S) \subseteq StakeSet(d, T)
        BY <3>1, <3>3, StakeSetGrows
      <3>5. QED
        BY <1>5, <2>5, <3>1, <3>2, <3>4
    <2>9. QED
      BY <2>7, <2>8
  <1>10. Put \/ Die \/ UNCHANGED vars => I2 = I /\ M2 = M
    <2>1. Put \/ Die \/ UNCHANGED vars => UNCHANGED <<current, completed, faults>>
      BY DEF Put, Die, vars
    <2>2. Put \/ Die \/ UNCHANGED vars =>
              Count' = Count /\ Made(Done)' = Made(Done)
              /\ Made(Done \cup {current})' = Made(Done \cup {current})
      BY <1>1, <2>1 DEF Count, Done, Made
    <2>3. QED
      BY <1>2, <1>5, <1>6, <2>2
  <1>11. LastPut => M \subseteq I2
    <2>1. LastPut => Count' = Count + 1 /\ Done' = Done \cup {current}
      BY CountSteps
    <2>2. LastPut => Made(Done)' = Made(Done \cup {current})
      BY <1>1, <2>1 DEF Made
    <2>3. QED
      BY <1>2, <1>5, <1>6, <2>1, <2>2
  <1>12. Follows(I2, M2, M2)'
    BY <1>3, <1>7, <1>8, <1>9, <1>10, <1>11, Carried
  <1>13. QED
    BY <1>6, <1>12 DEF Follows

(* Delegations are backed by the stake of the validator, when nothing      *)
(* fails and no validator is created twice.                                *)
THEOREM StakeBacksDelegations == Spec => []DelegationsBacked
  <1>1. IInv /\ StakesFollow => DelegationsBacked
    <2>1. StakesFollow /\ faults = 0 /\ NoneCreatedTwice /\ Fits(MinStake) =>
              \A v \in Addr : Delegated(ledger, v) <= ledger.validators[v].stake
      BY DEF StakesFollow, Follows, StakeSet
    <2>2. QED
      BY <2>1 DEF DelegationsBacked, Delegated
  <1>2. Spec => [](IInv /\ StakesFollow)
    <2>1. Init => IInv /\ StakesFollow
      BY InitIInv, InitStakes
    <2>2. (IInv /\ StakesFollow) /\ [Next]_vars => (IInv /\ StakesFollow)'
      BY StepIInv, StepStakes
    <2>3. QED
      BY <2>1, <2>2, PTL DEF Spec
  <1>3. QED
    BY <1>1, <1>2, PTL

=============================================================================
