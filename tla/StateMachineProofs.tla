------------------------- MODULE StateMachineProofs -------------------------
(***************************************************************************)
(* Theorems about StateMachine for any accounts, assets, transactions,     *)
(* word and fees.                                                          *)
(***************************************************************************)
EXTENDS StateMachine, DataFacts, TLAPS

----------------------------------------------------------------------------
(***************************************************************************)
(* The inductive invariant: the types of what decides whether and in which *)
(* order transactions are executed.                                        *)
(***************************************************************************)
IInv ==
    /\ balance \in [Addr -> Amount]
    /\ nonces \in [Addr -> Nat]
    /\ done \in [Tx -> Nat]
    /\ txs \in Families

(* Amounts are numbers below the word.                                     *)
LEMMA AmountsAreNat ==
    /\ Word \in Nat \ {0} /\ 0 \in Amount
    /\ \A n \in Amount : n \in Nat /\ n < Word
    /\ \A n \in Nat : n < Word => n \in Amount
  BY StateMachineAssumption DEF Amount

(* Arithmetic on uint64 stays in the word.                                 *)
LEMMA WordTyped ==
    ASSUME NEW m \in Amount, NEW n \in Amount
    PROVE  Plus(m, n) \in Amount /\ Minus(m, n) \in Amount
  <1>1. \A i \in Int : i % Word \in Amount
    BY AmountsAreNat DEF Amount
  <1>2. m + n \in Int /\ m - n \in Int
    BY AmountsAreNat
  <1>3. QED
    BY <1>1, <1>2 DEF Plus, Minus

(* The transactions that reach the node are transactions.                  *)
LEMMA TxTyped ==
    ASSUME IInv, NEW t \in txs
    PROVE  t \in Tx /\ t \in TxContent
  BY StateMachineAssumption DEF IInv, Tx

(* What is moved between two accounts, which may be one, stays in the word.*)
LEMMA MovedTyped ==
    ASSUME NEW f \in [Addr -> Amount], NEW from \in Addr, NEW to \in Addr,
           NEW out \in Amount, NEW in \in Amount
    PROVE  Moved(f, from, to, out, in) \in [Addr -> Amount]
  <1> DEFINE debited == [f EXCEPT ![from] = Minus(@, out)]
  <1>1. debited \in [Addr -> Amount]
    BY WordTyped
  <1> HIDE DEF debited
  <1>2. [debited EXCEPT ![to] = Plus(@, in)] \in [Addr -> Amount]
    BY <1>1, WordTyped
  <1>3. QED
    BY <1>2 DEF Moved, debited

(* The fee is paid from a balance that covers it.                          *)
LEMMA PayFeeTyped ==
    ASSUME IInv, NEW t \in txs, PayFee(t)
    PROVE  balance' \in [Addr -> Amount]
  <1>1. t.sender \in Addr /\ t.fee \in Amount
    BY TxTyped DEF TxContent
  <1>2. CASE balance[t.sender] >= t.fee /\ balance' = [balance EXCEPT ![t.sender] = @ - t.fee]
    <2>1. balance[t.sender] - t.fee \in Amount
      <3>1. balance[t.sender] \in Amount
        BY <1>1 DEF IInv
      <3>2. QED
        BY <1>1, <1>2, <3>1, AmountsAreNat
    <2>2. QED
      BY <1>2, <2>1 DEF IInv
  <1>3. CASE balance' = balance
    BY <1>3 DEF IInv
  <1>4. QED
    BY <1>2, <1>3 DEF PayFee

----------------------------------------------------------------------------
(***************************************************************************)
(* Steps.                                                                  *)
(***************************************************************************)

(* Only transfers move nonces, and only they are counted.                  *)
LEMMA OthersKeepNonces ==
    ASSUME NEW t \in txs, ExecuteTransaction(t), ~(Verified(t) /\ Transfer(t))
    PROVE  nonces' = nonces /\ done' = done
  BY DEF ExecuteTransaction, CreateToken, TransferToken, TransferTokenFails, CreateCollection,
         MintNFT, TransferNFT, CreateValidator, DelegateStake, Refuse, accounts

(* A new machine satisfies the invariant.                                  *)
LEMMA InvInit == ASSUME Init PROVE IInv
  BY StateMachineAssumption, AmountsAreNat DEF Init, IInv

(* Every call keeps it.                                                    *)
LEMMA InvStep == ASSUME IInv, [Next]_vars PROVE IInv'
  <1>1. CASE UNCHANGED vars
    BY <1>1 DEF vars, accounts, IInv
  <1>2. ASSUME NEW t \in txs, ExecuteTransaction(t), txs' = txs
        PROVE  IInv'
    <2>1. /\ t \in Tx /\ t.sender \in Addr /\ t.to \in Addr /\ t.nonce \in Amount
          /\ t.fee \in Amount /\ t.amount \in Amount
      BY <1>2, TxTyped DEF TxContent
    <2>2. nonces' \in [Addr -> Nat] /\ done' \in [Tx -> Nat]
      <3>1. CASE Transfer(t)
        <4>1. done[t] + 1 \in Nat /\ t.nonce \in Nat
          BY <2>1, AmountsAreNat DEF IInv
        <4>2. QED
          BY <2>1, <3>1, <4>1 DEF Transfer, IInv
      <3>2. CASE ~Transfer(t)
        BY <1>2, <3>2, OthersKeepNonces DEF IInv
      <3>3. QED
        BY <3>1, <3>2
    <2>3. balance' \in [Addr -> Amount]
      <3>1. CASE Transfer(t)
        <4>1. Plus(t.amount, t.fee) \in Amount
          BY <2>1, WordTyped
        <4>2. QED
          BY <2>1, <3>1, <4>1, MovedTyped DEF Transfer, IInv
      <3>2. CASE TransferToken(t) \/ MintNFT(t) \/ TransferNFT(t) \/ CreateValidator(t)
        BY <3>2, PayFeeTyped DEF TransferToken, MintNFT, TransferNFT, CreateValidator
      <3>3. CASE DelegateStake(t)
        <4>1. /\ balance[t.sender] - Plus(t.amount, t.fee) \in Amount
              /\ balance' = [balance EXCEPT ![t.sender] = @ - Plus(t.amount, t.fee)]
          <5>1. Plus(t.amount, t.fee) \in Amount
            BY <2>1, WordTyped
          <5>2. balance[t.sender] \in Amount /\ balance[t.sender] >= Plus(t.amount, t.fee)
            BY <2>1, <3>3 DEF DelegateStake, IInv
          <5>3. QED
            BY <3>3, <5>1, <5>2, AmountsAreNat DEF DelegateStake
        <4>2. QED
          BY <4>1 DEF IInv
      <3>4. CASE CreateToken(t) \/ TransferTokenFails(t) \/ CreateCollection(t) \/ Refuse(t)
        BY <3>4 DEF CreateToken, TransferTokenFails, CreateCollection, Refuse, accounts, IInv
      <3>5. QED
        BY <1>2, <3>1, <3>2, <3>3, <3>4 DEF ExecuteTransaction
    <2>4. QED
      BY <1>2, <2>2, <2>3 DEF IInv
  <1>3. QED
    BY <1>1, <1>2 DEF Next

(* It always holds.                                                        *)
LEMMA IsInvariant == Spec => []IInv
  BY InvInit, InvStep, PTL DEF Spec

----------------------------------------------------------------------------
(***************************************************************************)
(* The theorems.                                                           *)
(***************************************************************************)

(* A transfer that has been executed is at or below the nonce of its       *)
(* sender: executing one settles it.                                       *)
LEMMA TransferSettles ==
    ASSUME IInv, NEW t \in txs, Verified(t), Transfer(t)
    PROVE  t \in Numbered /\ Transfers!Settle(t)
  <1>1. /\ t \in Tx /\ t.sender \in Addr /\ t.nonce \in Nat \ {0} /\ t \in Numbered
    BY TxTyped, AmountsAreNat DEF Verified, TxContent, Numbered
  <1>2. t.nonce > nonces[t.sender] /\ nonces' = [nonces EXCEPT ![t.sender] = t.nonce]
    BY DEF Verified, Transfer
  <1>3. {u \in Tx : done[u] > 0}' = {u \in Tx : done[u] > 0} \cup {t}
    <2>1. done'[t] = done[t] + 1 /\ done[t] \in Nat
      BY <1>1 DEF Transfer, IInv
    <2>2. \A u \in Tx \ {t} : done'[u] = done[u]
      BY <1>1 DEF Transfer, IInv
    <2>3. QED
      BY <1>1, <2>1, <2>2
  <1>4. QED
    BY <1>1, <1>2, <1>3 DEF Transfers!Settle

(* The machine implements Settlement for transfers.                        *)
THEOREM SettlesTransfers == Spec => TransfersSettleOnce
  <1>1. Init => Transfers!Init
    <2> SUFFICES ASSUME Init PROVE Transfers!Init
      OBVIOUS
    <2>1. \A t \in Numbered : t.sender \in Addr /\ t.nonce \in Nat \ {0}
      BY StateMachineAssumption, AmountsAreNat DEF Numbered, TxContent
    <2>2. {t \in Tx : done[t] > 0} = {}
      BY DEF Init
    <2>3. nonces = [a \in Addr |-> 0]
      BY DEF Init
    <2>4. QED
      BY <2>1, <2>2, <2>3 DEF Transfers!Init
  <1>2. ASSUME IInv, [Next]_vars
        PROVE  \/ Transfers!Next
               \/ UNCHANGED <<[t \in Numbered |-> t.sender], [t \in Numbered |-> t.nonce], nonces,
                              {t \in Tx : done[t] > 0}>>
    <2>1. CASE UNCHANGED vars
      BY <2>1 DEF vars, accounts
    <2>2. ASSUME NEW t \in txs, ExecuteTransaction(t), Verified(t), Transfer(t)
          PROVE  Transfers!Next
      BY <1>2, <2>2, TransferSettles DEF Transfers!Next, Transfers!Settle
    <2>3. ASSUME NEW t \in txs, ExecuteTransaction(t), ~(Verified(t) /\ Transfer(t))
          PROVE  nonces' = nonces /\ done' = done
      BY <2>3, OthersKeepNonces
    <2>4. QED
      BY <1>2, <2>1, <2>2, <2>3 DEF Next
  <1>3. QED
    BY <1>1, <1>2, IsInvariant, PTL DEF Spec, TransfersSettleOnce, Transfers!Spec

(* A call that returns an error has moved nothing, unless the cost of its  *)
(* transaction overflows: a fee the check found covered can be paid, also  *)
(* after the handler has moved tokens and NFTs.                            *)
THEOREM ErrorsAreClean == Spec => ErrorsMoveNothing
  <1>1. ASSUME IInv, [Next]_vars, NEW t \in txs,
               ExecuteTransaction(t), outcome' = "error", t.fee + Value(t) < Word
        PROVE  UNCHANGED <<balance, nonces, delegated, tokens, nfts, supply, owner, stake>>
    <2>1. /\ t.sender \in Addr /\ t.fee \in Amount /\ Value(t) \in Amount
      BY <1>1, TxTyped, AmountsAreNat DEF TxContent, Value
    <2>2. Plus(t.fee, Value(t)) = t.fee + Value(t) /\ t.fee \in Nat /\ Value(t) \in Nat
      <3>1. \A n \in Nat : n < Word => n % Word = n
        BY AmountsAreNat
      <3>2. QED
        BY <1>1, <2>1, <3>1, AmountsAreNat DEF Plus
    <2>3. Verified(t) => ~PayFee(t)
      <3>1. balance[t.sender] \in Nat
        BY <1>1, <2>1, AmountsAreNat DEF IInv
      <3>2. Verified(t) => balance[t.sender] >= t.fee
        BY <2>2, <3>1 DEF Verified
      <3>3. QED
        BY <1>1, <2>2, <3>1, <3>2 DEF PayFee
    <2>4. CASE Refuse(t)
      BY <2>4 DEF Refuse, accounts
    <2>5. CASE Verified(t)
      BY <1>1, <2>3, <2>4, <2>5
         DEF ExecuteTransaction, Transfer, CreateToken, TransferToken, TransferTokenFails,
             CreateCollection, MintNFT, TransferNFT, CreateValidator, DelegateStake, accounts
    <2>6. QED
      BY <1>1, <2>4, <2>5 DEF ExecuteTransaction
  <1>2. IInv /\ [Next]_vars =>
            [\A t \in txs :
                 ExecuteTransaction(t) /\ outcome' = "error" /\ t.fee + Value(t) < Word
                   => UNCHANGED <<balance, nonces, delegated, tokens, nfts, supply, owner,
                                  stake>>]_vars
    BY <1>1
  <1>3. QED
    BY <1>2, IsInvariant, PTL DEF Spec, ErrorsMoveNothing

----------------------------------------------------------------------------
(***************************************************************************)
(* Ownership of NFTs.                                                      *)
(***************************************************************************)
Once(s, n) == \E i \in 1 .. Len(s) : \A j \in 1 .. Len(s) : s[j] = n <=> j = i

Never(s, n) == \A i \in 1 .. Len(s) : s[i] # n

(* How often an NFT is listed, as a number.                                *)
LEMMA OnceNever ==
    ASSUME NEW s \in Seq(NFT), NEW n
    PROVE  /\ Cardinality({i \in DOMAIN s : s[i] = n}) = 1 <=> Once(s, n)
           /\ Cardinality({i \in DOMAIN s : s[i] = n}) = 0 <=> Never(s, n)
  <1> DEFINE I == {i \in DOMAIN s : s[i] = n}
  <1>1. DOMAIN s = 1 .. Len(s) /\ Len(s) \in Nat
    OBVIOUS
  <1>2. IsFiniteSet(I)
    <2>1. IsFiniteSet(1 .. Len(s))
      BY <1>1, FS_Interval
    <2>2. QED
      BY <1>1, <2>1, FS_Subset
  <1>3. (\E x : I = {x}) <=> Once(s, n)
    <2>1. ASSUME NEW x, I = {x} PROVE Once(s, n)
      <3>1. x \in 1 .. Len(s) /\ \A j \in 1 .. Len(s) : s[j] = n <=> j = x
        BY <1>1, <2>1
      <3>2. QED
        BY <3>1 DEF Once
    <2>2. ASSUME Once(s, n) PROVE \E x : I = {x}
      <3>1. PICK x \in 1 .. Len(s) : \A j \in 1 .. Len(s) : s[j] = n <=> j = x
        BY <2>2 DEF Once
      <3>2. I = {x}
        BY <1>1, <3>1
      <3>3. QED
        BY <3>2
    <2>3. QED
      BY <2>1, <2>2
  <1>4. I = {} <=> Never(s, n)
    BY <1>1 DEF Never
  <1> HIDE DEF I
  <1>5. Cardinality(I) = 1 <=> \E x : I = {x}
    BY <1>2, FS_Singleton
  <1>6. Cardinality(I) = 0 <=> I = {}
    BY <1>2, FS_EmptySet
  <1>7. QED
    BY <1>3, <1>4, <1>5, <1>6 DEF I

(* With one more at the end.                                               *)
LEMMA Appended ==
    ASSUME NEW s \in Seq(NFT), NEW n \in NFT
    PROVE  /\ Append(s, n) \in Seq(NFT)
           /\ Never(s, n) => Once(Append(s, n), n)
           /\ \A m \in NFT : m # n /\ Never(s, m) => Never(Append(s, n), m)
           /\ \A m \in NFT : m # n /\ Once(s, m) => Once(Append(s, n), m)
  <1> DEFINE r == Append(s, n)
  <1>1. /\ r \in Seq(NFT) /\ Len(r) = Len(s) + 1 /\ Len(s) \in Nat
        /\ \A i \in 1 .. Len(s) : r[i] = s[i]
        /\ r[Len(s) + 1] = n
    OBVIOUS
  <1> HIDE DEF r
  <1>2. \A i \in 1 .. Len(r) : i = Len(s) + 1 \/ i \in 1 .. Len(s)
    BY <1>1
  <1>3. ASSUME Never(s, n)
        PROVE  Once(r, n)
    <2>1. Len(s) + 1 \in 1 .. Len(r) /\ \A j \in 1 .. Len(r) : r[j] = n <=> j = Len(s) + 1
      BY <1>1, <1>2, <1>3 DEF Never
    <2>2. QED
      BY <2>1 DEF Once
  <1>4. ASSUME NEW m \in NFT \ {n}, Never(s, m)
        PROVE  Never(r, m)
    BY <1>1, <1>2, <1>4 DEF Never
  <1>5. ASSUME NEW m \in NFT \ {n}, Once(s, m)
        PROVE  Once(r, m)
    <2>1. PICK i \in 1 .. Len(s) : \A j \in 1 .. Len(s) : s[j] = m <=> j = i
      BY <1>5 DEF Once
    <2>2. i \in 1 .. Len(r) /\ \A j \in 1 .. Len(r) : r[j] = m <=> j = i
      BY <1>1, <1>2, <1>5, <2>1
    <2>3. QED
      BY <2>2 DEF Once
  <1>6. QED
    BY <1>1, <1>3, <1>4, <1>5 DEF r

(* Without the one place at which n is.                                    *)
LEMMA Removed ==
    ASSUME NEW s \in Seq(NFT), NEW n \in NFT, Once(s, n)
    PROVE  /\ RemoveFirst(s, n) \in Seq(NFT)
           /\ Never(RemoveFirst(s, n), n)
           /\ \A m \in NFT : m # n /\ Never(s, m) => Never(RemoveFirst(s, n), m)
           /\ \A m \in NFT : m # n /\ Once(s, m) => Once(RemoveFirst(s, n), m)
  <1>1. PICK i \in 1 .. Len(s) : \A j \in 1 .. Len(s) : s[j] = n <=> j = i
    BY DEF Once
  <1> DEFINE u == SubSeq(s, 1, i - 1)
             v == SubSeq(s, i + 1, Len(s))
             r == u \o v
  <1>2. RemoveFirst(s, n) = r
    <2>1. {j \in 1 .. Len(s) : s[j] = n} = {i}
      BY <1>1
    <2>2. Min({i}) = i
      BY DEF Min
    <2>3. SelectInSeq(s, LAMBDA x : x = n) = i
      BY <2>1, <2>2 DEF SelectInSeq
    <2>4. QED
      BY <1>1, <2>3 DEF RemoveFirst, RemoveAt
  <1>3. /\ u \in Seq(NFT) /\ Len(u) = i - 1 /\ \A j \in 1 .. i - 1 : u[j] = s[j]
        /\ v \in Seq(NFT) /\ Len(v) = Len(s) - i /\ \A j \in 1 .. Len(s) - i : v[j] = s[j + i]
    <2>1. /\ u \in Seq(NFT) /\ Len(u) = i - 1 /\ \A j \in 1 .. i - 1 : u[j] = s[j]
      OBVIOUS
    <2>2. v \in Seq(NFT) /\ Len(v) = Len(s) - i /\ \A j \in 1 .. Len(s) - i : v[j] = s[j + i]
      OBVIOUS
    <2>3. QED
      BY <2>1, <2>2
  <1> HIDE DEF u, v
  <1>4. /\ r \in Seq(NFT) /\ Len(r) = Len(s) - 1 /\ Len(s) \in Nat /\ i \in Nat
        /\ \A j \in 1 .. i - 1 : r[j] = s[j]
        /\ \A j \in i .. Len(s) - 1 : r[j] = s[j + 1]
    <2>1. /\ r \in Seq(NFT) /\ Len(r) = Len(u) + Len(v)
          /\ \A j \in 1 .. Len(u) + Len(v) :
                 r[j] = IF j <= Len(u) THEN u[j] ELSE v[j - Len(u)]
      BY <1>3, ConcatProperties
    <2>2. Len(s) \in Nat /\ i \in Nat /\ i <= Len(s) /\ i >= 1
      OBVIOUS
    <2> HIDE DEF r
    <2>3. /\ Len(u) = i - 1 /\ Len(u) + Len(v) = Len(s) - 1
          /\ \A j \in 1 .. i - 1 : u[j] = s[j]
          /\ \A j \in 1 .. Len(s) - i : v[j] = s[j + i]
      BY <1>3, <2>2
    <2>4. \A j \in 1 .. Len(s) - 1 : r[j] = IF j <= i - 1 THEN u[j] ELSE v[j - (i - 1)]
      BY <2>1, <2>3
    <2>5. \A j \in 1 .. i - 1 : r[j] = s[j]
      BY <2>2, <2>3, <2>4
    <2>6. ASSUME NEW j \in i .. Len(s) - 1
          PROVE  r[j] = s[j + 1]
      <3>1. r[j] = v[j - (i - 1)] /\ j - (i - 1) \in 1 .. Len(s) - i
        BY <2>2, <2>4
      <3>2. v[j - (i - 1)] = s[(j - (i - 1)) + i]
        BY <2>3, <3>1
      <3>3. (j - (i - 1)) + i = j + 1
        BY <2>2
      <3>4. QED
        BY <3>1, <3>2, <3>3
    <2>7. QED
      BY <1>3, <2>1, <2>2, <2>3, <2>5, <2>6
  <1> HIDE DEF r
  <1>5. Never(r, n)
    BY <1>1, <1>4 DEF Never
  <1>6. ASSUME NEW m \in NFT \ {n}, Never(s, m)
        PROVE  Never(r, m)
    BY <1>4, <1>6 DEF Never
  <1>7. ASSUME NEW m \in NFT \ {n}, Once(s, m)
        PROVE  Once(r, m)
    <2>1. PICK k \in 1 .. Len(s) : \A j \in 1 .. Len(s) : s[j] = m <=> j = k
      BY <1>7 DEF Once
    <2>2. k # i
      BY <1>1, <2>1
    <2>3. CASE k < i
      <3>1. k \in 1 .. Len(r) /\ \A j \in 1 .. Len(r) : r[j] = m <=> j = k
        BY <1>1, <1>4, <2>1, <2>3
      <3>2. QED
        BY <3>1 DEF Once
    <2>4. CASE k > i
      <3>1. k - 1 \in 1 .. Len(r) /\ \A j \in 1 .. Len(r) : r[j] = m <=> j = k - 1
        BY <1>1, <1>4, <2>1, <2>4
      <3>2. QED
        BY <3>1 DEF Once
    <2>5. QED
      BY <2>2, <2>3, <2>4
  <1>8. QED
    BY <1>2, <1>4, <1>5, <1>6, <1>7

(* The lists agree with the owners.                                        *)
OwnInv ==
    /\ nfts \in [Addr -> Seq(NFT)]
    /\ owner \in [NFT -> Addr \cup {NoAddr}]
    /\ \A n \in NFT, a \in Addr :
           IF owner[n] = a THEN Once(nfts[a], n) ELSE Never(nfts[a], n)

(* Nobody owns anything at the start.                                      *)
LEMMA OwnInit == ASSUME Init PROVE OwnInv
  <1>1. /\ \A a \in Addr : nfts[a] = <<>>
        /\ \A n \in NFT : owner[n] = NoAddr
        /\ nfts \in [Addr -> Seq(NFT)] /\ owner \in [NFT -> Addr \cup {NoAddr}]
    BY DEF Init
  <1>2. \A n \in NFT : Never(<<>>, n)
    BY DEF Never
  <1>3. QED
    BY <1>1, <1>2, StateMachineAssumption DEF OwnInv

(* What is minted had no owner and was in no list.                         *)
LEMMA MintKeepsOwners ==
    ASSUME OwnInv, NEW t \in TxContent, MintNFT(t)
    PROVE  OwnInv'
  <1>1. /\ t.nft \in NFT /\ t.to \in Addr /\ owner[t.nft] = NoAddr /\ NoAddr \notin Addr
        /\ owner' = [owner EXCEPT ![t.nft] = t.to]
        /\ nfts' = [nfts EXCEPT ![t.to] = Append(@, t.nft)]
    BY StateMachineAssumption DEF MintNFT, TxContent
  <1> DEFINE old == nfts[t.to]
             new == Append(old, t.nft)
  <1>2. old \in Seq(NFT) /\ nfts'[t.to] = new /\ \A a \in Addr \ {t.to} : nfts'[a] = nfts[a]
    BY <1>1 DEF OwnInv
  <1>3. /\ owner'[t.nft] = t.to /\ \A n \in NFT \ {t.nft} : owner'[n] = owner[n]
        /\ owner' \in [NFT -> Addr \cup {NoAddr}]
    BY <1>1 DEF OwnInv
  <1>4. /\ new \in Seq(NFT)
        /\ Never(old, t.nft) => Once(new, t.nft)
        /\ \A m \in NFT : m # t.nft /\ Never(old, m) => Never(new, m)
        /\ \A m \in NFT : m # t.nft /\ Once(old, m) => Once(new, m)
    BY <1>1, <1>2, Appended
  <1>5. nfts' \in [Addr -> Seq(NFT)]
    BY <1>1, <1>2, <1>4 DEF OwnInv
  <1> HIDE DEF new
  <1>6. \A a \in Addr : Never(nfts[a], t.nft)
    BY <1>1 DEF OwnInv
  <1>7. ASSUME NEW n \in NFT, NEW a \in Addr
        PROVE  IF owner'[n] = a THEN Once(nfts'[a], n) ELSE Never(nfts'[a], n)
    <2>1. IF owner[n] = a THEN Once(nfts[a], n) ELSE Never(nfts[a], n)
      BY DEF OwnInv
    <2>2. CASE n = t.nft /\ a = t.to
      BY <1>2, <1>3, <1>4, <1>6, <2>2
    <2>3. CASE n = t.nft /\ a # t.to
      BY <1>2, <1>3, <1>6, <2>3
    <2>4. CASE n # t.nft /\ a = t.to
      <3>1. /\ Never(old, n) => Never(new, n)
            /\ Once(old, n) => Once(new, n)
        BY <1>4, <2>4
      <3>2. nfts'[a] = new /\ owner'[n] = owner[n] /\ nfts[a] = old
        BY <1>2, <1>3, <2>4
      <3>3. QED
        BY <2>1, <3>1, <3>2
    <2>5. CASE n # t.nft /\ a # t.to
      BY <1>2, <1>3, <2>1, <2>5
    <2>6. QED
      BY <2>2, <2>3, <2>4, <2>5
  <1>8. QED
    BY <1>3, <1>5, <1>7 DEF OwnInv

(* What changes hands leaves one list and enters another, or the same.     *)
LEMMA TransferKeepsOwners ==
    ASSUME OwnInv, NEW t \in TxContent, TransferNFT(t)
    PROVE  OwnInv'
  <1> DEFINE rest == RemoveFirst(nfts[t.sender], t.nft)
             taken == [nfts EXCEPT ![t.sender] = rest]
             new == Append(taken[t.to], t.nft)
  <1>1. /\ t.nft \in NFT /\ t.to \in Addr /\ t.sender \in Addr /\ owner[t.nft] = t.sender
        /\ owner' = [owner EXCEPT ![t.nft] = t.to]
        /\ nfts' = [taken EXCEPT ![t.to] = new]
    BY DEF TransferNFT, TxContent, Without, OwnInv
  <1>2. /\ nfts[t.sender] \in Seq(NFT) /\ Once(nfts[t.sender], t.nft)
    BY <1>1 DEF OwnInv
  <1>3. /\ rest \in Seq(NFT) /\ Never(rest, t.nft)
        /\ \A m \in NFT : m # t.nft /\ Never(nfts[t.sender], m) => Never(rest, m)
        /\ \A m \in NFT : m # t.nft /\ Once(nfts[t.sender], m) => Once(rest, m)
    BY <1>1, <1>2, Removed
  <1> HIDE DEF rest
  <1>4. /\ taken \in [Addr -> Seq(NFT)] /\ taken[t.sender] = rest
        /\ \A a \in Addr \ {t.sender} : taken[a] = nfts[a]
    BY <1>1, <1>3 DEF OwnInv
  <1> HIDE DEF taken
  <1>5. ASSUME NEW a \in Addr
        PROVE  /\ Never(taken[a], t.nft)
               /\ \A n \in NFT \ {t.nft} :
                      IF owner[n] = a THEN Once(taken[a], n) ELSE Never(taken[a], n)
    <2>1. \A n \in NFT : IF owner[n] = a THEN Once(nfts[a], n) ELSE Never(nfts[a], n)
      BY DEF OwnInv
    <2>2. CASE a = t.sender
      <3>1. taken[a] = rest /\ nfts[a] = nfts[t.sender]
        BY <1>4, <2>2
      <3>2. ASSUME NEW n \in NFT \ {t.nft}
            PROVE  IF owner[n] = a THEN Once(taken[a], n) ELSE Never(taken[a], n)
        <4>1. /\ Never(nfts[t.sender], n) => Never(rest, n)
              /\ Once(nfts[t.sender], n) => Once(rest, n)
          BY <1>3, <3>2
        <4>2. QED
          BY <2>1, <3>1, <3>2, <4>1
      <3>3. QED
        BY <1>3, <3>1, <3>2
    <2>3. CASE a # t.sender
      BY <1>1, <1>4, <2>1, <2>3
    <2>4. QED
      BY <2>2, <2>3
  <1>6. /\ new \in Seq(NFT)
        /\ Never(taken[t.to], t.nft) => Once(new, t.nft)
        /\ \A m \in NFT : m # t.nft /\ Never(taken[t.to], m) => Never(new, m)
        /\ \A m \in NFT : m # t.nft /\ Once(taken[t.to], m) => Once(new, m)
    BY <1>1, <1>4, Appended
  <1> HIDE DEF new
  <1>7. /\ nfts' \in [Addr -> Seq(NFT)] /\ nfts'[t.to] = new
        /\ \A a \in Addr \ {t.to} : nfts'[a] = taken[a]
    BY <1>1, <1>4, <1>6
  <1>8. /\ owner'[t.nft] = t.to /\ \A n \in NFT \ {t.nft} : owner'[n] = owner[n]
        /\ owner' \in [NFT -> Addr \cup {NoAddr}]
    BY <1>1 DEF OwnInv
  <1>9. ASSUME NEW n \in NFT, NEW a \in Addr
        PROVE  IF owner'[n] = a THEN Once(nfts'[a], n) ELSE Never(nfts'[a], n)
    <2>1. CASE n = t.nft /\ a = t.to
      BY <1>5, <1>6, <1>7, <1>8, <2>1
    <2>2. CASE n = t.nft /\ a # t.to
      BY <1>5, <1>7, <1>8, <2>2
    <2>3. CASE n # t.nft /\ a = t.to
      <3>1. /\ Never(taken[t.to], n) => Never(new, n)
            /\ Once(taken[t.to], n) => Once(new, n)
        BY <1>6, <2>3
      <3>2. IF owner[n] = a THEN Once(taken[a], n) ELSE Never(taken[a], n)
        BY <1>5, <2>3
      <3>3. nfts'[a] = new /\ owner'[n] = owner[n] /\ taken[a] = taken[t.to]
        BY <1>7, <1>8, <2>3
      <3>4. QED
        BY <3>1, <3>2, <3>3
    <2>4. CASE n # t.nft /\ a # t.to
      BY <1>5, <1>7, <1>8, <2>4
    <2>5. QED
      BY <2>1, <2>2, <2>3, <2>4
  <1>10. QED
    BY <1>7, <1>8, <1>9 DEF OwnInv

(* Every call keeps lists and owners in agreement.                         *)
LEMMA OwnStep == ASSUME IInv, OwnInv, [Next]_vars PROVE OwnInv'
  <1>1. ASSUME nfts' = nfts, owner' = owner
        PROVE  OwnInv'
    BY <1>1 DEF OwnInv
  <1>2. ASSUME NEW t \in txs, ExecuteTransaction(t)
        PROVE  OwnInv'
    <2>1. t \in TxContent
      BY TxTyped
    <2>2. CASE MintNFT(t)
      BY <2>1, <2>2, MintKeepsOwners
    <2>3. CASE TransferNFT(t)
      BY <2>1, <2>3, TransferKeepsOwners
    <2>4. CASE ~MintNFT(t) /\ ~TransferNFT(t)
      BY <1>1, <1>2, <2>4
         DEF ExecuteTransaction, Transfer, CreateToken, TransferToken, TransferTokenFails,
             CreateCollection, CreateValidator, DelegateStake, Refuse, accounts
    <2>5. QED
      BY <2>2, <2>3, <2>4
  <1>3. QED
    BY <1>1, <1>2 DEF Next, vars, accounts

(* An NFT is in its owner's list once and in no other, whoever sends it to *)
(* whom, and also when the fee of a call cannot be paid in the end.        *)
THEOREM NFTsHaveOneOwner == Spec => []OneOwner
  <1>1. OwnInv => OneOwner
    <2> SUFFICES ASSUME OwnInv, NEW n \in NFT, NEW a \in Addr
                 PROVE  Cardinality({i \in DOMAIN nfts[a] : nfts[a][i] = n})
                            = IF owner[n] = a THEN 1 ELSE 0
      BY DEF OneOwner
    <2>1. nfts[a] \in Seq(NFT)
      BY DEF OwnInv
    <2>2. IF owner[n] = a THEN Once(nfts[a], n) ELSE Never(nfts[a], n)
      BY DEF OwnInv
    <2>3. QED
      BY <2>1, <2>2, OnceNever
  <1>2. QED
    BY <1>1, IsInvariant, OwnInit, OwnStep, PTL DEF Spec

----------------------------------------------------------------------------
(***************************************************************************)
(* Sums of what the accounts hold.                                         *)
(***************************************************************************)

(* Addition of uint64 wraps at most once; without need it does not.        *)
LEMMA PlusWraps ==
    ASSUME NEW m \in Amount, NEW n \in Amount
    PROVE  /\ Plus(m, n) = m + n \/ Plus(m, n) = m + n - Word
           /\ m + n < Word => Plus(m, n) = m + n
  <1>1. m \in Nat /\ n \in Nat /\ m < Word /\ n < Word /\ Word \in Nat \ {0}
    BY AmountsAreNat
  <1>2. m + n \in Int /\ - Word <= m + n /\ m + n < 2 * Word /\ ~ (m + n < 0)
    BY <1>1
  <1>3. (m + n) % Word = IF m + n < Word THEN m + n ELSE m + n - Word
    BY <1>1, <1>2
  <1>4. QED
    BY <1>3 DEF Plus

(* Subtraction of no more than there is is exact.                          *)
LEMMA MinusExact ==
    ASSUME NEW m \in Amount, NEW n \in Amount, n <= m
    PROVE  Minus(m, n) = m - n
  <1>1. m \in Nat /\ n \in Nat /\ m < Word /\ n < Word /\ Word \in Nat \ {0}
    BY AmountsAreNat
  <1>2. m - n \in Int /\ - Word <= m - n /\ m - n < 2 * Word /\ m - n < Word /\ ~ (m - n < 0)
    BY <1>1
  <1>3. (m - n) % Word = m - n
    BY <1>1, <1>2, WrapsOnce
  <1>4. QED
    BY <1>3 DEF Minus

(* Amounts have a sum, and each is part of it.                             *)
LEMMA SumOfAmounts ==
    ASSUME NEW f \in [Addr -> Amount]
    PROVE  /\ Sum(f) \in Nat
           /\ \A a \in Addr : f[a] <= Sum(f)
           /\ (\A a \in Addr : f[a] = 0) => Sum(f) = 0
  <1>1. IsFiniteSet(Addr) /\ \A a \in Addr : f[a] \in Nat
    BY StateMachineAssumption, AmountsAreNat
  <1>2. /\ SumFunctionOnSet(f, Addr) \in Nat
        /\ \A a \in Addr : f[a] <= SumFunctionOnSet(f, Addr)
    BY <1>1, SumTyped
  <1>3. (\A a \in Addr : f[a] = 0) => SumFunctionOnSet(f, Addr) = 0
    BY <1>1, SumOfZeros
  <1>4. QED
    BY <1>2, <1>3 DEF Sum

(* One account changes.                                                    *)
LEMMA SumAfter ==
    ASSUME NEW f \in [Addr -> Amount], NEW a \in Addr, NEW v \in Amount
    PROVE  Sum([f EXCEPT ![a] = v]) = Sum(f) - f[a] + v
  <1> DEFINE e == [f EXCEPT ![a] = v]
  <1>1. IsFiniteSet(Addr) /\ e[a] = v
    BY StateMachineAssumption
  <1>2. \A x \in Addr : f[x] \in Int /\ e[x] \in Int
    BY AmountsAreNat
  <1>3. \A x \in Addr : x # a => e[x] = f[x]
    OBVIOUS
  <1> HIDE DEF e
  <1>4. SumFunctionOnSet(e, Addr) = SumFunctionOnSet(f, Addr) - f[a] + e[a]
    BY <1>1, <1>2, <1>3, SumChange
  <1>5. QED
    BY <1>1, <1>4 DEF Sum, e

(* Two do, or one does twice: the sum changes by what is put in and taken  *)
(* out, unless the account that receives overflows.                        *)
LEMMA MovedSum ==
    ASSUME NEW f \in [Addr -> Amount], NEW from \in Addr, NEW to \in Addr,
           NEW out \in Amount, NEW in \in Amount, out <= f[from]
    PROVE  /\ \/ Sum(Moved(f, from, to, out, in)) = Sum(f) - out + in
              \/ Sum(Moved(f, from, to, out, in)) = Sum(f) - out + in - Word
           /\ Sum(f) - out + in < Word =>
                  Sum(Moved(f, from, to, out, in)) = Sum(f) - out + in
  <1> DEFINE left == Minus(f[from], out)
             debited == [f EXCEPT ![from] = left]
             credited == Plus(debited[to], in)
  <1>1. left \in Amount /\ left = f[from] - out
    BY WordTyped, MinusExact
  <1>2. debited \in [Addr -> Amount] /\ Sum(debited) = Sum(f) - f[from] + left
    BY <1>1, SumAfter
  <1>3. Moved(f, from, to, out, in) = [debited EXCEPT ![to] = Plus(@, in)]
    BY DEF Moved
  <1> HIDE DEF left, debited
  <1>4. debited[to] \in Amount /\ credited \in Amount
    BY <1>2, WordTyped
  <1>5. Sum([debited EXCEPT ![to] = credited]) = Sum(debited) - debited[to] + credited
    BY <1>2, <1>4, SumAfter
  <1>6. /\ credited = debited[to] + in \/ credited = debited[to] + in - Word
        /\ debited[to] + in < Word => credited = debited[to] + in
    BY <1>4, PlusWraps
  <1>7. Sum(debited) \in Nat /\ debited[to] <= Sum(debited) /\ Sum(f) \in Nat
    BY <1>2, SumOfAmounts
  <1>8. f[from] \in Nat /\ out \in Nat /\ in \in Nat /\ debited[to] \in Nat /\ Word \in Nat
    BY <1>4, AmountsAreNat
  <1>9. Moved(f, from, to, out, in) = [debited EXCEPT ![to] = credited]
    BY <1>3
  <1> HIDE DEF credited
  <1>10. Sum(debited) = Sum(f) - out
    BY <1>1, <1>2, <1>7, <1>8
  <1>11. QED
    BY <1>5, <1>6, <1>7, <1>8, <1>9, <1>10

----------------------------------------------------------------------------
(***************************************************************************)
(* Types.                                                                  *)
(***************************************************************************)

(* Every call keeps the types.                                             *)
LEMMA TypeStep ==
    ASSUME IInv, OwnInv, TypeOK, [Next]_vars
    PROVE  TypeOK'
  <1>1. CASE UNCHANGED vars
    BY <1>1 DEF vars, accounts, TypeOK
  <1>2. ASSUME NEW t \in txs, ExecuteTransaction(t), txs' = txs
        PROVE  TypeOK'
    <2>1. /\ t \in Tx /\ t.sender \in Addr /\ t.to \in Addr /\ t.nonce \in Amount
          /\ t.fee \in Amount /\ t.amount \in Amount /\ t.asset \in Asset
      BY <1>2, TxTyped DEF TxContent
    <2>2. IInv' /\ OwnInv'
      BY <1>2, InvStep, OwnStep DEF Next
    <2>3. known' \subseteq Addr
      BY <1>2, <2>1
         DEF TypeOK, ExecuteTransaction, Transfer, CreateToken, TransferToken, TransferTokenFails,
             CreateCollection, MintNFT, TransferNFT, CreateValidator, DelegateStake, Refuse,
             accounts
    <2>4. nonces' \in [Addr -> Amount]
      BY <1>2, <2>1
         DEF TypeOK, ExecuteTransaction, Transfer, CreateToken, TransferToken, TransferTokenFails,
             CreateCollection, MintNFT, TransferNFT, CreateValidator, DelegateStake, Refuse,
             accounts
    <2>5. delegated' \in [Addr -> Amount] /\ validator' \in [Addr -> Addr \cup {NoAddr}]
      <3>1. CASE DelegateStake(t)
        <4>1. /\ delegated' = [delegated EXCEPT ![t.sender] = Plus(@, t.amount)]
              /\ validator' = [validator EXCEPT ![t.sender] = t.to]
          BY <3>1 DEF DelegateStake
        <4>2. Plus(delegated[t.sender], t.amount) \in Amount
          BY <2>1, WordTyped DEF TypeOK
        <4>3. QED
          BY <2>1, <4>1, <4>2 DEF TypeOK
      <3>2. CASE ~DelegateStake(t)
        BY <1>2, <3>2
           DEF TypeOK, ExecuteTransaction, Transfer, CreateToken, TransferToken,
               TransferTokenFails, CreateCollection, MintNFT, TransferNFT, CreateValidator,
               Refuse, accounts
      <3>3. QED
        BY <3>1, <3>2
    <2>6. tokens' \in [Addr -> [Asset -> Amount]]
      <3>1. CASE CreateToken(t)
        <4>1. tokens' = [tokens EXCEPT ![t.to][t.asset] = t.amount]
          BY <3>1 DEF CreateToken
        <4>2. QED
          BY <2>1, <4>1 DEF TypeOK
      <3>2. CASE TransferToken(t)
        <4>1. PICK held : held = [a \in Addr |-> tokens[a][t.asset]]
          OBVIOUS
        <4>2. held \in [Addr -> Amount]
          BY <2>1, <4>1 DEF TypeOK
        <4>3. PICK moved : moved = Moved(held, t.sender, t.to, t.amount, t.amount)
          OBVIOUS
        <4>4. moved \in [Addr -> Amount]
          BY <2>1, <4>2, <4>3, MovedTyped
        <4>5. tokens' = [a \in Addr |-> [tokens[a] EXCEPT ![t.asset] = moved[a]]]
          BY <3>2, <4>1, <4>3 DEF TransferToken
        <4>6. QED
          BY <2>1, <4>4, <4>5 DEF TypeOK
      <3>3. CASE ~CreateToken(t) /\ ~TransferToken(t)
        BY <1>2, <3>3
           DEF TypeOK, ExecuteTransaction, Transfer, TransferTokenFails, CreateCollection,
               MintNFT, TransferNFT, CreateValidator, DelegateStake, Refuse, accounts
      <3>4. QED
        BY <3>1, <3>2, <3>3
    <2>7. supply' \in [Asset -> Amount \cup {None}]
      BY <1>2, <2>1
         DEF TypeOK, ExecuteTransaction, Transfer, CreateToken, TransferToken, TransferTokenFails,
             CreateCollection, MintNFT, TransferNFT, CreateValidator, DelegateStake, Refuse,
             accounts
    <2>8. stake' \in [Addr -> Amount \cup {None}]
      <3>1. CASE DelegateStake(t)
        <4>1. stake' = [stake EXCEPT ![t.to] = IF @ = None THEN None ELSE Plus(@, t.amount)]
          BY <3>1 DEF DelegateStake
        <4>2. stake[t.to] # None => Plus(stake[t.to], t.amount) \in Amount
          BY <2>1, WordTyped DEF TypeOK
        <4>3. QED
          BY <2>1, <4>1, <4>2 DEF TypeOK
      <3>2. CASE CreateValidator(t)
        <4>1. stake' = [stake EXCEPT ![t.to] = MinStake] /\ MinStake \in Amount
          BY <3>2, StateMachineAssumption DEF CreateValidator
        <4>2. QED
          BY <2>1, <4>1 DEF TypeOK
      <3>3. CASE ~DelegateStake(t) /\ ~CreateValidator(t)
        BY <1>2, <3>3
           DEF TypeOK, ExecuteTransaction, Transfer, CreateToken, TransferToken,
               TransferTokenFails, CreateCollection, MintNFT, TransferNFT, Refuse, accounts
      <3>4. QED
        BY <3>1, <3>2, <3>3
    <2>9. fees' \in Amount
      <3>1. Plus(fees, t.fee) \in Amount
        BY <2>1, WordTyped DEF TypeOK
      <3>2. fees' = Plus(fees, t.fee) \/ fees' = fees
        BY <1>2
           DEF ExecuteTransaction, Transfer, CreateToken, TransferToken, TransferTokenFails,
               CreateCollection, MintNFT, TransferNFT, CreateValidator, DelegateStake, Refuse,
               PayFee, accounts
      <3>3. QED
        BY <3>1, <3>2 DEF TypeOK
    <2>10. outcome' \in {"none", "ok", "error"}
      BY <1>2
         DEF ExecuteTransaction, Transfer, CreateToken, TransferToken, TransferTokenFails,
             CreateCollection, MintNFT, TransferNFT, CreateValidator, DelegateStake, Refuse,
             PayFee, accounts
    <2>11. QED
      BY <2>2, <2>3, <2>4, <2>5, <2>6, <2>7, <2>8, <2>9, <2>10 DEF TypeOK, IInv, OwnInv
  <1>3. QED
    BY <1>1, <1>2 DEF Next

(* A new machine is well typed.                                            *)
LEMMA TypeInit == ASSUME Init PROVE TypeOK
  <1>1. IInv /\ OwnInv /\ 0 \in Amount
    BY InvInit, OwnInit, AmountsAreNat
  <1>2. known \subseteq Addr
    BY StateMachineAssumption DEF Init
  <1>3. tokens \in [Addr -> [Asset -> Amount]]
    BY <1>1 DEF Init
  <1>4. nonces \in [Addr -> Amount] /\ delegated \in [Addr -> Amount]
        /\ validator \in [Addr -> Addr \cup {NoAddr}]
        /\ supply \in [Asset -> Amount \cup {None}] /\ stake \in [Addr -> Amount \cup {None}]
    BY <1>1 DEF Init
  <1>5. fees \in Amount /\ outcome \in {"none", "ok", "error"}
    BY <1>1 DEF Init
  <1>6. QED
    BY <1>1, <1>2, <1>3, <1>4, <1>5 DEF TypeOK, IInv, OwnInv

(* Amounts stay below the word and every record keeps its type, whatever   *)
(* is executed, and how often.                                             *)
THEOREM TypeCorrect == Spec => []TypeOK
  BY TypeInit, TypeStep, IsInvariant, InvInit, InvStep, OwnInit, OwnStep, PTL DEF Spec

----------------------------------------------------------------------------
(***************************************************************************)
(* Tokens.                                                                 *)
(***************************************************************************)
Held(k) == [a \in Addr |-> tokens[a][k]]

(* Nothing is held of a token that is issued, and then all of it by one.   *)
LEMMA IssueExact ==
    ASSUME TypeOK, TokensExact, NEW t \in TxContent, CreateToken(t)
    PROVE  TokensExact'
  <1>1. /\ t.asset \in Asset /\ t.to \in Addr /\ t.amount \in Amount /\ None \notin Amount
        /\ supply[t.asset] = None
        /\ supply' = [supply EXCEPT ![t.asset] = t.amount]
        /\ tokens' = [tokens EXCEPT ![t.to][t.asset] = t.amount]
    BY StateMachineAssumption DEF CreateToken, TxContent
  <1>2. \A k \in Asset : Held(k) \in [Addr -> Amount]
    BY DEF TypeOK, Held
  <1>3. ASSUME NEW k \in Asset, k # t.asset
        PROVE  Sum(Held(k)') = IF supply'[k] = None THEN 0 ELSE supply'[k]
    <2>1. Held(k)' = Held(k)
      BY <1>1, <1>3 DEF TypeOK, Held
    <2>2. supply'[k] = supply[k]
      BY <1>1, <1>3 DEF TypeOK
    <2>3. Sum(Held(k)) = IF supply[k] = None THEN 0 ELSE supply[k]
      BY DEF TokensExact, Held
    <2>4. QED
      BY <2>1, <2>2, <2>3
  <1>4. Sum(Held(t.asset)') = t.amount
    <2> DEFINE held == Held(t.asset)
    <2>1. held \in [Addr -> Amount] /\ Sum(held) = 0
      BY <1>1, <1>2 DEF TokensExact, Held
    <2>2. Held(t.asset)' = [held EXCEPT ![t.to] = t.amount]
      BY <1>1 DEF TypeOK, Held
    <2> HIDE DEF held
    <2>3. held[t.to] <= 0 /\ held[t.to] \in Nat /\ t.amount \in Nat
      BY <1>1, <2>1, SumOfAmounts, AmountsAreNat
    <2>4. Sum([held EXCEPT ![t.to] = t.amount]) = Sum(held) - held[t.to] + t.amount
      BY <1>1, <2>1, SumAfter
    <2>5. QED
      BY <2>1, <2>2, <2>3, <2>4
  <1>5. supply'[t.asset] = t.amount /\ t.amount # None
    BY <1>1 DEF TypeOK
  <1>6. \A k \in Asset : Sum(Held(k)') = IF supply'[k] = None THEN 0 ELSE supply'[k]
    BY <1>3, <1>4, <1>5
  <1>7. QED
    BY <1>6 DEF TokensExact, Held

(* What is sent arrives: what the accounts hold together fits into a word. *)
LEMMA SendExact ==
    ASSUME TypeOK, TokensExact, NEW t \in TxContent, TransferToken(t)
    PROVE  TokensExact'
  <1>1. /\ t.asset \in Asset /\ t.to \in Addr /\ t.sender \in Addr /\ t.amount \in Amount
        /\ supply' = supply
    BY DEF TransferToken, TxContent
  <1>2. PICK held : held = Held(t.asset)
    OBVIOUS
  <1>3. PICK moved : moved = Moved(held, t.sender, t.to, t.amount, t.amount)
    OBVIOUS
  <1>4. /\ held[t.sender] >= t.amount
        /\ tokens' = [a \in Addr |-> [tokens[a] EXCEPT ![t.asset] = moved[a]]]
    BY <1>2, <1>3 DEF TransferToken, Held
  <1>5. held \in [Addr -> Amount]
    BY <1>1, <1>2 DEF TypeOK, Held
  <1>6. moved \in [Addr -> Amount]
    BY <1>1, <1>3, <1>5, MovedTyped
  <1>7. Sum(held) = IF supply[t.asset] = None THEN 0 ELSE supply[t.asset]
    BY <1>1, <1>2 DEF TokensExact, Held
  <1>8. Sum(held) \in Amount
    BY <1>1, <1>7, AmountsAreNat DEF TypeOK
  <1>9. Sum(moved) = Sum(held)
    <2>1. t.amount \in Nat /\ held[t.sender] \in Nat /\ Sum(held) \in Nat /\ Sum(held) < Word
      BY <1>1, <1>5, <1>8, AmountsAreNat
    <2>2. t.amount <= held[t.sender]
      BY <1>4, <2>1
    <2>3. Sum(held) - t.amount + t.amount < Word => Sum(moved) = Sum(held) - t.amount + t.amount
      BY <1>1, <1>3, <1>5, <2>2, MovedSum
    <2>4. QED
      BY <2>1, <2>3
  <1>10. ASSUME NEW k \in Asset
         PROVE  Sum(Held(k)') = IF supply'[k] = None THEN 0 ELSE supply'[k]
    <2>1. CASE k = t.asset
      <3>1. Held(k)' = moved
        BY <1>1, <1>4, <1>6, <2>1 DEF TypeOK, Held
      <3>2. QED
        BY <1>1, <1>7, <1>9, <2>1, <3>1
    <2>2. CASE k # t.asset
      <3>1. Held(k)' = Held(k)
        BY <1>1, <1>4, <2>2 DEF TypeOK, Held
      <3>2. Sum(Held(k)) = IF supply[k] = None THEN 0 ELSE supply[k]
        BY DEF TokensExact, Held
      <3>3. QED
        BY <1>1, <3>1, <3>2
    <2>3. QED
      BY <2>1, <2>2
  <1>11. QED
    BY <1>10 DEF TokensExact, Held

(* No other call touches tokens.                                           *)
LEMMA TokensStep ==
    ASSUME IInv, TypeOK, TokensExact, [Next]_vars
    PROVE  TokensExact'
  <1>1. ASSUME tokens' = tokens, supply' = supply
        PROVE  TokensExact'
    BY <1>1 DEF TokensExact
  <1>2. ASSUME NEW t \in txs, ExecuteTransaction(t)
        PROVE  TokensExact'
    <2>1. t \in TxContent
      BY TxTyped
    <2>2. CASE CreateToken(t)
      BY <2>1, <2>2, IssueExact
    <2>3. CASE TransferToken(t)
      BY <2>1, <2>3, SendExact
    <2>4. CASE ~CreateToken(t) /\ ~TransferToken(t)
      BY <1>1, <1>2, <2>4
         DEF ExecuteTransaction, Transfer, TransferTokenFails, CreateCollection, MintNFT,
             TransferNFT, CreateValidator, DelegateStake, Refuse, accounts
    <2>5. QED
      BY <2>2, <2>3, <2>4
  <1>3. QED
    BY <1>1, <1>2 DEF Next, vars, accounts

(* No tokens at the start.                                                 *)
LEMMA TokensInit == ASSUME Init PROVE TokensExact
  <1>1. \A k \in Asset : Held(k) \in [Addr -> Amount] /\ \A a \in Addr : Held(k)[a] = 0
    BY AmountsAreNat DEF Init, Held
  <1>2. \A k \in Asset : Sum(Held(k)) = 0
    BY <1>1, SumOfAmounts
  <1>3. \A k \in Asset : supply[k] = None
    BY DEF Init
  <1>4. QED
    BY <1>2, <1>3 DEF TokensExact, Held

(* What the accounts hold of a token is its supply, for any number of      *)
(* accounts, whoever sends to whom, and when a call fails half way.        *)
THEOREM SupplyIsHeld == Spec => []TokensExact
  BY TypeCorrect, TokensInit, TokensStep, IsInvariant, PTL DEF Spec

----------------------------------------------------------------------------
(***************************************************************************)
(* Coins.                                                                  *)
(***************************************************************************)
Coins == Sum(balance) + Sum(delegated) + fees

AtGenesis == Sum([a \in Addr |-> IF a \in DOMAIN Genesis THEN Genesis[a] ELSE 0])

Fits(t) == t.fee + t.amount < Word

NoOverflow == (\A t \in txs : Fits(t)) /\ AtGenesis < Word

(* What a call may do to the coins: nothing but overflow.                  *)
Wrapped(x, y) == x \in {y - Word, y, y + Word, y + Word + Word} \/ x = y - Word - Word

CoinInv ==
    /\ \E k \in Int : Coins = AtGenesis + k * Word
    /\ NoOverflow => Coins = AtGenesis

(* The numbers there are.                                                  *)
LEMMA CoinNumbers ==
    ASSUME TypeOK
    PROVE  /\ Sum(balance) \in Nat /\ Sum(delegated) \in Nat /\ fees \in Nat /\ fees < Word
           /\ \A a \in Addr : balance[a] \in Nat /\ balance[a] <= Sum(balance)
           /\ \A a \in Addr : delegated[a] \in Nat /\ delegated[a] <= Sum(delegated)
           /\ AtGenesis \in Nat
  <1>1. balance \in [Addr -> Amount] /\ delegated \in [Addr -> Amount] /\ fees \in Amount
    BY DEF TypeOK
  <1>2. [a \in Addr |-> IF a \in DOMAIN Genesis THEN Genesis[a] ELSE 0] \in [Addr -> Amount]
    BY StateMachineAssumption, AmountsAreNat
  <1>3. QED
    BY <1>1, <1>2, SumOfAmounts, AmountsAreNat DEF AtGenesis

(* A fee that is paid changes hands.                                       *)
LEMMA FeesMove ==
    ASSUME IInv, TypeOK, NEW t \in txs, PayFee(t), delegated' = delegated
    PROVE  Wrapped(Coins', Coins) /\ (Coins < Word => Coins' = Coins)
  <1>1. t.sender \in Addr /\ t.fee \in Amount
    BY TxTyped DEF TxContent
  <1>2. /\ Sum(balance) \in Nat /\ Sum(delegated) \in Nat /\ fees \in Nat /\ Word \in Nat
        /\ balance[t.sender] \in Nat /\ balance[t.sender] <= Sum(balance) /\ t.fee \in Nat
    BY <1>1, CoinNumbers, AmountsAreNat
  <1>3. CASE /\ balance[t.sender] >= t.fee
             /\ balance' = [balance EXCEPT ![t.sender] = @ - t.fee]
             /\ fees' = Plus(fees, t.fee)
    <2>1. balance[t.sender] - t.fee \in Amount
      <3>1. balance[t.sender] \in Amount
        BY <1>1 DEF TypeOK
      <3>2. QED
        BY <1>1, <1>2, <1>3, <3>1, AmountsAreNat
    <2>2. Sum(balance') = Sum(balance) - t.fee
      <3>1. Sum([balance EXCEPT ![t.sender] = balance[t.sender] - t.fee])
                = Sum(balance) - balance[t.sender] + (balance[t.sender] - t.fee)
        BY <1>1, <2>1, SumAfter DEF TypeOK
      <3>2. QED
        BY <1>2, <1>3, <3>1
    <2>3. /\ fees' = fees + t.fee \/ fees' = fees + t.fee - Word
          /\ fees + t.fee < Word => fees' = fees + t.fee
      BY <1>1, <1>3, PlusWraps DEF TypeOK
    <2>4. Coins' = Sum(balance) - t.fee + Sum(delegated) + fees'
      BY <2>2 DEF Coins
    <2>5. QED
      BY <1>2, <1>3, <2>3, <2>4 DEF Coins, Wrapped
  <1>4. CASE balance' = balance /\ fees' = fees
    BY <1>2, <1>4 DEF Coins, Wrapped
  <1>5. QED
    BY <1>3, <1>4 DEF PayFee

(* What a transfer takes from one it gives to the other and to the fees.   *)
LEMMA TransferMoves ==
    ASSUME IInv, TypeOK, NEW t \in txs, Verified(t), Transfer(t)
    PROVE  Wrapped(Coins', Coins) /\ (Coins < Word /\ Fits(t) => Coins' = Coins)
  <1>1. t.sender \in Addr /\ t.to \in Addr /\ t.fee \in Amount /\ t.amount \in Amount
    BY TxTyped DEF TxContent
  <1>2. PICK out : out = Plus(t.amount, t.fee)
    OBVIOUS
  <1>3. /\ out \in Amount
        /\ out = t.amount + t.fee \/ out = t.amount + t.fee - Word
        /\ t.amount + t.fee < Word => out = t.amount + t.fee
    BY <1>1, <1>2, WordTyped, PlusWraps
  <1>4. /\ Sum(balance) \in Nat /\ Sum(delegated) \in Nat /\ fees \in Nat /\ Word \in Nat
        /\ balance[t.sender] \in Nat /\ balance[t.sender] <= Sum(balance) /\ t.fee \in Nat
        /\ t.amount \in Nat /\ out \in Nat
    BY <1>1, <1>3, CoinNumbers, AmountsAreNat
  <1>5. out <= balance[t.sender]
    <2>1. Plus(t.fee, Value(t)) = out
      BY <1>2, <1>4 DEF Plus, Value, Transfer
    <2>2. QED
      BY <1>4, <2>1 DEF Verified
  <1>6. balance' = Moved(balance, t.sender, t.to, out, t.amount) /\ fees' = Plus(fees, t.fee)
        /\ delegated' = delegated
    BY <1>2 DEF Transfer
  <1>7. /\ \/ Sum(balance') = Sum(balance) - out + t.amount
           \/ Sum(balance') = Sum(balance) - out + t.amount - Word
        /\ Sum(balance) - out + t.amount < Word => Sum(balance') = Sum(balance) - out + t.amount
    <2>1. PICK moved : moved = Moved(balance, t.sender, t.to, out, t.amount)
      OBVIOUS
    <2>2. balance \in [Addr -> Amount]
      BY DEF TypeOK
    <2>3. /\ \/ Sum(moved) = Sum(balance) - out + t.amount
             \/ Sum(moved) = Sum(balance) - out + t.amount - Word
          /\ Sum(balance) - out + t.amount < Word => Sum(moved) = Sum(balance) - out + t.amount
      BY <1>1, <1>3, <1>5, <2>1, <2>2, MovedSum
    <2>4. balance' = moved
      BY <1>6, <2>1
    <2>5. QED
      BY <2>3, <2>4
  <1>8. /\ fees' = fees + t.fee \/ fees' = fees + t.fee - Word
        /\ fees + t.fee < Word => fees' = fees + t.fee
    BY <1>1, <1>6, PlusWraps DEF TypeOK
  <1>9. Coins' = Sum(balance') + Sum(delegated) + fees'
    BY <1>6 DEF Coins
  <1>10. Wrapped(Coins', Coins)
    BY <1>3, <1>4, <1>7, <1>8, <1>9 DEF Coins, Wrapped
  <1>11. ASSUME Coins < Word, Fits(t)
         PROVE  Coins' = Coins
    <2>1. out = t.amount + t.fee
      BY <1>3, <1>4, <1>11 DEF Fits
    <2>2. fees + t.fee < Word /\ Sum(balance) - out + t.amount < Word
      BY <1>4, <1>5, <1>11, <2>1 DEF Coins
    <2>3. QED
      BY <1>4, <1>7, <1>8, <1>9, <2>1, <2>2 DEF Coins
  <1>12. QED
    BY <1>10, <1>11

(* What is delegated leaves the balance.                                   *)
LEMMA DelegationMoves ==
    ASSUME IInv, TypeOK, NEW t \in txs, DelegateStake(t)
    PROVE  Wrapped(Coins', Coins) /\ (Coins < Word /\ Fits(t) => Coins' = Coins)
  <1>1. t.sender \in Addr /\ t.fee \in Amount /\ t.amount \in Amount
    BY TxTyped DEF TxContent
  <1>2. PICK out : out = Plus(t.amount, t.fee)
    OBVIOUS
  <1>3. /\ out \in Amount
        /\ out = t.amount + t.fee \/ out = t.amount + t.fee - Word
        /\ t.amount + t.fee < Word => out = t.amount + t.fee
    BY <1>1, <1>2, WordTyped, PlusWraps
  <1>4. /\ Sum(balance) \in Nat /\ Sum(delegated) \in Nat /\ fees \in Nat /\ Word \in Nat
        /\ balance[t.sender] \in Nat /\ balance[t.sender] <= Sum(balance) /\ t.fee \in Nat
        /\ delegated[t.sender] \in Nat /\ delegated[t.sender] <= Sum(delegated)
        /\ t.amount \in Nat /\ out \in Nat
    BY <1>1, <1>3, CoinNumbers, AmountsAreNat
  <1>5. /\ out <= balance[t.sender]
        /\ balance' = [balance EXCEPT ![t.sender] = @ - out]
        /\ delegated' = [delegated EXCEPT ![t.sender] = Plus(@, t.amount)]
        /\ fees' = Plus(fees, t.fee)
    BY <1>2, <1>4 DEF DelegateStake
  <1>6. Sum(balance') = Sum(balance) - out
    <2>1. balance[t.sender] - out \in Amount
      <3>1. balance[t.sender] \in Amount
        BY <1>1 DEF TypeOK
      <3>2. QED
        BY <1>4, <1>5, <3>1, AmountsAreNat
    <2>2. Sum([balance EXCEPT ![t.sender] = balance[t.sender] - out])
              = Sum(balance) - balance[t.sender] + (balance[t.sender] - out)
      BY <1>1, <2>1, SumAfter DEF TypeOK
    <2>3. QED
      BY <1>4, <1>5, <2>2
  <1>7. /\ \/ Sum(delegated') = Sum(delegated) + t.amount
           \/ Sum(delegated') = Sum(delegated) + t.amount - Word
        /\ Sum(delegated) + t.amount < Word => Sum(delegated') = Sum(delegated) + t.amount
    <2>1. PICK more : more = Plus(delegated[t.sender], t.amount)
      OBVIOUS
    <2>2. /\ more \in Amount
          /\ more = delegated[t.sender] + t.amount \/ more = delegated[t.sender] + t.amount - Word
          /\ delegated[t.sender] + t.amount < Word => more = delegated[t.sender] + t.amount
      BY <1>1, <2>1, WordTyped, PlusWraps DEF TypeOK
    <2>3. Sum([delegated EXCEPT ![t.sender] = more])
              = Sum(delegated) - delegated[t.sender] + more
      BY <1>1, <2>2, SumAfter DEF TypeOK
    <2>4. delegated' = [delegated EXCEPT ![t.sender] = more] /\ more \in Nat
      BY <1>5, <2>1, <2>2, AmountsAreNat
    <2>5. QED
      BY <1>4, <2>2, <2>3, <2>4
  <1>8. /\ fees' = fees + t.fee \/ fees' = fees + t.fee - Word
        /\ fees + t.fee < Word => fees' = fees + t.fee
    BY <1>1, <1>5, PlusWraps DEF TypeOK
  <1>9. Coins' = Sum(balance') + Sum(delegated') + fees'
    BY DEF Coins
  <1>10. Wrapped(Coins', Coins)
    BY <1>3, <1>4, <1>6, <1>7, <1>8, <1>9 DEF Coins, Wrapped
  <1>11. ASSUME Coins < Word, Fits(t)
         PROVE  Coins' = Coins
    <2>1. out = t.amount + t.fee
      BY <1>3, <1>4, <1>11 DEF Fits
    <2>2. fees + t.fee < Word /\ Sum(delegated) + t.amount < Word
      BY <1>4, <1>5, <1>11, <2>1 DEF Coins
    <2>3. QED
      BY <1>4, <1>6, <1>7, <1>8, <1>9, <2>1, <2>2 DEF Coins
  <1>12. QED
    BY <1>10, <1>11

(* Every call moves coins, up to overflow.                                 *)
LEMMA CallsMoveCoins ==
    ASSUME IInv, TypeOK, NEW t \in txs, ExecuteTransaction(t)
    PROVE  Wrapped(Coins', Coins) /\ (Coins < Word /\ Fits(t) => Coins' = Coins)
  <1>1. Coins \in Nat
    BY CoinNumbers DEF Coins
  <1>2. ASSUME UNCHANGED <<balance, delegated, fees>>
        PROVE  Coins' = Coins
    BY <1>2 DEF Coins
  <1>3. CASE Verified(t) /\ Transfer(t)
    BY <1>3, TransferMoves
  <1>4. CASE DelegateStake(t)
    BY <1>4, DelegationMoves
  <1>5. CASE TransferToken(t) \/ MintNFT(t) \/ TransferNFT(t) \/ CreateValidator(t)
    <2>1. PayFee(t) /\ delegated' = delegated
      BY <1>5 DEF TransferToken, MintNFT, TransferNFT, CreateValidator
    <2>2. QED
      BY <2>1, FeesMove
  <1>6. CASE CreateToken(t) \/ TransferTokenFails(t) \/ CreateCollection(t) \/ Refuse(t)
    <2>1. UNCHANGED <<balance, delegated, fees>>
      BY <1>6 DEF CreateToken, TransferTokenFails, CreateCollection, Refuse, accounts
    <2>2. QED
      BY <1>1, <1>2, <2>1 DEF Wrapped
  <1>7. QED
    BY <1>3, <1>4, <1>5, <1>6 DEF ExecuteTransaction

(* Whole words add up.                                                     *)
LEMMA WordsAddUp ==
    ASSUME NEW x \in Int, NEW y \in Int, NEW z \in Int, Wrapped(x, y),
           \E k \in Int : y = z + k * Word
    PROVE  \E k \in Int : x = z + k * Word
  <1>1. PICK k \in Int : y = z + k * Word
    OBVIOUS
  <1>2. Word \in Int
    BY AmountsAreNat
  <1>3. /\ (k - 1) * Word = k * Word - Word /\ (k + 1) * Word = k * Word + Word
        /\ (k - 2) * Word = k * Word - Word - Word /\ (k + 2) * Word = k * Word + Word + Word
    BY <1>2
  <1>4. k * Word \in Int
    BY <1>2
  <1>5. /\ k - 1 \in Int /\ k + 1 \in Int /\ k - 2 \in Int /\ k + 2 \in Int
        /\ x = y => x = z + k * Word
        /\ x = y - Word => x = z + (k - 1) * Word
        /\ x = y + Word => x = z + (k + 1) * Word
        /\ x = y + Word + Word => x = z + (k + 2) * Word
        /\ x = y - Word - Word => x = z + (k - 2) * Word
    BY <1>1, <1>2, <1>3, <1>4
  <1>6. QED
    BY <1>5 DEF Wrapped

(* All coins are where genesis put them.                                   *)
LEMMA CoinsInit == ASSUME Init PROVE CoinInv
  <1>1. TypeOK
    BY TypeInit
  <1>2. balance = [a \in Addr |-> IF a \in DOMAIN Genesis THEN Genesis[a] ELSE 0]
    BY DEF Init
  <1>3. Sum(delegated) = 0 /\ fees = 0
    <2>1. delegated \in [Addr -> Amount] /\ \A a \in Addr : delegated[a] = 0
      BY <1>1 DEF Init, TypeOK
    <2>2. QED
      BY <2>1, SumOfAmounts DEF Init
  <1>4. Coins = AtGenesis /\ AtGenesis \in Nat
    BY <1>1, <1>2, <1>3, CoinNumbers DEF Coins, AtGenesis
  <1>5. AtGenesis = AtGenesis + 0 * Word
    BY <1>4, AmountsAreNat
  <1>6. QED
    BY <1>4, <1>5 DEF CoinInv

(* And they stay accounted for.                                            *)
LEMMA CoinsStep ==
    ASSUME IInv, OwnInv, TypeOK, CoinInv, [Next]_vars
    PROVE  CoinInv'
  <1>1. Coins \in Nat /\ Coins' \in Nat /\ AtGenesis \in Nat
    <2>1. TypeOK'
      BY TypeStep
    <2>2. /\ Sum(balance') \in Nat /\ Sum(delegated') \in Nat /\ fees' \in Nat
      <3>1. balance' \in [Addr -> Amount] /\ delegated' \in [Addr -> Amount] /\ fees' \in Amount
        BY <2>1 DEF TypeOK
      <3>2. QED
        BY <3>1, SumOfAmounts, AmountsAreNat
    <2>3. QED
      BY <2>2, CoinNumbers DEF Coins
  <1>2. CASE Coins' = Coins /\ txs' = txs
    BY <1>2 DEF CoinInv, NoOverflow
  <1>3. ASSUME NEW t \in txs, ExecuteTransaction(t), txs' = txs
        PROVE  CoinInv'
    <2>1. Wrapped(Coins', Coins) /\ (Coins < Word /\ Fits(t) => Coins' = Coins)
      BY <1>3, CallsMoveCoins
    <2>2. \E k \in Int : Coins' = AtGenesis + k * Word
      BY <1>1, <2>1, WordsAddUp DEF CoinInv
    <2>3. NoOverflow => Coins' = AtGenesis
      BY <1>3, <2>1 DEF CoinInv, NoOverflow
    <2>4. QED
      BY <1>3, <2>2, <2>3 DEF CoinInv, NoOverflow
  <1>4. UNCHANGED vars => Coins' = Coins /\ txs' = txs
    BY DEF vars, accounts, Coins
  <1>5. QED
    BY <1>2, <1>3, <1>4 DEF Next

(* Coins are with their owners, delegated, or paid as fees: any number of  *)
(* calls, of any amounts, creates and loses none but by whole words, and   *)
(* none at all where the costs and the genesis fit into a word.            *)
THEOREM CoinsAccounted == Spec => []CoinsConserved
  <1>1. ASSUME TypeOK, CoinInv
        PROVE  CoinsConserved
    <2>1. AtGenesis \in Int
      BY <1>1, CoinNumbers
    <2>2. PICK k \in Int : Coins = AtGenesis + k * Word
      BY <1>1 DEF CoinInv
    <2>3. Coins % Word = AtGenesis % Word
      BY <2>1, <2>2, WholeWords, AmountsAreNat
    <2>4. NoOverflow => Coins = AtGenesis
      BY <1>1 DEF CoinInv
    <2>5. QED
      BY <2>3, <2>4 DEF CoinsConserved, Coins, AtGenesis, NoOverflow, Fits
  <1>2. Spec => []CoinInv
    BY IsInvariant, InvInit, InvStep, OwnInit, OwnStep, TypeInit, TypeStep, CoinsInit, CoinsStep,
       PTL DEF Spec
  <1>3. QED
    BY <1>1, <1>2, TypeCorrect, PTL

=============================================================================
