---------------------------- MODULE StateMachine ----------------------------
(***************************************************************************)
(* type StateMachine of pkg/state/state.go: accounts, tokens and NFTs in   *)
(* memory.  ExecuteTransaction holds sm.mu from its first line to its      *)
(* last, so a call is one step.  The event loop of cmd/ndagd calls it for  *)
(* every transaction of every event it reads a verdict about; an event can *)
(* have many verdicts and a transaction be in many events, so that any     *)
(* transaction may be executed at any time, any number of times.           *)
(*                                                                         *)
(* Unlike the executor, the machine keeps nothing in the store, and a      *)
(* call that returns an error may have changed something before.           *)
(***************************************************************************)
EXTENDS Integers, Sequences, FiniteSets, SequencesExt, Functions

CONSTANTS
    Addr,       \* addresses; a public key is the address of its account
    NoAddr,     \* the empty address
    Asset,      \* ids of tokens
    NFT,        \* ids of NFTs, <collection>-<nft>
    Families,   \* the sets of transactions that may be in the events of one node
    Genesis,    \* balances of the accounts there are at the start
    Word,       \* 2^64: amounts are uint64
    MinFee,     \* 1000 in the code
    MinStake,   \* 100000000 in the code
    None        \* no such token, no such validator

Amount == 0 .. Word - 1

Kind == {"transfer", "createToken", "transferToken", "createCollection", "mintNFT",
         "transferNFT", "createValidator", "delegateStake"}

(* to is the recipient, admin, owner or validator the payload names.       *)
TxContent == [sender : Addr, nonce : Amount, fee : Amount, kind : Kind, to : Addr,
              asset : Asset, nft : NFT, amount : Amount]

Tx == UNION Families

ASSUME StateMachineAssumption ==
    /\ IsFiniteSet(Addr) /\ NoAddr \notin Addr
    /\ Word \in Nat \ {0} /\ MinFee \in Amount /\ MinStake \in Amount
    /\ None \notin Amount
    /\ Tx \subseteq TxContent
    /\ DOMAIN Genesis \subseteq Addr /\ \A a \in DOMAIN Genesis : Genesis[a] \in Amount

VARIABLES
    known,      \* the addresses sm.accounts has an entry for
    balance, nonces, delegated, validator,
    tokens,     \* tokens[a][k]: what a holds of k
    nfts,       \* nfts[a]: the NFTs of a, in the order it got them
    supply,     \* supply[k]: sm.tokens[k].TotalSupply
    owner,      \* owner[n]: sm.nfts[n].Owner
    stake,      \* stake[v]: the stake of the engine's validator v
    fees,       \* all that has been deducted as a fee
    done,       \* done[t]: how often the transfer t has been executed
    outcome,    \* what the last call returned
    txs         \* the transactions that reach this node

accounts == <<known, balance, nonces, delegated, validator, tokens, nfts>>
vars == <<accounts, supply, owner, stake, fees, done, outcome, txs>>

TypeOK ==
    /\ known \subseteq Addr
    /\ balance \in [Addr -> Amount]
    /\ nonces \in [Addr -> Amount]
    /\ delegated \in [Addr -> Amount]
    /\ validator \in [Addr -> Addr \cup {NoAddr}]
    /\ tokens \in [Addr -> [Asset -> Amount]]
    /\ nfts \in [Addr -> Seq(NFT)]
    /\ supply \in [Asset -> Amount \cup {None}]
    /\ owner \in [NFT -> Addr \cup {NoAddr}]
    /\ stake \in [Addr -> Amount \cup {None}]
    /\ fees \in Amount
    /\ done \in [Tx -> Nat]
    /\ outcome \in {"none", "ok", "error"}
    /\ txs \in Families

(* NewStateMachine starts without accounts, DOMAIN Genesis = {}.           *)
Init ==
    /\ known = DOMAIN Genesis
    /\ balance = [a \in Addr |-> IF a \in known THEN Genesis[a] ELSE 0]
    /\ nonces = [a \in Addr |-> 0]
    /\ delegated = [a \in Addr |-> 0]
    /\ validator = [a \in Addr |-> NoAddr]
    /\ tokens = [a \in Addr |-> [k \in Asset |-> 0]]
    /\ nfts = [a \in Addr |-> <<>>]
    /\ supply = [k \in Asset |-> None]
    /\ owner = [n \in NFT |-> NoAddr]
    /\ stake = [a \in Addr |-> None]
    /\ fees = 0
    /\ done = [t \in Tx |-> 0]
    /\ outcome = "none"
    /\ txs \in Families

----------------------------------------------------------------------------
(***************************************************************************)
(* Checks and fees.  An operator named ...Bug is a plausible mistake in    *)
(* the definition that follows it.                                         *)
(***************************************************************************)
Plus(m, n) == (m + n) % Word

Minus(m, n) == (m - n) % Word

(* getTransactionValue: an amount of tokens counts like an amount of coins.*)
Value(t) == IF t.kind \in {"transfer", "transferToken"} THEN t.amount ELSE 0

StaleNonceBug(t) ==
    /\ t.nonce # 0
    /\ t.fee >= MinFee
    /\ t.sender \in known
    /\ t.nonce >= nonces[t.sender]
    /\ balance[t.sender] >= Plus(t.fee, Value(t))

CostUncheckedBug(t) ==
    /\ t.nonce # 0
    /\ t.fee >= MinFee
    /\ t.sender \in known
    /\ t.nonce > nonces[t.sender]

(* Gaps in the nonces are allowed.                                         *)
Verified(t) ==
    /\ t.nonce # 0
    /\ t.fee >= MinFee
    /\ t.sender \in known
    /\ t.nonce > nonces[t.sender]
    /\ balance[t.sender] >= Plus(t.fee, Value(t))

(* The last thing but for transfers: the fee, or an error if the balance   *)
(* does not cover it.                                                      *)
PayFee(t) ==
    \/ /\ balance[t.sender] >= t.fee
       /\ balance' = [balance EXCEPT ![t.sender] = @ - t.fee]
       /\ fees' = Plus(fees, t.fee)
       /\ outcome' = "ok"
    \/ /\ balance[t.sender] < t.fee
       /\ outcome' = "error"
       /\ UNCHANGED <<balance, fees>>

----------------------------------------------------------------------------
(***************************************************************************)
(* The kinds of transactions.                                              *)
(***************************************************************************)
CopyBug(f, from, to, out, in) ==
    [f EXCEPT ![from] = Minus(@, out), ![to] = Plus(f[to], in)]

(* The two accounts may be one.                                            *)
Moved(f, from, to, out, in) ==
    LET debited == [f EXCEPT ![from] = Minus(@, out)]
    IN  [debited EXCEPT ![to] = Plus(@, in)]

Transfer(t) ==
    /\ t.kind = "transfer"
    /\ known' = known \cup {t.to}
    /\ balance' = Moved(balance, t.sender, t.to, Plus(t.amount, t.fee), t.amount)
    /\ nonces' = [nonces EXCEPT ![t.sender] = t.nonce]
    /\ fees' = Plus(fees, t.fee)
    /\ done' = [done EXCEPT ![t] = @ + 1]
    /\ outcome' = "ok"
    /\ UNCHANGED <<delegated, validator, tokens, nfts, supply, owner, stake>>

ReissueBug(t) ==
    /\ t.kind = "createToken"
    /\ supply' = [supply EXCEPT ![t.asset] = t.amount]
    /\ known' = known \cup {t.to}
    /\ tokens' = [tokens EXCEPT ![t.to][t.asset] = t.amount]
    /\ outcome' = "ok"
    /\ UNCHANGED <<balance, nonces, delegated, validator, nfts, owner, stake, fees, done>>

(* The fee is not charged, and only transfers move the nonce.              *)
CreateToken(t) ==
    /\ t.kind = "createToken"
    /\ supply[t.asset] = None
    /\ supply' = [supply EXCEPT ![t.asset] = t.amount]
    /\ known' = known \cup {t.to}
    /\ tokens' = [tokens EXCEPT ![t.to][t.asset] = t.amount]
    /\ outcome' = "ok"
    /\ UNCHANGED <<balance, nonces, delegated, validator, nfts, owner, stake, fees, done>>

(* The tokens are gone when the fee turns out to be too high.              *)
TransferToken(t) ==
    LET held == [a \in Addr |-> tokens[a][t.asset]]
        moved == Moved(held, t.sender, t.to, t.amount, t.amount)
    IN  /\ t.kind = "transferToken"
        /\ held[t.sender] >= t.amount
        /\ known' = known \cup {t.to}
        /\ tokens' = [a \in Addr |-> [tokens[a] EXCEPT ![t.asset] = moved[a]]]
        /\ PayFee(t)
        /\ UNCHANGED <<nonces, delegated, validator, nfts, supply, owner, stake, done>>

(* Refused, but the recipient has an account now.                          *)
TransferTokenFails(t) ==
    /\ t.kind = "transferToken"
    /\ tokens[t.sender][t.asset] < t.amount
    /\ known' = known \cup {t.to}
    /\ outcome' = "error"
    /\ UNCHANGED <<balance, nonces, delegated, validator, tokens, nfts, supply, owner, stake,
                   fees, done>>

(* A collection exists by its NFTs; creating one changes nothing.          *)
CreateCollection(t) ==
    /\ t.kind = "createCollection"
    /\ \/ owner[t.nft] = NoAddr /\ outcome' = "ok"
       \/ owner[t.nft] # NoAddr /\ outcome' = "error"
    /\ UNCHANGED <<accounts, supply, owner, stake, fees, done>>

MintNFT(t) ==
    /\ t.kind = "mintNFT"
    /\ owner[t.nft] = NoAddr
    /\ owner' = [owner EXCEPT ![t.nft] = t.to]
    /\ known' = known \cup {t.to}
    /\ nfts' = [nfts EXCEPT ![t.to] = Append(@, t.nft)]
    /\ PayFee(t)
    /\ UNCHANGED <<nonces, delegated, validator, tokens, supply, stake, done>>

WithoutBug(s, n) == s

(* removeNFTFromAccount: the first entry of n is cut out.                  *)
Without(s, n) == RemoveFirst(s, n)

TransferNFT(t) ==
    LET taken == [nfts EXCEPT ![t.sender] = Without(@, t.nft)]
    IN  /\ t.kind = "transferNFT"
        /\ owner[t.nft] = t.sender
        /\ owner' = [owner EXCEPT ![t.nft] = t.to]
        /\ known' = known \cup {t.to}
        /\ nfts' = [taken EXCEPT ![t.to] = Append(@, t.nft)]
        /\ PayFee(t)
        /\ UNCHANGED <<nonces, delegated, validator, tokens, supply, stake, done>>

(* Nobody pays the stake; a validator that exists is overwritten.          *)
CreateValidator(t) ==
    /\ t.kind = "createValidator"
    /\ stake' = [stake EXCEPT ![t.to] = MinStake]
    /\ PayFee(t)
    /\ UNCHANGED <<known, nonces, delegated, validator, tokens, nfts, supply, owner, done>>

DelegateStake(t) ==
    /\ t.kind = "delegateStake"
    /\ balance[t.sender] >= Plus(t.amount, t.fee)
    /\ balance' = [balance EXCEPT ![t.sender] = @ - Plus(t.amount, t.fee)]
    /\ delegated' = [delegated EXCEPT ![t.sender] = Plus(@, t.amount)]
    /\ validator' = [validator EXCEPT ![t.sender] = t.to]
    /\ stake' = [stake EXCEPT ![t.to] = IF @ = None THEN None ELSE Plus(@, t.amount)]
    /\ fees' = Plus(fees, t.fee)
    /\ outcome' = "ok"
    /\ UNCHANGED <<known, nonces, tokens, nfts, supply, owner, done>>

(* verifyTransaction, or the handler before it changes anything.           *)
Refused(t) ==
    \/ ~Verified(t)
    \/ t.kind = "createToken" /\ supply[t.asset] # None
    \/ t.kind = "mintNFT" /\ owner[t.nft] # NoAddr
    \/ t.kind = "transferNFT" /\ owner[t.nft] # t.sender
    \/ t.kind = "delegateStake" /\ balance[t.sender] < Plus(t.amount, t.fee)

Refuse(t) ==
    /\ Refused(t)
    /\ outcome' = "error"
    /\ UNCHANGED <<accounts, supply, owner, stake, fees, done>>

ExecuteTransaction(t) ==
    \/ /\ Verified(t)
       /\ \/ Transfer(t) \/ CreateToken(t) \/ TransferToken(t) \/ TransferTokenFails(t)
          \/ CreateCollection(t) \/ MintNFT(t) \/ TransferNFT(t) \/ CreateValidator(t)
          \/ DelegateStake(t)
    \/ Refuse(t)

Next == (\E t \in txs : ExecuteTransaction(t)) /\ UNCHANGED txs

Spec == Init /\ [][Next]_vars

----------------------------------------------------------------------------
(***************************************************************************)
(* Properties.                                                             *)
(***************************************************************************)
Sum(f) == SumFunctionOnSet(f, Addr)

(* What the accounts hold of a token is its supply, whatever is issued,    *)
(* moved, moved to oneself, or moved by a call that then fails.            *)
TokensExact ==
    \A k \in Asset :
        Sum([a \in Addr |-> tokens[a][k]]) = IF supply[k] = None THEN 0 ELSE supply[k]

(* An NFT is in the list of its owner, once, and in nobody else's.         *)
OneOwner ==
    \A n \in NFT, a \in Addr :
        Cardinality({i \in DOMAIN nfts[a] : nfts[a][i] = n}) = IF owner[n] = a THEN 1 ELSE 0

(* Coins are with their owners, delegated, or paid as fees.  What overflow *)
(* creates is a multiple of 2^64; without it, nothing is created or lost.  *)
CoinsConserved ==
    LET now == Sum(balance) + Sum(delegated) + fees
        atGenesis == Sum([a \in Addr |-> IF a \in DOMAIN Genesis THEN Genesis[a] ELSE 0])
        noOverflow == /\ \A t \in txs : t.fee + t.amount < Word
                      /\ atGenesis < Word
    IN  /\ now % Word = atGenesis % Word
        /\ noOverflow => now = atGenesis

(* Transactions without a number are refused, and only transfers move it.  *)
Numbered == {t \in Tx : t.nonce # 0}

Transfers ==
    INSTANCE Settlement WITH
        Account <- Addr, Transaction <- Numbered, Gaps <- TRUE,
        by <- [t \in Numbered |-> t.sender],
        number <- [t \in Numbered |-> t.nonce],
        height <- nonces,
        settled <- {t \in Tx : done[t] > 0}

(* The machine implements Settlement for transfers, with gaps: however     *)
(* often its event is judged a transfer is executed once, of two with one  *)
(* nonce only one is, and none after one with a higher nonce.              *)
TransfersSettleOnce == Transfers!Spec

(* A call that returns an error has moved nothing, unless the cost of the  *)
(* transaction overflows.                                                  *)
ErrorsMoveNothing ==
    [][\A t \in txs :
           ExecuteTransaction(t) /\ outcome' = "error" /\ t.fee + Value(t) < Word
               => UNCHANGED <<balance, nonces, delegated, tokens, nfts, supply, owner, stake>>]_vars

(***************************************************************************)
(* What documents say, and the code does not do.                           *)
(***************************************************************************)

(* The test of the whole system registers a validator with a machine as    *)
(* NewStateMachine returns it, and expects no error.                       *)
RegistrationSucceeds ==
    [][\A t \in txs :
           /\ t.kind = "createValidator" /\ t.nonce # 0 /\ t.fee >= MinFee
           /\ outcome = "none" /\ ExecuteTransaction(t)
           => outcome' = "ok"]_vars

=============================================================================
