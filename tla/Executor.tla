------------------------------ MODULE Executor ------------------------------
(***************************************************************************)
(* type TransactionExecutor of pkg/state/executor.go.                      *)
(*                                                                         *)
(* Execute reads the accounts it needs, checks the transaction against     *)
(* them and then saves one record after the other, the sender last and     *)
(* from the copy read first.  Nobody else writes these records, so the     *)
(* steps are: Begin, which reads, checks and computes what the store will  *)
(* contain after each Put, and one step for each Put.  A Put may fail, and *)
(* the process may die between two of them; a final event is executed      *)
(* again on every tick, so any transaction may be tried at any time.       *)
(*                                                                         *)
(* A transaction that is refused changes nothing and is no step.  Checks   *)
(* of the transaction alone (signature, commission rates) are left out.    *)
(***************************************************************************)
EXTENDS Naturals, Sequences, FiniteSets, SequencesExt

CONSTANTS
    Addr,       \* addresses of accounts and of validators
    NoAddr,     \* the empty address
    Asset,      \* ids of tokens and of collections
    Tx,         \* names of transactions
    Signed,     \* the families of transactions clients may have signed
    Genesis,    \* the accounts at the start: tests put some into the store, with coins
    Word,       \* 2^64: amounts are uint64
    MinStake,   \* 10000000000 in the code
    MaxFaults   \* bound on crashes and failing writes

Amount == 0 .. Word - 1

Kind == {"transfer", "createValidator", "delegate", "createToken", "mintToken",
         "transferToken", "createCollection", "mintNFT"}

(* to is the recipient, validator, administrator or owner the payload      *)
(* names.  The first transaction of an account has nonce 1.                *)
TxContent == [sender : Addr, nonce : Amount \ {0}, fee : Amount, kind : Kind,
              to : Addr, asset : Asset, amount : Amount, mintable : BOOLEAN]

(* The map of token balances; one that was stored empty is read as nil.    *)
Wallet == UNION {[S -> Amount] : S \in SUBSET Asset}

Account == [stored : BOOLEAN, balance : Amount, nonce : Amount, tokens : Wallet,
            delegated : Amount, validator : Addr \cup {NoAddr}]

Token == [stored : BOOLEAN, supply : Amount, admin : Addr \cup {NoAddr},
          mintable : BOOLEAN]

Validator == [stored : BOOLEAN, stake : Amount]

(* Everything a Put changes, and the engine's registry of validators,      *)
(* which lives in memory only.  An NFT stands for any one of its           *)
(* collection.                                                             *)
Ledger == [accounts : [Addr -> Account], tokens : [Asset -> Token],
           validators : [Addr -> Validator], registry : [Addr -> Validator],
           collections : [Asset -> Addr \cup {NoAddr}],
           nfts : [Asset -> Addr \cup {NoAddr}]]

ASSUME ExecutorAssumption ==
    /\ IsFiniteSet(Addr) /\ NoAddr \notin Addr /\ IsFiniteSet(Tx) /\ Tx # {}
    /\ Word \in Nat \ {0, 1} /\ MinStake \in Amount /\ MaxFaults \in Nat
    /\ Signed \subseteq [Tx -> TxContent]
    /\ Genesis \in [Addr -> Account]
    /\ \A a \in Addr : /\ Genesis[a].nonce = 0 /\ DOMAIN Genesis[a].tokens = {}
                       /\ Genesis[a].delegated = 0 /\ Genesis[a].validator = NoAddr

VARIABLES
    tx,         \* tx[t]: the content of transaction t
    ledger,     \* the store and the registry
    pc,         \* "doomed" when the writes end in a panic, "dead" after it
    current,    \* the transaction being executed
    todo,       \* the ledgers its writes lead through, the next one first
    completed,  \* completed[t]: how often t was executed to its end
    faults      \* crashes and failing writes so far

vars == <<tx, ledger, pc, current, todo, completed, faults>>

TypeOK ==
    /\ tx \in [Tx -> TxContent]
    /\ ledger \in Ledger
    /\ pc \in {"idle", "commit", "doomed", "dead"}
    /\ current \in Tx
    /\ todo \in Seq(Ledger)
    /\ pc = "commit" => todo # <<>>
    /\ completed \in [Tx -> Nat]
    /\ faults \in 0 .. MaxFaults

NoValidators == [v \in Addr |-> [stored |-> FALSE, stake |-> 0]]

Init ==
    /\ tx \in Signed
    /\ ledger = [accounts |-> Genesis,
                 tokens |-> [k \in Asset |-> [stored |-> FALSE, supply |-> 0,
                                              admin |-> NoAddr, mintable |-> FALSE]],
                 validators |-> NoValidators, registry |-> NoValidators,
                 collections |-> [k \in Asset |-> NoAddr],
                 nfts |-> [k \in Asset |-> NoAddr]]
    /\ pc = "idle"
    /\ current = CHOOSE t \in Tx : TRUE
    /\ todo = <<>>
    /\ completed = [t \in Tx |-> 0]
    /\ faults = 0

----------------------------------------------------------------------------
(***************************************************************************)
(* Arithmetic of uint64, and accounts.  An operator named ...Bug is a      *)
(* plausible mistake in the definition that follows it.                    *)
(***************************************************************************)
Plus(m, n) == (m + n) % Word

Minus(m, n) == (m + Word - n) % Word

Sender(t) == ledger.accounts[tx[t].sender]
Other(t) == ledger.accounts[tx[t].to]

Holding(acc, k) == IF k \in DOMAIN acc.tokens THEN acc.tokens[k] ELSE 0

SetHolding(acc, k, n) ==
    [acc EXCEPT !.tokens = [x \in DOMAIN @ \cup {k} |-> IF x = k THEN n ELSE @[x]]]

(* Assigning to an entry of a nil map panics.                              *)
NilTokens(acc) == acc.stored /\ DOMAIN acc.tokens = {}

Save(l, a, acc) == [l EXCEPT !.accounts[a] = [acc EXCEPT !.stored = TRUE]]

KeepNonceBug(t, l, acc) ==
    Save(l, tx[t].sender, [acc EXCEPT !.balance = Minus(@, tx[t].fee)])

FeeTwiceBug(t, l, acc) ==
    Save(l, tx[t].sender, [acc EXCEPT !.nonce = tx[t].nonce,
                                      !.balance = Minus(Minus(@, tx[t].fee), tx[t].fee)])

(* The last write of every execution: acc is the sender's copy.            *)
SaveSender(t, l, acc) ==
    Save(l, tx[t].sender, [acc EXCEPT !.nonce = tx[t].nonce,
                                      !.balance = Minus(@, tx[t].fee)])

AnyLaterNonceBug(t) ==
    /\ Sender(t).stored
    /\ tx[t].nonce > Sender(t).nonce
    /\ Sender(t).balance >= tx[t].fee

Executable(t) ==
    /\ Sender(t).stored
    /\ tx[t].nonce = Plus(Sender(t).nonce, 1)
    /\ Sender(t).balance >= tx[t].fee

Commit(t, writes) ==
    /\ pc' = "commit"
    /\ current' = t
    /\ todo' = writes
    /\ UNCHANGED <<tx, ledger, completed, faults>>

Panic(t, writes) ==
    /\ pc' = "doomed"
    /\ current' = t
    /\ todo' = writes
    /\ UNCHANGED <<tx, ledger, completed, faults>>

----------------------------------------------------------------------------
(***************************************************************************)
(* The kinds of transactions.                                              *)
(***************************************************************************)
DebitFirstBug(t) ==
    LET s == [Sender(t) EXCEPT !.balance = Minus(@, tx[t].amount)]
        r == [Other(t) EXCEPT !.balance = Plus(@, tx[t].amount)]
        debited == SaveSender(t, ledger, s)
    IN  /\ tx[t].kind = "transfer"
        /\ tx[t].amount > 0
        /\ Sender(t).balance >= tx[t].amount
        /\ Commit(t, <<debited, Save(debited, tx[t].to, r)>>)

Transfer(t) ==
    LET s == [Sender(t) EXCEPT !.balance = Minus(@, tx[t].amount)]
        r == [Other(t) EXCEPT !.balance = Plus(@, tx[t].amount)]
        credited == Save(ledger, tx[t].to, r)
    IN  /\ tx[t].kind = "transfer"
        /\ tx[t].amount > 0
        /\ Sender(t).balance >= tx[t].amount
        /\ Commit(t, <<credited, SaveSender(t, credited, s)>>)

(* An existing validator, and what the sender delegated, is overwritten.   *)
CreateValidator(t) ==
    LET s == [Sender(t) EXCEPT !.balance = Minus(@, MinStake), !.delegated = MinStake,
                               !.validator = tx[t].to]
        v == [stored |-> TRUE, stake |-> MinStake]
        created == [ledger EXCEPT !.validators[tx[t].to] = v, !.registry[tx[t].to] = v]
    IN  /\ tx[t].kind = "createValidator"
        /\ Sender(t).balance >= MinStake
        /\ Commit(t, <<created, SaveSender(t, created, s)>>)

StoreOnlyBug(l, a, v) == [l EXCEPT !.validators[a] = v]

CacheOnlyBug(l, a, v) == [l EXCEPT !.registry[a] = IF @.stored THEN v ELSE @]

(* PutValidator, and the registry if it knows the validator.               *)
SetStake(l, a, v) ==
    [l EXCEPT !.validators[a] = v, !.registry[a] = IF @.stored THEN v ELSE @]

(* The balance is checked and not touched.                                 *)
DelegateStake(t) ==
    LET s == [Sender(t) EXCEPT !.delegated = Plus(@, tx[t].amount), !.validator = tx[t].to]
        v == [ledger.validators[tx[t].to] EXCEPT !.stake = Plus(@, tx[t].amount)]
        staked == SetStake(ledger, tx[t].to, v)
    IN  /\ tx[t].kind = "delegate"
        /\ tx[t].amount > 0
        /\ Sender(t).balance >= tx[t].amount
        /\ ledger.validators[tx[t].to].stored
        /\ Sender(t).validator \in {NoAddr, tx[t].to}
        /\ Commit(t, <<staked, SaveSender(t, staked, s)>>)

CreateToken(t) ==
    LET k == tx[t].asset
        put == [ledger EXCEPT !.tokens[k] =
                    [stored |-> TRUE, supply |-> tx[t].amount, admin |-> tx[t].to,
                     mintable |-> tx[t].mintable]]
        issued == Save(put, tx[t].to, SetHolding(Other(t), k, tx[t].amount))
    IN  /\ tx[t].kind = "createToken"
        /\ ~ledger.tokens[k].stored
        /\ \/ NilTokens(Other(t)) /\ Panic(t, <<put>>)
           \/ ~NilTokens(Other(t)) /\ Commit(t, <<put, issued, SaveSender(t, issued, Sender(t))>>)

CreditBeforeSupplyBug(t) ==
    LET k == tx[t].asset
        minted == Plus(Holding(Other(t), k), tx[t].amount)
        credited == Save(ledger, tx[t].to, SetHolding(Other(t), k, minted))
        put == [credited EXCEPT !.tokens[k].supply = Plus(@, tx[t].amount)]
    IN  /\ tx[t].kind = "mintToken"
        /\ ledger.tokens[k].stored /\ ledger.tokens[k].mintable
        /\ tx[t].sender = ledger.tokens[k].admin
        /\ ~NilTokens(Other(t))
        /\ Commit(t, <<credited, put, SaveSender(t, put, Sender(t))>>)

MintToken(t) ==
    LET k == tx[t].asset
        minted == Plus(Holding(Other(t), k), tx[t].amount)
        put == [ledger EXCEPT !.tokens[k].supply = Plus(@, tx[t].amount)]
        credited == Save(put, tx[t].to, SetHolding(Other(t), k, minted))
    IN  /\ tx[t].kind = "mintToken"
        /\ ledger.tokens[k].stored /\ ledger.tokens[k].mintable
        /\ tx[t].sender = ledger.tokens[k].admin
        /\ \/ NilTokens(Other(t)) /\ Panic(t, <<>>)
           \/ /\ ~NilTokens(Other(t))
              /\ Commit(t, <<put, credited, SaveSender(t, credited, Sender(t))>>)

(* The sender is saved before the recipient, and once more at the end.     *)
TransferToken(t) ==
    LET k == tx[t].asset
        s == SetHolding(Sender(t), k, Holding(Sender(t), k) - tx[t].amount)
        r == SetHolding(Other(t), k, Plus(Holding(Other(t), k), tx[t].amount))
        debited == Save(ledger, tx[t].sender, s)
        credited == Save(debited, tx[t].to, r)
        nil == NilTokens(Sender(t)) \/ NilTokens(Other(t))
    IN  /\ tx[t].kind = "transferToken"
        /\ Holding(Sender(t), k) >= tx[t].amount
        /\ \/ nil /\ Panic(t, <<>>)
           \/ ~nil /\ Commit(t, <<debited, credited, SaveSender(t, credited, s)>>)

(* The code makes the id k of the sender and the clock, so that a retry    *)
(* gets another one.                                                       *)
CreateCollection(t) ==
    \E k \in Asset :
        LET put == [ledger EXCEPT !.collections[k] = tx[t].sender]
        IN  /\ tx[t].kind = "createCollection"
            /\ ledger.collections[k] = NoAddr
            /\ Commit(t, <<put, SaveSender(t, put, Sender(t))>>)

(* An NFT that exists is overwritten.                                      *)
MintNFT(t) ==
    LET put == [ledger EXCEPT !.nfts[tx[t].asset] = tx[t].to]
    IN  /\ tx[t].kind = "mintNFT"
        /\ ledger.collections[tx[t].asset] = tx[t].sender
        /\ Commit(t, <<put, SaveSender(t, put, Sender(t))>>)

Begin(t) ==
    /\ pc = "idle"
    /\ Executable(t)
    /\ \/ Transfer(t) \/ CreateValidator(t) \/ DelegateStake(t) \/ CreateToken(t)
       \/ MintToken(t) \/ TransferToken(t) \/ CreateCollection(t) \/ MintNFT(t)

----------------------------------------------------------------------------
(* A Put that another one follows, or a panic.                             *)
Put ==
    /\ pc \in {"commit", "doomed"}
    /\ todo # <<>>
    /\ pc = "commit" => Tail(todo) # <<>>
    /\ ledger' = Head(todo)
    /\ todo' = Tail(todo)
    /\ UNCHANGED <<tx, pc, current, completed, faults>>

(* The Put after which Execute returns success.                            *)
LastPut ==
    /\ pc = "commit"
    /\ Tail(todo) = <<>>
    /\ ledger' = Head(todo)
    /\ todo' = <<>>
    /\ pc' = "idle"
    /\ completed' = [completed EXCEPT ![current] = @ + 1]
    /\ UNCHANGED <<tx, current, faults>>

(* The recover of the node's event loop ends the loop.                     *)
Die ==
    /\ pc = "doomed"
    /\ todo = <<>>
    /\ pc' = "dead"
    /\ UNCHANGED <<tx, ledger, current, todo, completed, faults>>

(* Put returns an error, and Execute with it.                              *)
PutFails ==
    /\ todo # <<>>
    /\ faults < MaxFaults
    /\ faults' = faults + 1
    /\ todo' = <<>>
    /\ pc' = "idle"
    /\ UNCHANGED <<tx, ledger, current, completed>>

(* The process ends, for whatever reason, and starts again.                *)
Restart ==
    /\ faults < MaxFaults
    /\ faults' = faults + 1
    /\ ledger' = [ledger EXCEPT !.registry = NoValidators]
    /\ todo' = <<>>
    /\ pc' = "idle"
    /\ UNCHANGED <<tx, current, completed>>

Run == (\E t \in Tx : Begin(t)) \/ Put \/ LastPut \/ Die

Next == Run \/ PutFails \/ Restart

Spec == Init /\ [][Next]_vars

(* Nothing fails.                                                          *)
FaultlessSpec == Init /\ [][Run]_vars

----------------------------------------------------------------------------
(***************************************************************************)
(* Properties.                                                             *)
(***************************************************************************)
Done == {t \in Tx : completed[t] > 0}

Total(f) == SumFunctionOnSet(f, Addr)

Balances(l) == Total([a \in Addr |-> l.accounts[a].balance])

AtGenesis == Total([a \in Addr |-> Genesis[a].balance])

NoSelfTransfers ==
    \A t \in Tx : tx[t].kind \in {"transfer", "transferToken"} => tx[t].to # tx[t].sender

(* No sum overflows, however often an execution is tried: each attempt     *)
(* completes a transaction or ends in a fault, but for the last.           *)
Fits(sum) == \A t \in Tx : sum + tx[t].amount * (Cardinality(Tx) + MaxFaults + 1) < Word

(* A transaction is executed to its end at most once, and of two with the  *)
(* same sender and nonce at most one is, however often ticks, failing      *)
(* writes and crashes repeat the attempt.                                  *)
ExecutedOnce ==
    /\ \A t \in Tx : completed[t] <= 1
    /\ \A t, u \in Done :
           tx[t].sender = tx[u].sender /\ tx[t].nonce = tx[u].nonce => t = u

(* The nonce of an account is the history of its transactions, without     *)
(* gaps: no write of a stale copy of an account, as sender or as           *)
(* recipient, ever takes it back or forward.                               *)
NonceIsHistory ==
    \A a \in Addr :
        {tx[t].nonce : t \in {u \in Done : tx[u].sender = a}}
            = 1 .. ledger.accounts[a].nonce

(* The stake the engine caches is the stake in the store.                  *)
RegistryMatchesStore ==
    \A v \in Addr : ledger.registry[v].stored => ledger.registry[v] = ledger.validators[v]

(* What the accounts hold of a token never exceeds its supply, wherever an *)
(* execution is cut off and however often it is repeated.                  *)
HoldingsWithinSupply ==
    NoSelfTransfers /\ Fits(0) =>
        \A k \in Asset :
            Total([a \in Addr |-> Holding(ledger.accounts[a], k)]) <= ledger.tokens[k].supply

(* The nonce in the store and the completed transactions.                  *)
Ledgers ==
    INSTANCE Settlement WITH
        Account <- Addr, Transaction <- Tx, Gaps <- FALSE,
        by <- [t \in Tx |-> tx[t].sender],
        number <- [t \in Tx |-> tx[t].nonce],
        height <- [a \in Addr |-> ledger.accounts[a].nonce],
        settled <- Done

(* The executor implements Settlement: only the last Put of an execution   *)
(* settles a transaction, and it does so in one step; no other Put, no     *)
(* failure and no restart moves a nonce, although every account is saved   *)
(* from a copy that was read before.                                       *)
SettlesInOrder == Ledgers!Spec

(* What a completed transaction takes out of circulation.                  *)
Spent(t) == tx[t].fee + (IF tx[t].kind = "createValidator" THEN MinStake ELSE 0)

(* Value leaves the accounts only as a fee or as a stake: an execution     *)
(* that is cut off never loses what was on its way.                        *)
NothingVanishes ==
    NoSelfTransfers /\ Fits(AtGenesis) =>
        Balances(ledger) + SumFunctionOnSet([t \in Tx |-> completed[t] * Spent(t)], Tx)
            >= AtGenesis

(* An execution that is not cut off, of a transaction that its sender can  *)
(* pay in full, takes the fee and the stake and nothing else.              *)
ChargesExactly ==
    [][pc = "idle" /\ pc' = "commit" =>
        LET t == current'
            needed == Spent(t) + (IF tx[t].kind = "transfer" THEN tx[t].amount ELSE 0)
        IN  NoSelfTransfers /\ needed <= Sender(t).balance /\ Balances(ledger) < Word
                => Balances(Last(todo')) + Spent(t) = Balances(ledger)]_vars

NoneCreatedTwice ==
    \A t, u \in Tx :
        tx[t].kind = "createValidator" /\ tx[u].kind = tx[t].kind /\ tx[t].to = tx[u].to
            => t = u

(* Delegations are backed by the stake of the validator, when nothing      *)
(* fails and no validator is created twice.                                *)
DelegationsBacked ==
    faults = 0 /\ NoneCreatedTwice /\ Fits(MinStake)
    => \A v \in Addr :
           Total([a \in Addr |-> IF ledger.accounts[a].validator = v
                                 THEN ledger.accounts[a].delegated ELSE 0])
               <= ledger.validators[v].stake

(***************************************************************************)
(* What documents say, and the code does not do.                           *)
(***************************************************************************)

(* Transactions only take value out of circulation: fees are burned.       *)
SupplyNeverGrows ==
    pc = "idle" => Balances(ledger) <= AtGenesis

=============================================================================
