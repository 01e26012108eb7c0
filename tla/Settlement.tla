----------------------------- MODULE Settlement -----------------------------
(***************************************************************************)
(* What an executor of transactions promises the senders: every account    *)
(* numbers its transactions, and they are settled in the order of these    *)
(* numbers, each of them once and of two with one number only one, for     *)
(* ever.  Both executors of the repository, TransactionExecutor and        *)
(* StateMachine, implement it; a reader of an account's nonce learns from  *)
(* it which number comes next.                                             *)
(***************************************************************************)
EXTENDS Naturals

CONSTANTS
    Account,
    Transaction,
    Gaps        \* TRUE if numbers may be left out

VARIABLES
    by, number, \* the sender of each transaction and its number
    height,     \* height[a]: the number of the last settled transaction of a
    settled     \* the transactions that have been settled

TypeOK ==
    /\ by \in [Transaction -> Account]
    /\ number \in [Transaction -> Nat \ {0}]
    /\ height \in [Account -> Nat]
    /\ settled \subseteq Transaction

Init ==
    /\ by \in [Transaction -> Account]
    /\ number \in [Transaction -> Nat \ {0}]
    /\ height = [a \in Account |-> 0]
    /\ settled = {}

(* A transaction that has been settled is not above the height any more.   *)
Settle(t) ==
    /\ number[t] > height[by[t]]
    /\ ~Gaps => number[t] = height[by[t]] + 1
    /\ height' = [height EXCEPT ![by[t]] = number[t]]
    /\ settled' = settled \cup {t}
    /\ UNCHANGED <<by, number>>

Next == \E t \in Transaction : Settle(t)

Spec == Init /\ [][Next]_<<by, number, height, settled>>

=============================================================================
