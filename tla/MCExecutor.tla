----------------------------- MODULE MCExecutor -----------------------------
(***************************************************************************)
(* Instances of Executor for TLC.  a and b have accounts at the start, c   *)
(* and d get theirs by receiving something.  K is a token; the id of a     *)
(* collection is K or L.                                                   *)
(***************************************************************************)
EXTENDS Executor

MCAddr == {"a", "b", "c", "d"}
MCTx == 1 .. 5

MCGenesis ==
    [x \in MCAddr |-> [stored |-> x \in {"a", "b"},
                       balance |-> CASE x = "a" -> 10 [] x = "b" -> 6 [] OTHER -> 0,
                       nonce |-> 0, tokens |-> <<>>, delegated |-> 0, validator |-> NoAddr]]

T(sender, nonce, fee, kind, to, amount) ==
    [sender |-> sender, nonce |-> nonce, fee |-> fee, kind |-> kind, to |-> to,
     asset |-> "K", amount |-> amount, mintable |-> TRUE]

(* Two payments of a with one nonce, one of which its balance covers only  *)
(* without the fee, payments back, and one from an account just created.   *)
Payments(fee, amount) ==
    <<T("a", 1, fee, "transfer", "b", 3), T("a", 2, 1, "transfer", "c", amount),
      T("a", 2, fee, "transfer", "b", 7 - fee), T("b", 1, 2, "transfer", "a", amount),
      T("c", 1, 0, "transfer", "a", 2)>>

(* A token of a new account or of one whose token map is nil.  The new one *)
(* mints to itself, to nil and to a new account, and hands on what it has. *)
Tokens(amount, admin, to) ==
    <<T("a", 1, 1, "createToken", admin, 3), T("a", 2, 1, "transfer", "c", 2),
      T("c", 1, 0, "mintToken", to, amount), T("c", 1, 1, "transferToken", "d", amount),
      T("c", 2, 0, "mintToken", "d", 1)>>

(* b delegates to the validator of a, who creates another one.             *)
Stakes(again, amount) ==
    <<T("a", 1, 1, "createValidator", "d", 1), T("b", 1, 0, "delegate", "d", amount),
      T("b", 2, 1, "delegate", "d", 2), T("a", 2, 1, "createValidator", again, 1),
      T("a", 2, 0, "delegate", "d", amount)>>

(* Collections, NFTs and payments to oneself.                              *)
Others ==
    <<T("a", 1, 1, "createCollection", "a", 1), T("a", 2, 1, "mintNFT", "b", 1),
      T("a", 3, 0, "mintNFT", "c", 1), T("a", 3, 1, "transfer", "a", 4),
      T("b", 1, 1, "mintNFT", "b", 1)>>

MCSigned ==
    {Payments(f, n) : f \in {0, 1, 2}, n \in {1, 3, 5}} \cup
    {Tokens(n, x, y) : n \in {0, 2, 3}, x \in {"b", "c"}, y \in {"b", "c", "d"}} \cup
    {Stakes(x, n) : x \in {"a", "c", "d"}, n \in {1, 3}} \cup {Others}

=============================================================================
