--------------------------- MODULE MCStateMachine ---------------------------
(***************************************************************************)
(* Instances of StateMachine for TLC.  a and b have accounts at the start, *)
(* c gets one by receiving something.  K is a token, N an NFT.             *)
(***************************************************************************)
EXTENDS StateMachine

MCAddr == {"a", "b", "c"}

MCGenesis == [x \in {"a", "b"} |-> IF x = "a" THEN 9 ELSE 5]

NoGenesis == [x \in {} |-> 0]

T(sender, n, fee, kind, to, amount) ==
    [sender |-> sender, nonce |-> n, fee |-> fee, kind |-> kind, to |-> to,
     asset |-> "K", nft |-> "N", amount |-> amount]

(* Transfers with one nonce and with a gap between two, to a new account   *)
(* and to oneself, and everything that can be repeated.                    *)
MCTx ==
    {T("a", 1, 1, "transfer", "c", 4), T("a", 1, 1, "transfer", "a", 2),
     T("a", 3, 2, "transfer", "b", 1), T("c", 1, 1, "transfer", "a", 2),
     T("a", 4, 1, "createToken", "b", 3), T("c", 2, 1, "createToken", "c", 5),
     T("b", 1, 1, "transferToken", "c", 2), T("c", 3, 1, "transferToken", "c", 1),
     T("a", 4, 1, "mintNFT", "c", 0), T("c", 2, 1, "transferNFT", "b", 0),
     T("b", 2, 1, "transferNFT", "b", 0), T("b", 3, 2, "createCollection", "b", 0),
     T("b", 3, 1, "createValidator", "a", 0), T("a", 5, 1, "delegateStake", "a", 3)}

(* A payment and a delegation whose cost is 2^64, and a token transfer     *)
(* whose cost is 1 while its fee is more than there is.                    *)
OverflowTx ==
    {T("a", 1, 2, "transfer", "b", 30), T("b", 1, 2, "transfer", "a", 30),
     T("a", 4, 2, "delegateStake", "b", 30), T("a", 4, 1, "createToken", "c", 20),
     T("a", 2, 4, "transfer", "c", 4), T("c", 1, 15, "transferToken", "a", 18),
     T("a", 5, 3, "createValidator", "b", 0)}

MCFamilies == {MCTx, OverflowTx}

=============================================================================
