----------------------------- MODULE MCProducer -----------------------------
(***************************************************************************)
(* Instances of Producer for TLC.                                          *)
(***************************************************************************)
EXTENDS Producer

MCTx == {1, 2, 3}

Offer(fee, gas) == [t \in MCTx |-> [fee |-> fee[t], gas |-> gas[t], time |-> t]]

(* Priorities that invert age, tie, and agree with age; gas that fits the  *)
(* limit of 3 two at a time, one at a time, and, for 2, never.             *)
MCOffers == {Offer(<<1, 2, 3>>, <<2, 2, 1>>), Offer(<<2, 2, 2>>, <<3, 3, 3>>),
             Offer(<<3, 20, 1>>, <<1, 4, 1>>)}

(* Gas close to the word size.                                             *)
MCHugeOffers == {Offer(<<1, 1, 1>>, <<3, 6, 3>>)}

=============================================================================
