------------------------------- MODULE MCSync -------------------------------
(***************************************************************************)
(* Instances of Sync for TLC.                                              *)
(***************************************************************************)
EXTENDS Sync, TLC

MCRanges == {<<1, 1>>, <<1, 2>>}

(* Nodes, events and streams are alike.                                    *)
Symmetry == Permutations(Node) \cup Permutations(Event) \cup Permutations(Session)

=============================================================================
