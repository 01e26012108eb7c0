----------------------------- MODULE MCKeyStore -----------------------------
(***************************************************************************)
(* Instances of KeyStore for TLC.                                          *)
(***************************************************************************)
EXTENDS KeyStore, TLC

(* Threads are alike, and so are the keys that are generated.              *)
Symmetry == Permutations(Thread) \cup Permutations(Key \ Imported)

=============================================================================
