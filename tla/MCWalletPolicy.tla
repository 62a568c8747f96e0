--------------------------- MODULE MCWalletPolicy ---------------------------
(* Model-checking instances of WalletPolicy.  Requests are interchangeable. *)
EXTENDS WalletPolicy, TLC

Symmetry == Permutations(Request)
=============================================================================
