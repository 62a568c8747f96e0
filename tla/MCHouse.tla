------------------------------- MODULE MCHouse ------------------------------
(* One instance of House that goes two ways: into a queue of two payments, *)
(* or along both rails.  Wallets that are not owners, and owners among     *)
(* themselves, are interchangeable.                                        *)
EXTENDS House, TLC

(* Two payments, mandates of one kind, no CASA, a clock that stands still. *)
Payments ==
    /\ now = 1
    /\ FoldFunction(+, 0, casa) = 0
    /\ mandate.agent # NoWallet => mandate.perTxCap = 1 /\ mandate.expiresAt = 0

(* One payment, any mandate, one CASA, a clock that moves.                 *)
Rails == nextPaymentId <= 2

MCNext == Next /\ (Payments \/ Rails)'

MCSpec == Init /\ [][MCNext]_vars

Symmetry == Permutations(Owner) \cup Permutations(Wallet \ Owner)
=============================================================================
