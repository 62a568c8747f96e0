---------------------------- MODULE MCConcierge -----------------------------
(* Model-checking instances of Concierge.  Owners are interchangeable, and *)
(* so are the clerks that handle approvals.                                *)
EXTENDS Concierge, TLC

Symmetry == Permutations(Owner) \cup Permutations(Clerk)
=============================================================================
