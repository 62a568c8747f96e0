----------------------------- MODULE MCPassport -----------------------------
(* Model-checking instances of Passport.  Identities, wallets, issuers,    *)
(* keys and topics are interchangeable; policies differ only by what       *)
(* SetPolicy gives them.                                                   *)
EXTENDS Passport, TLC

Symmetry ==
    Permutations(Issuer) \cup Permutations(Identity) \cup Permutations(Topic)
        \cup Permutations(Signer) \cup Permutations(Wallet)
=============================================================================
