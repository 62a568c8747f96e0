------------------------------ MODULE TrustSet ------------------------------
(***************************************************************************)
(* What an issuer registry promises its two readers.  There is one set of  *)
(* trusted (issuer, topic) pairs, which the admin extends and shrinks one  *)
(* named pair at a time; identities see it when a claim is written, the    *)
(* gate when a claim is read, and both see the same set at every moment.   *)
(* Nothing is promised about lists, positions or the order in which        *)
(* issuers were added.  IssuerRegistry implements this specification.      *)
(***************************************************************************)

CONSTANTS Issuer, Topic

VARIABLES
    atWrite,    \* the pairs trusted, as a writer of claims sees them
    atRead      \* the pairs trusted, as a reader of claims sees them

Init == atWrite = {} /\ atRead = {}

Grant(i, t) ==
    /\ <<i, t>> \notin atWrite
    /\ atWrite' = atWrite \cup {<<i, t>>}
    /\ atRead' = atRead \cup {<<i, t>>}

Withdraw(i, t) ==
    /\ <<i, t>> \in atWrite
    /\ atWrite' = atWrite \ {<<i, t>>}
    /\ atRead' = atRead \ {<<i, t>>}

Next == \E i \in Issuer, t \in Topic : Grant(i, t) \/ Withdraw(i, t)

Spec == Init /\ [][Next]_<<atWrite, atRead>>
=============================================================================
