--------------------------- MODULE IssuerRegistry ---------------------------
(***************************************************************************)
(* contracts/src/IssuerRegistry.sol: which issuer contracts are trusted    *)
(* for which claim topic.  The contract keeps the same fact three times, a *)
(* flag per (issuer, topic), an enumerable list per topic, and the         *)
(* position + 1 of every issuer in that list.  Identity.submitClaim reads  *)
(* the flag and EligibilityGate walks the list, so the three must agree    *)
(* after every sequence of grants and swap-and-pop removals.               *)
(*                                                                         *)
(* Issuer holds the non-zero addresses (setTrusted reverts on zero), and   *)
(* the caller is the one account with DEFAULT_ADMIN_ROLE: any other call   *)
(* reverts and changes nothing.                                            *)
(***************************************************************************)
EXTENDS Naturals, Sequences

CONSTANTS
    Issuer,     \* issuer contracts
    Topic       \* claim topics

VARIABLES
    trusted,    \* _trusted: the set of pairs <<issuer, topic>> whose flag is true
    issuers,    \* _issuers: topic -> list of issuers
    idx1        \* _idx1: topic -> issuer -> position in the list, 0 when absent

vars == <<trusted, issuers, idx1>>

Init ==
    /\ trusted = {}
    /\ issuers = [t \in Topic |-> <<>>]
    /\ idx1 = [t \in Topic |-> [i \in Issuer |-> 0]]

-----------------------------------------------------------------------------
(* The two reads the rest of the system makes.                             *)

IsTrusted(i, t) == <<i, t>> \in trusted

IssuersForTopic(t) == issuers[t]

-----------------------------------------------------------------------------
(* Fault: pop the last element without moving it into the gap.             *)
SwapAndPopNoSwap(arr, i) == SubSeq(arr, 1, Len(arr) - 1)

(* Overwrite position i with the last element and drop the last position.  *)
SwapAndPop(arr, i) ==
    SubSeq([arr EXCEPT ![i] = arr[Len(arr)]], 1, Len(arr) - 1)

(* Fault: the issuer moved keeps its old index.                            *)
RemoveFromTopicStaleIndex(t, i) ==
    IF idx1[t][i] = 0
    THEN UNCHANGED <<issuers, idx1>>
    ELSE /\ issuers' = [issuers EXCEPT ![t] = SwapAndPop(@, idx1[t][i])]
         /\ idx1' = [idx1 EXCEPT ![t][i] = 0]

(* When i is already the last position, the issuer moved is the issuer     *)
(* removed, and the final reset of its index wins, as in the source.       *)
RemoveFromTopic(t, i) ==
    LET pos   == idx1[t][i]
        arr   == issuers[t]
        moved == arr[Len(arr)]
    IN  IF pos = 0
        THEN UNCHANGED <<issuers, idx1>>
        ELSE /\ issuers' = [issuers EXCEPT ![t] = SwapAndPop(arr, pos)]
             /\ idx1' = [idx1 EXCEPT ![t] = [@ EXCEPT ![moved] = pos, ![i] = 0]]

Push(t, i) ==
    /\ issuers' = [issuers EXCEPT ![t] = Append(@, i)]
    /\ idx1' = [idx1 EXCEPT ![t] = [@ EXCEPT ![i] = Len(issuers[t]) + 1]]

(* A call whose flag already has the value asked for returns early and is  *)
(* a stuttering step.                                                      *)
SetTrusted(i, t, ok) ==
    \/ /\ ok
       /\ ~IsTrusted(i, t)
       /\ trusted' = trusted \cup {<<i, t>>}
       /\ Push(t, i)
    \/ /\ ~ok
       /\ IsTrusted(i, t)
       /\ trusted' = trusted \ {<<i, t>>}
       /\ RemoveFromTopic(t, i)

Next == \E i \in Issuer, t \in Topic, ok \in BOOLEAN : SetTrusted(i, t, ok)

Spec == Init /\ [][Next]_vars

-----------------------------------------------------------------------------
(* The three variables have the shape of the contract's storage.           *)
TypeOK ==
    /\ trusted \in SUBSET (Issuer \X Topic)
    /\ issuers \in [Topic -> Seq(Issuer)]
    /\ idx1 \in [Topic -> [Issuer -> Nat]]

(* The index map and the list point at each other: every listed position   *)
(* is recorded for its issuer, and every recorded position is listed.  So  *)
(* a list holds no issuer twice (IssuerRegistry.sol:52-64).                *)
IndexMatchesList ==
    \A t \in Topic :
        /\ \A n \in 1..Len(issuers[t]) : idx1[t][issuers[t][n]] = n
        /\ \A i \in Issuer :
              idx1[t][i] # 0 => /\ idx1[t][i] \in 1..Len(issuers[t])
                                /\ issuers[t][idx1[t][i]] = i

(* The flag an identity checks when a claim is written and the list the    *)
(* gate walks when it is read name the same issuers (IssuerRegistry.sol:   *)
(* 29-35): a claim that could be submitted is one that will be looked at.  *)
ListMatchesFlag ==
    \A i \in Issuer, t \in Topic :
        IsTrusted(i, t) <=> \E n \in 1..Len(issuers[t]) : issuers[t][n] = i

(* Removing an issuer by moving another into its place drops nobody else,  *)
(* adding one displaces nobody, and writers and readers of claims never    *)
(* see different sets: the flags and the lists together behave as a        *)
(* TrustSet (IssuerRegistry.sol:29-64).                                    *)
Listed(t) == {issuers[t][n] : n \in 1..Len(issuers[t])}

ListedPairs == {p \in Issuer \X Topic : p[1] \in Listed(p[2])}

Trust == INSTANCE TrustSet WITH atWrite <- trusted, atRead <- ListedPairs

ImplementsTrustSet == Trust!Spec
=============================================================================
