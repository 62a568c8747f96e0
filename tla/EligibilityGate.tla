-------------------------- MODULE EligibilityGate ---------------------------
(***************************************************************************)
(* contracts/src/EligibilityGate.sol: the one read every surface makes.  A *)
(* policy is a set of required topics; an identity clears it when, for     *)
(* each topic, some issuer in the registry's list stands behind a stored   *)
(* claim at this moment.  Which claims count is the issuers' answer, the   *)
(* parameter counting, a set of <<topic, issuer>>; a call that reverts is  *)
(* caught and counts for nothing.  The order of topics picks the reason code reported *)
(* and nothing else, so it is left out with the reason codes.              *)
(***************************************************************************)
EXTENDS Naturals, Sequences

CONSTANTS Policy, Topic

VARIABLE policyTopics   \* policy -> required topics

Init == policyTopics = [p \in Policy |-> {}]

SetPolicy(p, topics) == policyTopics' = [policyTopics EXCEPT ![p] = topics]

(* Fault: every listed issuer is asked to agree.                           *)
HasValidClaimOfAll(t, list, counting) ==
    /\ list # <<>>
    /\ \A j \in 1..Len(list) : <<t, list[j]>> \in counting

(* _hasValidClaim: walk the registry's list for the topic.                 *)
HasValidClaim(t, list, counting) ==
    \E j \in 1..Len(list) : <<t, list[j]>> \in counting

(* isEligible: no contract, and a policy never set, both deny.             *)
IsEligible(deployed, p, listOf, counting) ==
    /\ deployed
    /\ policyTopics[p] # {}
    /\ \A t \in policyTopics[p] : HasValidClaim(t, listOf[t], counting)
=============================================================================
