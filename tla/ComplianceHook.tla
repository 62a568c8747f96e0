--------------------------- MODULE ComplianceHook ---------------------------
(***************************************************************************)
(* contracts/src/hooks/ComplianceHook.sol: what a gated pool asks before a *)
(* swap and before liquidity is added, of the wallet named in hookData.    *)
(* It keeps no state; identity is whether the factory knows the wallet,    *)
(* valid the topics the gate finds a valid claim for.  Removing liquidity  *)
(* is not hooked at all.                                                   *)
(***************************************************************************)
CONSTANT PolicyTopics   \* the topics of the pool's policy

(* _requireCompliant; a policy never set denies.                           *)
RequireCompliant(identity, valid) ==
    /\ identity
    /\ PolicyTopics # {}
    /\ PolicyTopics \subseteq valid

BeforeSwap(identity, valid) == RequireCompliant(identity, valid)

BeforeAddLiquidity(identity, valid) == RequireCompliant(identity, valid)
=============================================================================
