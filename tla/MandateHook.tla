---------------------------- MODULE MandateHook -----------------------------
(***************************************************************************)
(* contracts/src/hooks/MandateHook.sol: what the CASA/mUSD pool asks       *)
(* before a swap and before liquidity is added.  It keeps no state; the    *)
(* treasury's answers about the actor are parameters.  The actor is the    *)
(* wallet the router names in hookData, and the router is the trusted one  *)
(* the contract's comment asks for: the wallet named is the wallet whose   *)
(* tokens move.  Removing liquidity is not hooked at all.                  *)
(***************************************************************************)
EXTENDS Naturals

(* Fault: standing alone lets the agent swap.                              *)
BeforeSwapUncapped(isCompliantOwner, inGoodStanding, specified, perTxCap) ==
    isCompliantOwner \/ inGoodStanding

(* specified is |amountSpecified|: the CASA leg of an exact-input sale, the *)
(* mUSD leg of an exact-output one.                                        *)
BeforeSwap(isCompliantOwner, inGoodStanding, specified, perTxCap) ==
    \/ isCompliantOwner
    \/ inGoodStanding /\ specified <= perTxCap

BeforeAddLiquidity(isCompliantOwner) == isCompliantOwner
=============================================================================
