----------------------------- MODULE HouseToken -----------------------------
(***************************************************************************)
(* contracts/src/agents/HouseToken.sol: the scrip (CASA) in which a house  *)
(* gives its concierge a budget.  Only the house's treasury mints and      *)
(* reclaims, so the two operations are guarded where the treasury calls    *)
(* them.  Transfer is the inherited ERC-20 transfer, which nothing gates.  *)
(* House instantiates the module a second time, without Mint and Reclaim,  *)
(* for the spend token (mUSD), of which it uses only transfers.            *)
(***************************************************************************)
EXTENDS Integers

CONSTANT Holder        \* accounts that can hold the token

VARIABLE balanceOf     \* holder -> amount

Mint(to, amount) == balanceOf' = [balanceOf EXCEPT ![to] = @ + amount]

(* Fault: more is burned than is there.                                    *)
ReclaimUnchecked(from, amount) ==
    balanceOf' = [balanceOf EXCEPT ![from] = @ - amount]

Reclaim(from, amount) ==
    /\ balanceOf[from] >= amount
    /\ balanceOf' = [balanceOf EXCEPT ![from] = @ - amount]

Transfer(from, to, amount) ==
    /\ balanceOf[from] >= amount
    /\ balanceOf' = [balanceOf EXCEPT ![from] = @ - amount, ![to] = @ + amount]
=============================================================================
