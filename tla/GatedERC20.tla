----------------------------- MODULE GatedERC20 -----------------------------
(***************************************************************************)
(* contracts/src/GatedERC20.sol: a token whose every transfer asks the     *)
(* gate about both ends.  The gate's answer is the parameter eligible, the *)
(* set of accounts whose identity clears the token's policy now; an        *)
(* account that resolves to no identity is never among them.               *)
(***************************************************************************)
EXTENDS Naturals

CONSTANT Account

VARIABLE balanceOf

Init == balanceOf = [a \in Account |-> 0]

(* Fault: only mints are gated.                                            *)
MayMoveFreely(from, to, eligible) == TRUE

(* _update, of a transfer between two accounts.                            *)
MayMove(from, to, eligible) == {from, to} \subseteq eligible

Mint(to, amt, eligible) ==
    /\ to \in eligible
    /\ balanceOf' = [balanceOf EXCEPT ![to] = @ + amt]

Transfer(from, to, amt, eligible) ==
    /\ MayMove(from, to, eligible)
    /\ balanceOf[from] >= amt
    /\ balanceOf' = [a \in Account |-> balanceOf[a] + (IF a = to THEN amt ELSE 0)
                                                    - (IF a = from THEN amt ELSE 0)]

(* Redeeming is free: nobody is asked about the holder.                    *)
Burn(from, amt) ==
    /\ balanceOf[from] >= amt
    /\ balanceOf' = [balanceOf EXCEPT ![from] = @ - amt]
=============================================================================
