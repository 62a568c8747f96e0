-------------------------- MODULE PassportResolver --------------------------
(***************************************************************************)
(* contracts/src/ens/PassportResolver.sol with ScoreRegistry.sol: ENS      *)
(* names whose records are computed when they are read.  The tenant is     *)
(* registered once, at deployment, and its controller is the backend's     *)
(* key, so setTenant is left out.  A name that was never bound has no      *)
(* tenant either, and both give the same empty answers.                    *)
(***************************************************************************)
EXTENDS Naturals

CONSTANTS Name, Identity, NoIdentity, Agent

VARIABLES
    identityOf,   \* name -> identity
    scoreOf       \* ScoreRegistry: agent -> reputation

resolverVars == <<identityOf, scoreOf>>

Init ==
    /\ identityOf = [n \in Name |-> NoIdentity]
    /\ scoreOf = [a \in Agent |-> 0]

(* The controller binds a name, or binds it again to somebody else.        *)
SetIdentity(n, id) ==
    /\ identityOf' = [identityOf EXCEPT ![n] = id]
    /\ UNCHANGED scoreOf

SetScore(a, score) ==
    /\ scoreOf' = [scoreOf EXCEPT ![a] = score]
    /\ UNCHANGED identityOf

(* text(node, "compliance.status"): a bound name whose identity does not   *)
(* clear the policy reads REVOKED, also before its first claim.            *)
ComplianceStatus(n, eligible) ==
    CASE identityOf[n] = NoIdentity  -> "NONE"
      [] identityOf[n] \in eligible  -> "GREEN"
      [] OTHER                       -> "REVOKED"

(* text(node, "agent-registration[..][agent]") is "1": the agent resolves  *)
(* to the identity the name is bound to.                                   *)
Registers(n, resolved) == identityOf[n] # NoIdentity /\ resolved = identityOf[n]
=============================================================================
