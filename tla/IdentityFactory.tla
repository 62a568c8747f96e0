-------------------------- MODULE IdentityFactory ---------------------------
(***************************************************************************)
(* contracts/src/IdentityFactory.sol: mints identities and resolves a      *)
(* wallet, of a person or of an agent, to the identity every surface asks  *)
(* the gate about.  All three calls are made by the one AGENT_ROLE holder. *)
(* The deployment itself is Identity!Deploy, conjoined by Passport.        *)
(***************************************************************************)
CONSTANTS Wallet, Identity, NoIdentity

VARIABLES
    identityOfWallet,   \* wallet -> identity or NoIdentity
    isIdentity,         \* identities this factory minted
    isAgent             \* wallets linked as agents

factoryVars == <<identityOfWallet, isIdentity, isAgent>>

Init ==
    /\ identityOfWallet = [w \in Wallet |-> NoIdentity]
    /\ isIdentity = {}
    /\ isAgent = {}

CreateIdentity(w, id) ==
    /\ identityOfWallet[w] = NoIdentity
    /\ identityOfWallet' = [identityOfWallet EXCEPT ![w] = id]
    /\ isIdentity' = isIdentity \cup {id}
    /\ UNCHANGED isAgent

(* Fault: a wallet in use is linked again.                                 *)
LinkAgentInUse(agent, person) ==
    /\ person \in isIdentity
    /\ identityOfWallet' = [identityOfWallet EXCEPT ![agent] = person]
    /\ isAgent' = isAgent \cup {agent}
    /\ UNCHANGED isIdentity

LinkAgent(agent, person) ==
    /\ person \in isIdentity
    /\ identityOfWallet[agent] = NoIdentity
    /\ identityOfWallet' = [identityOfWallet EXCEPT ![agent] = person]
    /\ isAgent' = isAgent \cup {agent}
    /\ UNCHANGED isIdentity

(* Fault: the flag survives the unlinking.                                 *)
UnlinkAgentKeepingFlag(agent) ==
    /\ agent \in isAgent
    /\ identityOfWallet' = [identityOfWallet EXCEPT ![agent] = NoIdentity]
    /\ UNCHANGED <<isIdentity, isAgent>>

UnlinkAgent(agent) ==
    /\ agent \in isAgent
    /\ identityOfWallet' = [identityOfWallet EXCEPT ![agent] = NoIdentity]
    /\ isAgent' = isAgent \ {agent}
    /\ UNCHANGED isIdentity
=============================================================================
