------------------------------ MODULE Identity ------------------------------
(***************************************************************************)
(* contracts/src/Identity.sol: one contract per person, holding the claims *)
(* issuers signed about that person.  Only the wallet seeded as management *)
(* key writes (Model B); the registry and the issuer are asked at write    *)
(* time, and their answers enter here as the parameters isTrusted and      *)
(* isValid.  keyHolder doubles as the record of which contracts exist.     *)
(***************************************************************************)
EXTENDS Integers

CONSTANTS
    Identity,             \* addresses of Identity contracts
    Issuer,
    Topic,
    Wallet,               \* externally owned accounts
    MaxClaimsPerTopic,    \* MAX_CLAIMS_PER_TOPIC
    NoClaim, NoWallet

VARIABLES
    keyHolder,     \* identity -> wallet whose key has purpose MANAGEMENT
    claim,         \* _claim: identity -> topic -> issuer -> [sig, data] or NoClaim
    countByTopic   \* _countByTopic: identity -> topic -> number

identityVars == <<keyHolder, claim, countByTopic>>

Init ==
    /\ keyHolder = [id \in Identity |-> NoWallet]
    /\ claim = [id \in Identity |-> [t \in Topic |-> [i \in Issuer |-> NoClaim]]]
    /\ countByTopic = [id \in Identity |-> [t \in Topic |-> 0]]

-----------------------------------------------------------------------------
Deployed(id) == keyHolder[id] # NoWallet

(* MANAGEMENT satisfies every purpose, and no call adds another key.       *)
HasClaimKey(w, id) == keyHolder[id] = w

Exists(id, t, i) == claim[id][t][i] # NoClaim

(* The constructor: the new contract starts with its owner's key alone.    *)
Deploy(id, w) ==
    /\ ~Deployed(id)
    /\ keyHolder' = [keyHolder EXCEPT ![id] = w]
    /\ UNCHANGED <<claim, countByTopic>>

(* Fault: an overwrite is counted as a new claim.                          *)
SubmitClaimRecounting(w, id, t, i, sig, data, isTrusted, isValid) ==
    /\ HasClaimKey(w, id)
    /\ isTrusted
    /\ isValid
    /\ countByTopic[id][t] < MaxClaimsPerTopic
    /\ countByTopic' = [countByTopic EXCEPT ![id][t] = @ + 1]
    /\ claim' = [claim EXCEPT ![id][t][i] = [sig |-> sig, data |-> data]]
    /\ UNCHANGED keyHolder

(* A claim of the same issuer and topic is overwritten in place; a new one *)
(* takes a slot of the topic's cap.                                        *)
SubmitClaim(w, id, t, i, sig, data, isTrusted, isValid) ==
    /\ HasClaimKey(w, id)
    /\ isTrusted
    /\ isValid
    /\ \/ /\ Exists(id, t, i)
          /\ UNCHANGED countByTopic
       \/ /\ ~Exists(id, t, i)
          /\ countByTopic[id][t] < MaxClaimsPerTopic
          /\ countByTopic' = [countByTopic EXCEPT ![id][t] = @ + 1]
    /\ claim' = [claim EXCEPT ![id][t][i] = [sig |-> sig, data |-> data]]
    /\ UNCHANGED keyHolder

(* Fault: a claim is removed twice.                                        *)
RevokeClaimAgain(w, id, t, i) ==
    /\ HasClaimKey(w, id)
    /\ claim' = [claim EXCEPT ![id][t][i] = NoClaim]
    /\ countByTopic' = [countByTopic EXCEPT ![id][t] = @ - 1]
    /\ UNCHANGED keyHolder

(* The holder removes a claim and frees its slot.                          *)
RevokeClaim(w, id, t, i) ==
    /\ HasClaimKey(w, id)
    /\ Exists(id, t, i)
    /\ claim' = [claim EXCEPT ![id][t][i] = NoClaim]
    /\ countByTopic' = [countByTopic EXCEPT ![id][t] = @ - 1]
    /\ UNCHANGED keyHolder
=============================================================================
