------------------------------ MODULE Passport ------------------------------
(***************************************************************************)
(* The compliance core of PassportKit as deployed together: the registry   *)
(* of trusted issuers, the issuers, the identities, the factory and the    *)
(* gate.  A transaction is one step.  Each action below is one external    *)
(* call with every nested contract call it makes; a call that reverts      *)
(* changes nothing and is a stuttering step.  Callers that lack the role a *)
(* function asks for always revert, so an action's caller is named only    *)
(* where the answer depends on it (the holder's key).                      *)
(***************************************************************************)
EXTENDS Integers, Sequences, FiniteSets

CONSTANTS
    Issuer, Identity, Topic, Signer, Expiry, Wallet, Policy,
    MaxClaimsPerTopic,
    NoClaim, NoWallet, NoIdentity,
    MaxTime     \* model bound: the clock stops here

ASSUME NullAssumption ==
    /\ NoWallet \notin Wallet
    /\ NoIdentity \notin Identity
    /\ NoClaim \notin [sig : [signer : Signer, issuer : Issuer, identity : Identity,
                              topic : Topic,
                              data : [wellFormed : BOOLEAN, expiresAt : Expiry]],
                       data : [wellFormed : BOOLEAN, expiresAt : Expiry]]

ASSUME NumberAssumption ==
    /\ MaxTime \in Nat \ {0}
    /\ MaxClaimsPerTopic \in Nat \ {0}
    /\ Expiry \subseteq Nat
    /\ IsFiniteSet(Issuer)

VARIABLES
    trusted, issuers, idx1,                  \* IssuerRegistry
    isAuthorizedSigner, revoked, now,        \* ClaimIssuer, block time
    keyHolder, claim, countByTopic,          \* Identity
    identityOfWallet, isIdentity, isAgent,   \* IdentityFactory
    policyTopics                             \* EligibilityGate

Registry == INSTANCE IssuerRegistry
Claims   == INSTANCE ClaimIssuer
Ident    == INSTANCE Identity
Factory  == INSTANCE IdentityFactory
Gate     == INSTANCE EligibilityGate

registryVars == <<trusted, issuers, idx1>>
issuerVars   == <<isAuthorizedSigner, revoked, now>>
identityVars == <<keyHolder, claim, countByTopic>>
factoryVars  == <<identityOfWallet, isIdentity, isAgent>>

vars == <<registryVars, issuerVars, identityVars, factoryVars, policyTopics>>

Init ==
    /\ Registry!Init
    /\ Claims!Init
    /\ now = 1
    /\ Ident!Init
    /\ Factory!Init
    /\ Gate!Init

-----------------------------------------------------------------------------
(* The gate's question about one topic and one listed issuer: is a claim   *)
(* stored, and does the issuer still stand behind it?                      *)
Counts(id, t, i) ==
    /\ Ident!Exists(id, t, i)
    /\ Claims!IsClaimValid(i, id, t, claim[id][t][i].sig, claim[id][t][i].data)

Eligible(id, p) ==
    LET listOf   == [t \in Topic |-> Registry!IssuersForTopic(t)]
        counting == {ti \in Topic \X Issuer : Counts(id, ti[1], ti[2])}
    IN  Gate!IsEligible(Ident!Deployed(id), p, listOf, counting)

(* How every surface asks: wallet, then identity, then gate.               *)
WalletEligible(w, p) ==
    /\ identityOfWallet[w] # NoIdentity
    /\ Eligible(identityOfWallet[w], p)

-----------------------------------------------------------------------------
(* The registry admin.                                                     *)
SetTrusted(i, t, ok) ==
    /\ Registry!SetTrusted(i, t, ok)
    /\ UNCHANGED <<issuerVars, identityVars, factoryVars, policyTopics>>

(* The issuer's admin and agent.                                           *)
SetSigner(i, s, ok) ==
    /\ Claims!SetSigner(i, s, ok)
    /\ UNCHANGED <<registryVars, identityVars, factoryVars, policyTopics>>

SetRevoked(i, id, t, value) ==
    /\ Claims!SetRevoked(i, id, t, value)
    /\ UNCHANGED <<registryVars, identityVars, factoryVars, policyTopics>>

(* The backend holding the factory's AGENT_ROLE.                           *)
CreateIdentity(w, id) ==
    /\ Factory!CreateIdentity(w, id)
    /\ Ident!Deploy(id, w)
    /\ UNCHANGED <<registryVars, issuerVars, policyTopics>>

LinkAgent(agent, person) ==
    /\ Factory!LinkAgent(agent, person)
    /\ UNCHANGED <<registryVars, issuerVars, identityVars, policyTopics>>

UnlinkAgent(agent) ==
    /\ Factory!UnlinkAgent(agent)
    /\ UNCHANGED <<registryVars, issuerVars, identityVars, policyTopics>>

(* The holder, with a signature some key of the model has produced.        *)
SubmitClaim(w, id, t, i, sig, data) ==
    /\ Ident!SubmitClaim(w, id, t, i, sig, data,
                         Registry!IsTrusted(i, t),
                         Claims!IsClaimValid(i, id, t, sig, data))
    /\ UNCHANGED <<registryVars, issuerVars, factoryVars, policyTopics>>

RevokeClaim(w, id, t, i) ==
    /\ Ident!RevokeClaim(w, id, t, i)
    /\ UNCHANGED <<registryVars, issuerVars, factoryVars, policyTopics>>

(* The gate's admin.                                                       *)
SetPolicy(p, topics) ==
    /\ Gate!SetPolicy(p, topics)
    /\ UNCHANGED <<registryVars, issuerVars, identityVars, factoryVars>>

(* Block time passes; MaxTime bounds the model.                            *)
Tick ==
    /\ now < MaxTime
    /\ now' = now + 1
    /\ UNCHANGED <<registryVars, isAuthorizedSigner, revoked, identityVars, factoryVars,
                   policyTopics>>

AdminStep ==
    \/ \E i \in Issuer, t \in Topic, ok \in BOOLEAN : SetTrusted(i, t, ok)
    \/ \E p \in Policy, topics \in SUBSET Topic : SetPolicy(p, topics)

IssuerStep ==
    \/ \E i \in Issuer, s \in Signer, ok \in BOOLEAN : SetSigner(i, s, ok)
    \/ \E i \in Issuer, id \in Identity, t \in Topic, value \in BOOLEAN :
          SetRevoked(i, id, t, value)

BackendStep ==
    \/ \E w \in Wallet, id \in Identity : CreateIdentity(w, id)
    \/ \E w \in Wallet, id \in Identity : LinkAgent(w, id)
    \/ \E w \in Wallet : UnlinkAgent(w)

HolderStep ==
    \E w \in Wallet, id \in Identity, t \in Topic, i \in Issuer :
        \/ \E sig \in Claims!Signature, data \in Claims!Data :
              SubmitClaim(w, id, t, i, sig, data)
        \/ RevokeClaim(w, id, t, i)

Next == AdminStep \/ IssuerStep \/ BackendStep \/ HolderStep \/ Tick

Spec == Init /\ [][Next]_vars

-----------------------------------------------------------------------------
(* Every contract's storage keeps its shape; in particular the per-topic   *)
(* counter stays between 0 and the cap, so that the decrement of           *)
(* revokeClaim never underflows (Identity.sol:96, 115).                    *)
StoredClaim == [sig : Claims!Signature, data : Claims!Data]

TypeOK ==
    /\ Registry!TypeOK
    /\ isAuthorizedSigner \in [Issuer -> SUBSET Signer]
    /\ revoked \in [Issuer -> SUBSET (Identity \X Topic)]
    /\ now \in 1..MaxTime
    /\ keyHolder \in [Identity -> Wallet \cup {NoWallet}]
    /\ claim \in [Identity -> [Topic -> [Issuer -> StoredClaim \cup {NoClaim}]]]
    /\ countByTopic \in [Identity -> [Topic -> 0..MaxClaimsPerTopic]]
    /\ identityOfWallet \in [Wallet -> Identity \cup {NoIdentity}]
    /\ isIdentity \in SUBSET Identity
    /\ isAgent \in SUBSET Wallet
    /\ policyTopics \in [Policy -> SUBSET Topic]

(* The counter the cap is tested against is the number of claims stored,   *)
(* through overwrites, removals and issuers trusted and distrusted in any  *)
(* order.  A full topic therefore always holds a claim its owner can       *)
(* remove, and the cap can never lock an identity (Identity.sol:94-117).   *)
StoredIssuers(id, t) == {i \in Issuer : Ident!Exists(id, t, i)}

CountMatchesClaims ==
    \A id \in Identity, t \in Topic :
        countByTopic[id][t] = Cardinality(StoredIssuers(id, t))

(* A stored claim was signed for the issuer, identity and topic under      *)
(* which it is stored, with the data stored beside it: no claim of one     *)
(* person ever sits in another's identity (Identity.sol:91-99).            *)
ClaimsAreBound ==
    \A id \in Identity, t \in Topic, i \in Issuer :
        Ident!Exists(id, t, i) =>
            /\ Ident!Deployed(id)
            /\ claim[id][t][i].sig.issuer = i
            /\ claim[id][t][i].sig.identity = id
            /\ claim[id][t][i].sig.topic = t
            /\ claim[id][t][i].sig.data = claim[id][t][i].data
            /\ claim[id][t][i].data.wellFormed

(* Links, unlinks and mints in any order leave every person's wallet       *)
(* resolving to the one identity it owns, and every other wallet that      *)
(* resolves anywhere an agent of an identity it does not own: an agent     *)
(* inherits eligibility and never a key (IdentityFactory.sol:44-78).       *)
ResolutionConsistent ==
    /\ \A id \in Identity : id \in isIdentity <=> Ident!Deployed(id)
    /\ \A id \in isIdentity : identityOfWallet[keyHolder[id]] = id
    /\ \A w \in Wallet :
          identityOfWallet[w] # NoIdentity =>
              /\ identityOfWallet[w] \in isIdentity
              /\ w \in isAgent <=> keyHolder[identityOfWallet[w]] # w
    /\ \A w \in isAgent : identityOfWallet[w] # NoIdentity

(* What eligibility is supposed to mean, said of the issuers' and the      *)
(* registry's flags and not of the loop that computes it: for each topic   *)
(* of the policy an issuer trusted now, with the latch open now, whose     *)
(* claim about this very identity has not expired and bears a key it       *)
(* accepts now (README.md:67-76, EligibilityGate.sol:21-25).               *)
Vouched(id, t) ==
    \E i \in Issuer :
        /\ <<i, t>> \in trusted
        /\ <<id, t>> \notin revoked[i]
        /\ claim[id][t][i] # NoClaim
        /\ LET c == claim[id][t][i]
           IN  /\ c.sig.identity = id /\ c.sig.topic = t /\ c.sig.issuer = i
               /\ c.sig.signer \in isAuthorizedSigner[i]
               /\ c.sig.data.expiresAt = 0 \/ now <= c.sig.data.expiresAt

EligibleIffVouched ==
    \A id \in Identity, p \in Policy :
        Eligible(id, p) <=> /\ policyTopics[p] # {}
                            /\ \A t \in policyTopics[p] : Vouched(id, t)

(* Nobody becomes eligible by the passing of time, by a removal, by a      *)
(* de-listing, by a latch closing or by what happens to an agent wallet:   *)
(* a step that turns an identity eligible landed a claim on it, opened its *)
(* latch, trusted an issuer, accepted a key or rewrote the policy.         *)
GrantMade(id) ==
    \/ \E t \in Topic, i \in Issuer : claim'[id][t][i] \notin {NoClaim, claim[id][t][i]}
    \/ \E t \in Topic, i \in Issuer : <<id, t>> \in revoked[i] \ revoked'[i]
    \/ trusted' \ trusted # {}
    \/ \E i \in Issuer : isAuthorizedSigner'[i] \ isAuthorizedSigner[i] # {}
    \/ policyTopics' # policyTopics

OnlyGrantsMakeEligible ==
    [][\A id \in Identity, p \in Policy :
          Eligible(id, p)' /\ ~Eligible(id, p) => GrantMade(id)]_vars

(* While an issuer holds its latch closed, or the registry has dropped it, *)
(* no claim of that issuer lands on the topic, so a holder cannot cure a   *)
(* revocation by submitting again (ClaimIssuer.sol:20-21).                 *)
LatchKeepsClaimsOut ==
    [][\A id \in Identity, t \in Topic, i \in Issuer :
          claim'[id][t][i] \notin {NoClaim, claim[id][t][i]} =>
              <<id, t>> \notin revoked[i] /\ <<i, t>> \in trusted]_vars

(* A wallet's identity changes only by its first link or mint, or, for an  *)
(* agent, by unlinking: no call moves a wallet from one identity to        *)
(* another, or takes a person's identity away (IdentityFactory.sol:70-71). *)
ResolutionNeverMoves ==
    [][\A w \in Wallet :
          identityOfWallet[w] # NoIdentity =>
              \/ identityOfWallet'[w] = identityOfWallet[w]
              \/ w \in isAgent /\ identityOfWallet'[w] = NoIdentity]_vars

(* The registry inside: positions and list point at each other, and flags  *)
(* and lists are one set of trusted pairs to writers and readers of claims *)
(* (IssuerRegistry.sol:29-64).                                             *)
IndexMatchesList == Registry!IndexMatchesList

ImplementsTrustSet == Registry!ImplementsTrustSet
=============================================================================
