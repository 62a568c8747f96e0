---------------------------- MODULE ClaimIssuer -----------------------------
(***************************************************************************)
(* contracts/src/ClaimIssuer.sol: the authority on whether a claim counts. *)
(* One contract per issuer; each holds its own set of signing keys and its *)
(* own revocation latch per (identity, topic).  The same question is asked *)
(* when a claim is written (Identity) and when it is read (the gate), and  *)
(* the answer depends on the block time.                                   *)
(*                                                                         *)
(* A signature is modelled by what it commits to: the EIP-712 digest binds *)
(* the verifying contract, the identity, the topic and the signed data.    *)
(* Checked against anything else, ECDSA recovery yields some address that  *)
(* no issuer authorised.  The nonce is never consumed on-chain and is left *)
(* out.  The malformed encoding and the zero data hash, which the code     *)
(* refuses alike, are the data with wellFormed = FALSE.                    *)
(***************************************************************************)
EXTENDS Naturals

CONSTANTS
    Issuer,     \* issuer contracts
    Identity,   \* addresses of Identity contracts
    Topic,      \* claim topics
    Signer,     \* signing keys, as their non-zero addresses
    Expiry      \* expiry times a claim can carry; 0 means it never expires

VARIABLES
    isAuthorizedSigner,   \* issuer -> the keys it accepts
    revoked,              \* issuer -> the <<identity, topic>> pairs latched
    now                   \* block.timestamp

Data == [wellFormed : BOOLEAN, expiresAt : Expiry]

Signature ==
    [signer : Signer, issuer : Issuer, identity : Identity, topic : Topic, data : Data]

(* The constructor may authorise one first signer.                         *)
Init ==
    /\ isAuthorizedSigner \in [Issuer -> {{}} \cup {{s} : s \in Signer}]
    /\ revoked = [i \in Issuer |-> {}]

-----------------------------------------------------------------------------
Expired(data) == data.expiresAt # 0 /\ now > data.expiresAt

(* Fault: a digest that does not commit to the identity.                   *)
DigestMatchesAnyIdentity(i, id, t, data, sig) ==
    sig.issuer = i /\ sig.topic = t /\ sig.data = data

(* The digest of the claim asked about is the digest that was signed.      *)
DigestMatches(i, id, t, data, sig) ==
    /\ sig.issuer = i
    /\ sig.identity = id
    /\ sig.topic = t
    /\ sig.data = data

(* Fault: the latch is not asked.                                          *)
IsClaimValidUnlatched(i, id, t, sig, data) ==
    /\ data.wellFormed
    /\ ~Expired(data)
    /\ DigestMatches(i, id, t, data, sig)
    /\ sig.signer \in isAuthorizedSigner[i]

IsClaimValid(i, id, t, sig, data) ==
    /\ <<id, t>> \notin revoked[i]
    /\ data.wellFormed
    /\ ~Expired(data)
    /\ DigestMatches(i, id, t, data, sig)
    /\ sig.signer \in isAuthorizedSigner[i]

-----------------------------------------------------------------------------
(* The global lever: authorise a key, or disown it with all it ever signed. *)
SetSigner(i, s, ok) ==
    /\ isAuthorizedSigner' =
         [isAuthorizedSigner EXCEPT ![i] = IF ok THEN @ \cup {s} ELSE @ \ {s}]
    /\ UNCHANGED <<revoked, now>>

(* The per-user lever: close or open the latch on one topic of one identity. *)
SetRevoked(i, id, t, value) ==
    /\ revoked' =
         [revoked EXCEPT ![i] = IF value THEN @ \cup {<<id, t>>} ELSE @ \ {<<id, t>>}]
    /\ UNCHANGED <<isAuthorizedSigner, now>>
=============================================================================
