----------------------------- MODULE WorldFlow -----------------------------
(***************************************************************************)
(* Evidence in, signed claim out: the issuer endpoints of the backend      *)
(* (apps/api/src/issuer, world) as the operators a page calls.  A claim    *)
(* commits to the identity and the topic it was signed for; its evidence   *)
(* hash, expiry and nonce are left out.  A refusal is an HTTP error to the *)
(* page, whatever the reason.                                              *)
(***************************************************************************)
CONSTANTS
    DemoMode,    \* DEMO_MODE
    WorldKeys,   \* the World app and the signing key are configured
    Refused

Kind == {"selfie", "document"}

(* The credentials a World result can carry, by family.                    *)
Credential == {"face", "passport", "none"}

SignClaim(identity, topic) == [identity |-> identity, topic |-> topic]

(* POST /issuer/mock-claim.                                                *)
MockClaim(identity, topic, approved) ==
    IF DemoMode /\ approved THEN SignClaim(identity, topic) ELSE Refused

(* POST /issuer/revoke is open in the demo only.                           *)
MayRevoke == DemoMode

(* POST /world/request: a signed request for the widget, or the labeled    *)
(* mock that skips it.                                                     *)
BuildRequest ==
    CASE WorldKeys               -> "widget"
      [] ~WorldKeys /\ DemoMode  -> "mock"
      [] OTHER                   -> Refused

Expected(kind) == IF kind = "selfie" THEN "face" ELSE "passport"

(* verifyResult: the credential must fit the kind; a document flow may be  *)
(* attested instead.                                                       *)
Accepts(kind, credential, attested) ==
    IF WorldKeys
    THEN /\ credential # "none"
         /\ credential = Expected(kind) \/ (kind = "document" /\ attested)
    ELSE DemoMode

TopicForKind(kind) == IF kind = "selfie" THEN "PROOF_OF_PERSONHOOD" ELSE "KYC_VERIFIED"

(* POST /world/verify; the caller's topic counts in the demo only.         *)
WorldClaim(identity, kind, credential, attested, topicName) ==
    IF Accepts(kind, credential, attested)
    THEN SignClaim(identity, IF DemoMode THEN topicName ELSE TopicForKind(kind))
    ELSE Refused
=============================================================================
