---------------------- MODULE MCVerificationPipeline ----------------------
(* Model-checking instances of VerificationPipeline.  Handlers, workflows  *)
(* and sessions of one type are interchangeable.  The scenes below bound   *)
(* what may happen at the same time; within one, verdicts may come in      *)
(* again and again, but at most two different claims are sent to the       *)
(* chain: two of one session, or one each of two.                          *)
EXTENDS VerificationPipeline, TLC

Begun(s) ==
    \/ session[s] # NoSession
    \/ \E h \in Handler : At(h, "createSession") /\ job[h].session = s

OneKyc == \A s, r \in KycSession : Begun(s) /\ Begun(r) => s = r

OnlyKyc == \A s \in AccreditedSession : ~Begun(s)

InTurn(jobs) == \A i, j \in jobs : At(i, "idle") \/ At(j, "idle") \/ i = j

Reading == \E h \in Handler : job[h].step \in {"policyRow", "policyClaim", "policyUpgrade"}

TwoClaims ==
    LET sending == {j \in Job : job[j].step \in {"submit", "syncSubmit"}}
    IN  Cardinality(chain \cup reverted \cup {Claimed(j) : j \in sending}) <= 2

Calm == ~lost /\ reverted = {}

(* Two workflows at once, of one session or of two of different types; one *)
(* handler, and one workflow while it reads the policy.                    *)
Racing ==
    /\ Calm /\ OneKyc
    /\ InTurn(Handler)
    /\ Reading => InTurn(Workflow)
    /\ OnlyKyc \/ \A v, w \in Workflow :
          At(v, "idle") \/ At(w, "idle") \/ v = w \/ job[v].session # job[w].session

(* Two handlers at once and one workflow, over two verifications.          *)
Crowded == Calm /\ InTurn(Workflow) /\ (OneKyc \/ OnlyKyc)

(* Anything lost or reverted.  No property then speaks of the policy, and  *)
(* only a block creates its row.                                           *)
Failing ==
    /\ OneKyc /\ OnlyKyc
    /\ InTurn(Handler) /\ InTurn(Workflow)
    /\ policy = NoPolicy \/ Row!Blocked

Bounded == TwoClaims /\ (Racing \/ Crowded \/ Failing)

Symmetry ==
    Permutations(Handler) \cup Permutations(Workflow)
    \cup Permutations(KycSession) \cup Permutations(AccreditedSession)
=============================================================================
