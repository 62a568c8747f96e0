----------------------------- MODULE PolicyRow ------------------------------
(***************************************************************************)
(* The row walletTransferPolicy of one wallet                              *)
(* (apps/api/src/wallets/wallet-policy.service.ts): what each single write *)
(* to the database does to it.  The handlers that read before they write,  *)
(* and everything that happens in between, are in WalletPolicy and         *)
(* VerificationPipeline.                                                   *)
(***************************************************************************)
EXTENDS Naturals

CONSTANTS
    NoKycCap,    \* NO_KYC_CAP, in USDC a day
    Limit,       \* daily limits a user can ask for
    NoPolicy     \* no row

VARIABLE policy

PolicyStatus == {"NO_KYC_DAILY_50", "KYC_USER_CONFIGURABLE", "BLOCKED"}

Row == [status : PolicyStatus, limit : Limit \cup {0, NoKycCap}]

HasStatus(row, s) == row # NoPolicy /\ row.status = s

Blocked == HasStatus(policy, "BLOCKED")

EffectiveLimit(row) == IF row.status = "NO_KYC_DAILY_50" THEN NoKycCap ELSE row.limit

-----------------------------------------------------------------------------
(* ensurePolicy: one upsert that never changes a row.                      *)
EnsurePolicy ==
    policy' = IF policy = NoPolicy
              THEN [status |-> "NO_KYC_DAILY_50", limit |-> NoKycCap]
              ELSE policy

(* The write of an upgrade names the status and leaves the limit.          *)
WriteUpgrade == policy' = [policy EXCEPT !.status = "KYC_USER_CONFIGURABLE"]

WriteLimit(l) == policy' = [policy EXCEPT !.limit = l]

(* blockWallet: one upsert, whatever the row says.                         *)
BlockWallet == policy' = [status |-> "BLOCKED", limit |-> 0]
=============================================================================
