# PassportKit in TLA+

PassportKit lets an issuer vouch for a person once, on-chain, and lets every
other contract ask one question before it acts: *is this wallet eligible now?*
The repository holds the contracts that answer the question (`contracts/src`), a
backend that drives verification and issues claims (`apps/api`), the workflow
that writes results to the chain (`cre`), and a web demo with an AI concierge
that spends a house's money under a mandate (`apps/web`).

This directory models the parts of it that decide something, checks them with
TLC on small instances, and proves the most important properties with TLAPS for
every value of the constants.

## 1. The system

### Contracts

| Component | State | Operations | Right when |
|---|---|---|---|
| `IssuerRegistry` | per topic: a flag, a list and a 1-based index of issuers | `setTrusted` (push, swap-and-pop) | the three copies agree; a removal disturbs nobody else |
| `ClaimIssuer` (one per issuer) | accepted signing keys; revocation latch per (identity, topic) | `setSigner`, `setRevoked`, `isClaimValid` | a claim counts only for what was signed, while neither latched nor expired |
| `Identity` (one per person) | the owner's key; claims per (topic, issuer); a counter per topic | `submitClaim`, `revokeClaim` | only the owner writes; the counter is the number of claims, at most the cap |
| `IdentityFactory` | wallet -> identity; which wallets are agents | `createIdentity`, `linkAgent`, `unlinkAgent` | every wallet resolves to one identity; agents inherit eligibility, never keys |
| `EligibilityGate` | topics each policy requires | `setPolicy`, `isEligible` | eligible exactly when each topic is vouched for now |
| `HouseTreasury` | owners, threshold, the mandate, the payment queue | `grantMandate`, `revokeMandate`, `fundConcierge`, `reclaimBudget`, `proposePayment`, `approvePayment`, `executePayment`, `deposit` | money leaves once per approved payment; losing one owner's clearance stops the agent |
| `HouseToken` (CASA) | balances | `mint`, `reclaim`, transfer | only the treasury mints and reclaims |
| `MandateHook` | none | `beforeSwap`, `beforeAddLiquidity` | the agent swaps within its cap and only in good standing |
| `GatedERC20` | balances | mint, transfer, burn | an account the gate has cut off receives nothing and sends nothing, but may redeem what it holds |
| `ComplianceHook` | a policy per pool | `beforeSwap`, `beforeAddLiquidity` | swaps and deposits ask the gate, exit stays open |
| `PassportResolver`, `PassportSubnameRegistrar`, `ScoreRegistry` | names bound to identities; scores | `setIdentity`, `setScore`, records computed when read | a record is the gate's answer and nothing staler |

The contracts call each other synchronously inside one transaction, so a
transaction is one step of the model. The difficulty is in sequences: many
issuers, keys, latches, links, expiries and owners change independently and in
any order, and everything is checked twice, at write time and at read time.

### Backend, workflow and web

| Component | State | Operations | Right when |
|---|---|---|---|
| Verification sessions (`verification.service.ts`) | session, claim and profile rows | `startVerification`, `startWithDocument`, `injectMockAiResult`, `syncOnchain` | a session ends with the result it received |
| Attester webhooks (`webhooks.service.ts`) | the same rows | `handleAiAttesterWebhook` | a repeated or late webhook does not undo a finished session |
| CRE workflow (`cre/src`) and intake (`cre.controller.ts`) | one workflow per accepted trigger | fetch, validate, submit, sync, post back; `receiveWorkflowResult` | chain and rows agree when it is done |
| Wallet policy (`wallet-policy.service.ts`) | one policy row per wallet, a log of decisions | `checkTransferIntent`, `updateTransferLimit`, `upgradeAfterKyc`, `blockWallet`, `getPolicy` | the daily limit holds; a blocked wallet stays blocked |
| Issuer, identity, world and hero services | none of their own; they share one key and send its transactions | check a World ID proof, sign a claim, revoke, provision an identity, link an agent | an answer says what is on chain, whatever was refused, resent, late or asked twice |
| Hero page (`app/hero`) | React state, a copy of it per wallet in `localStorage` | connect, provision, verify with World ID, accredit, link an agent, transfer, revoke, retry, reload | what it delegates is earned; it never stays busy |
| Demo server (`app/api/demo`, `lib/demo/chain.ts`) | the cached pool logs, the ticket feed, the local chain | markets, concierge and world routes, reset and time warp | no pool event is missed; a verification answered is one the gate sees |
| Markets and Concierge consoles (`app/markets`, `app/concierge`, `useDemoWorld`) | the last world read, one busy flag per group of buttons | buttons, the poll | the page catches up with a world at rest |
| Concierge runtime (`concierge/route.ts`, `x402.js`, `tickets.ts`) | tickets in memory, in the order of the feed | decide, swap, settle an invoice, propose and approve payments, fund, grant and revoke, flip an owner's latch | the agent parts with what a ticket says, once, to the plumber; a ticket's outcome matches what landed on-chain; an approved payment is executed, or the treasury cannot pay it |
| Other pages and components | React state | display | - |

Here every handler is a sequence of separately awaited writes with no
transaction around them, and handlers interleave at every `await`; a workflow
acknowledged with 202 may die at any of its calls and nothing retries it.

## 2. Modules

| Module | Models | Notes |
|---|---|---|
| `TrustSet` | what the registry promises: a set of (issuer, topic) pairs | abstract specification |
| `IssuerRegistry` | `IssuerRegistry.sol` | refines `TrustSet` |
| `ClaimIssuer`, `Identity`, `IdentityFactory`, `EligibilityGate` | the contracts of those names | each operation is an action over the module's own variables; answers of other contracts are parameters |
| `Passport` | the five together | each action is one external call with every nested call; this is where `isClaimValid` and `isTrusted` are plugged into `submitClaim` and into the gate's loop |
| `HouseTreasury`, `HouseToken`, `MandateHook` | the contracts of those names | |
| `House` | a house, its two tokens and its pool | the compliance core is the environment: it may clear or refuse any owner between any two calls |
| `PolicyRow` | the policy row of a wallet and the three writes to it | shared by the next two |
| `WalletPolicy` | `wallet-policy.service.ts` | one action per awaited call of a request, any number of requests in flight |
| `VerificationPipeline` | verification, the attester client, webhooks, cre intake, the workflow service and the fallback sync | one action per awaited write; `job[j]` is what handler or workflow `j` does next and what it has read |
| `Concierge` | the concierge route, the vendor's invoice route, the x402 client and the ticket feed, over `House` | one action per simulation, per transaction and per write to the feed |
| `GatedERC20`, `PassportResolver`, `WorldFlow` | the token; the resolver with the score registry; the World ID and issuer endpoints | parts of the next two |
| `HeroBackend` | hero, identity and revocation services and the chain they write to | instantiates `IdentityFactory`; a handler is a program of transactions, the key's unmined ones a queue |
| `HeroPage` | the hero page over `HeroBackend` | one action per click and per settled await |
| `ComplianceHook` | the contract of that name | |
| `PoolLogs` | the log cache of `chain.ts` and the sum of its events | operators, no state of its own |
| `DemoServer` | the demo routes, the actor's side of the local chain, the cache and the feed | one action per awaited call; any number of requests |
| `DemoConsole` | both consoles and `useDemoWorld` over `DemoServer` | a read of the world is the reads it is made of |
| `MCPassport`, `MCHouse`, `MCWalletPolicy`, `MCVerificationPipeline`, `MCConcierge`, `MCHeroPage`, `MCDemoConsole` | symmetry sets, sets of constants and scenes for TLC | |
| `SumTheorems` | sums over finite functions, as the community modules define them | lemmas, used by `ConciergeProofs` and `WalletPolicyProofs` |
| `PassportProofs`, `HouseProofs`, `ConciergeProofs`, `WalletPolicyProofs`, `VerificationPipelineProofs`, `DemoConsoleProofs`, `HeroPageProofs` | theorems about the modules of those names | `PassportProofs` begins with the registry's own; `HeroPageProofs` with the backend's |

Conventions. A call that reverts changes nothing and is a stuttering step, so
guards are exactly the `require`s and modifiers that remain once the caller
holds the role asked for. Addresses, topics, keys and identities are model
values. An EIP-712 signature is modelled by what its digest commits to - the
issuer contract, the identity, the topic and the data - plus the key that made
it; presented anywhere else it matches nothing. Definitions whose comment begins
"Fault" are wrong versions of the definition that follows; no specification uses
them, and they show that the properties can fail.

Where a server is modelled, an action is what happens between two awaits, and
every handler may be overtaken by any other at every await.

* `VerificationPipeline` reduces a verification result to its verdict. The
  contracts the legacy adapter and the workflow write to are not in the
  repository: `chain` is what was submitted to the first, `synced` what of it
  the second had seen when it was last synced, and its answer is any status.
  Both clients wait for a receipt and neither reads its status
  (`contracts-client.ts:134,171`, the adapter's `:87,102`), so each transaction
  lands, or reverts and is taken for a success; `reverted` keeps the claims whose
  transaction did. `DEMO_MODE`, which sends nothing, is the behaviour in which
  none lands. A session may be decided again with another verdict, as the code
  allows and the passport page's Simulate offers. `getPolicy` and a wallet's
  set-up read policy and claim and may upgrade the row, one await each.
  The document is sent to the attester in a step of its own, after the claim
  row; the inference's id is read by nobody. Two ghosts: `lost` remembers that
  something died, that the fallback stepped in or that a result named no
  session (`ReceiveUnaddressed`), and `overtaken` that a block was undone since
  a claim row last changed. `creStatus`, audit and transaction rows are
  written by the handlers and read by no decision; they are left out.
* `WalletPolicy` counts what was allowed today; `kycVerified` stands for the claim
  row the automatic upgrade of `getPolicy` asks about.
* `Concierge` starts where `DeployAll.s.sol` leaves the chain. A transaction is
  simulated, sent and waited for, and the receipt's status is not read, so
  something may be mined in between and a revert goes unnoticed. `Failures` lets
  a call throw before or after it took effect. `restore-owner-kyc` is one step,
  because all it writes belongs to the compliance core, which `House` leaves
  free. Tickets of amount zero are not modelled, and the reset of the demo world
  is in `DemoServer`. The ticket's `paid` flag says the same as its status and
  is left out.
* `House`. The owners are a set: the constructor refuses a duplicate
  (`HouseTreasury.sol:110`), and its check is assumed, not modelled.
* `HeroBackend`. The key's account is delegated, so the node keeps few of its
  transactions unmined and refuses more (`MaxInFlight`); `sendWithRetry` tries
  those again and throws anything else. Hand-given gas lets a transaction that
  reverts be mined with a receipt that looks like any other; `createIdentity`
  and `setRevoked` let the node estimate. A lost answer is resent by the
  transport and refused by the node for its nonce, which the code retries. One
  issuer vouches for every topic, so a claim is stored or not and its latch open
  or closed. What a transaction does when it is mined is the factory's and the
  token's own code (`FactoryReverts`, `TokenReverts`).
* `HeroPage`. An operation carries the page's state as its click captured it
  (`seen`) and ends when its last await does; a reload forgets all
  of them while the backend carries on. `Run` holds the operations that can be
  under way at once. Nothing keeps two of them from being the same button's: `busy` is one
  field, and a button it no longer names can be pressed again. Reads of the passport's
  parts, the two claims among them, are separate, and each may fail alone and
  then reads as empty. After a wallet is connected the restore from storage and
  the look-up of its identity are two steps. A transfer's row shows a hash
  whether or not tokens moved (`casaOk`). Buttons follow the page's state and
  never the chain's. The page's user is honest; the agent key is made per
  request. Holders may redeem their tokens at any time, outside the page.
* `DemoServer`. One actor's wallet, claims per topic with the year they were
  signed in, one gated pool. A block is a pool event; blocks without one are
  left out. Balances are left out, and an add or an exit is one step of
  liquidity. The reset wipes the chain in one step and redeploys it in another,
  so that reads in between find no contracts. The tickets' rails and the
  treasury's writes are `Concierge`'s; here they change only the feed.
* `DemoConsole`. A world's read asks for the clock, then takes the cache object
  and asks for the height; logs, gate and claims follow, one await each.

## 3. Runs

| Run | Instance | What it shows |
|---|---|---|
| `passport_two_issuers` | 2 issuers, 2 identities, 3 wallets, 1 topic, expiry, 2 instants | the registry's flag, list and index agree and its lists refine `TrustSet`; eligibility is exactly what issuers vouch for now; only a grant creates it; no claim lands while its issuer holds the latch; resolution of wallets never moves |
| `house` | 2 owners, threshold 2, in two scenes: two payments of 1 mUSD; or one payment, caps 0 and 1, expiry, budget, pool and liquidity | approvals are distinct owners; a payment is paid once, as approved; two approved payments compete for one balance; owners cleared now can complete any quorum; both rails close to the agent when the mandate or an owner's clearance goes; the cap binds each swap |
| `transfer_policy` | 3 requests at a time, amounts 1 and 3, limits 1, 2 and 3 | the daily limit can be overshot by intents in flight, by so much and no more; a block that nothing in flight can disturb is final |
| `pipeline` | 2 handlers, 2 workflows, 2 KYC sessions and an accreditation, in three scenes: two workflows racing each other and a reader of the policy; two handlers racing one workflow; or anything dying, reverting, unaddressed or settled by the fallback | rows run ahead of the chain by unnoticed reverts alone; where nothing was lost, at rest every claim says what was sent for one of its sessions, and a rejected wallet is blocked unless a late upgrade undid it |
| `pipeline_settles` | 1 handler, 1 workflow, a KYC and an accreditation, verdicts again and again, fairness | a session whose result arrived is completed |
| `unblocked_wallet` | 2 KYC sessions, 1 handler, 2 workflows, nothing lost | violated: a rejected wallet can end up unblocked |
| `concierge_rails` | 2 tickets, 1 clerk, amounts 1 and 2, own or foreign vendor, failing calls | every coin the agent parts with is one ticket's, once, to the plumber; paid means paid on chain |
| `concierge_approvals` | 2 tickets, 2 clerks, money for one payment, no failures | no quorum is left waiting, nor anything shown as executed that is not, while the treasury can pay it |
| `misnamed_payment` | as `concierge_approvals` | violated: a ticket can name another ticket's payment |
| `hero_page` | 1 wallet, 1 agent, 2 identities, 2 handlers, 2 attempts, 1 transaction unmined at a time, 2 operations at once, 1 mishap, fairness | answers name the factory's identity; mints are paid for; an answered agent is whole; what is delegated is earned; an answered revocation is on chain and leaves nothing but redeeming; no button stays busy |
| `demo_console` | ana or the concierge, either console, one other client, 2 requests, 1 mishap, fairness | no pool event is missed; a verification answered is one the gate sees; the page catches up |
| `doubled_positions` | the same with requests that overlap | violated: overlapping refreshes count events twice |

Bounds. Two issuers, two identities
and three wallets (two persons and an agent, in any roles) are the fewest for a
claim to be presented at the wrong place or a wallet to be re-linked; two
instants with expiry 1 make a claim valid at first and expired later. One topic,
one signing key and a cap equal to the number of issuers keep that instance
small; other caps, topics and keys, and lists of any length with removals in
their middle, are covered by the proofs. The scenes of `house` and `pipeline`
are state predicates of their MC modules (the next-state relation of `MCHouse`
keeps to them, a CONSTRAINT does for the pipeline, where at most two different claims are sent): a behaviour goes on while it
lies within one of them, and may pass from one to the other where they overlap.
Once something was lost or reverted, there is one KYC verification and the
pipeline's wallet gets a policy row from a block alone, since the invariant about
the policy speaks of runs without loss. Two payments and
one approved balance are the fewest for competition. Three requests let one
overtake two that are both past their reads; amounts 1 and 3 against limits 1, 2
and 3 fit, fill and exceed. Two handlers and two workflows are the fewest in
which a result overtakes its own request and two results meet. The concierge's
approvals run keeps 3 mUSD against two payments of 2, so exactly one can be
paid, by whichever clerk comes first. The passport contract's answer is
one status in the pipeline's runs because no decision reads it. On the hero
page two handlers are what two clicks, or a click and a reload, keep busy; one
World credential is pressed (`Pressed`), since both end in the same claim.
A CONSTRAINT keeps the operations under way, faults, mishaps, redeemed tokens and
the agent's record read at two together, so that two operations meet, or one and
whatever may go wrong with it; no action with fairness adds to them, and no fair
behaviour is cut short. One unmined transaction makes every
second one wait or be refused, two attempts let it be refused for good; one
mishap is a lost answer, a late receipt, a failed read or a reload. No more identities
are created than `Identity` has. On the
consoles two requests of a page or another client, with the poll and one refresh
after a button, are the fewest for two refreshes of the log, a reset and a read,
or a verification and a latch to overlap; a mishap fails any call. `MaxTime`,
`MaxPayments`, `MaxScrip`, `MaxTickets`, `MaxMishaps` (`MaxFaults`) and
`MaxRequests` bound the models and nothing in the code; each is a guard of the
actions that would exceed it.

Fairness. `pipeline_settles` assumes that a server goes on with what it has
begun (weak fairness of each handler's and each workflow's own steps), and that a
trigger is accepted in the end. The latter is strong fairness because the
workflow service accepts every request while the model has few slots, which must
not keep one handler waiting for ever behind others. Nothing fails in that run:
with failures the property is false and the code claims no retry. `hero_page`
assumes that blocks are mined, that backend handlers go on, and that the page's
promises settle; `demo_console` that the server serves what was posted, that
calls are answered or fail, and that the timer of the poll fires. Nobody is ever
obliged to click or send a request, and no mishap is obliged to happen.

The three violated runs are disagreements between text and code, recorded as
findings.

* `TransferPolicyBanner.tsx:29` tells the user of a rejected passport that the
  wallet is blocked. `upgradeAfterKyc` (`wallet-policy.service.ts:99-107`) and
  `getPolicy` (`:34-45`) read the row, then write it: an upgrade that read before
  the block of another session's rejection, or of a second verdict of the same,
  is written after it.
* `chain.ts:362` calls what the simulation returns "proposePayment's new id".
  It is not when another proposal is mined between simulation and transaction,
  or when the transaction reverts; the ticket then names another payment.
* `chain.ts:317-318` calls the cached logs "the source for pool liquidity,
  per-actor positions and last price". `refreshLogs` awaits between reading
  `nextBlock` and writing it: two requests that refresh at once append the same
  events, and positions are counted twice until the world is reset.

Three behaviours seen on the way that no text of the repository promises away: a
claim or a sync that reverts leaves the rows ahead of the chain and nothing
notices; a session whose attester call fails stays PENDING, and its wallet IN_PROGRESS; and
the fallback sync of a rejected KYC does not look at the transfer policy, so the
wallet is not blocked (`verification.service.ts:317-345`).

## 4. Proofs

The proofs hold for every finite set of issuers and owners and any sets of
identities, topics, wallets, keys, amounts, policies, tickets, clerks, sessions,
handlers, workflows, posts and request slots (`OvershootIsBounded` asks for
finitely many request slots, since it sums over them). They start from the named
assumptions on constants, which every run evaluates: `NullAssumption`,
`NumberAssumption`, `HouseAssumption`, `NameAssumption`, `ConciergeAssumption`,
`DeploymentAssumption`, `PolicyAssumption`, `PipelineAssumption`,
`ServerAssumption`, `ConsoleAssumption`, `PageAssumption`. They say that null values are not
members, caps and times are naturals, the threshold is between 1 and the number of
owners, the agent and the vendor are wallets of their own, the limits a wallet
may set are finitely many naturals (in the code they are doubles), a post to
the demo routes has passed the route's own validation.

* `PassportProofs`, the registry. The inductive invariant is type correctness together
  with `IndexMatchesList` and `ListMatchesFlag`: without the index, the flag says
  nothing about which entry the removal moves; without duplicate-freedom (a
  consequence of the index) the set of list members after a removal is unknown.
  The refinement of `TrustSet` follows from it.
* `PassportProofs`, the five contracts. `PassportImplementsRegistry` shows every step of the
  composition is a registry step or stutters there, which carries the registry's
  theorems over, `IndexMatchesList` and the refinement of `TrustSet` among them. The
  counter needs `CountMatchesClaims` for the decrement to stay in range, so type and counter are proved together; `ClaimsAreBound` and
  `ResolutionConsistent` are inductive beside it. `EligibilityCorrect` then needs
  `ListMatchesFlag` (the loop walks the list, the meaning is about the flag) and
  `ClaimsAreBound`.
  Three action properties follow step by step. `LatchHolds`: a claim that lands
  was asked for by `submitClaim`, which asks latch and registry.
  `ResolutionStays`: only an agent's link is ever dropped. `EligibilityIsGranted`
  compares what vouches for a topic before and after a step that grants nothing:
  the same claim vouched already, because time only runs out.
* `HouseProofs`. The inductive invariant is the type invariant (no balance goes
  negative) with `QuorumIsDistinctOwners`. The three action properties - approvals are final, the
  treasury pays what was approved, the kill switch - are proved per action.
  `CapBinds` follows from what the hook was asked before the pool moved.
* `ConciergeProofs`. Each call a handler makes is a step of the house, so the
  house keeps its types, its quorums and `TreasuryPaysWhatWasApproved` under any
  number of handlers; the facts of `HouseProofs` are used there through an
  instance, whose assumptions are discharged first. The inductive invariant adds
  what a clerk knows of the payment in its hands (known; a quorum before it
  executes; settled before it reports) and that a quorum is in some clerk's
  hands until it is settled. Settled, executed or beyond what the treasury
  holds, is stable because no request of the app pays into the treasury.
  `PaidMeansReceived`, `ShownExecutedIsExecuted` and `NothingSitsApproved` follow.

  `CoinsAccounted` needs more than its statement, a pair of sums: that a ticket
  not yet swapped has paid nothing, that what its invoice says is what the ticket
  says once the client accepted it, and that a payment's vendor is the plumber
  (`Books`). Each step then changes one summand or none.
* `SumTheorems`. `FoldFunction` adds the values of a function in the order
  `CHOOSE` gives its domain, by a function recursive over the subsets of the
  domain. That the function exists is shown one cardinality at a time, and that
  the order is irrelevant by taking one element out of a smallest set for which it
  would matter. Neither is an induction over a predicate, which the provers could
  not instantiate: both are over a set of subsets, as a least element.
  What the models use is `SumUpdate`, `SumExtend`, `SumType` and `SumBound`.
* `WalletPolicyProofs`. Types first (a request past `ensurePolicy` finds the
  row). `BlockHolds` is proved per action. For `OvershootBounded` the
  inductive invariant says of every request about to be logged that its
  amount is within the highest limit, and of the sum what `OvershootIsBounded`
  says; the step that matters is the read of what was spent, which
  bounds one summand while every other is bounded by itself.
* `VerificationPipelineProofs`. No property speaks of the jobs under way and all of
  them are true because of these. `Core` says of each job what has been done
  before the step it is at (the session has a verdict; it is on the chain; it is
  synced; or that a transaction for it reverted) and that a session under creation
  is one handler's. `RowsFollow` needs no more and holds with everything lost,
  repeated, reordered or reverted: it bounds what rows may claim by what was
  sent, and the difference to the chain by the reverts nobody noticed.
  `Settling` adds who is about to move each row that is not final, as long as
  nothing was lost; `SettledRows` follows for any verdicts in any order.
  `RejectedIsBlocked` needs in addition that while the wallet of a rejected KYC
  is not blocked, a workflow is about to block it, the other claim is still open,
  or a block was undone since (`overtaken`). Without the last it is false, as
  the run `unblocked_wallet` shows.
* `DemoConsoleProofs`. The inductive invariant says of a refresh between its
  awaits what the cache held when the refresh took the height (`FetchFits`), of a
  verification what latch and clock were when its claim was signed
  (`PromiseFits`), and of the cache that it is complete up to `nextBlock` or the
  object of an earlier world. `EventsKept` and `VerifyCorrect` are two
  of its conjuncts spelled out.

* `HeroPageProofs`. The chain under the hero page only grows: a wallet keeps its
  identity, a name stays bound, claims and latches stay. The invariant of the
  backend therefore says of each request what the steps before the one it is
  at have left on the chain (`Past`), and of a request that has sent something that
  the transaction is unmined or has had its effect (`Effect`) - whatever was
  refused, resent or reported late, and although no receipt's status is read.
  `PoolFits` and `Alone` say that an unmined transaction is its request's own and
  that an agent is one request's, because its key is made for it. `PageInv`
  says of each operation of the page what it waits for (`OpFits`), that the page
  has an identity before it shows or asks anything about it (`Identified`), and
  that page and storage know only identities of the factory.
  `FactorysIdentity` and `AgentIsWhole` are read off at the last step of a
  request. `RevocationHolds` begins there too: a revocation that answers has
  closed the latch. From then on it uses that the chain only grows, so that latch
  and identity stay, and that of all steps only a burn lowers the balance of an
  account that is not eligible, while none raises it.
  `OneMintEach` is not inductive as it stands: `MintsFit` counts what was
  minted to an agent together with the mints that are unmined and those its
  request may still send, against one more than the lost answers so far.

What is only model-checked. `VerdictIsSettled`, `BusyClears` and
`PageCatchesUp` are liveness properties, and `QuorumStaysReachable` asks what is
ENABLED; both are out of the prover's reach. `DelegationIsEarned` is checked for
the one wallet of its run: with two in a tab it is false, because the effect that
restores a wallet's state (`hero/page.tsx:97-113`) sets what it finds and clears
nothing of the wallet before. Every other safety property of a run that passes,
the type invariants and action properties included, is stated by a theorem. The
three properties of the violated runs are false.

## 5. Plan

Done: the registry and the core; the house; the wallet policy; the verification
pipeline; the concierge runtime; the token, the resolver and World ID under the
hero page; the pool hook, the log cache and the demo routes under the consoles;
the safety properties of all of them proved, but for the two section 4 names.

Next, in this order:

1. `DeployedHouse`: the house with its owners cleared by the real core instead of
   a free environment, shown to refine `House`, so that `HouseProofs` speaks of
   the deployed contracts.
2. The passport page: its two polls and the policy it reads once.

## 6. Not modelled

Reason codes, events and views that format; role administration (roles are
fixed by the deployment scripts); allowances of `GatedERC20`, which no
program of the repository uses; the tenants of the resolver, ENS name wrapping,
string and JSON assembly; the Uniswap pool's pricing, ticks and salts; the
passport, verify and deal-room pages, the shell's own poll and components that
only display; tables no decision reads, the API's bootstrap, Prisma
migrations; rationales and messages of tickets. The
contracts the legacy adapter calls (`ClaimRegistry`, `CompliancePassport`,
`AccessGate`) are not in the repository.
