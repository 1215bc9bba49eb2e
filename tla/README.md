# Verification of the Trainova API

TLA+ models of the parts of Trainova where money, contract state, decisions and
scarce resources change hands, the TLC runs that check them, and the TLAPS
proofs about them. Paths below are relative to the repository's root; `API`
stands for `src/apps/api/src`.

Trainova is a marketplace that brings companies and AI trainers together: a
company posts a job request, trainers apply, take tests and sign a contract;
the contract's milestones are paid through an escrow held at Stripe; disputes,
coupons, subscriptions, invoices, ads, placements and e-mail campaigns hang off
that. The API is a NestJS application over PostgreSQL (Prisma); several
instances may run, and the state shared between two requests is the database,
the object store and Stripe.

Contents: 1 inventory, 2 modules, 3 runs, 4 fairness, 5 proofs, 6 statements
the code breaks, 7 what is abstracted, 8 what is not modelled, 9 plan.

## 1. Inventory

### Money

| component | state | operations | hard behaviour | what makes it correct |
|---|---|---|---|---|
| Milestone escrow, `API/payments/payments.service.ts`, `stripe.service.ts`, `webhook.controller.ts`; the admin's refund in `API/admin/admin-finance.service.ts` | `Milestone.status`, `PaymentIntent`, `Payout`, `Contract.status/completedAt`, `StripeWebhookEvent`; at Stripe: payment intents (PIs), transfers, refunds, events | `fundMilestone`, `releaseMilestone`, `refundMilestone`, `maybeCompleteContract`, `markMilestoneFunded`, `markPaymentIntentStatus` | every handler awaits Stripe between its check and its write; a process may stop between the two; Stripe delivers events late, repeatedly, out of order, concurrently | no status and no outgoing money without the money behind it; stages only advance; an acknowledged charge has funded its milestone; the contract completes with its last milestone and not earlier |
| Coupons, `API/coupons/coupons.service.ts` | `Coupon` (caps, `redeemedCount`), `CouponRedemption` | `preview`, `applyToMilestone`, `applyToSubscription`, `reverseForMilestone`, admin `update`/`remove` | last slot of a cap; preview long before the locked check; reversal reads before it locks | the counter is the number of rows; a commit fits the caps; a redemption is never replaced |
| Subscriptions, `payments.service.ts`, `admin-finance.service.ts` | `Subscription`; at Stripe: subscriptions and events | `subscribe` with its compensation, `cancelSubscription` of user and admin, `customer.subscription.*` events | retry under the same idempotency key; compensation after a failed transaction; stale reads around Stripe calls; late events | no subscription bills without a row; a row's status is one Stripe reported; a cancelled row bills nothing |
| Invoices, `API/invoicing/invoice.service.ts` | `InvoiceCounter`, `Invoice` | `issueForMilestoneFunding`, `issueForPayout` | concurrent issuance, unique-index races, rollback, new year | numbers of a year without gap or duplicate; an invoice is never replaced |
| Ad campaigns, `API/ads/ads.service.ts` | `AdCampaign` status, reason of a pause and budget, `AdTopup`, impressions, clicks | `submitCampaign`, `approveCampaign`, `rejectCampaign`, `pauseCampaign`, `resumeCampaign`, `deleteCampaign`; `startTopup`, `handleTopupSucceeded`, `handleTopupFailed`; `recordImpression`, `recordClickAndResolve` | an event before the row knows its PI; the budget is tested before it is charged; the owner's resume against the admin's pause | credit was paid, and once; overspending is bounded; no automatic step undoes a pause |
| Sponsored placements, `API/sponsored/sponsored.service.ts` | `SponsoredPlacement`, `sponsoredUntil` on its subject | grant, edit, delete, `selfPaidCheckout`, payment events, `expireDue`, `refreshSubject` | two refreshes of the mirror overlap; a late failed payment against an active placement | what boosts was paid; the mirror is the latest active end |
| Matching, `API/matching/matching.service.ts`, `API/trainers/trainers.service.ts` | profile, skills, job request, weights of placements | the five scores and their weights; `updateMe` replaces the skills in two statements | a score computed between the two; ratios, ranges and nullable columns at their edges | scores in range; being better never costs; a boost is bounded and cannot be bought past a much better rival |

### Contracts and people

| component | state | operations | hard behaviour | what makes it correct |
|---|---|---|---|---|
| Disputes, `API/disputes/disputes.service.ts` | `Dispute.status`, `Contract.status` | `raise`, `withdraw`, `adminUpdate`, `maybeRestoreContractStatus` | two parties and admins act on what they read before their transaction; the contract row is shared with the escrow | one active dispute; the contract given back as it was; terminal disputes stay so |
| Applications and tests, `API/applications/applications.service.ts`, `API/tests/tests.service.ts` | `Application.status`, `TestAttempt`, `TestTaskResponse`, `AuditLog` | `apply`, `updateStatus`, `assignTest`, `startAttempt`, `submitAttempt`, `gradeAttempt`, `remove` | a decision while the trainer submits; two gradings; a test removed under an attempt | the application, its attempt and the points agree; every move is audited; a grade stands |
| Interviews, `API/interviews/interviews.service.ts` | `InterviewMeeting` | `create`, `cancel`, `reschedule`, `complete` | two transactions that take no lock both find a meeting SCHEDULED | a meeting has one successor; what ended stays as it ended |
| E-signature, `API/e-signature/contract-documents.service.ts` | `ContractDocument`, `ContractSignature` | `generate`, `sign`, `decline` | both parties at once; expiry; a write that its own transaction rolls back | a document says what its signatures say, for good |
| Verification, `API/verification/verification.service.ts`, `API/admin/admin.service.ts` | `VerificationRequest`, the `verified` flag | `submit`, `review`, the admin's own flag | an approval between the reads and the write of a submission | verified by an approval; one request waits; nothing waits for a verified profile |

### Platform

| component | state | operations | hard behaviour | what makes it correct |
|---|---|---|---|---|
| E-mail campaigns, `API/email-marketing/email-marketing.service.ts` | `EmailCampaign`, `EmailCampaignSend` | schedule, cancel, delete, `sendCampaignNow`, `processDueCampaigns`, the run | a claim against an edit that was read earlier; a crash between a mail and its row | one run; each recipient gets one mail; a run ends |
| Drip sequences, same file | steps, enrollment | add, delete, enrol, cancel, `processDueDripSteps` | overlapping ticks; steps edited under a tick | each step mailed once and none skipped; a cancelled enrollment gets no further mail |
| Tokens, `API/auth/auth.service.ts`, `API/admin/admin.service.ts` | `EmailVerificationToken`, `PasswordResetToken` | issue, use, the admin's verification | two clicks; two issues; expiry between read and claim | a link works once, in time, and of several the newest alone |
| Admin roles, `API/admin/admin.service.ts` | `User.role`, `User.status` | `setUserRole`, `setUserStatus` | a role changes under a request that was authorised with it | seniors are changed by SUPER_ADMINs only, and one of them is left |
| Model connections, `API/models/models.service.ts` | `ModelConnection` | `create`, `update`, `remove`, `test` | a patch checked against a row that changes; a probe that answers late | the stored configuration is usable; a status was earned by a probe |
| Exchange rates, `API/currency/currency.service.ts` | the stored rates, the refresh in flight | `getRates`, `refreshOnce` | several calls share one refresh that may fail | one refresh at a time; nobody waits for a refresh that is over |
| Uploads, `API/uploads/uploads.service.ts`, `API/companies/companies.service.ts` | logo and avatar keys, `TrainerAsset`, `ApplicationAttachment`, stored objects | `presign`, `commit`, delete, removal in the background; `updateMe`, which writes `logoUrl` past them | two commits replace the same key; a removal that fails or is overtaken; a URL typed or pasted into the logo between | what a row shows is stored; what a commit replaced or a request deleted does not stay |

How they interact: escrow and coupons meet in the transactions of
`fundMilestone` (apply) and `refundMilestone` (reverse); escrow and disputes in
the `Contract` row, which both write; escrow and invoicing in
`markMilestoneFunded` and `releaseMilestone`, whose issuance failures are caught
and logged and never flow back; subscriptions and coupons in the transaction of
`subscribe`; placements and matching in the weight of the active placements.
Stripe calls back into escrow, subscriptions, ads and placements through one
webhook, which records an event, dispatches it, and marks it processed last.
Applications, interviews, documents and verification each keep rows of their
own: what one has done is a precondition of the next, never state both write.

### The rest

Contract creation, tax, Connect, payouts after the transfer, invoice rendering,
chat, notifications, reviews, workbench, AI assist, CMS, settings, job requests,
users and companies, the contact form, the HTTP layer, the schema, the web
application and the tests: section 8. PROJECT.json lists every component with
its status, and every hazard at its line.

## 2. Modules

| module | models |
|---|---|
| `Escrow` | the milestones of one contract: three handlers of the company, the admin's refund, the `payment_intent.*` webhook, Stripe |
| `EscrowHistory` | `Escrow` with a history variable, `contested`: the milestones of which two settlements overlapped or one stopped half way; the mapping to the ledger |
| `EscrowLedger` | the abstract promise: each charge collected and returned at most once, nothing out that did not come in, and a milestone's money one way unless it is contested |
| `Disputes` | the disputes of one contract and the status they mirror on it |
| `Engagement` | `Escrow` and `Disputes` side by side over the same contract row |
| `Coupons` | redemptions under the coupon's row lock, the admin's edits |
| `CouponSlots` | the abstract promise: a slot is taken when the terms allow it and given back once |
| `Subscriptions` | the subscriptions of one user, the admin's cancel, `customer.subscription.*` |
| `Invoicing` | issuance: the counter of a year, the unique indexes |
| `InvoiceBook` | the abstract promise: an entity is entered once, at the end of the list of a year |
| `Ads` | one campaign: review, pause, top-ups and their events, views and clicks |
| `Sponsored` | the placements of one subject: grants, checkout and its events, expiry, the mirror |
| `Matching` | one trainer, one job, the score and the boost |
| `Hiring` | one application and the tests of its request |
| `Interviews` | the meetings of one conversation |
| `ESign` | one document and its two signatures |
| `Verification` | the requests of one profile |
| `EmailCampaigns` | one campaign: its edits, its claims, its run |
| `DripSequences` | one sequence and one enrollment |
| `AccountTokens` | the mailed links of one user |
| `AdminRoles` | the roles and status of all users |
| `ModelConnections` | one connection |
| `Rates` | the rates in one process |
| `Uploads` | the files of one owner, and the other writer of a company's logo |
| `EscrowProofs`, `EngagementProofs`, `CouponsProofs`, `SubscriptionsProofs` | theorems about the module named; `EscrowProofs` about `EscrowHistory` too |
| `InvoicingProofs`, `PromotionsProofs` | theorems about `Invoicing` and `EmailCampaigns`; about `Ads`, `Sponsored` and `Matching` |
| `ContractsProofs` | theorems about `ESign`, `Verification`, `Interviews`, `Hiring`, `Disputes` |
| `AccountsProofs` | theorems about `AdminRoles`, `AccountTokens`, `Rates`, `ModelConnections`, `Uploads`, `DripSequences` |
| `MCEscrow`, `MCEngagement`, `MCCoupons`, `MCSubscriptions` | constants and symmetry for TLC |
| `MCInvoicing`, `MCPromotions`, `MCContracts`, `MCPlatform` | several modules for one run: see section 3 |

### State and steps

Rows of the database are functions from ids to statuses; what Stripe keeps is a
variable of its own. `req`, `hook` and `call` are the requests, deliveries,
ticks and transactions in flight: a slot holds the label of the step that comes
next and exactly the values the handler read earlier and will still use (local
variables that survive an `await`). An action is one database statement, one
transaction, or one call to Stripe, a provider or the store. Everything may run
between two actions of a handler. A handler reads in its first step, so its
guards are the code's early returns; a refusal that changes nothing is not an
action, unless it follows a step that did change something. A slot that returns
to idle without its remaining steps (`RequestFails`, `CallFails`, `Stops`,
`Fails`, `Abort`) is a crash, a timeout or an error half way.

Variables the code does not have are ghosts and are named as such where they are
declared: `missed`, `raced`, `overlapped`, `contested`, `uses` and the like. They
record that two handlers of one row overlapped or that an event came too early,
so that a property can say what holds until then, and no guard reads them. Section 6 says
what holds no longer after it.

*Escrow.* `FundStart` (checks) → `FundCharge`/`FundReplay` (the Stripe call
under `fund-<milestone>-<code|none>`) → `FundTx`/`FundTxRollback` (upsert of the
row with the coupon) → `FundMark` when the PI had succeeded. `ReleaseStart` →
`ReleaseTransfer` → `ReleaseTx`/`ReleaseTxConflict` → `CompleteCount` →
`CompleteUpdate`; `RefundStart` → `RefundPick`/`RefundNoPi` →
`RefundStripe`/`RefundRejected` → `RefundTx` → completion for the company and
nothing for the admin. `HookStart` → `HookMark` → `HookFund` → `HookDone`, with
`HookFails` at any point: the event row's `processedAt` is written last, so a
failed delivery is repeated. `PiSucceeds`, `PiDeclined` and `PiCanceled` are
Stripe on its own. `Init` is the contract that `createContract` inserts: ACTIVE,
its milestones PENDING; the checks before that insert have no model.

*Disputes.* `RaiseRead` reads the contract's status; `RaiseCheck` looks for an
active dispute; `RaiseTx`/`RaiseConflict` insert under the partial unique index
on active disputes. `WithdrawRead`/`AdminRead` read the dispute;
`WithdrawTx`/`AdminTx` update it under a `where` that repeats the status;
`UpdateRefused` is that `where` matching nothing. `Complete` stands for the escrow.

*Coupons.* `Preview`/`PreviewRefused` run without a lock; `ApplyLock`,
`ApplyCheck`, `ApplyWrite`/`ApplyConflict` are the transaction of
`applyToMilestone`, `ReverseFind`, `ReverseLock`, `ReverseWrite`/
`ReverseConflict` that of `reverseForMilestone`; a transaction may `Abort`.
Rows have ids, because the reversal deletes by id what it found before the lock.

*Subscriptions.* `SubscribeStart` → `SubscribeCreate`/`SubscribeReplay` →
`SubscribeTx` or, after `SubscribeConflict`/`SubscribeCouponRefused`,
`SubscribeUndo`. `Cancel*` is the user's cancel, `AdminCancel*` the admin's,
which swallows Stripe's errors. Events carry a snapshot and may be applied late.

*Invoicing.* `FindNone` → `ReadYear` → `Counter` (increment, which locks the
counter's row) → `Insert`/`Conflict`; `Fails` rolls the number back.

*Ads.* The owner's and the admin's edits are `EditRead` → `EditWrite` (or
`DeleteWrite`), which writes by id whatever the row has become. A top-up is
`TopupStart` → `TopupCharged`/`TopupWaits`/`TopupRefused` → `TopupSave` or
`TopupFailed`; its credit is a transaction, `CreditClaim` → `CreditCommit`, that
the request and the webhook both run. A view is `ImpressionRead`/`ClickRead` →
`ViewCharge` → `ViewPause`: it tests the budget, charges it, then pauses.

*Sponsored.* Every change of a placement ends in `RefreshFirst`/`Refresh`, which
read the latest end inside the transaction, and `RefreshCommit`, which writes
it: two of them may overlap at READ COMMITTED. A checkout is `CheckoutStart` →
`CheckoutCharged`/`CheckoutWaits`/`CheckoutRefused` → `CheckoutSave`; the webhook
claims the placement with `Activate` or puts it back with `Reset`; `SweepRead` →
`SweepTx` is the lazy expiry.

*Matching.* `Parts` are the five scores, `Organic` their weighted sum, `Combine`
the boosted and rounded score. `UpdateSkills` → `DeleteSkills` → `CreateSkills`
are the statements of `updateMe`.

*Hiring.* Each handler is a `…Read` and a `…Write` or `…Tx`; grading is `GradeTx`
(writes the points, reads their sum) and `GradeCommit`, since two gradings may
overlap. `APPLICATION_STATUS_TRANSITIONS` is the code's table.

*Interviews, ESign, Verification.* `FirstRead` → `TxRead` → `Cancel`,
`Reschedule` or `Complete`; `Begin` (takes the lock and reads) →
`Commit`/`RollBack`; `SubmitProfile` → `SubmitCheck` → `SubmitCreate`, and
`ReviewRead` → `ReviewTx`, a conditional claim.

*EmailCampaigns, DripSequences.* A campaign is claimed by one conditional update
(`sendCampaignNow`, `processDueCampaigns`); the run reads the segment, which may
not parse (`Unreadable`: FAILED, and nobody is mailed); then `ReadBatch`, per
recipient `SendRow` → `Mail` → `MarkSent`, and `FinishRun`. A tick is
`TickRead` → `Mail`/`MailFails` → `Advance`/`Retry`.

*AccountTokens, AdminRoles.* `IssueRead` → `IssueInvalidate` → `IssueCreate`, and
`UseRead` → `UseTx`; `setUserRole`/`setUserStatus` (authorised with the role of
that moment) → `TargetRead` → `SetTx`, which asks for the target's role again.

*ModelConnections, Rates, Uploads.* `UpdateRead` → `UpdateWrite` and `TestRead` →
`TestWrite` around the provider's answer; `loadFromDb` → `Fresh` or `refreshOnce`
→ `Fetched` → `Persist` → `Refreshed`/`RefreshFails`, each what runs between two
awaits of one process; `CommitHead` → `CommitRead` → `CommitWrite` → `Tail`, with
`Remove`/`RemoveFails` in the background and `Put` by the client. `updateMe` of
the company is one write of `logoUrl`: none, a URL from `Elsewhere`, or the URL of
any key that was handed out, the owner's assets among them; it removes nothing.
The ghost `removable` holds the keys whose objects the uploads are to remove when
no row refers to them: a key enters when a commit or `updateMe` writes it and leaves
with `updateMe` taking it out of the logo, with a removal that fails, a request that stops and a
key put again. `raced` holds the keys of rows of which two requests, or a request
and a removal, overlapped, or that were given the URL of an asset or of an object
that is gone or going.

Definitions introduced as "a variant the checks refute" are plausible bugs of
the definition after them; each property is refuted under one of them, which
shows that it says something about the code. No specification uses them.

## 3. Runs

| run | instance | question |
|---|---|---|
| `escrow_race` | 1 milestone, fundings with and without coupon `c1`, 2 requests that may stop, 1 delivery | can any interleaving, retry or stop move money or a status without a charge, or move a milestone back? does money move as `EscrowLedger` says? |
| `escrow_contract` | 2 milestones, 2 requests, 1 delivery | does the contract complete with its last milestone, although count and update are two statements? |
| `escrow_funding` | 1 milestone, 2 requests that may stop, the admin refunds too, 1 delivery, fair | does a charge fund its milestone in the end? |
| `engagement` | 2 milestones, 1 request that may stop, 2 disputes, 1 call | do escrow and disputes together implement `Disputes`, without completing early? |
| `coupons` | 2 coupons, 3 targets of 2 users, limits 0 and 1, 3 rows, 2 transactions | counter, caps; do the transactions implement `CouponSlots`? |
| `subscriptions` | 1 plan with a coupon, 2 requests, 2 deliveries, up to 2 failures | statuses from Stripe, cancelled rows bill nothing, no orphan |
| `invoicing` | 3 entities, 3 issuances, 2 years; a campaign of 3 recipients in batches of 2, 2 calls, 1 failure, fair | numbers; do the issuances implement `InvoiceBook`? one mail each, and the run ends |
| `promotions` | 1 top-up or 1 grant and 1 checkout, 2 calls, 1 failure, 2 days; a job of 2 skills, rates and counts up to 2, weights 1 and 50, 2 edits | what is credited or boosts was paid; overspending and boosts are bounded; pauses stand; the mirror is exact |
| `contracts` | 1 test of 3 tasks; 3 disputes, meetings or verification requests; 2 days; 3 calls | does what two parties and an admin decide around a contract stay consistent and final? |
| `platform` | 3 steps, tokens or users, 3 readers of the rates, patches of 2 fields, 2 logos and 1 asset, 2 calls, 1 failure | drips, links, roles, connections, rates, files |
| `escrow_paid_and_refunded`, `subscriptions_retry` | smallest instance that shows it | section 6 |

*Several modules in one run.* `MCInvoicing`, `MCPromotions`, `MCContracts` and
`MCPlatform` hold modules that share no row. A variable `focus`, fixed by the
initial state, says which of them moves, so the state spaces add up and every
behaviour is one module's. A property of an instantiated module is restated by
its name in the MC module.

*Properties that conjoin.* Where several facts make one promise they are one
property with named parts: `CreditIsExact` is `CreditedWasPaid`, `CreditedOnce`
and `AcknowledgedIsCredited`; `RecordsAgree` is `SubmittedHasAttempt` and
`ScoreIsSum`; and so on. Each part has its comment and its line of code in its
module, and the type invariant of the module is in the conjunction.

*Abstract specifications.* `EscrowLedger`, `CouponSlots` and `InvoiceBook` say what
a component promises without its requests, locks and rows, and for
`Engagement` the detailed `Disputes` says what may happen to a contract; each is a property of the detailed
module under a refinement mapping. `EscrowLedger` has no rows, statuses or keys of
requests: what is collected, paid and returned is mapped to what Stripe has, per
charge (a milestone and a code). It forbids a second return of a charge, a payout
without a charge and, for a milestone that is not `contested`, to pay out and
return, or to return two charges. `contested` is an input of the ledger (`Contest`):
which milestones it holds is decided by `EscrowHistory`, where two requests past
their FUNDED test overlap or one stops between Stripe and its transaction, which
are the two ways in which this code sends the money twice. No failure, overlap,
retry, code or redelivery short of that does. `CouponSlots` counts the slots that are taken,
where the code tests a counter: the mapping sends `taken` to the redemption rows
and `count` to `redeemedCount`. It has no step that moves a slot from one coupon
to another or gives back that of a subscription. `InvoiceBook` has no counter: the
next number of a year is the length of its list and one more. An issuance that
read the clock before the turn of the year still enters its invoice in the old
one, so the book allows `1 .. year`.

*Symmetry.* Slots, coupons and disputes are interchangeable where the `.cfg` says
so; in `coupons` the two milestones are too, because one user pays for both.

*Deadlock.* `CHECK_DEADLOCK FALSE` everywhere: when every milestone is settled,
every event delivered, every mail sent and every slot idle, the system rightly
has nothing left to do.

*Why the bounds are enough.* A race needs two actors: a third adds only repeats
of the same pair, except for disputes, invoices, meetings, verification requests
and readers of the rates, where three are checked because a third may end what
the first two contend for. Milestones touch each other only in the count of open
ones, so two are needed there and one elsewhere; idempotency keys differ per
milestone. Two codes (one and none) give a milestone two keys. A limit of 1
makes every second redemption contended, 0 is the code's "unlimited" per-user
limit and a cap that is used up. Three rows allow a redemption, its reversal,
and a new one that a stale reversal meets. Three recipients in batches of two
give a full batch and a last one. Three steps of a drip allow one to be deleted
between two. Two logos replace one another; one asset is deleted and committed
again. Weights 1 and 50 are the ends of the code's range. `PlacementBound` keeps
`Sponsored` finite in time: either a checkout whose calls may fail, or one beside
a grant up to the first refreshes that overlap, after which `MirrorIsExact`
says nothing any more. The bounds on slots limit what overlaps, not how often a
handler runs: a slot is reused, and a stopped request is a fresh retry. The
admin's refund overlaps other requests in `escrow_funding` alone; the theorems of
section 5 cover it, `EscrowImplementsLedger` among them.
`SettledMeansCompleted` holds only in the stated instance (section 6 says what
breaks it).

## 4. Fairness

Safety is checked without fairness, with two exceptions.

`ChargeFundsMilestone` is checked under `FairHistorySpec` of `EscrowHistory`: each
step of a webhook delivery of an event is strongly fair. The code justifies it: an error
of a delivery is rethrown (`API/payments/webhook.controller.ts:103-113`), so
Stripe sees a failure and delivers the event again, and a delivery that is tried
again and again is not assumed to fail for ever.

`SendingEnds` is checked under weak fairness of `Continue`, the next step of a
campaign's run that has begun: the run is one loop of one process, and the next
step of a loop is taken unless the process stops, which is the action `Stops`. The
property says of a run that nothing stops that it finishes; the code has nothing
that resumes one that was stopped, and the campaign then stays SENDING.

Nothing is assumed of requests: a client may go away and a process may stop, so
a request may stand still for ever at any step, also in an instance that has no
explicit failure.

## 5. Proofs

`tlapm` checks every obligation; the constants are arbitrary within the named
assumptions of the modules, which say no more than that bounds are numbers, that
a missing value is no value, and that what is counted is finite: the targets of a
coupon (`CouponAssumption`), the calls of a campaign (`CallsAssumption`), its
recipients (`CampaignAssumption`), the tasks of a test (`TasksAssumption`), the
steps of a drip (`StepsAssumption`), the skills a job may list
(`MatchingAssumption`, which also has the weights in 1 to 50, as `clampWeight`
makes them). `KeysAssumption` says that a key of the
store is not both a logo's and an asset's. Each proof has the same form: a
strengthening, `Init` implies it, one lemma per action that does something, and a
last step that puts them together. TLC has checked each strengthening as an
invariant of its run before. Why one is needed is that a handler acts on what it
learned earlier:

* `EscrowProofs`: `ReqKnows` says what each label implies. At `release.tx` the
  transfer exists, at `refund.tx` a refund exists, at `complete.update` no
  milestone is open, at `fund.mark` the PI was charged. None of these can be
  taken back by others (lemmas about `Kept`), which is why the stale reads of
  the code do not break the invariants. `HookKnows` says the same for deliveries
  and `StripeTellsTheTruth` that replayed answers and events are about real
  charges. Theorems for either value of `AdminRefunds` and `RequestsMayFail`:
  `TypeCorrect`, `MoneyIsBacked`, `StatusIsBacked`, `SucceededIsCharged`,
  `AcknowledgedIsFunded`, `CompletedIsSettled`, `OrderIsKept`. `SettledIsCompleted`
  holds under the hypotheses of its run, which section 6 explains: requests do not
  stop half way and only the company refunds (some request that will complete the
  contract is in flight when its last milestone is settled).
  `EscrowImplementsLedger` has no hypothesis: for any milestones, codes, overlapping
  requests, deliveries, refunds of the admin and failures, every step is `Collect`,
  `PayOut`, `Return` or `Contest` of `EscrowLedger` or a stutter. Its invariant is
  `LedgerInv`: an uncontested milestone is `Calm`, that is, one request at most is
  settling it, finds it FUNDED, and money of it that moved is either in the status
  or in the hands of that one request; hence the one settlement finds the money
  untouched (`Alone`). `PaidIsSettled` keeps a payout row from making the
  transaction of that settlement conflict (`payments.service.ts:470-508`).
  `CollectOnce` and `NotGivenBack` speak of charges, contested or not.
* `EngagementProofs`: `SettledInv` says that a request about to complete the
  contract found no open milestone, whatever disputes made of the contract's
  status since. Theorems: `CompletedStaysSettled`; `DisputesImplemented`, the
  refinement: beside disputes the payments only ever `Complete` an
  ACTIVE contract.
* `CouponsProofs`: `CallKnows` says that a transaction past its lock step holds
  the lock, that a checked redemption is still allowed while it does, and that a
  row about to be deleted belongs to the coupon that was locked; `IdsAreOld`
  that ids are handed out once. Without the ids a reversal could decrement the
  wrong coupon. Theorems: `TypeCorrect`, `CounterIsExact`, `NotReplaced`,
  `WithinCaps`, and `CouponsImplementSlots`: `ApplyWrite` is `Take`,
  `ReverseWrite` is `GiveBack`, the admin's edit is `ChangeTerms` and every other
  step a stutter. That needs the exact counter, since `CouponSlots` counts the
  slots themselves, and that what is reversed is a milestone (`MilestonesReverse`).
* `SubscriptionsProofs`: `StripeTellsTheTruth` relates events and replayed
  answers to what Stripe has, `ReqKnows` says that what a request will write was
  `Reported` (or `StatusTold`, for the admin's older read), and `InHands` that a
  subscription without a row is held by a `subscribe` that will write it or
  compensate. Theorems: `TypeCorrect`, `StatusIsStripes`, `CanceledIsOver`,
  `NoOrphans`.
* `InvoicingProofs`: `HoldsNext` says that an issuance about to insert holds its
  year's counter and carries the next number. Theorems: `TypeCorrect`,
  `Sequential`, `NeverReissued`, and `InvoicingImplementsBook`: `Insert` is `Enter`
  and every other step but `NewYear` a stutter. `BookInv` adds what the mapping
  needs: the counter of a year is the number of its invoices (`CounterIsLength`),
  and no issuance holds a year to come (`YearHasCome`). For the email campaigns `MailsInv` says
  until when runs exclude each other (`RunsExclude`), that a mail shows in its
  row or is about to (`Shown`), and that the rows with an outcome are those of
  the recipients behind the run, which has counted them (`Progress`); that no
  batch leaves a recipient out is a fact about minima of finite sets; a run whose
  segment cannot be read ends before the first (`UnreadableKeeps`). Theorem:
  `EveryRecipientOnce`.
* `PromotionsProofs`: of campaigns, `Sound` relates row, credit and charge of a
  top-up, `Knows` what a call relies on, `Alone` that one call creates a top-up
  and one transaction claims it; `EditsAllowed` that an owner's resume read no
  admin's pause; `WithinReach` that what has been overspent and the prices of
  the views in flight stay within one price per call. Theorems: `CreditsAreExact`,
  `PausesAreKept`, `OverspendStaysBounded`. Of placements, `PlacementInv`
  relates a placement to its charge and to what each call read of it, and
  `MirrorInv` says that a call about to write the mirror holds the latest end of
  the placements as they are. Theorems: `PlacementsArePaid`, `MirrorStaysExact`.
  Of `Matching`, `MatchInv` adds to the types that no more applications were
  accepted than sent; the rest is arithmetic. What `Math.round` returns is the
  largest number that half a point above the ratio covers (`PercentIs`), hence
  the larger ratio never has the smaller percentage (`PercentGrows`); with a lemma
  per score, and sums that grow with their terms (`SumGrows`), a gain never lowers
  the weighted sum (`OrganicGrows`) nor the boosted one (`CombineGrows`).
  Theorems: `BoostIsFair` of any two matches, `RanksAreFair` for any job,
  `RankingStaysFair` of the run's specification.
* `ContractsProofs`: for `ESign` that the lock leaves one transaction, which
  carries the status its signature makes (`OneTransaction`, `TransactionFits`);
  for `Verification` that a submission of a profile that was verified since is
  counted (`SubmissionsAreEarly`); for `Interviews` that a meeting that was never
  in two transactions at once is as its one transaction read it (`AloneIsFresh`);
  for `Hiring` what each request knows of the attempt it will write, and that a
  score is the number of points it sums up; for `Disputes` that what an admin's
  request will write follows the transition table from what it read
  (`AdminKnows`), the conditional update does the rest. Theorems:
  `DocumentMatches`, `SignedForGood`, `EarnedByApproval`, `MeetingsEndOnce`,
  `HiringRecordsAgree`, `HiringHistoryStands`, `ContractMirrors`,
  `LifecycleIsKept`, `OneIsActive`, `ContractIsRestored`.
* `AccountsProofs`: for `AdminRoles` that, one request of a SUPER_ADMIN at a time,
  its actor stays one and is not its target (`RolesInv`); for `AccountTokens`
  that a token that worked is consumed (`Once`) and that an issue alone finds no
  working token when it creates its own (`OneIssue`); for `Rates` that the request
  in flight is the one the callers wait for (`OneRefresh`); for `ModelConnections`
  that what an edit will write can be used together with the row it read; for
  `Uploads`, `FilesInv`: a request alone with its row knows the row as it is
  (`OnlyFor`, `UpToDate`), races take all keys of a row (`RacedRows`), the logo names
  a key that is not a logo's only where it is raced, and `updateMe` between the steps
  of another request is a race (`UpdateMeKeeps`). For
  `DripSequences`, `DripInv`: a tick works on an enrollment that was active when it
  read it (`DripRows`), and until ticks overlap or steps change under a call the orders have no gap, the steps behind the index and no others
  were mailed, and what a call read is still so (`DripSteps`). That a deletion
  moves the steps behind it one place forward is a fact about cardinalities
  (`PlaceWithout`). Theorems: `RolesAreSafe`, `LinksAreKept`,
  `RefreshStaysShared`, `ConnectionStaysSound`, `FilesStayWithRows`,
  `SequenceStaysKept`.

`PromotionsProofs`, `ContractsProofs`, `AccountsProofs` and the second part of
`InvoicingProofs` prove each fact of the component's own `Spec` and lift it to
the specification the run checks: with the focus on the component a step is its
step, otherwise its variables stand still. Sums and places that a proof counts
with are cardinalities in the modules (`Hiring`, `DripSequences`, `Matching`), since
nothing can be proved here of a fold by induction.

Every safety property of a passing run has its theorem. Only model-checked are
`ChargeFundsMilestone` and `SendingEnds`: liveness under fairness, like `ENABLED`
and induction over data, is out of the prover's reach.

## 6. Statements the code breaks

Two runs expect a violation; PROJECT.json quotes the line each one contradicts.

* `PaidOrReturned` (`escrow_paid_and_refunded`): a release stops after its
  transfer and before its transaction; the milestone is still FUNDED and can be
  refunded, so the trainer and the company both get the money.
* `CompensationSparesRecorded` (`subscriptions_retry`): a retried subscribe gets
  the same Stripe subscription, its insert hits the unique index, and the
  compensation cancels the subscription that was recorded.

More statements were refuted while the models were written and have no run of
their own. TLC shows each in the module named, with the instance named.

Definitions the modules hold, as a comment or a document of the code says them:

* `Engagement!SettledMeansCompleted` (1 milestone, 1 delivery, 1 dispute, no
  failures): the last milestone settles during a dispute; `maybeCompleteContract`
  completes only an ACTIVE contract, and the end of the dispute gives back ACTIVE
  without counting milestones.
* `Escrow!SettledMeansCompleted` with `AdminRefunds = TRUE`: the admin's refund
  does not complete the contract (`admin-finance.service.ts:312`).
* `Coupons!RetrySucceeds` (the instance of `coupons`): a retry after a committed
  redemption is refused by `preview`, which counts that redemption.
* `Interviews!FinalIsFinal` (2 meetings, 2 days, 2 calls): the second read in the
  transaction takes no lock, so a cancellation overwrites a completion
  that committed between that read and its own write, which the comment at `interviews.service.ts:184-188` rules
  out.
* `Ads!NeverCreditedTwice` (1 top-up, 2 calls, no failures): `handleTopupFailed`
  writes FAILED by id over a SUCCEEDED it did not see, the claim takes FAILED
  top-ups too, and the budget is credited again, against the comment at
  `ads.service.ts:335-341`.
* `Uploads!WithinQuota` (2 assets, quota 1, 1 call): only `presign` counts the
  rows, so keys presigned before any commit exceed together the "maximum number
  of live rows" of `src/packages/shared/src/uploads.ts:21`.
* `Uploads!DroppedIsRemoved` (1 logo, 1 call): a logo is put and committed, then
  `PATCH /companies/me` writes `''`, which `updateMe` makes null
  (`companies.service.ts:21-25`). The object stays in the store with no row and with
  nothing to remove it. `src/docs/10-tier1e-uploads-spec.md:138-139` keeps the URL
  input on purpose; it does not say who removes the object.
* `Uploads!LogoIsStored` (1 logo, no call): the URL of a key that was never put, or
  of an object that was removed, is written to the logo: any URL is taken
  (`src/packages/shared/src/schemas.ts:259`), and the company shows no logo. Where
  the URL is that of one of the owner's assets, the next commit of a logo removes
  that asset's object under its live row, because
  `extractObjectKeyFromPublicUrl` (`uploads.service.ts:545-550`) knows a key by its
  URL alone. Both rows are `raced` from then on.

Formulas to add to the module named:

* `Escrow`, two requests: `[][\A m \in Milestones : milestone'[m] \in
  {"RELEASED", "REFUNDED"} /\ milestone'[m] # milestone[m] => milestone[m] =
  "FUNDED"]_vars`. Two overlapping settlements both write by id
  (`payments.service.ts:437`, `471`, `522`, `550`).
* `Escrow`, one request, codes `none` and `c1`: `Quiet => \A m \in Milestones :
  milestone[m] = "REFUNDED" => \A code \in Codes : stripePi[<<m, code>>] =
  "succeeded" => Returned(m, code)`. A milestone funded under two keys is charged
  twice and refunded once (`:375`, `:527`).
* `Escrow`, one request, one delivery: `Quiet => \A m \in Milestones :
  milestone[m] = "FUNDED" => Succeeded(m) # {}`. A late `payment_failed` or a
  replayed first answer overwrites SUCCEEDED (`:396`, `:1002`).
* `Escrow`, two requests and a coupon: `\A m \in Milestones : milestone[m] =
  "REFUNDED" => redemption[m] = NoCoupon`. The funding's transaction commits after
  the refund (`:401`).
* `Disputes`, two disputes, two calls: `ActiveDisputes # {} => contract.status =
  "DISPUTED"`. `raise` skips the mirror on a status read earlier
  (`disputes.service.ts:102`).
* `Subscriptions`, two plans: at most one key with an active `stripeSub`. The check
  in `subscribe` looks for ACTIVE rows only (`:771`).

In `ESign` the status EXPIRED is reached by no action: the code writes it in the
transaction that the exception of the next line rolls back
(`contract-documents.service.ts:172`).

The exceptions of the properties say the same of other handlers. Read them as
findings: what the code guarantees stops at a ghost. `MirrorIsExact` ends when
two refreshes overlap or a late failure resets an active placement;
`AcknowledgedIsActive` and `AcknowledgedIsCredited` leave out a success that was
delivered before the row had its PI, which is acknowledged and lost;
`ScoreIsSum` and `GradeStands` end with overlapping submissions or gradings of
one attempt; `SubmittedHasAttempt` with a test deleted under a submission;
`StepMailedOnce` when ticks overlap or one stops between the mail and the
advance; `SomebodyIsLeft` when two SUPER_ADMINs demote each other;
`ConfigIsUsable` when two edits overlap; `LiveIsStored` when two requests for one
row do, or a URL is pasted as above; `NothingStaysBehind` says nothing of what
`updateMe` drops; `ImplementsLedger` lets a contested milestone pay both ways.

## 7. Abstractions

* Amounts, currencies and tax are left out of the escrow, the subscriptions and
  the invoices: whether money moved is kept. `Ads` counts in prices of one view.
* `requires_action` stands for every waiting status of a PI; `incomplete_expired`,
  `unpaid` and the end of a period are `canceled`.
* Stripe's idempotency keys never expire, and a reused key replays the first
  answer. A declined card that makes the call itself fail is a waiting PI followed
  by `RequestFails`; in `Ads` and `Sponsored` it is a step of its own.
* One contract, user, campaign, subject, application, document or owner per
  module: no statement of the code reads across, except `AdminRoles`, which has
  all users.
* Transactions are atomic where row locks or unique indexes make them so; where
  the lock is the point (`Coupons`, `Invoicing`, `ESign`) or its absence
  (`Interviews`, `Sponsored`, `Hiring`'s grading), their steps are apart.
* In `Escrow` and `Subscriptions` a coupon may be refused at any time
  (`FundTxRollback`, `SubscribeCouponRefused`); `Coupons` has the real rule.
* `Subscriptions` is checked with one plan: keys of different plans share only the
  check in `SubscribeStart`. `failures` counts failed requests; the two properties
  that a failure breaks say so in their first conjunct.
* Clocks count days, or units of a token's lifetime. When a step of a drip falls
  due is left open. A grant of a placement may end in the past, as in the code, which
  asks only that it end after it starts.
* `Elsewhere` stands for every URL that names no object of the store.
* `Matching` computes in whole points and hundredths: the code's floating-point
  ratios are rounded exactly, and the order of equal scores is the sort's. The
  job lists skills or the rest, since the five scores are added.
* In `Hiring` a task is worth one point and answers are what the key makes of
  them.
* In `ModelConnections`, HOSTED stands for every provider that needs an endpoint
  and ANTHROPIC for those that need nothing.
* Contract DRAFT and CANCELLED and milestone CANCELLED are never written by the
  code and are left out, as are APPROVED and ENDED of a campaign and
  `reverseForSubscription`, which nothing calls.

## 8. What is not modelled

Of the modelled components: the arithmetic of discounts, fees and taxes;
creatives, price edits and the choice of the ad to serve; `tests.update`, which
edits tasks and deletes those nobody has answered; the templates of documents;
`deleteDripSequence`, `updateDripStep` and `updateCampaign`, edits of texts and
one cascade; image processing and scanning of uploads; the HTTP of the model
proxy; the lists and pools of candidates, which are reads.

Whole components, each listed in PROJECT.json with its reason:

* *Payouts after the transfer.* `markPayoutStatus`, `retryPayout` and
  `cancelPayout` find a row by `stripePayoutId`, which is written nowhere, or wait
  for a status that only the first of them would write. Payouts stay IN_TRANSIT,
  and a model of this code would have no behaviour.
* *Single-row inserts and edits*: contract creation, job requests, the
  profiles of companies (but for the logo, which `Uploads` has) and users, CMS, settings and flags, reviews, the contact form, tax
  profiles, Connect's snapshot, the status edits of `admin-ops`. The columns
  they write are written by nothing else that is modelled, and one statement over
  one row has nothing to interleave with but itself.
* *Best effort by design*: notifications, mails and push messages, whose errors
  are swallowed. Chat appends a message and pushes it; the test of an admin's lock
  and the insert are two statements, so a message may still follow the lock.
* *External calls*: AI assist and the workbench run a provider's model and keep a
  row of what it said.
* *Reads*: reports, lists, breakdowns, invoice rendering.
* *User interface*: the web application holds no state of the system; it is most
  of the repository's lines, and the models cover the handlers of the API.

Access control, validation and parsing are guards on values no model has, except
the roles of `AdminRoles`.

## 9. Plan

1. The amounts as functions against a reference: the split of a contract, tax
   included in a price, discounts.
2. `Payouts`, when an id is written: retry and cancel against late events.
3. `tests.update` against a submission, which may answer a task on its deletion;
   the lock of a conversation against a message on its way.
