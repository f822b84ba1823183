# Specifications of umareal

umareal sells horse-racing predictions: staff prepare and publish announcements, reports,
predictions, papers, guides and WIN5 products, members read what their subscription or day pass
opens, and a worker process notifies them by LINE and e-mail. The code is a NestJS API
(`apps/api`), a worker (`apps/worker`), a web client (`apps/web`) and shared packages over one
PostgreSQL database. All coordination goes through that database: transactions at READ COMMITTED
(a few SERIALIZABLE), advisory locks, row locks, unique keys, triggers and CHECK constraints. Any
number of API processes and workers may run.

These modules specify the protocols among those transactions. TLC checks them on small
instances, TLAPS proves the safety properties of all ten for every value of the constants.

    tlc -config MCRaces.cfg MCRaces.tla
    tlapm NotificationDeliveryProofs.tla

## 1. Inventory

### Components with a protocol

| Component | State | Operations | What is hard | What makes it correct |
|---|---|---|---|---|
| Notification outbox (`worker/notification-runner.ts`, `api/notifications.controller.ts`) | `notification_events`, `_deliveries`, `_attempts`; the batch in a worker's memory; the provider's retry keys | expand, claim under a lease, re-read, send, record, refresh the event; operators' retry | several workers, leases that run out during a send, crashes between the provider's answer and its record, lost answers | one copy per member, gapless history, SENT is true and final, every delivery and event status settles |
| Referral rewards and benefits (`api/referrals.service.ts`, `referral-benefits.service.ts`) | `referrals`, `referral_rewards`, `referral_benefit_grants`, passes and access given | register, qualify, invalidate, redeem, expire, new versions | redemptions, qualifications and invalidations take different advisory locks and update rows by id | a claim gives access once, what is unused is earned, what is earned is there |
| Publication schedules (`worker/publication-scheduler.ts`, `api/publication-schedules.controller.ts`) | `publication_schedules`, versions, the draft, the race, the creator's account | schedule, cancel, execute, mark failed, publish by hand, suspend staff | executions, manual publications, cancellations and suspensions share no common lock | published once and as reviewed, versions without gaps, a due schedule ends |
| Purchases and coupons (`api/stripe-checkout.service.ts`, `stripe-webhook.service.ts`, `billing-admin-resolution.service.ts`, `billing-coupon.service.ts`) | `billing_checkouts`, `subscriptions`, `payment_transactions`, `billing_coupon_redemptions`; sessions, contracts and refunds at the provider | reserve, open a session, hear payments, review, refund, grant, end | payments heard long after a reservation ran out, calls of the provider between two transactions, events in any order | places and uses not exceeded, a payment gives access or goes back, and is always settled |
| Subscription lifecycle (`stripe-webhook.service.ts`, `billing-subscription-lifecycle.service.ts`) | `subscriptions`, `entitlements`, `stripe_webhook_events`; the contract at the provider | invoice paid or failed, changed, deleted; cancel, resume | events of one contract late, repeated, out of order; a call of the provider before the transaction that records it | what is paid is served, one grace, what is ended stays ended, the member is shown what will happen |
| Races and predictions (`races.controller.ts`, `assessments.controller.ts`, `predictions.controller.ts`) | `races`, `race_entries`, assessments, drafts, previews, versions, imports | edit, import, assess, save, preview, publish, correct | data change between preview and publication; the deadline | what is published was previewed, in time |
| Results (`results.controller.ts`) | result drafts, imports, versions with their evaluations | save, import one or several, confirm, correct | saving and confirming take no advisory lock; publications take another one | each result is a reviewed draft, once; every published version is evaluated |
| WIN5 and day passes (`win5.controller.ts`, `day-pass-access.ts`, `worker/day-pass-activator.ts`, `billing-admin-resolution.service.ts`) | product, legs, versions, `day_passes`, entitlements, refunds | save, preview, publish; buy, start, refund | publication, sale and worker each start a pass; a refund is reported twice | a pass starts once and in time, a refund is booked once |
| WIN5 results (`win5-results.controller.ts`) | evaluation draft and versions | import, confirm | sources are corrected between import and confirmation | each evaluation is a reviewed draft, once |
| Content (`content.controller.ts`, `worker/content-scheduler.ts`) | `content_items`, versions | save, publish, schedule, cancel, archive, restore, execute, record a failure | stale editors; a failure is recorded after others edited the item | published as reviewed, withdrawn stays hidden, a due schedule ends |
| Race papers (`race-papers.controller.ts`) and guides (`ai-race-guide.*.ts`) | drafts, previews, generations, versions | save, preview, publish, correct; generate, approve, publish | races move and are corrected meanwhile | as previewed or approved; corrections end when they were said to |
| Accounts (`staff.controller.ts`, `admin-continuity.controller.ts`, `account-closure.service.ts`, `line-login.controller.ts`, `auth-*.service.ts`) | `users`, `sessions`, `line_accounts`, closures | change roles, suspend, log in, step up, reset, close, restore, register, link, unlink | SERIALIZABLE snapshots older than the locks; sessions opened meanwhile; identities that come back | two ready administrators stay, no stale session with a second factor, everyone can log in, one invitation |
| Operational alerts (`worker/operational-alert-runner.ts`) | alerts and their deliveries | scan, claim, send, record, acknowledge | as notifications, without an attempt's unique key | sent, with a true record |

They interact through rows: a publication, a payment or a reply writes a `notification_events`
row in its own transaction, which the worker picks up; a schedule's execution writes the same
rows as a manual publication; a result closes the race that predictions, papers and guides are
about; a leg's result is the source of a WIN5 evaluation; a reward is exchanged for a day pass;
closing an account looks at checkouts and subscriptions, and frees its LINE identity. The worker's
loop (`worker/index.ts:41-63`) runs schedules, content schedules, day passes, LINE, e-mail and
alerts in this order and exits, to be restarted by its supervisor, when one of them throws.

### Components without one

Settings, support requests, rate limiting, social shares and queries are single transactions or
single-row updates with an expected state, or write nothing; the web client, the JRA-VAN bridge
and deployment are presentation, import and scripts. `PROJECT.json` lists every component with its
files and status, and every hazard with its line; section 5 says what is not modelled and why.

## 2. Modules

A row of a table is a record or a function's value; a transaction that others can interleave
with is two steps, what it reads and what it writes when it commits; a transaction whose
advisory lock every rival takes before it reads is one. Calls of a provider are steps of their
own. Operators named as faulty variants restate one definition with a plausible mistake; no
specification uses them, they show that the properties notice the mistake.

### NotificationDelivery (proofs: NotificationDeliveryProofs)

| Code | Model |
|---|---|
| `notification_events.expandedAt`, `emailExpandedAt`, `status` | `expanded`, `eventStatus` |
| `notification_deliveries` columns | `status`, `attemptCount`, `forceAttempt`, `manualRetryCount`, `lease`, `lockAge` (lockedAt), `wait` (nextAttemptAt) |
| `notification_attempts` | `attempts`, `firstAge` |
| a worker in `runChannelBatch` | `phase`, `channel`, `limit`, `todo`, `touched`, `view`, `batchAge`, `task[w][d]` |
| `expandEvents`, `refreshEventStatus`, `claimDeliveries` | `ExpandEvent`, `ReadStatuses` and `WriteEventStatus`, `ClaimDeliveries` |
| lines 131-241, one delivery | `LoadDelivery`, `Requeue`, `SkipDelivery`, `GiveUp`, `StartSending`, `CallProvider`, `RecordOutcome`, `AttemptConflict` |
| `skipPendingNotificationEvents` | `ExpandEvent` with the transport off, `EndSkippedBatch` |
| the main loop, its exit on an error, a killed process | `BeginBatch`, `EndBatch`, `ExitOnError`, `Crash` |
| `retry` (notifications.controller.ts:334) | `ReadForRetry`, `QueueRetry` |
| settings, members' switches and addresses | `SwitchChannel`, `ChangeAttemptLimit`, `ChangeMember` |
| LINE and Resend | `copies`, `acceptedAge` (of the first acceptance): one retry key per delivery, remembered for `KeyTicks` |

Times are ages, capped where the code stops telling them apart, so that time is unbounded. The
eight deliveries a worker has in flight at once are its independent `task`s. Two variables are
histories: `lost`, the deliveries whose acceptance by the provider went with the memory of a worker
before any attempt was recorded, and `raced`, the deliveries that two operators were sending back at
the same time.

### ReferralRewards (proofs: ReferralRewardsProofs)

One referrer: every row, key and lock is keyed by the referrer or by a claim. A fixed milestone's
reward and a grant of the configurable benefit are both *claims* with `VersionOf`, `Required`,
`Validity` and `Kind`.

| Code | Model |
|---|---|
| `createPending`, `qualify` with `grantReachedMilestones` and `recordQualification` | `CreatePending`; `BeginQualify`, `LockQualify`, `CommitQualify` |
| `invalidate` with `reconcileInvalidation` | `BeginInvalidate`, `LockInvalidate`, `CommitInvalidate`, `RollbackInvalidate` |
| `redeem` of both services | `BeginRedeem`, `CommitRedeem`, `RollbackRedeem`, `RedeemOverdue` |
| expiry on reading | `ExpireOverdue`, `MarkExpired` |
| CHECK on used and invalidated rows; unique pass of a member and day | `CheckHolds`, `DayFree` |

### PublicationSchedule (proofs: PublicationScheduleProofs)

One race. A worker's execution is `Execute` (row locked, checks, next version) and
`CommitExecution`, `ConflictInExecution` or `Crash`; the mark of a failure is `MarkFailed` in a
second transaction. `BeginCreate`/`CommitCreate`/`RejectCreate`, `BeginCancel`/`CommitCancel`,
`BeginPublish`/`CommitPublish`/`ConflictInPublish` and `BeginSuspend`/`CommitSuspend` are the
requests; `SaveDraft`, `ScratchEntry`, `ChangeRace` and `Restore` change what executions check.
`RowFree` is the row's lock, `OperationsFree` the lock 7262026, `NumberFree` the unique key of a
version's number. A SERIALIZABLE suspension counts in the snapshot of its first statement.

### Purchases (proofs: PurchasesProofs)

Subscriptions of several members through hosted checkouts. PurchasePromises states what is promised over the
rows that members and accounting see; Purchases extends it with the protocol.

| Code | Model |
|---|---|
| `billing_checkouts` row (one per idempotency key) | `checkout` |
| `billing_coupon_redemptions`, `subscriptions`, REFUNDED `payment_transactions`, closed accounts | `coupon`, `access`, `refunds`, `members` |
| sessions, running contracts and refunds at Stripe | `session`, `contracts`, `refund` |
| a request or an event in process | `doing` |
| `StripeCheckoutService.create` | `Reserve`, `OpenSession`, `FailToOpen`, `RecordSession`, `RecordFailure`, `ReleaseCoupon` |
| `checkout.session.completed` | `BeginHearing`, `CommitHearing` (`Verdict` is the chain of rejections) |
| `refund.created`, `refund.updated`, `customer.subscription.deleted` | `HearRefund`, `HearEnd` |
| `resolveCheckoutReview` REFUND; GRANT_ACCESS | `BeginRefund`, `RefundAtProvider`, `CommitRefund`; `BeginGrant`, `CommitGrant` |
| `AccountClosureService.close` | `CloseAccount` |
| the unique index `subscriptions_one_open_per_user` | `OneOpenPerUser` |
| the member pays, a refund gets through, a contract ends | `Pay`, `SettleRefund`, `EndContract` (external) |

`late` is a history variable: members whose coupon was redeemed when their reservation no longer
counted; only `OverrunsAreLate`, which is proved, speaks of it. The founders' limit is a constant; an administrator
who lowers it below what is sold makes the property meaningless, not false.

### SubscriptionLifecycle (proofs: SubscriptionLifecycleProofs)

One subscription after its checkout. `Bill` and `EndContract` are the provider's; `issued` holds
the events it sent and sends again, `received` the rows of `stripe_webhook_events`.

| Code | Model |
|---|---|
| `subscriptions` and `entitlements` | `row`: status, period, grace, cancelAtPeriodEnd, updatedAt (`version`), access |
| `StripeWebhookService.handle`, handlers that only write | `Hear` (`HearCheckout`, `HearPaid`), one transaction under the locks of `LocksFree` |
| handlers that decide on the row they read | `BeginHearing`, `CommitHearing` (`HearFailed`, `HearUpdated`, `HearDeleted`), `Rollback` |
| an event before its checkout's, answered as pending and sent again | `Known` |
| grace and the end of access (lines 190-194) | `GraceEndsAt`, `AccessEndsAt` |
| `scheduleCancellation`, `resume` | `BeginChange`, `CallProvider` (under the idempotency `Key`), `CommitChange`, `GiveUp` |

The provider promises no order of its events: payments may be unheard when the contract is deleted, and
be heard after it. Histories note what went by unordered: `disordered` (an event of the flag heard
before an earlier one), `skipped` (a change that was answered without a call), `overlapped` (two
requests in flight at once) and `crossed` (a failure being handled while the end was written).

### RaceDay (proofs: RaceDayProofs)

One race from registration to its evaluated result.

| Code | Model |
|---|---|
| `races`, `race_entries`, assessments | `race`, `entry`, `assessed` |
| `publication_previews`, `prediction_versions`; `import_batches` | `previews`, `versions`; `imports` |
| `race_result_drafts` (its contents by revision), `race_result_versions` | `saved`, `results` |
| `update`, `entry`, the import of a file and of a bundle | `BeginEdit`, `CommitEdit`; `SaveEntry`; `PreviewEdit`, `BeginImportEdit` |
| assess; save, preview, publish a prediction | `Assess`; `SaveDraft`, `Preview`, `BeginPublish`, `CommitPublish` |
| the hash over state and draft; the trigger `enforce_prediction_deadline` | `Fingerprint`; `Insertable` |
| save a result; import it, one race or several; confirm it | `BeginSave`, `CommitSave`; `PreviewImport`, `BeginImport`, `CommitImport`; `AskConfirm`, `ReadConfirm`, `CommitConfirm` |
| `evaluatePrediction` | `Evaluate` |

Edits and publications are two steps although they share the lock 7262026, since saving and
confirming a result do not take it. `overlapped` and `reopened` are histories for what no lock
forbids.

### Win5Day (proofs: RaceDayProofs, second part)

The WIN5 product of one day, the passes that open it and its evaluation. What the day promises is stated in
Win5Promises over the rows that members, accounting and the public read (passes, refunds, evaluations);
Win5Day extends it with the protocol.

| Code | Model |
|---|---|
| product with its legs, previews, versions | `product`, `previews`, `versions` |
| `update`, `saveLeg`, `preview`, `publish`; the trigger of versions | `SaveProduct`, `SaveLeg`, `Preview`, `BeginPublish`, `InsertVersion`, `CommitPublish` |
| `createDayPassAccess`; `activatePendingDayPasses`; `activateStartedDayPasses` | `BeginBuy`, `CommitBuy`; part of `InsertVersion` and `CommitPublish`; `BeginActivate`, `CommitActivate` |
| rows taken FOR UPDATE, SKIP LOCKED | `Locked` |
| `refundExpiredPendingDayPass`; `refund.*` events | `ReserveRefund`, `CallRefund`, `FinishRefund`; `SettleRefund`, `HearRefund`, `CommitHear` |
| WIN5 `import` and `confirm`; the trigger of evaluation legs | `BeginImport`, `CommitImport`, `BeginConfirm`, `CommitConfirm`; `SourcesLatest` |

### ReviewedLedger, an abstract specification

What the application promises of everything that is reviewed before it counts: a draft is saved
as revision after revision, and an append-only ledger takes over what stands, each revision at
most once. `RaceDay!Reviewed` and `Win5Promises!EvaluationLedger` instantiate it, with `ledger` the confirmed
results (without their evaluations) and the confirmed WIN5 evaluations; the runs check its `Spec` as the
properties `ResultsAreReviewed` and `EvaluationsAreReviewed`.

### ContentItems (proofs: PublicationScheduleProofs, second part)

One item of the CMS; ContentPromises states what members may see of it. An editor works on the item as loaded (`Load`), is admitted (`Admit`) and writes
when the lock is free (`Save`, `Publish`, `Schedule`, `Cancel`, `Archive`, `Restore`; `Refuse` when the
revision moved). A worker picks what is due, executes it and records a failure in three
transactions (`Pick`, `Execute` or `Skip` or `Fail`, `RecordFailure`) and may die in between (`Die`).
`BeginSuspend`, `CommitSuspend`, `LetBack` are `changeStatus`. `promise` and `withdrawn` are histories.

### RaceDocuments (proofs: RaceDocumentsProofs)

The paper of a day (`SavePaper`, `PreviewPaper`, `PublishPaper`) and the guide of one race (`Generate`, `Approve`,
`PublishGuide`) over races that are edited and finished meanwhile (`EditRace`, `EditEntry`,
`ConfirmResult`). `Deadline` is the earliest start of every race the paper has or had. DocumentPromises
states what readers may rely on, over previews, versions, generations and approvals alone.

### Accounts (proofs: AccountsProofs)

| Code | Model |
|---|---|
| `users` with closure and factors, `line_accounts`, `sessions` | `user`, `link`, `session` |
| `changeRole`, `changeStatus` (staff), `promote`, `changeStatus`, `demote` (administrators) | `BeginChange` (the snapshot), `CommitChange` |
| a serialization failure | `written`, compared with `LockedToCount` and the sessions the snapshot has |
| login, step-up, logout, verification of the fallback, reset, factors | `BeginLogin`, `CommitLogin`; `BeginStepUp`, `CommitStepUp`; `EndSession`, `VerifyFallback`, `ResetPassword`, `EnrolBackup`, `RevokeBackup` |
| `close`, `restore` | `BeginClose`, `CommitClose`, `BeginRestore`, `CommitRestore` |
| LINE `register`, `callback` with purpose LINK, `unlink` | `BeginRegister`, `CommitRegister`, `BeginLink`, `CommitLink`, `Unlink` |

`local` tells the two values of AUTH_PROVIDER apart: passwords, mails and second factors are either the
application's own, or the provider's, whose sessions are no rows. `revoked`, `through`, `released`
and `displaced` (accounts whose identity a registration took that had read it as another's) are histories.

### MCBilling and MCRaces, instances of two modules each

The first payment of a checkout and the later life of a subscription, or the predictions of a race and its
documents, meet in rows that each module has as its environment. MCBilling (SubscriptionLifecycle and Purchases)
and MCRaces (RaceDay and RaceDocuments) check two modules in one run: `about` says of a behaviour which of
the two it is of, the other one rests. So the two are not composed, and nothing is claimed of steps of
the one between steps of the other.

## 3. What TLC checks

Distinct states of each exhaustive run; a run takes between seconds and three minutes.

| Run | Instance | Shows |
|---|---|---|
| notification_reclaim (2.7 M) | 2 workers, of whom one may die, leases as short as a batch, 1 delivery, a limit that changes between 1 and 2 attempts, a key remembered for no longer than the retry window | `AttemptHistory`, `ResendsEndInTime` |
| notification_settle (179 k) | 1 worker that may die once, LINE without a transport, e-mail on, a limit of 2 attempts, 1 retry by an operator | `EveryDeliverySettles` |
| referral_rewards (1.8 M) | 3 referrals, a milestone of 2, 2 benefit versions, 2 requests, 3 days | `UsedOnce`, `UnusedIsEarned`, `EarnedIsThere`, `ExpiredForGood` |
| publication_schedule (321 k) | 1 schedule, 2 workers that may die, 2 requests, 2 saves of the draft, 1 manual version | `PublishedOnce`, `PublishedAsScheduled`, `NumberedWithoutGap`, `EveryDueScheduleEnds` |
| billing (2.5 M) | purchases: 2 members, 3 checkouts (2 founders', 2 with the coupon), 2 requests, 1 place, 1 use; or a subscription: 1 request at a time, period 2, grace 1, a renewal with 2 failures, a failure and a change of the flag, or 2 changes | `FoundersWithinLimit`, `HeardIsNeverRefused`, `GrantedOrRefunded`, `HeardIsSettled`; `PaidIsServed`, `GraceOnce`, `FlagAgreesWhenCalled`, `OnlyPaymentsReopenUncrossed` |
| races (3.1 M) | a race's day: 2 horses, one entered late, 2 requests, 6 profiles of bounds; or documents: a paper of 2 races published twice, a guide of one race with several generations | `PublishedAsPreviewed`, `EveryVersionIsEvaluated`, `ImportedAsPreviewed`, `ResultsAreReviewed`; `WindowNeverReopens`, `PaperAsPreviewed`, `GuideAsApproved` |
| win5_day (48 k) | 2 legs, 1 horse, 2 buyers, 2 requests and the worker, 4 profiles | `StartsOnce`, `RefundBookedOnce`, `PendingStarts`, `EvaluationsAreReviewed` |
| content_items (415 k) | 2 editors and a worker, or an editor and 2 workers; a death | `PublishedAsReviewed`, `WithdrawnStaysHidden`, `EveryDueScheduleEnds` |
| accounts (650 k) | with the provider and locally: 3 administrators and a member, or a member with 2 LINE identities; 2 sessions, 2 requests | `SteppedUpIsCurrent`, `EveryoneCanLogIn`, `InvitedOnce`, `ContinuityKept` |

Three more runs of `PROJECT.json` end in a counterexample of what a document of the repository says; section 6
tells each of them.

| Run | Configuration | Instance | Counterexample of |
|---|---|---|---|
| billing_coupon | MCBillingCoupon | as the purchases of billing | `CouponWithinLimit` |
| billing_reopened | MCBillingReopened | as the subscription of billing | `EndedStaysEnded` |
| accounts_referral | MCAccountsReferral | as accounts | `OneReferralPerIdentity` |

Further configurations lie beside them, to be started by hand. All but the first end in a counterexample.

| Configuration | Instance | Property |
|---|---|---|
| MCNotificationRetries | 2 workers, of whom one may die, 2 operators, 1 delivery sent back once, batches that end before leases are stale (2.3 M states) | `SentStaysSent`, `SingleSender`, which hold |
| MCNotificationCopiesDeath | 2 workers, of whom one dies; batches take no time | `AtMostOneCopy` |
| MCNotificationCopiesSlow | 2 workers, nobody dies; a batch may take a tick | `AtMostOneCopy` |
| MCNotificationRetryRace | 1 worker, 2 operators | `SentIsFinal` |
| MCNotificationStatus | 2 workers, nobody dies, under the fairness of the outbox | `EventStatusSettles` |
| PublicationCancel, PublicationSuspend | as publication_schedule | `CancelledIsUnpublished`, `PendingHasCreator` |
| MCBillingCrossing, MCBillingFlag | as the subscription of billing | `OnlyPaymentsReopen`, `FlagAgrees` |

The accounts module was also checked once with three LINE identities (3.3 M states).

**Why the bounds are enough.** Conflicts are between two actors over one row, key or place: two
workers, two requests, one worker and one request. The exception is the subscription of billing: with a second
request it has more than 15 million states, so that two changes in flight are left to the theorem. A third
would wait or fail like the second; administrators are three because continuity asks that two stay. Limits are 1 or 2 so that they are
met; `WindowTicks`, `StaleTicks`, `KeyTicks` and `BatchTicks` keep the order of the real times: the
24-hour window is as long as the provider's memory of a key (`KeyTicks` is 2 as `WindowTicks` is, wherever
copies are counted; runs in which no property counts them set it to 0), and a batch ends before a
five-minute lease is stale in MCNotificationRetries, and does not in notification_reclaim.
Three referrals are the fewest that reach a milestone of two, fall below it and reach it again. In
Purchases one tick is the life of a checkout, so that a reservation made at 0 has run out at 1
while its session may already be paid; in the race modules one tick is the life of a preview, so
that a preview can expire, and a race starts at 1 or 2, so that it can start between a preview and its
publication. Two legs instead of five: legs differ only in which result is late. `MaxCrashes`,
`MaxManual`, `LastDay`, `LastTime`, `LastRevision` and `LastVersion` bound what would otherwise repeat.

The newer modules have a constant `Bounds` (`DocumentBounds` in RaceDocuments), a set of records: a behaviour chooses one of them
in `Init` and keeps to it. One run thereby explores several corners of the state space, each deep
where a hazard needs it (two publications of an edited race; a correction of a result; two
imports), instead of one bound for every counter whose product would be too large. Each MC module says
in a comment what its profiles are for.

Symmetry is used only in runs without liveness and of step properties that name no particular
element. `CHECK_DEADLOCK FALSE` stands where time or the bounded revisions end; the outbox
never stops.

**Fairness.** Outbox: time passes (`WF` of `Tick`), a worker that is up takes its next step (`WF` of
`WorkerStep`), and its loop comes to each channel again (`SF` of `BeginBatch` per worker and
channel: the loop is endless and restarted, but a setting switched off and on may interrupt it).
Operators, members and crashes owe nothing. Schedules: a worker that polls for ever executes
what stays due and does not die at the same point every time (`SF`), and a request ends (`WF`),
at the latest with its transaction's timeout. WIN5 passes: transactions end (`WF`); the worker's poll
does not for ever find the rows locked by a publication that fails, nor die before its commit (`SF`).
Content: the loop goes round every five seconds and dead processes are started again (`WF`; the
number of deaths is bounded). `EveryDeliverySettles` holds for channels that stay on: with the switch
off deliveries wait. The safety properties assume no fairness.

**Types.** `TypeOK` of every module is proved, so that no run spends itself on it.

**Not excepted in silence.** Where the code admits a failure, the plain property is stated too and a configuration
above exhibits how it fails; the property that holds names the exception in its statement: `ResendsEndInTime`
leaves out `lost` deliveries (MCNotificationCopiesDeath), `SingleSender` and `SentStaysSent` those that two
operators `raced` for (MCNotificationRetryRace), `OnlyPaymentsReopenUncrossed` payments (billing_reopened) and
failures that `crossed` the end (MCBillingCrossing), `FlagAgreesWhenCalled` changes that `overlapped`, were
`skipped` or heard `disordered` (MCBillingFlag), `OverrunsAreLate` redemptions that came `late` (billing_coupon),
`InvitedOnce` identities whose row went to another account (accounts_referral). `FlagAgrees` itself excepts
overlapping requests and disordered events, since its counterexample needs neither. `EveryDeliverySettles`
says of deliveries that they end and nothing of their event's status, which may stay wrong
(MCNotificationStatus); its one worker and one operator are enough for what it says, since the worker may die
with a lease and be started again.

Exceptions without such a configuration: `HeardIsSettled` excepts checkouts that read OPEN,
`EveryVersionIsEvaluated` versions inserted during a confirmation and races edited after it,
`ContinuityKept` administrators who were disabled by a closure, `EveryoneCanLogIn` accounts whose
identity was registered anew or taken by a registration that had read it as another's (`displaced`):
section 6 says why.

## 4. What is proved

For any constants that satisfy the assumption of the module (`ConstantsAssumption`; `PurchasesAssumption`,
`DocumentsAssumption`), with any number of workers,
requests, members, rows and ticks; 52 theorems are listed in `PROJECT.json`. Every safety property and action property that a passing
run checks is among them, and the refinements of ReviewedLedger. Where a theorem has a hypothesis it is named in its statement,
and given here with the reason why it cannot be dropped.

**NotificationDeliveryProofs.** `TypeCorrect`. `AttemptHistoryCorrect` and `SentIsAcceptedCorrect` need no
assumption about leases: a worker writes with a count it read before it lost its lease, and only
the unique key (deliveryId, attemptNumber) stops it. `AttemptHistory` alone is not inductive, as
nothing ties a worker's count to the row's; `HistoryInv` adds `CountBehind`, that no worker is
ahead of the row, so that an attempt that the key admits is the next one. `AcceptedInv` adds that
a worker about to record SENT was told so by the provider. `SingleSenderCorrect` and
`SentStaysSentCorrect` hold for any number of workers and operators under one assumption,
`LeaseOutlivesBatch`: a batch ends before a lease is stale. It is needed, since a worker whose lease was
taken over writes by the row's id, and it is the code's own: a lease of five minutes against batches of
at most 50 deliveries, eight at a time, whose sends end after 8 seconds. `LeaseInv` says, of the deliveries
that were never `raced`, that whoever has one open holds its lease, that the lease is no older than the
batch, and that one an operator is about to queue is FAILED and in no other operator's hands.

`ResendsEndInTimeCorrect` has no hypothesis at all: leases may run out, workers die, operators retry and the
provider forget whenever it likes. `ResendInv` says that an accepted message without an attempt is
still known to the worker that sent it; that with one the acceptance is at most a batch older than the
retry window, because it came within the batch that recorded it; and that an attempt
under way began inside the window and within its batch. What it says of the real system: a provider
that recognised a key for the window and two batches would never deliver a second copy of what is not
`lost`. The key is kept for the window alone, and MCNotificationCopiesSlow shows a second copy
in what is missing.

**ReferralRewardsProofs.** `TypeCorrect`, and from `UseInv` `UsedOnceCorrect` and
`RedeemedIsFinalCorrect`: one transaction per lock, a claim being redeemed is unused until the
commit, and the CHECK rolls back an invalidation of what was redeemed meanwhile. From `EarnInv`
`UnusedIsEarnedCorrect`, `EarnedIsThereCorrect` and `ExpiredForGoodCorrect`: it adds that what a
qualification is about to give is reached by the count plus one (`GrantPlan`) and what an
invalidation is about to take is out of reach of the count less one (`RevokePlan`), which the
referrer's lock keeps true between read and write.

**PublicationScheduleProofs.** `TypeCorrect` and `NumberedWithoutGapCorrect` from `NumberInv`: a version that
is about to be written is numbered at most one past the versions there are, so that it is the next
one or the unique key refuses it. `PublishedOnceCorrect` and `PublishedAsScheduledCorrect` from `PublishInv`:
a schedule under execution is pending, locked by one worker, and shows the revision it was made
for; cancellations, which take no such lock, can spoil only its status (section 6).

**PurchasesProofs.** `TypeCorrect`. `FoundersWithinLimitCorrect` is inductive with the types alone: every
subscription that is given counts the founders again under the locks (`AccessStep`).
`OverrunsAreLateCorrect` says how far the limit that billing_coupon exceeds can be exceeded: by one use per
redemption of a reservation that no longer counted. It needs that whoever is counted as late has
redeemed (`LateRedeemed`), so that nobody is counted twice. `GrantedOrRefundedCorrect` and `HeardIsSettledCorrect` come from `SettleInv`, which
says of every checkout that who pays knows a recorded session, so that its row is not reserved
again; that one event is heard at a time; and that a refund which is decided, on its way to the
provider or made, leaves no access and a status from which no grant follows. Neither property is
inductive: without the last part a grant could begin while a refund is on its way.
`HeardIsNeverRefusedCorrect` follows from `OneOpenPerUser`, the unique index itself: every step that
gives access has read, under the member's lock, that there is none (`AccessStep`), so that what the
commit would write satisfies the index.

**SubscriptionLifecycleProofs.** `TypeCorrect`; the start of an access is a number of the past only since
periods are paid in full, so that types and `FullPeriods` are proved together. Most of the work is what
the provider may still say: `HeardInv` bounds the events that are not heard yet (`BillsInv`: they are about
the last paid period or the next and about one invoice; `KnownInv`: the row exists once the checkout
is heard; `SeparateInv`: failures of an invoice are handled one at a time). On it rest

- `GraceOnceCorrect`: `GraceInv` keeps every end that is written, or that a failure being handled has read,
  within one grace of the period's end or the first failure;
- `PaidIsServedCorrect`: `ServedInv` says that the row covers the paid period as soon as its payment is heard,
  and is not revoked before it is over;
- `OnlyPaymentsReopenUncrossedCorrect`: `EndedInv` says that no failure being handled saw an ended row open,
  unless one crossed the end. Payments heard late are part of it: they open the contract, nothing else does;
- `FlagAgreesWhenCalledCorrect`, for any number of requests; it says nothing once two of them `overlapped`.
  The difficulty is an idempotency key that is met again, for which the
  provider answers without doing anything. `FlagInv` says that no key has a later version of the row than
  the row; that the row's version moves on whenever its flag is taken back, so that a key of the present
  version belongs to a change that stands; and that the latest event says the provider's flag.

**RaceDayProofs.** `TypeCorrect`. `PublishedAsPreviewedCorrect`: `PreviewInv` says that a preview shows what its
hash is about and that a publication under way will insert what it compared; the lock 7262026 keeps
what it read. `EveryVersionIsEvaluatedCorrect`: `EvaluatedInv` adds that a confirmation has counted all
versions but those inserted during it, since the trigger refuses versions of a race that reads FINISHED.
`ImportedAsPreviewedCorrect`: `ImportInv` says that an import under way was compared with the revision
it is about to follow. `ResultsAreReviewedCorrect` is the refinement of ReviewedLedger: `LedgerInit` and
`LedgerStep` map the initial states and every step to it, and `HeldInv` is what makes the step of a
confirmation map, the draft's row being held from its reading until the commit.

**RaceDocumentsProofs.** `TypeCorrect`. `WindowNeverReopensCorrect` is inductive with the types: a publication
takes the minimum with the deadlines of earlier versions. `PaperAsPreviewedCorrect`: a paper is published
from a second computation, compared by fingerprint; `FingerprintSuffices` shows that what the fingerprint
keeps determines pages and deadline, and `PaperInv` that each preview shows what its own base makes.
`GuideAsApprovedCorrect`: `GuideInv` adds that a READY guide has an approval of its latest generation
whose facts still hold.

**AccountsProofs.** `TypeCorrect`. `ContinuityKeptCorrect`: `SnapshotInv` says that a serializable change has
of every row it did not see written the row as it is, so that who was counted as ready at the snapshot
is ready at the commit. `SteppedUpIsCurrentCorrect`: a step-up writes the account's row, so that a change of
role in flight that does not know its session fails (`SteppedUpInv`). `EveryoneCanLogInCorrect`: `LogInInv`
follows what becomes of an identity whose account closes, and what registrations and restorations
have read of it, on top of `KnownInv`, that nobody who is not registered appears anywhere.
`InvitedOnceCorrect`: `InvitedInv` relates the mark of a used invitation in the identity's row, the
registrations that have read it, and the accounts that came through the identity.

Win5Day and ContentItems are proved about as instances beside the module they share their subject with:
`Win5` in RaceDayProofs, over the same horses and requests with variables of its own, and `CMS` in
PublicationScheduleProofs, the other thing that workers publish when it is due. The theorems say that the instance keeps
what Win5Promises and ContentPromises state. An assumption of an instantiated module
is no fact of the module that instantiates it, so that each of these theorems has
`Win5!ConstantsAssumption` or `CMS!ConstantsAssumption` as its hypothesis: what TLC evaluates in their runs.

**ContentItems** (`CMS`). `ContentTypeCorrect`, from `ItemInv`, on which the others rest. It says that a view with the
item's revision shows the item (`ViewsFollow`: every write moves the revision on) and that a schedule
that stands is the one its editor set, of the present revision (`PromiseStands`: who saves, withdraws or
publishes ends it in the same write). `PublishedAsReviewedCorrect`: a person publishes with a view of the
present revision, a worker what was promised. `WithdrawnStaysHiddenCorrect`: a version is appended
wherever an item becomes visible. `ScheduleIsCurrentCorrect`: the revision a schedule notes never
refuses its execution, only the suspension of its editor does; so an execution fails for that
reason or because the database does.

**Win5Day** (`Win5`). `DayInv` is what the others rest on. Types need counting here: an evaluation names
versions and results within the bounds of the behaviour, and there are no more versions than previews because
each version uses up one (`VersionsCounted`) and one publication is under way at a time
(`OnePublication`); so types (`Win5TypeCorrect`) and counts are proved together.

- `Win5PublishedAsPreviewedCorrect`: a version has the number and the picks its preview announced and its
  transaction began before the first leg starts. `AnnouncedInv` says that the lock 7262027 keeps the announced number free until the
  publication commits. Legs and races are edited meanwhile; the trigger reads the races again, not the legs.
- `StartsOnceCorrect` and `RefundBookedOnceCorrect`, from one invariant, `SalesInv`, for neither is inductive without the
  other: rows locked by a transaction still wait and are no other transaction's (`RowsApart`), and a
  pass whose refund the provider knows is REFUNDING or REFUNDED (`TransactionKept`), so that no start finds it waiting and
  only one of request and event books it.
- `PassesSettleCorrect`, an action property: a pass that is active or refunded never changes again.
- `PendingIsDueCorrect`: on its day the worker's query finds every pass that still waits.
- `EvaluationsAreReviewedCorrect`, the refinement of ReviewedLedger: `Win5LedgerInit` and `Win5LedgerStep` map
  initial states and steps to it. `ConfirmHeld` makes the step of a confirmation map: one at a time is under
  way, and what it read is the standing revision, which no evaluation took over yet.

`SentIsAccepted`, `SingleSender`, `SentStaysSent`, `RedeemedIsFinal`, `OverrunsAreLate`, `Win5PublishedAsPreviewed`, `PassesSettle`, what
`PendingIsDueCorrect` and `ScheduleIsCurrentCorrect` state, and each `TypeOK` are proved and have no run of their own.

**Only model-checked.** The liveness properties (`EveryDeliverySettles`,
`EveryDueScheduleEnds` of both modules, `PendingStarts`): liveness under fairness and ENABLED are out of the
prover's reach. Induction over data and recursive operators are too, and these modules use neither.
`PendingIsDueCorrect` and `ScheduleIsCurrentCorrect` are the safety halves of two of them: that the step which
settles a pending pass or a due schedule finds it. That the step is taken is what TLC shows on the instances of section 3.

## 5. What is left out

Of the components that are modelled:

- Texts of messages, amounts, prices, discounts, audit logs, who may see what, and repeated requests
  that are answered from a stored response.
- Outbox: test sends, previews, the limit of a batch's size, the release of blocked addresses.
- Referrals: codes, attribution of visits, administration of texts; limited content has no
  redemption in the code.
- Schedules: several races (they share only the lock 7262026), audio, the registration benefit.
- Purchases and subscriptions: refunds made in the provider's dashboard, refunds that fail at the
  provider, roles, accounts disabled without a closure, a second subscription after the end of the first.
- Races: race days, rosters as such, identities of horses (`horse-identities/*`), several races in one file:
  a file of several is one import whose races have the same fate.
- WIN5: which race a leg is, the creation of the product.
- Accounts: tokens and codes, mails, the provider's own sessions, the retention policy, the transfer
  of responsibilities and the other dependencies a suspension counts.

**Not modelled**, and why:

- *Web client* (`apps/web`) and *JRA-VAN bridge* (`tools/jra_van_bridge`): presentation, and a Windows program that
  turns files into requests. Neither keeps state the server relies on.
- *Queries, readiness, social shares, manuals*: nothing is written.
- *Settings, entitlements, member administration, support, follow-ups, rate limiting*: one row, one statement or an
  expected state; the switches and limits that matter elsewhere are in NotificationDelivery.
- *E-mail webhook*: marks an address; its effect on recipients is `ChangeMember`.
- *Operational alerts*: one more lease. Its outcome is written by the delivery's id without the lease's
  token, so that after five minutes two workers may send one alert, and a resolved alert keeps its
  `dedupeKey` until it is found again: a second message to an operator, which nothing promises not to happen.
- *Deployment and CI*: shell and YAML.
- Schemas, texts and formats in `packages/domain` (most of its lines): parsing and wording.

The map therefore covers a modest part of the repository's lines, and could not be made to cover a
large one honestly: more than half of them are the client, schemas, texts, the bridge, queries and
single-row administration, for which a module would restate assignments.

## 6. Where the code departs from what is said of it

**With a run** that ends in it.

- *Late coupons* (billing_coupon, `CouponWithinLimit`). A payment heard after its reservation ran out
  redeems the coupon all the same (billing-coupon.service.ts:101-106), beside whoever took its place, or
  after the same member reserved it again. BILLING_COUPONS.md:17 and 21 promise the limit and a single use.
- *A late payment* (billing_reopened, `EndedStaysEnded`). `invoice.paid` sets ACTIVE whatever the status
  (stripe-webhook.service.ts:166): heard after `customer.subscription.deleted` it opens an ended subscription,
  although DECISIONS.md:480 has the deletion end contract and access.
- *One identity, two invitations* (accounts_referral, `OneReferralPerIdentity`). Linking a second
  LINE identity changes the `subject` of the account's row in place (line-login.controller.ts:75); with it
  goes `referralIdentityConsumedAt`. The first identity then registers like one never seen (115-121) and
  may be invited again. REFERRAL_SYSTEM.md:29, DECISIONS.md:55 and API.md:85 say that one LINE identity is
  referred once. `InvitedOnce` is what holds: once, as long as the row stays with the identity.

**With a configuration** that ends in it, beside the listed runs.

- *Two copies after a death* (MCNotificationCopiesDeath, `AtMostOneCopy`). OPERATIONS.md:116 promises no
  second send later than 24 hours after the first. The window starts at the first *recorded* attempt
  (notification-runner.ts:193); a worker that dies between the provider's answer and the record leaves
  none. It takes no crash: the deliveries of a batch run together (131), and an error in one of them
  ends the batch and with it the answers of the others that are not recorded yet.
- *Two copies without a death* (MCNotificationCopiesSlow, `AtMostOneCopy`). The window is compared with the time
  at which an attempt begins (194), the provider is called later (228), and the window is as long as
  the key is remembered: nothing is left for what lies between.
- *A second retry* (MCNotificationRetryRace, `SentIsFinal`). `retry` checks FAILED and updates by id
  (notifications.controller.ts:335-339); the slower of two operators turns a SENT row to QUEUED.
- *An event's status* (MCNotificationStatus, `EventStatusSettles`). `refreshEventStatus` reads the deliveries and
  writes the event in two statements (notification-runner.ts:39-49). Of two workers with deliveries of one
  event, the one that read earlier may write last, and nobody refreshes an event without open
  deliveries. A worker that dies before the refresh (244) leaves the same.
- *A published schedule reads CANCELLED* (PublicationCancel, `CancelledIsUnpublished`). `cancel` reads PENDING
  without the row's lock and updates by id (publication-schedules.controller.ts:101-104). OPERATIONS.md:161
  says that a published schedule cannot be cancelled.
- *A pending schedule of a suspended creator* (PublicationSuspend, `PendingHasCreator`). `changeStatus` is
  SERIALIZABLE and counts pending schedules in a snapshot older than the row lock it waited for
  (staff.controller.ts:124-146); DECISIONS.md:997 says the suspension is refused.
- *A failure handled while the end is heard* (MCBillingCrossing, `OnlyPaymentsReopen`).
  `invoice.payment_failed` reads the status without the row's lock (182-187), and the event of the end takes
  another lock. If the end is written in between, the failure makes the ended subscription PAST_DUE with
  access for the grace, and no later event corrects it.
- *A cancellation nobody called* (MCBillingFlag, `FlagAgrees`). A cancellation reads the row before its
  transaction (billing-subscription-lifecycle.service.ts:22); one that found the flag set goes on without
  a call and sets it again after it was taken back meanwhile, so that the member reads "cancelled" while the
  contract goes on. Two changes in flight do the same. API.md:59 has the row follow a successful
  call, DECISIONS.md:480 the provider's event.

**Stated in a module, not run.** `ResultStands` (RaceDay): editing a race takes the lock 7262026, confirming a
result does not, and an edit under way writes the whole row by its id (races.controller.ts:286-313) and
takes FINISHED back. No document speaks of it.

**Met while modelling.**

- *Two requests with one key.* Both get past the reservation while no session is recorded;
  within one second the provider answers both with the same session, and the slower
  one writes OPEN over a checkout that was completed or rejected meanwhile
  (stripe-checkout.service.ts:107). A review is then no longer found in a review state.
- *A grant on a stale contract.* GRANT_ACCESS reads the provider's subscription before the locks
  (billing-admin-resolution.service.ts:99). If it ends before the commit, the event of its end is
  dropped as REVIEW_CHECKOUT_NO_ACCESS (stripe-webhook.service.ts:229), and the access stays.
- *A pass that misses its publication* (DECISIONS.md:7). Bought while the first version is being
  committed, a pass stays PENDING until the day begins; `PendingStarts` says no longer than that.
- *Content executed as rescheduled.* The execution does not read `scheduledAt` again
  (content-scheduler.ts:17; API.md:249): an item picked as due and rescheduled meanwhile is published
  at once, and a failure ends whatever schedule stands by then (46-53).
- *Two spellings.* A cancelled result writes the status `CANCELED` (results.controller.ts:447); races, papers,
  guides and the deadline of predictions test `CANCELLED`, so that such a race does not read as closed.
- *Guides by operators.* The controller admits an OPERATOR, the trigger of versions wants an ADMIN
  publisher: an operator's publication of a guide ends in an error of the database.
- *Content by operators.* CONTENT_CMS.md:11 says that operators do not operate the CMS;
  content.controller.ts:33 admits them.
- *Passwords of the provider.* `addFallback` is for local installations (auth.controller.ts:69-70) and
  `unlink` asks for a `passwordHash` (line-login.controller.ts:151), which nobody has with the provider:
  there no LINE member can add a fallback and no member can unlink, unlike README.md:34 says.
- *Accounts.* Closing does not read the role again (app.controller.ts:86-91): a member promoted
  meanwhile becomes a closed administrator whom neither `restore` nor `changeStatus` brings back. A
  link under way during a closure links the closed account again. A restoration and a new
  registration of the same identity each read before they write; the account that loses it has its
  fallback address or nothing. A third account can lose its way in too: the registration of a closed
  account's identity rewrites the row it finds by the subject (line-login.controller.ts:128), though the closed
  account may have been restored and linked to another identity (71-76) meanwhile, and the
  first identity linked by somebody else without a fallback. `EveryoneCanLogIn` excepts
  them as `displaced`. A SERIALIZABLE change deletes only the sessions its snapshot has: a
  session opened meanwhile survives a demotion, though not with a second factor (`SteppedUpIsCurrent`).
  A change of role counts paid access in a snapshot older than the billing lock (DECISIONS.md:1057).

## 7. Plan

Done: the ten modules of section 2 with what they promise and ReviewedLedger, checked and proved about, with
every safety and action property their runs check and both refinements. What is left:

1. Two requests of one member in the subscription of billing, which need a smaller instance of the rest.
2. The safety half of `EveryDeliverySettles`, as it is proved for passes and content: that every delivery that is not
   settled is one the query of some channel finds or some worker holds.
3. Models of the parts of section 1 that have no protocol of several actors but rules of their own: rate
   limits, operational alerts, settings and entitlements, support requests.
