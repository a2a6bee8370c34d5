# Formal models of Vikoplus

Vikoplus runs savings and contribution groups: members owe dues, pay them,
borrow from the group and are reminded by text. This directory holds TLA+
models of the API (`apps/api`, NestJS over PostgreSQL, BullMQ/Redis), the TLC
runs that check them on small instances, and TLAPS proofs for all instances.
Paths below are relative to the repository root; `groups.service.ts` is
`apps/api/src/groups/groups.service.ts`.

## 1. The system

| Component | State it keeps | Operations | Hard because |
|---|---|---|---|
| **Contribution ledger** (`groups.service.ts`) | obligations, payments, allocations, receipts, plans, payment rule | schedule generation, submit, record, historical import, approve, reject, request correction, settings, rules, penalties | several officers act on one payment; roles are read outside transactions; the schedule rewrites rows that payments point at, mostly outside any transaction |
| **Reminders** (`reminder-dispatch.service.ts`, `reminder-queue.*`, `queue/queue.module.ts`) | delivery keys, credits of packages, queue jobs | scheduler run, manual dispatch, worker, credit reservation | at-most-once sending over retries, stalls, crashes and lost answers; concurrent charges |
| **Loans** (`groups.service.ts`) | applications, guarantees, repayments | apply, guarantee, approve, reject, repay, review a repayment | balances reserved by pending repayments; approval races with everything that spends cash |
| **Group cash and expenses** (`groups.service.ts`) | expenses; the cash position is computed, never stored | create, review | check-then-act at READ COMMITTED |
| **Members** (`groups.service.ts`) | members, roles, invitations, join codes | add, invite, join, assign role, change status | the last admin; invitations sent after the row is committed |
| **Contribution calendar** (`groups.service.ts`) | periods, due dates | generate periods | ends of months and of the financial year |
| **Reminder purchases** (`groups.service.ts`, `billing/billing-webhook.service.ts`) | purchases, billing events | checkout, webhook, reconciliation, recovery | duplicated, late and contradictory events |
| **Subscriptions** (`subscriptions/`, `billing/`) | subscriptions, transactions | checkout, webhook, synchronisation, access policy | same, and a synchronisation on every request |
| **Group deletion** (`groups.service.ts`, `admin/`) | deletion requests | request, approve, cancel, delete | check-then-act |
| **Sign-in** (`auth/`) | OTP challenges, refresh and reset tokens | register, verify, refresh, reset | reuse of one-time values |
| **Messaging** (`messaging/`) | queue jobs | enqueue, deliver | same queue options as reminders |
| Administration, reports, uploads, health, HTTP layer, Flutter app, Angular admin | – | – | see section 8 |

How they interact. All handlers share one database through Prisma; there are no
locks but the database's. `requireMembership` opens nearly every handler: it reads
the caller's role and synchronises the subscription *before* the handler's
transaction. The ledger's schedule is run from settings, from the register,
from the saving of the financial year and on joining. Loans and expenses read the ledger's approved payments through
`groupCashPosition`. The reminder scheduler reads the ledger's dues once a
minute, adds jobs to a queue and the workers charge the packages that the
billing webhook marks PAID.

What makes each component correct:

* ledger – money is allocated completely and once, no due is overpaid, stored
  totals and statuses agree with the allocations, decisions are final, treasurers
  do not approve their own payments, penalties are prospective, dues with money
  on them are not rewritten;
* reminders – a text is sent at most once and never without being charged,
  credits are neither overdrawn nor lost, work ends;
* loans and cash – what is spent is bounded by what was collected, a loan stands on its guarantees and is not over-repaid;
* members – a group keeps an admin; an undelivered invitation leaves no member;
* group deletion – it takes two people, and a cancelled request stays cancelled;
* calendar – periods tile the year, every due falls due in its period;
* purchases and subscriptions – nothing unpaid is booked, credited or admitted,
  and what is paid for is had in the end, though notices are late, lost or contradict;
* sign-in – sessions are of verified accounts, codes are guessed at a bounded
  number of times, and who has registered can finish.

`PROJECT.json` lists, under `hazards`, each place in the code where these can
fail, and the property that covers it or the reason why none does.

## 2. Modules

| Module | Models | |
|---|---|---|
| `MinorUnits` | sums of amounts in minor units | every `reduce` and SQL sum |
| `DuesAccount` | abstract: what is owed, what is paid, which payments are closed | the promise of the ledger |
| `ContributionSchedule` | passes of the schedule over the rows of the dues, statement by statement | `groups.service.ts` |
| `ContributionLedger` | payments and settings of one group, on top of the schedule | `groups.service.ts` |
| `ContributionCalendar` | periods and due dates, as functions | `groups.service.ts` |
| `PrepaidOnce` | abstract: buy credits, charge a text once, send it at most once | the promise of reminder dispatch |
| `ReminderDispatch` | scheduler, queue, workers and credits of one group | `reminder-dispatch.service.ts` and its queue |
| `LoanPromise` | abstract: a request is answered once, a debt is paid off and never overpaid | the promise of loans |
| `LoanBook` | applications, guarantees, loans and repayments of one group | `groups.service.ts` |
| `GroupFunds` | the group's cash: composes `LoanBook` with expenses and contributions | `groupCashPosition` and the expense handlers |
| `ProviderOrders` | the payment provider, as the code sees it, and the frame of a webhook | `billing/` |
| `Subscriptions` | one group's plans: checkout, webhook, synchronisation, access | `subscriptions/`, `billing/` |
| `ReminderPurchases` | one group's packages: checkout, webhook, packages page | `groups.service.ts`, `billing/` |
| `SalesBook` | abstract: a sale is paid once, booked as it was paid, credits are for what has been paid | the promise of billing |
| `Billing` | composes the three before it | |
| `MemberAccess` | members, invitations, roles, statuses, deletion of one group | `groups.service.ts`, `admin/admin.service.ts` |
| `AuthSessions` | sign-in with one contact | `auth/auth.service.ts` |
| `MinorUnitsTheorems`, `ContributionCalendarTheorems` | lemmas about sums and dates | proofs |
| `ContributionLedgerProofs`, `ReminderDispatchProofs`, `GroupFundsProofs`, `BillingProofs`, `MemberAccessProofs`, `AuthSessionsProofs` | invariants, theorems, refinements | proofs |
| `MC…` | constants of the instances TLC checks; `MCContributionCalendar` also the checks of the calendar | |

`MCContributionLedger` extends `MCContributionCalendar`, so the ledger's runs
evaluate the calendar's checks.

Operators whose comment begins with "Mutation:" are faulty variants of the operator that
follows them. Nothing uses them; they exist to show that a property notices
the fault.

### 2.1 ContributionSchedule and ContributionLedger

A slot is one due of one member, or the late penalty that a due may attract
(`penaltySourceId`). `obligation`, `payment`, `rule`, `plan`, `role` are the
rows of the same name, `partial` the `allowsPartial` of the plans; `pending` and
`applied` are the PENDING and APPLIED `PaymentAllocation` amounts; `receipt` the
payments with a receipt; `pass[r]` is where a running pass of the schedule is and
what it has read, `request[m]` what a running handler of officer `m` has read.

* **The schedule** is `generateContributionSchedule` and the `applyLatePenalties`
  it ends with. Only `saveFinancialYear` runs it in a Serializable transaction
  (`:860`), one action (`WholePass`). `saveContributionSettings` (`:1035`) and
  `contributionRegister` (`:1699`) run it outside any transaction, `joinGroup` in a READ
  COMMITTED one, so that each statement is an action: `ReadPlans`, `WaiveInactive`,
  `FallDue`, `Reprice`, `Create` for one row at a time, `ReadRule`, `FindLate`,
  `Penalise` for one row at a time, `EndPass`. What was read is kept and used later, although
  plans, rules and rows may have changed since. A join keeps its writes as a draft that
  locks its rows until it commits. `AbandonPass` is an error anywhere.
* **Settings.** `SaveContributionSettings` is the array transaction that writes the plans
  (`:946`); `ReadPartial` and `WritePartial` copy the rule's `allowsPartial` to the plans in two
  further statements (`:1021`), before the pass. `SavePaymentRules` is one
  transaction and writes both (`:244`).
* **Payments.** `submitPayment` is one Serializable transaction and one action.
  Officer handlers read the officer's role first, outside the transaction, so
  they are split there: `BeginRecord`/`CommitRecord`,
  `BeginReview`/`CommitApproval`. `rejectPayment` and
  `requestPaymentCorrection` read, check and then update on condition that the
  status is still the one they read: `BeginReview`/`ReadForReview`/`WriteReview`.
  The historical import commits payments and then creates receipts:
  `ImportHistorical`/`IssueHistoricalReceipt`. `AbandonRequest` is an error, a
  rollback or a dead process at any of these points. PostgreSQL's snapshot and
  first-updater-wins rules make a Serializable approval atomic also against the
  READ COMMITTED updates of the same row.
* **Allocation.** `Allocations` gives every outcome `allocatePaymentToObligations`
  may choose: oldest due first, all of the amount, at most one due filled in
  part and only when the plans allow it, over dues reduced by what other waiting payments
  have promised. Dues of the same date have no stated order, so the
  choice is nondeterministic. `{}` is the code's exception.
* **Time** is a count of days, and a statement executes at an instant of one of them. A
  due falls on the start of its day, a rule is
  saved during one; hence the strict comparison in `Late`.
* **Abstracted.** Which periods exist (constants `DueDate`, `DueOwner`), names,
  references, evidence, notifications, audit rows. One recurring plan is modelled next to an
  always-active one (membership fee), so the schedule never returns early; the plan
  of the penalties exists from the start. A newcomer's own dues are left out: nobody
  sees them before the join commits. All members are ACTIVE and
  the subscription grants access. One request runs per officer at a time.
  `assignRole` is one action here: its own race is in `MemberAccess`.
  The dates are those `ContributionCalendar` computes. The statuses SUBMITTED,
  REVERSED and OVERDUE are never produced by the code and do not occur.

What the code does and no property claims: a pass goes on at the price it has read, so
that dues without money can be re-priced or created at a price that was replaced
meanwhile, until the next pass; the copy of `allowsPartial` by the settings may put back a value
that a save of the rules has just replaced (`:1021`), so the plans and the rule disagree until
the next save, although README.md:56 has one rule for the group; a pass that read a rule
before it was replaced may still penalise by it (`:274`, `:306`); a waived due
stays waived when its plan is switched on again.

### 2.2 ReminderDispatch

A key names a delivery and the queue job that carries it (`jobId: job.key`).
`delivery` is `ReminderDelivery.state`, `used` is `usedQuantity`, `paid` and
`paidAt` the status and the date order of the packages, `texts` counts what the
provider accepted, `job` is the queue, `run[s]` the scheduler of each server,
`worker[w]` the position of each worker in `sendSms`/`sendWhatsApp`.

* `StartRun`, `ReadDues`, `QueueScheduled`, `EndRun` are `runScheduled`: rules,
  dues and jobs are read and added in separate steps, so the due may be paid
  and the rule switched off in between. `CheckManual` and `QueueManual` are the two halves of
  `sendReminder`.
* `Reserve` and `ReserveNothing` are the Serializable transaction of
  `reserveCredits` (unique key, charge, or nothing); `Send` and `Mark` are the
  provider call and the write of its outcome, with a `catch` that writes UNKNOWN.
* `Take`, `Finish`, `Stall`, `Remove`, `Added` are what the options in
  `queue/queue.module.ts` make of BullMQ, which is external: attempts, ids that
  are not added twice, a lock only its holder may use, one forgiven stall,
  removal of finished jobs. The back-off is the time a job stays WAITING.
* `PayPackage` and `FailPackage` are what a payment event does to a purchase.
  The handler does not look at the present status: a purchase may be
  confirmed again and may fail after it has been paid and used. Where the events
  come from is in `Billing`.
* `Faults` selects what may go wrong: a database abort, a lost answer, a lost
  write, a crash, a slow worker that outlives its lock, removal of finished jobs, a failing
  `add`, a restarted server, a repeated or contradicting payment event.
* **Abstracted.** The text and its segment count (`Cost`), the calendar that
  turns a rule's offsets into days (`DayOf`), one date per scheduled key, the
  campaign and audit rows written after manual queueing. WhatsApp
  dispatch is modelled because the code implements it, although README.md:58
  calls it unavailable.

### 2.3 LoanBook and GroupFunds

`application`, `guarantee`, `loan`, `repayment`, `expense` and `policy` are the rows of the
same name; a loan has the id of its application (`applicationId` is unique).
`savings[m]` and `arrears` are what `loanOverviewForMember` makes of the
member's contributions, `active` the ACTIVE members, `collected` the sum of the
approved payments. `desk[s]` is what the request of session `s` has
read so far; a member may have several sessions.

* **Atomicity.** Membership and role are read first, outside any transaction
  (`Authorise`), so a member may be suspended afterwards. The Serializable
  transactions – `Apply`, `Disburse`, `RecordRepayment`, `ReviewRepayment`,
  `UpdateMemberStatus` – are one action each. `approveLoanApplication` reads status,
  guarantees and terms before its transaction: `ReadApplication`/`Disburse`.
  `rejectLoanApplication` has a conditional update: `ReadForRejection`/`RejectApplication`.
  `updateLoanPolicy` counts members, then saves: `CountMembers`/`SavePolicy`.
  `respondToGuarantee`, `createExpense` and `reviewExpense` run at READ
  COMMITTED, where each query sees what is committed when it runs, so each
  read that matters is a step: `ReadGuarantee`/`RespondToGuarantee`;
  `ReadFunds`/`CheckAvailable`/`CreateExpense`; `ReadExpense`/`ReadFunds`/`CheckCash`/`ReviewExpense`.
  `Abandon` is an error or a dead process at any of these points.
* **Cash.** `CashBalance` is `groupCashPosition` for Serializable callers. For
  expenses its four queries are two steps: contributions and approved expenses,
  then waiting expenses and loans.
* **Price.** `TotalPayable` is `loanTotalPayable` with `processingFee`, rounded up to
  whole minor units. A price beyond the INTEGER column (`FitsColumn`) makes the
  transaction fail.
* **Abstracted.** Roles are constant and of statuses only an admin's change is
  modelled. Two sums of one step of `ReadFunds` are read
  together: approved expenses can only have grown since contributions were
  read, which makes the check stricter. Contributions enter as approved
  amounts (`ApproveContribution`), of eligible plans or not; `FallBehind` is a due that
  becomes overdue. Approval moves a loan straight to DISBURSED, so
  APPROVED, CANCELLED and DEFAULTED are never produced by the code and do not occur.

### 2.4 ProviderOrders, Subscriptions, ReminderPurchases and Billing

`order` and `notice` are the provider's: the orders that checkouts open and the
statuses it has announced. `notice` only grows and a webhook picks any of it, so notices are late,
repeated, reordered or never delivered. `processed` is the set of `BillingEvent`s
that are PROCESSED, `sub` the `Subscription` rows by plan, `newest` and `recent`
the rows by `createdAt` and by `updatedAt`, `booked` the `BillingTransaction`s,
`purchase` the `ReminderPackagePurchase` rows. `hand[h]` is where call `h` is and what
it has read.

* **Atomicity.** No handler here has a transaction that spans its reads and
  writes: each `await` of the database or of the provider begins a new action, and a call
  may be lost at any of them (`Lose`, at most `MaxLost`). `Deliver`,
  `FindPurchase`, `SettlePurchase`, `FindRow`, `WebhookWrites`, `WebhookBooks`,
  `WebhookMarks` are one webhook. The `Promise.all` batches of the packages page
  (`CheckAsks`, `CheckWrites`, `RecoverFinds`, `RecoverWrites`) run in any order.
* **Composition.** A request or page of a group synchronises the subscription
  first and goes on to buy or to the packages page only if it is admitted (`GoesOn`). A
  webhook settles a purchase and then a subscription, whatever the order was for.
* **Notices.** A notice names its order, or (`Unnamed`) only the payment, the group and the plan: the
  webhook then passes purchases by, takes the group's row of that plan
  (`RowsOf`; `subscriptionFromExternalRef`, `billing-webhook.service.ts:166`) and books under the
  payment's reference instead of the order's (`Reference`). `OwnEventIds` says whether notices have
  ids of their own.
* **Age.** The recovery of the packages page asks for orders of the last 90 days only
  (`groups.service.ts:2457`). `old` is the set of paid package orders that are older (`OrdersAge`); a
  paid package that nobody has visited the page for until then is never credited, and
  `PaidPackagesAreCredited` excuses exactly that.
* **Promise.** `Billing` implements `SalesBook`: paid orders are the sales, `booked` the bookings,
  PAID rows carry credits for their package. The book lets credits be withdrawn and granted again
  and one payment be credited by two rows, because the code does both.
* **Abstracted.** Amounts, metadata and signatures; orders are matched by link
  or by package. One group; plan
  administration, the mock provider, one subscription that covers several groups and an
  operator's manual changes are left out.

What the code does and no property claims: two recoveries at the same time find the
order missing and each creates its row (`groups.service.ts:2454`); one payment may be
booked twice, under the order and under the payment's reference, when one of its notices
names the order and another does not; an order
that is still open counts as FAILED on the packages page (`:2433`), until the
recovery finds it paid; each synchronisation starts a new period; resuming asks
nobody, so that it gives access whatever the order's state; a late CANCELLED notice
gives back what a resume has written and a FAILED notice has suspended.

### 2.5 MemberAccess

`member`, `invitation` and `request` are the rows of the group, numbered as they
are created; `hand[h]` is what call `h` has read. Times are days; the dates one
transaction takes fall on one tick.

* **Atomicity.** `addMember` reads a number and creates the rows under
  `pg_advisory_xact_lock` (`AddReads`/`AddCreates`), sends afterwards
  (`AddTells`, `AddUntold`) and deletes the row if nobody could be told
  (`AddCleansUp`). `joinGroup` reads the invitation, checks the user and
  claims it by a conditional update; the claimed row stays locked while an open
  invitation's new member gets a number (`JoinReads`, `JoinChecks`, then
  `JoinActivates` or `JoinClaims`/`JoinCreates`). `assignRole` writes by id what it
  has checked before; `updateMemberStatus` is Serializable, so its write fails
  when the row has been written since (`StatusReads`, `StatusWrites`, `StatusFails`).
  The deletion handlers read and then write by id. `Orphaned` is a write
  into a deleted group; `Lose` a dead process.
* **Abstracted.** The caller's authorisation is merged with the first read. A contact is one
  value. The subscription grants access. Profile edits, resending an invitation, the
  group's own join code and listings are left out.

What the code does and no property claims: two admins can step down at the same
time and leave the group without one, since each counts the other (`:1583`); one user who
accepts two open codes at once becomes two members; a role given to an invited row is overwritten at its
acceptance; an officer who read a request before its cancellation approves it
afterwards, and two admins can open two requests at once (`:4135`); a suspended user
who was made an admin cannot be reactivated; a message whose enqueueing failed
after it was stored arrives though its row is gone.

### 2.6 AuthSessions

`contact` is the `UserIdentity` of one e-mail address or phone number, `linked` the
account of the provider's identity, `challenge`, `reset` and `token` the rows of one-time
codes, reset tokens and refresh tokens, `issued` the order of the challenges.
Rows that no longer count are free for reuse once no call holds them, which keeps the
state finite without a bound on how often anything happens. Expiry may
come at any moment.

* **Atomicity.** No handler reads and writes in one transaction, except that
  `CompleteWrites` and `RegisterCreates` write several rows at once. A guess reads the challenge and its count
  (`GuessReads`) and writes by id (`GuessWrong`, `GuessVerifies`,
  `GuessResets`). A code is stored before it is sent (`Tells`, `TellFails`). The
  provider's sign-in reads identities in two steps and fails on a unique index
  (`SayariReads`, `SayariLooks`, `SayariLinks`, `SayariEnrols`, `SayariFails`).
* **Abstracted.** Signatures, hashes, the resend delay. Only who was told a code guesses right.

What the code does and no property claims: two refreshes with one token both get a session
(`auth.service.ts:392`), and a refresh or sign-in that overlaps a reset or logout keeps its
session; two right guesses of a reset code give two reset tokens; a code that was
replaced still verifies for a call that had read it before; an access token lives on
after logout; somebody who is not verified and has forgotten the password has no way on.

### 2.7 ContributionCalendar

`periodDueDate`, `contributionPeriodSpecs` and the rollover of
`generateContributionSchedule` as operators on day numbers, with the arithmetic of
JavaScript's `Date` that they use. Three recursive functions on days (`FirstFrom`,
`PeriodsFrom`, `YearFrom`) stand for the code's loops. `MCContributionCalendar` states what the functions should return
as named assumptions: months have their lengths, periods tile the year, dues lie in their
periods, joiners owe the rest, weekly and monthly dues fall on the asked days and on no
others, years follow on.

What the code does otherwise than one may expect: a monthly plan anchored on the 31st
has no period that begins in February and goes on from day 3 (`FebruaryIsSkipped`); a period
that begins in the middle of a month and has an earlier due day falls due on its first day;
the year has rolled over on its last day already. A changed frequency or anchor leaves
the old periods in place next to the new ones (the rows are not modelled). Dates are midnights
in UTC, from 2000 on. The code's limit of 370 periods is never reached.

## 3. Runs

`cd tla; tlc -config <name>.cfg <module>`.

| Run | Question | Instance | Result |
|---|---|---|---|
| `ledger_money` | Does the money add up, is the first of two overlapping decisions final, and does the ledger implement `DuesAccount`? | two dues of one member on two days, two payments of 1 or 3 units, dues of 2; an admin and a treasurer record and review by every handler, the treasurer changes office; the schedule runs with the financial year only | holds |
| `ledger_penalties` | Are penalties prospective, are dues with money kept, statement by statement? | one due, three days, one pass at a time by any of its callers, rules on and off, prices 0, 1, 2, plan on and off, one payment of an admin's review | holds |
| `ledger_treasurer` | Can a treasurer approve a payment of their own? | a treasurer who owes a due and an admin, roles may change | violated |
| `reminders_once` | Is a reminder ever texted twice, does the record tell the truth, does every job end? | one due, one server, two workers, two attempts, one stall, two days, credits for two texts, every fault, fair scheduling | holds |
| `reminders_credits` | Are credits neither overdrawn nor lost, and is `PrepaidOnce` implemented? | three texts of two channels that cost four credits, packages of one and two credits, events that repeat and contradict | holds |
| `reminders_late_credits` | Does an enabled, paid reminder go out? | one text, one worker, **no** fault, timers fair | violated |
| `loans_book` | Do the books of loans and repayments agree, does nobody decide their own, and is `LoanPromise` implemented? | borrower, treasurer, admin in one session each, all loan handlers; one application, two repayments of 1 or 2 on a price of 2 or 3 | holds |
| `loans_policies` | Does lending stay within the multiple of savings, and does a loan cost what its application agreed to or fail at the column's width? | one borrower with two applications, a repayment and arrears, two policies of different rates and guarantors, a guarantor who may be suspended, a column of 4 units | holds |
| `funds_expenses` | How much can be overspent by racing expenses, and does every loan have its guarantees? | an admin and a treasurer record expenses, the admin reviews them, three expenses of 1 or 2; a loan and its repayment next to it, whose guarantor answers in two sessions | holds |
| `billing_restored` | Is only what is paid booked and admitted, is `SalesBook` implemented, and is what is paid had in the end? | one order, of a plan or a package, its notices late, repeated, without its id or without ids of their own; two rows, one lost call or answer, two calls at a time, fair | holds |
| `members` | Are numbers unique, does an invitation let in one, does a removal stick, do admins keep their access, are unsent invitations dealt with, does a cancelled deletion rest? | two people, two rows and two invitations besides the founder's, one request, two calls at a time, one lost | holds |
| `auth` | Are sessions of verified accounts, attempts bounded, and does everybody who registers get verified? | one contact of either kind, two codes, one reset token, one session, two calls at a time, fair | holds |

**Bounds and why they are enough.** Two payments and two dues suffice for a
payment to straddle dues, for two to compete for one due and for partial and
full payment to meet; two officers for two decisions about one payment to overlap; amounts up to three exceed a due and do not exceed two. The clock
runs to the day after the last interesting comparison (due, grace, penalty). A pass of
`ledger_penalties` is interleaved with saves, payments and reviews, not with another pass: the theorems have
any number. Two
workers are the smallest number that race; a third would
repeat what the second does, since a key only distinguishes its holder from the
others. A second server would add a job whose id is in the queue already, or add
it again after its removal, which the next run of the first does too. Two attempts and one stall give a job every kind of second life, and
removal lets it start again without limit. Two repayments
are enough to compete for one balance, two applications for one limit, two
sessions for the same cash, a third expense for the second round of an overspending; a price
of two or three is paid in one part or two. In the runs of loans and expenses
rows of one kind are interchangeable (`Rows`): no action compares or orders them.
`Calls` says which handlers a session runs, so that each run explores the
races its question is about; `MaxCollected` bounds what is contributed. The proofs of section 5 remove all these
bounds for the properties they cover. `MaxTime` and `LastDay` cap the clocks, `MaxMinor` caps single
amounts (32-bit columns in the code; sums are not capped).

In `billing_restored`, `members` and `auth`, `Calls` gives each of two handlers
its own set of calls, chosen for the races the hazards name; two calls of one set do not overlap. In `billing_restored` customers'
calls meet those of the provider, the operator and the account (webhook, reconciliation,
cancellation, resume); two
notices at the same time, a checkout next to a synchronisation or another checkout, and a notice that
falls on another order's purchase do not occur in it: there is one webhook and one
order. The theorems cover them for `ImplementsSalesBook`, `AccessFollowsPayment` and
`CreditsNeedPayment`, for any number of orders and calls of each kind; nothing covers them for the two liveness
properties. Two purchase rows let a recovery miss the
row and create another. `MaxTime` of one day lets a paid period end. In
`members`, a third row lets an addition and an acceptance compete for a
number; one day separates an acceptance from a removal. The instance with `MEMBER` and `TREASURER` in
`InvitedRoles` (6.4 million states) has been checked too. `auth` bounds rows, not
steps. Daily plans are checked in the short years only, for the depth of TLC's recursion.
The proofs remove the bounds of these runs for all but liveness and `OverspendBounded`. `members` switches the
deadlock check off: the tables fill up and the group may be deleted.

**What the violated runs show.** The job of a reminder that failed for want of
credits keeps its id (`queue/queue.module.ts:25`), so adding it again does
nothing: credits bought later that day are not used for it, with no fault
involved (`reminders_late_credits`).

A reviewer's role is read by `requireMembership` before the transaction, the payer's inside it
(`groups.service.ts:2159`), and the two roles are compared, never the two members. A treasurer who
loses the office in between passes the comparison and approves a payment of
their own as a treasurer (`ledger_treasurer`), although README.md:55 rules it out.

**What the code does not ensure.** Some properties are weaker than one may
wish, because the code allows more; the comment of each says what it allows.

* Both expense handlers compare an
  amount with the cash position in READ COMMITTED transactions that lock nothing
  (`:1225`, `:1302`), so two sessions that read before either writes spend the same cash;
  `reviewExpense` also updates by id whatever the
  status has become (`:1311`), so of two overlapping reviews the later one stays.
  `OverspendBounded` is what still holds: each spending session can add at most all that was
  collected.
* An approved amount may exceed the limit at its approval: the second check
  compares it with a borrowing power that was clamped at zero and then raised by the
  whole amount requested (`:3318`, `:3065`), so it never refuses.
  `LentWithinSavings` is what still holds: only a smaller limit can
  invalidate the check made on application, and savings never shrink.
* The PENDING allocations of a payment that was sent back for correction reserve
  nothing (`:4865`), although it can be approved as it is: a second payment can be
  promised the same due. `NoOverpayment` holds, as the later of the two approvals fails.
* `respondToGuarantee` updates by id, too (`:3621`): of two overlapping answers of
  one guarantor the later one stays, although an approval may have counted the first.
  `LoansBacked` allows a refusal for guarantors with several sessions, and no other.
* A cancelled deletion can still be approved by a call that read the request before
  (`:4135`); `CancelledDeletionsRest` says that it is by no other.
* A pass that read a penalising rule before it was replaced goes on to penalise
  (`:274`, `:306`). `PenaltiesAreProspective` speaks of the time when no such pass runs.
* `LoanReviewers` are group admins and treasurers, as in the code (`:3257`, `:3393`,
  `:3647`). README.md:55 and `apps/api/test/group-rules.spec.ts:89` reserve the
  review of loans to treasurers.

## 4. Fairness

Safety needs none. For `JobsEnd`, `reminders_once` assumes: a waiting job is taken in the
end although others compete for the workers (strong fairness of `Take` per key;
the queue is first in, first out); a worker in the middle of a job goes on (weak
fairness of its next step; Node's event loop and the 20-second time-out of the provider call); the
lock of a job whose worker is dead expires (weak fairness of `Stall` for
unlocked jobs). Crashes and stalls of slow workers are not fair and may happen
for ever to a process, but a job survives only `MaxStalls` of them.
`reminders_late_credits` adds the 60-second timer of each server and
that a run proceeds; this is the strongest assumption the code supports, so that
the violation is not one of scheduling.

`billing_restored` assumes that a call that has begun goes on unless it is lost, that only
`MaxLost` are lost, and that the group keeps being used: requests, the packages page and
the operator's dashboard come again and again (strong fairness, since another call
may hold the handler). It does not assume that a notice is ever delivered. That is
what `PaidAccessIsRestored` and `PaidPackagesAreCredited` are about: synchronisation
and recovery suffice.

`auth` assumes for `AccountsGetVerified` that who has registered tries again: signs in,
asks for a code, and enters the code that was received; and that a code does not fail to be
sent, expire or be replaced for ever (strong fairness of `Login`, `Renews`, `Codes`,
`Tells`, the reading of a guess and `GuessVerifies`). No call lasts for ever: it ends or is
lost (weak fairness of `Lose`).

## 5. Proofs

All proofs are checked by TLAPS with SMT, Zenon and LS4. They hold for every
value of the constants allowed by the named assumptions
`MaxMinorAssumption`, `ScheduleAssumption`, `LedgerAssumption`, `ReminderAssumption`, `LoanAssumption`,
`FundsAssumption`, `OrderAssumption`, `SubscriptionAssumption`, `PurchaseAssumption`,
`BillingAssumption`, `MemberAssumption` and `AuthAssumption` (finite sets of dues, payments, keys, packages, members,
applications, repayments and expenses; constants of the right type), which TLC
evaluates in the runs of their modules.

**Sums** (`MinorUnitsTheorems`). `Total(S, f)` counts units, so its laws come
from cardinality theorems instead of induction: a sum is a natural number,
depends only on its summands, is monotone, grows by `a` when one summand goes
from 0 to `a` or when a thing of amount `a` joins, and grows by the sum of
the raises when many are raised at once (a bijection).

**Ledger** (`ContributionLedgerProofs`). `LedgerInv` is the type invariant,
`NoOverpayment`, `LedgerBalanced`, `StatusTellsBalance`,
`ReceiptsCertifyApprovals` and the facts that make them inductive:
rows that the schedule has not created are blank; money lies only on rows that
exist, are due, and belong to the payer – which is why no statement of the schedule
touches it; what a join has drafted is of rows that carry no money, keeps their dates, and no row is
drafted twice (`DraftsAreFresh`) – which is why a draft that is committed later cannot undo a payment
made meanwhile, as the dues money is promised to are due and those drafted are not; PENDING allocations exist only before and APPLIED
ones only after approval – which is why applying them adds to the books once; a
running request remembers an existing payment, and a conditional write one that
was reviewable – which is why a late writer cannot undo a decision.
From it follow the invariants, the action properties `DecisionsAreFinal` and
`DuesWithMoneyAreKept`, and the refinement `Spec => ImplementsAccount`, where
approvals and records map to `Settle`, statements of the schedule to `Assess`, rejections to
`Refuse` and the rest to stuttering. They hold for any number of passes at the same time.

Two more properties of the ledger have invariants of their own on top of `LedgerInv`:

* `PaymentsFullyAllocated`: the filling that a step chooses adds up to the amount of its
  payment, and no other step changes what is promised or applied for a payment that counts;
  an approval turns the one into the other.
* `PenaltiesAreProspective`: a due whose penalty is absent when no penalties are in
  force and no running pass has read one that is, is `Spared` from then on – whatever rule is
  in force or read later came into effect
  when the due had fallen due already, and `Late` asks for dues that fall due after it;
  no pass has found it late or drafted its penalty.
  That needs that dates of dues never change, drafted or not (`DatesAreFixed`), and that drafts of
  penalties belong to passes with a rule that penalises (`PenaltyDrafts`).

**Reminders** (`ReminderDispatchProofs`). Three invariants, each relying on
the one before. `QueueInv`: types, jobs that may run have attempts left, only
running jobs are locked, busy workers hold a key. `DispatchInv`: between the
charge and the end of the record a key is RESERVED and in the hands of a single worker, who has
not texted before `Send` and has texted once after it; this holds whatever
the queue does, since it rests on the delivery key alone – jobs, locks, stalls and removals
do not occur in it. `CreditInv`: PAID packages are confirmed ones,
no package is overdrawn, and credits used equal the cost of the keys charged. From
them follow `TextedAtMostOnce`, `RecordsAreHonest`, `NeverOverdrawn`,
`CreditsAccounted` and `Spec => ImplementsPromise`, where
a reservation maps to `Charge` because charged keys are covered by
confirmed quantities.

**Loans and cash** (`GroupFundsProofs`). `Shape` is the type invariant with two
facts: rows refer to rows that exist and blank rows are blank (`RowsSound`); a
running approval or rejection is about an existing application of somebody else,
a running review of an expense about an existing one (`DesksSound`) – which is why what
was read before a transaction may be used in it. `Books` is the conjunction of the four
invariants of `loans_book`, inductive together with `Shape`: a
disbursement needs that an open application has no loan, a repayment that
what waits fits the balance, a review moves one amount from what waits to
what is paid (`TotalExtended`, once for each sum). From `Books` follows
`Spec => ImplementsPromise`, where `Disburse` maps to `Lend`, which needs that a price is
positive (`PayableCoversPrincipal`), a rejection to `Refuse`, the approval of a
repayment to `PayBack` and everything else to stuttering. `Lending` adds that the policy is one the
group has had; with `Shape` and `Books` it keeps `LentWithinSavings`: an application
is checked against what is owed, which is never less than what is left of the principal
(`LentIsOwed`), a loan replaces its application by no more, and every other step takes
something away or adds savings (`StaysWithin`).

`Backing` keeps `LoansBacked`: an answer being written is still awaited or its guarantor has
several sessions, so that it takes back no confirmation of anybody else; and an approval about to write has as many
guarantees that stand (`Standing`) as its application requires, which answers that come in between
cannot make fewer (`Enough`).

**Billing** (`BillingProofs`). `Stands` says of every call that what it has read is true
of the orders: a call that goes to book has a paid order of the plan it books on, a row
that is PAID has a paid order of its package, every link is to an order of the row's
plan or package. It is inductive because products, payments and items are never taken back
(`Kept`), so what another call does cannot make it false; `Moved` lists the few ways in
which any action changes each part of the state, and the proof goes by those instead of
by actions. From it follow `BookedAsPaid` (a booked order is paid, and on its own plan), `CreditsNeedPayment` and the action property
`AccessFollowsPayment`, the latter by the ways in which a row is written.
The refinement `Spec => ImplementsSalesBook` takes the same moves: orders, bookings and purchases
move one at a time (`OneAtATime`); a payment is `Pay`; a transaction that is new is `Book`, and one that
is written again says the same, by `BookedAsPaid`; a row that becomes PAID is `Grant`, as some order of its
package is paid, and one that ceases to be is `Withdraw`; the rest is stuttering.

**Members** (`MemberAccessProofs`). `Stands` has five parts. `RowsStand`: a member has
one invitation at most, and what a member who left was invited with ended by then
(`LeavingEnds`) – which is why an acceptance that was read before a removal is dated
before it. `NumbersStand`: one call at a time holds a number, which no member has.
`UntoldStand`: the row of a message still to be sent belongs to one call, to no user, and its
invitation cannot be accepted – which is why deleting it takes nobody's access away.
`HandStands`: what calls have read of rows, invitations and requests, as far as they rely
on it; `Kept` says what every action leaves true of it. They are inductive, action by action.
From them follow `NumbersUnique`, `RemovalSticks` and the action properties
`AdminsKeepAccess` – a suspension writes only a row that is as it was read, when it was not an admin's – and
`CancelledDeletionsRest`: only approvals write APPROVED, each the request it holds, and none takes up one that is cancelled
(`RestStays`).
`Counted` adds two counts: members with a user against acceptances, and unsent
invitations against the calls that have one. It is inductive because nobody has the row of an
invitation that is not accepted yet (`RowsFresh`) and a claimed invitation stays
as it was claimed (`HandFresh`), so both sides grow together (`AcceptedOnce`) and shrink
together (`OneTold`). From it follow `MembersMatchInvitations` and `UndeliveredAreCleanedUp`.

**Sign-in** (`AuthSessionsProofs`). `Standing` says that the account a call, a
session or a reset token is for is verified (`Vouched`), and that a challenge
belongs to somebody registered; owners and verification are never taken back, so what a call
has read holds when it writes. `SessionsNeedVerification` follows. `AttemptsBounded` follows
from `AttemptsCounted`: the attempts counted and those under way together stay
within the bound. The sequence `issued` is typed only by TLC.

**Calendar** (`ContributionCalendarTheorems`). For every date, plan and year: months partition the
dates, the next period starts later, weekdays are found within a week, a due
date lies in its period, and one turn of the loop yields a period within the year that the next one
follows without gap.

What the loops return as a whole is proved without an induction theorem. A loop runs on
later and later days and stops from some day on. `RecursionEnds` shows that a function
that satisfies such a recursion exists, whatever the loop computes; the recursive
functions are defined as a `CHOOSE` of one, so they satisfy their recursion
(`FirstIsDefined`, `PeriodsAreDefined`, `YearIsDefined`). What they return then
follows from the least distance to the limit at which it would be false (`LeastOf`). From
this:

* `FirstPeriodIsFound`: the loop from the anchor finds the period in which the year begins;
* `PeriodsTileTheYear`: periods have neither gap nor overlap from the first day of the year, or a later
  anchor, to its last, and each holds its due date;
* `JoinersOweWhatIsLeft`: who joins owes dues not before the joining, and exactly one for each
  remaining day;
* `PeriodsAreFewEnough`: a year that the code accepts has fewer than 370 periods;
* `YearInForceHoldsToday`: the rollover reaches a year that holds the day and follows
  the old one by whole years;
* `DuesFallOnTheAskedDays`: in whole weeks and months a due falls on the asked day, or
  on the last of a month that has no such day.

**Only model-checked:** liveness (`JobsEnd`,
`PaidAccessIsRestored`, `PaidPackagesAreCredited`, `AccountsGetVerified`), which is outside the prover's reach
as is ENABLED; `OverspendBounded`, whose invariant would have to follow several stale
sums of each session; that `issued` of `AuthSessions` is a sequence without repetitions.

## 6. Checking faults

For each property of a passing run, `PROJECT.json` names one faulty variant of
one modelled operator (a dropped condition, an overwritten sum, a missing
comparison) under which that run reports the property violated.

## 7. Plan

Done: `ContributionLedger` with `DuesAccount`, `ReminderDispatch` with `PrepaidOnce`,
`LoanBook` with `LoanPromise`, `GroupFunds`, `Billing` with its three parts and `SalesBook`, `MemberAccess`,
`AuthSessions`, `ContributionCalendar`, each with its proofs.

Left:

1. The rows of the schedule's periods, and what a changed frequency or anchor leaves of the old ones;
   a newcomer's own dues.
2. Resending an invitation and the group's own join code.
3. One subscription that covers several groups; plan administration; liveness of billing with several orders.
4. The composition of `ReminderPurchases` with the credits of `ReminderDispatch`.

## 8. Not modelled

Messaging beyond the queue of texts: the push, invitation and sign-in queues have the same
options and no state of their own; the other modules let a message be delivered or
not. Reports read only. Upload storage (I/O), health
probes, configuration, rate limits and HTTP validation (no state), the administration's
single-row updates, the Flutter and Angular clients (they display what the API
decides), migrations and deployment files.
