# Formal models of lk_otsfera

lk_otsfera is a B2B cabinet (Next.js, Prisma over PostgreSQL, a BullMQ worker
over Redis) in which a training centre, its partners and their client
organizations work with orders, payments, documents and leads.  The books are
kept in 1C: the cabinet pulls organizations, orders, payments and documents from
it and pushes leads and documents to it.

This directory holds TLA+ models of the parts where concurrency, failures and
time decide whether the money and the exchanged records are right, TLC
configurations that check them on small instances, and theorems about them
checked by TLAPS.  Paths below are relative to the repository; `services/` is
`src/lib/services/`, `processors/` is `src/worker/processors/`.

    tlc -config MCCommission.cfg MCCommission      # one run; see "Runs"
    tlapm CommissionProofs.tla                     # one proof module

## 1. Inventory

Three kinds of actors change the state: HTTP requests (any number at a time, no
locks between them), jobs of the one worker process (one at a time per queue,
`automation.run` two; different queues run together; 5 attempts with exponential
back-off, a stalled job is started over), and 1C, which answers calls.
PostgreSQL runs at READ COMMITTED; most services read, decide in memory and
write in a transaction at the end, so that "read, then someone else, then write"
is the hazard that comes back everywhere.  Mutual exclusion, where there is any,
is a unique index or an `updateMany` whose WHERE repeats the condition.

| Component | State | Operations | Talks to | What makes it correct |
|---|---|---|---|---|
| Commission statements (`services/commission/statement.ts`, `calculator.ts`) | CommissionStatement, its items, totals | calculate / recalculate a period (partner request, monthly job) | payments, rates, corrections | one live statement per (partner, period); a total its lines add up to; a payment on one live line |
| Rates (`services/commission/rateResolve.ts`, `services/admin/partners.ts`, `services/partner/rateOverride.ts`) | Partner.commissionRate, Organization.partnerCommissionRate, their histories of changes | set, clear, look up for a day | statements | the rate of a day does not change when today's does |
| Statement lifecycle and corrections (`lifecycle.ts`, `corrections.ts`) | status, CommissionCorrection | approve, pay, detect late refunds, resolve | statements, payments | closed statements are not rewritten; a refund is deducted once; what a payout cannot cover is carried |
| Pull from 1C (`processors/sync-*.ts`, `services/oneCSync/cursor.ts`, `pending.ts`, `record-batch.ts`) | SyncState.cursor, OneCPendingRecord | pull, write, advance, capture, replay | 1C, writers | no record is lost between cursor, cabinet and backlog; the backlog drains |
| Record writers (`services/oneCSync/writers.ts`) | Organization, Order, Payment, Document | upsert by external id | pull, import, notifications | a child only under its parent; 1C owns its fields |
| Lead push (`services/oneCSync/push.ts`, `services/manager/leadPush.ts`) | Lead.pushedToOneCAt, externalIdInOneC, SyncLog | button, claim, call, release, failure notice | queue, 1C, partner | one sender at a time; no lead forgotten |
| Nightly check (`services/oneCSync/reconcile.ts`, `processors/sync-reconcile.ts`) | SyncLog rows as memory, claims | clear and requeue once, report the second time; flag documents missing in 1C | queue, 1C, notices | an accepted lead is left alone; a stuck one resent once, then reported |
| Document push (`services/oneCSync/pushDocument.ts`) | Document.oneCPushStatus, version pushed | enqueue, push, mark | queue, 1C, check | one job per document; the newest version in 1C |
| Proposals (`services/documents/status.ts`, `acceptProposal.ts`, `rejectProposal.ts`) | Document.status, Deal.orderId | send, accept, reject, cancel, expire | orders, deals, automation | only matrix transitions; an accepted proposal has its order, and one only |
| Numbers and versions (`services/documents/generate.ts`, `number.ts`, `versions.ts`, `upload-core.ts`) | Document.number, version, supersededAt, DocumentCounter | issue, reissue, upload, replace, number by hand | orders, 1C, push | one acting version of a paper; no number twice; what a paper refers to keeps its number |
| Orders (`services/orders/*`, `services/orderStatuses/*`) | Order, OrderLine, totals | edit lines, merge, transition | documents, 1C | total equals the lines unless set by hand |
| Import and its rollback (`services/import/*`, `services/bitrix/*`) | ImportBatch, rows with snapshots | import, roll back in full or in part | writers | a rollback restores what the batch changed, refuses conflicts |
| Enrollments (`services/enrollments/*`) | EnrollmentRequest, items | submit, advance, reject, provision | students, orders | the header is the aggregate of its items |
| Tasks (`services/tasks/*`) | Task, recurrence chain | create, close, move, materialize | calendar, reminders | exactly one next instance |
| Intake, leads, deals | claims, conversions | claim, convert, distribute | orders, manager | one owner, one conversion |
| Files and their check (`processors/scan-document.ts`, `services/scan/backfill.ts`, `services/messengers/attachment.ts`) | scanStatus, deliveryStatus | upload, scan, sweep, deliver | scanner, storage, channels | an infected file never leaves; a file is sent once; no file waits forgotten |
| Messengers, mail, chats, telephony | dialogs, delivery status | send, retry, ingest | external transports | a message is sent once, ingested once |
| Notifications, automation, alerts | job outcomes, AlertState | dispatch, digest | everything | idempotent jobs |
| Queues, schedules, worker (`src/lib/jobs/*`, `src/worker/index.ts`) | Redis jobs and schedulers | add, retry, fail, pause | all jobs | a schedule fires again and again |
| Authentication and access | sessions, profiles | login, reset, policies | all | covered by the repository's tables of cases; not a subject here |

The behaviours that are hard to test, each at its line, are the `hazards` of
`PROJECT.json`; the properties below were chosen from them.

## 2. Plan

Done, in this order because money and silent loss come first:

1. `Commission` - statements, lifecycle, corrections, and the abstract `PeriodLedger` it
   implements;
2. `OneCPull` - the inbound exchange;
3. `PushLead` - lead push and the nightly check, and the abstract `Delivery` it
   implements (checked, its safety part proved);
4. `PushDocument` - the document push, the nightly look for lost documents;
5. `Sale` - from the lead over deal and proposal to the order;
6. `ImportRollback` - imports over common rows, conflicts, partial rollback;
7. aggregates and chains kept beside their rows: `OrderTotal`, `Enrollment`,
   `TaskRecurrence`, `DocumentIssue`, and `Attachment`;
8. `CommissionRate` - the rate of a day against the rates agreed for each day;
9. `MCOffice` - the composition of 5 to 8;
10. proofs of every invariant and every step property that the passing runs check
    (section 6), of the refinements of `PeriodLedger` and `Delivery`, and of the
    composition.

Next:

11. abstract specifications still to be stated: the money of corrections (owed, withheld,
    carried), which `Commission` implements while requests come one at a time, and an
    acting version with one predecessor, which `DocumentIssue` does while nothing slips;
12. the limits of a night and of a replay (200 and 500 rows) as constants;
13. the claim of an intake, the retry of a message, the merge of orders: each a
    read and a write by id, today hazards without a property;
14. the Bitrix channel on the pattern of `ImportRollback`.

## 3. What is modelled

### Commission

One partner.  A process (web request or the monthly job) is idle or holds in
`req[p]` what it has read.  `CalcStart`, `CalcReadCorrections` and
`CalcFindExisting` are the three reads of `calculateStatementForPartner`;
`CalcDeleteLines` and `CalcRewrite` are the two statements of
`updateDraftInPlace` between which another transaction may commit (READ
COMMITTED: `deleteMany` removes the rows that exist when it runs);
`CalcCreate`/`CalcConflict`/`CalcFallback` are the create transaction, its P2002
and the fallback to the winner.  Approval, payout, detection and resolution are
a read and a commit each, because the code checks first and updates by id later.
`Crash` ends a process at any point; an open transaction leaves nothing.

`stmts` is the lifecycle of CommissionStatement, `total` the total it shows,
`items` the lines (a line carries a mark of the calculation that wrote it, so
that two inserts of equal lines are two lines), `corrections` and `withheld`
CommissionCorrection.  Two history variables name what the code lets happen:
`torn`, the statements two rewrites of which overlapped, and `crossed`, that a
calculation began which no overlap check covered.  Rates are folded into `Share`, the signed
commission of a payment; days are integers.

The pair `CalcDeleteLines`/`CalcRewrite` makes the delete, the insert and the
update of one rewriting transaction two steps: what it deletes is decided at the
first and everything becomes visible at the second, which is what other
transactions can see of it.

### PeriodLedger

What the partner and the accountants rely on: a period has no statement or one that
counts; it is a draft, then approved, then paid; another takes its place only when it is
closed, as a draft newer than all there were.  `Commission` implements it: `Counts` maps a
period to its live statement.  `ApproveAgain` is the one step back there is: two approve
one draft, it is paid, and the slower of them writes "approved" (`lifecycle.ts:50`).

### OneCPull

One job per entity (queue concurrency 1), interleaved with the jobs of the other
entities and with edits in 1C.  A version of a record is its stamp.  A batch is
written record by record (`WriteRecord`, or `RecordThrows`, before or after the
row is committed), then `AdvanceCursor`, `CaptureSkip` for each skip,
`ReplayStart`, `ReplayRecord` / `ReplayThrows`, `FinishJob`.  `JobDies` ends a
job anywhere, also between a replayed write and the delete of its backlog row.
A job that ends with skips it has not kept leaves them in `lost`, a history
variable, until a pull returns them again.
1C is external: it returns what has a stamp at or after the cursor, and a change
may become visible up to `Lag` after its stamp.  `Refused` records never parse.

### PushLead

`claim` is the age of `Lead.pushedToOneCAt`, `numbered` says that
`externalIdInOneC` is set, `accepted` that a success row is in SyncLog, `note` is
the age of the check's warn row.  A job goes through `ReadLead`, `ClaimLead`,
`Answered` or `CallFails`, `StoreNumber`, `LogSuccess`, or through
`ReleaseClaim` and `AttemptFails`; `SavingFails` and the second disjunct of
`ReleaseClaim` are refusals of the database; `WorkerDies` is the stalled job that
starts over.  The check reads once (`CheckStarts`), then for each lead reports
(`GiveUp`) or clears the claim (`ClearClaim`), queues (`Requeue`,
`RequeueFails`) and notes it (`NoteRequeued`), and sends its notices at the end
(`CheckEnds`).  `CheckDies` loses what it had in hand; the history variable
`dropped` records that, `story` records what the cabinet owes the lead.

Left out: error rows that nobody reads, a lead that no longer exists, the batch
limit of 200, partners without administrators, a failing notification.

### Delivery

The abstract promise of a push: an item somebody asked for is `owed` until it is
`done` (the other side has it) or `told` (its failure was reported); only a
breakdown makes it `lost`; who asks again starts over; what is owed is settled
(weak fairness of `Settle`).  `PushLead` implements it: `Outcome` maps a lead to
`done` when it is confirmed (number or success row), to `told` when its story ends
with a report, to `owed` while a claim, a job or the check's hands carry it, else to
`none` or `lost`; troubles are the breakdowns.  `PushDocument` does not implement
it: a status taken back may leave a pending that nobody carries (section 5).

### PushDocument

One chain of reissues; version `v` is a row and `v + 1` supersedes it; 1C knows all
of them by the id of the first, so `oneC` is the version it holds.  A request reads
the status, claims it (`ClaimPending`, the conditional update), queues the job
(`AddJob`), or takes the status back (`AddFails`, `RestoreStatus`).  A job looks
at the version (`LoadDocument`, `RefuseDocument`), calls (`OneCTakes`, `CallFails`),
stores (`StorePushed`, `LogPush`), or fails (`AttemptFails`, with the notice after
the last attempt).  The check and the file export write statuses beside it.
`orphan` is a history variable: why a pending may be without a job.

### CommissionRate

`RateOn` is the lookup in one history: the last row whose day is not after the
payment's, before all rows the old value of the first one, without rows today's
value; `EffectiveRate` takes the organization's before the partner's.  `agreed` and
`orgAgreed` say which rate was agreed for each day; they are written by the
changes, not by the lookup, and the property compares the two.  Requests read the
current value and write later.  Days stand for moments; rows of one
organization are at different moments.  `tidy` turns false at a change from a day at
or before that of an earlier one, or at one lost to another in between.

### OrderTotal

An edit writes lines, then `SyncRead` reads what is there and `SyncStore` writes the
total, all outside a transaction; a request may die in between and another may come.
Totals by hand, lines built from listeners, lines of an accepted proposal and the sum
of an issued document are the other writers.  An amount includes its VAT.
`Recalc` is open to any order of the cabinet, as the server's function is; `bare`
remembers that it was asked of one that never had a line.

### Sale

A lead, the deal made of it, a proposal of that deal (or of none), and the orders.
Every operation is a read and a commit by id; acceptance makes or finds the order
first (`OrderOfProposal`, `OrderKept`), then checks the status matrix
(`CheckAccepted`), then stores (`StoreStatus`), and a request may die after each.
`Flow` is the proposal's part of the status matrix.

### ImportRollback

One organization, one order of it, one payment.  `ImportRecord` writes a record and
remembers its trail row, `EndImport` stores the trail or fails to.  `RollbackReads`
finds the rows that are safe (conflicts and what hangs on them go), `RollbackCommits`
deletes and restores, or the database refuses (`RollbackAborts`, by foreign keys and
rows that are gone).  `rec` is what the trail keeps of a row (an order's sums and
states, a payment's amount, day and purpose, an organization's requisites), `rest`
what it does not, which no rollback touches.  A `link` from outside is held by the
database, or cut loose with the row, and counted by the rollback either way; or it is
"unseen", of a relation the count lists do not name.  `PullRecord` and `Attach` are
the others: the exchange, statements, tasks, students, lines, notes.

### Attachment

One file, of a messenger or of a table the sweep walks, and the jobs that check it:
look, mark, and for a messenger's file read, claim, send, store.  Jobs are retried,
started over after a death, or go on after they lost their lock, so that two run at
once.  Every refusal or death costs one of `MaxFaults`.

### TaskRecurrence

A series is a chain of tasks by `recurrenceParentId`.  `Look` and `Create` are
`materializeNextOccurrence` (a read, and an insert under the unique index), reached
from the board (`MoveReads`, `MoveStores`), from "only this one" (`EditOnlyThis`, then
`Strip`) and from the nightly pass.  `Delete` cuts the successor loose.

### Enrollment

Headers and items; each operation reads, decides and writes in a transaction.  An
approval holds its header's row (`OpenApproval`) while it reads and creates students;
for a request without an organization (`Outside`) it creates none.  A listener is
compared with a student by its keys (`KeysOf`): the digits of the SNILS, the name with
the birthday, the name with the e-mail, as far as they are filled in; two are `Alike`
that share one, which need not be so of two that are like a third.  `NewCards` is the
loop over the items in any order, `MailTaken` the unique index on organization and
e-mail, which rolls an approval back.  `Aggregate` is `aggregateEnrollmentHeaderStatus`.

### DocumentIssue

Invoices and acts of one order.  `ReserveNew` / `ReserveReissue` take number, basis
and version, `WritePaper` writes the row under the partial unique index, which
`IndexRefuses` models, and supersedes the one before; uploads and their
replacements, numbers typed by hand and papers of 1C come beside, which 1C may send
again as another type (`Retype`).  `slips` names what the code does not prevent.

### MCOffice

The components from `CommissionRate` to `DocumentIssue` share no state: none reads
or writes a variable of another (what two of them both touch in the code, such as
the lines an acceptance copies, is an action of the one that owns the row).
`MCOffice` holds them all; in a behaviour one of them moves, in all its
interleavings, and the others rest, so that the product of independent states is
left out and nothing else.

## 4. Runs

| Run | Shows |
|---|---|
| `commission` | two concurrent processes, one month: one live statement per period, linear supersede chain, the insert race's loser always finds the winner, a total is the sum of all lines of its statement unless two rewrites of it overlapped; together an implementation of `PeriodLedger` |
| `commission_ranges` | two processes, the monthly job among them, a month and a range that straddles it, three statements: live periods are disjoint and a payment is one live line, but for what `crossed` and `torn` name |
| `commission_refund_twice` | counterexample: a refund that is a line of a draft is deducted again after approval |
| `commission_closed_frozen` | counterexample: lines of a statement approved under a running recalculation change |
| `commission_carried_twice` | counterexample: the drafts of two months both withhold one correction |
| `one_c_pull` | nothing falls behind the cursor unnoticed; every record ends in the cabinet or the dead letters; no row is replayed forever |
| `one_c_pull_newest` | counterexample: the replay brings back the version of the first skip |
| `push_lead` | one sender, no resend of an accepted lead, a lead asked for is carried on; together an implementation of `Delivery` |
| `push_lead_resent` | counterexample: the check resends a second time instead of reporting |
| `push_document` | what is marked pushed is in 1C, 1C never goes back to an older version, a pending is carried and in the end settled |
| `office` | the components of `MCOffice`: eighteen properties |
| `recurrence_twice` | counterexample: a deletion in the middle of a series makes the night create a date again |

The counterexamples are the `findings` of `PROJECT.json`, with the comment, test
or document each of them contradicts.

### Bounds, and why they are enough

* `commission`: races over a period need two processes, and processes of
  different periods meet only in the corrections, so one month will do (what holds
  there is proved for any periods).  Two statements are enough for a supersession
  and for the insert race, by new statements and by successors;
  `commission_ranges` has three, for a statement of one range superseded twice or
  beside one of the other, and one payment of the common day that comes at any time
  (that the ranges may lie in any other way is left to the theorems).  One positive payment and a refund of the same
  month, detected late as well, make a negative sum; `MaxCarry = 1` allows one
  carried remainder, `MaxMoney = 6` is never the reason a step is refused.
* `one_c_pull`: an order, its payment and a payment of its own that moves the
  cursor: fewer cannot put a skipped record behind the cursor.  Stamps 1 to 3
  give the order and its payment an older and a newer version, overlap and lag
  of 1 allow a late change.  Two attempts: one that is retried and the last.
* `push_lead`: one lead (leads share nothing but the check's lists), two jobs (a
  race needs two), two attempts, a day of two ticks and a delay of one so that
  the check can come early, on time and late, three troubles so that a death, a
  failed rollback and a failed requeue can happen in one behaviour.
* `push_document`: two versions, two requests and two jobs, so that a request for
  the old version, its job and the reissue can overlap in any order; two
  attempts; one press of the button beside the automatic pushes, and two troubles, such as
  a refusal and then a death or a loss in 1C.
* `office`: two requests at a time everywhere.
  Lines: two, with two prices, and totals by hand (7) and of the deal (5) that no sum
  of lines equals.
  Sale: two orders, one more than is right.
  Imports: two batches, three records (an order with its organization and payment, or
  two records of one entity and one of another), two values, one write by others.
  Files: two jobs, two attempts, three faults (a lost lock, a refusal, a lost answer).
  Tasks: three tasks, three dates, one request beside the nightly pass, and at most
  two edits, deletions and mishaps together.
  Enrollment: two headers of one organization and one of none, four items.  Two items
  of one header share a key, the second of them has another one in common with an item of
  the other header and with a student from before, and the first has that student's
  e-mail: so that being alike is not transitive and an approval may be refused.
  Papers: three (a paper and two versions, or an invoice and an act), two numbers.
  Rates: two, days 0 to 3 of which the first is past, three rows in both histories.

* The counterexamples use the bounds of their component or fewer; `commission_carried_twice`
  has a third month, `recurrence_twice` five tasks and one deletion.

`office` explores no further than a slip of `DocumentIssue` (`NoSlip`), more than two
events of a series (`FewEvents`), an untidy change of a rate (`Tidy`) and two approvals
that crossed (`Uncrossed`): its properties promise nothing, or nothing more, behind them.
The request without an organization is looked at while the others rest, or rests
(`OutsideApart`).  None of this binds the theorems.  Components at rest have one
initial state.  `SYMMETRY` is the permutation of the requests, which are alike;
the run has invariants and step properties only, for which that is sound.  So is it
in `commission`.

### Fairness, and what justifies it

`Commission` and `MCOffice` assume none; nothing there must happen.  `OneCPull`
assumes weak fairness of each entity's job: schedules start it every 15 minutes to 6
hours (`src/lib/jobs/scheduling.ts`), and a running job goes on; edits, throws and
deaths are not fair.  `PushLead` assumes weak fairness of a job's steps (the
worker takes jobs and 1C's calls time out, `oneCSync/resilience.ts`), weak
fairness of the check's steps (nightly schedule), and strong fairness of time,
which is blocked while a check runs or an attempt holds a claim about to become a
day old: a run of the check is shorter than a tick and an attempt shorter than a
day.  Nobody has to press the button.  `PushDocument` assumes weak fairness of a
request's steps and of the queue's one consumer, which takes some job while there
are jobs; not of the check, the button or 1C.

Deadlock is checked in `commission`, `commission_ranges`, `one_c_pull`, `push_lead`
and `push_document`: there a state without successor would be a system in which no
request, job or schedule can start any more.  It is not in `office` and
`recurrence_twice`, where a component stops when its bounds are used up (all
papers issued, the last day over).

## 5. Disagreements without a run

Met while modelling; the models do what the code does, a property that holds in
spite of it names the condition, or the part is not modelled.  File and line of the
code first.

Commission:

* `statement.ts:23-29`: the monthly job does not ask whether its month overlaps a
  range entered by hand, so a payment of the common days is a line of two live
  statements; the test at `invariants.commission.integration.test.ts:15-16` says that
  a payment is one line.  The check of a request by hand is no better against another
  one that is on its way (`statement.ts:110-127`).  `crossed` is that exception.
* `statement.ts:61`: of two in-place rewrites of one draft at once, each deletes the
  lines it sees and inserts its own; both sets stay, each payment twice, under the
  total of one of them, until the next recalculation, or for good if the draft is
  approved.  `docs/INVARIANTS.md:14` (row 4) and
  `invariants.commission.integration.test.ts:15-17` have a payment in exactly one
  live line.  `torn` is the exception of `TotalIsTheLines` and `PaymentIsOneLine`.
* `lifecycle.ts:50`: of two approvals of one draft the slower may write "approved" over
  "paid" (`ApproveAgain` of `PeriodLedger`); the comment in lines 18-19 has it refused.
* A recalculation of a closed statement whose correction left a carried remainder
  omits the correction while the remainder stays: more is withheld than is owed.
* `rateResolve.ts`: a rate changed from a date before that of an earlier change leaves
  the later days at the earlier change's rate and takes its old value from today's;
  two changes from one date come in no order; days before the first row of a
  partner created with a rate follow today's default.  `RateAsAgreed` excludes them
  by `tidy` and by days for which nothing was agreed.
* `generate-commission-pdf.ts:39`: the file may be of lines read before a
  recalculation.

Exchange:

* `sync-orders.ts:52-68`: the cursor is saved before the skips are kept, and a failure
  between the two loses them, against the comment in lines 55-56, unless a later change
  or the overlap brings them back.  `one_c_pull` lets jobs die and fail there; `lost`
  is the exception of `AccountedFor` and `NeverForgotten`, for those records only.
* `pushDocument.ts:506-510`: a failed queueing writes the status read before the claim,
  which may be "pending" of another request; then the document is pending and has
  no job, and the button refuses it.  `orphan = "revived"`.

Sales and orders:

* `acceptProposal.ts:219-224`: two overlapping acceptances make two orders; the comment
  says that the second is rolled back, but the deal is updated by id.
  `OneOrderPerDeal` holds while requests do not overlap.
* `generate.ts:1048-1052`: a document of another sum may write the total of an order of
  1C, against `docs/INVARIANTS.md:19`, and lines typed in its form leave a total
  which is not the sum of the order's lines (`byForm`).
* `orderLines.ts:463`: a recalculation asked of an order that never had a line, which the
  page does not offer but the function does not refuse, sets the total of the deal to
  zero; the comment above it takes the page for the check.  `bare`.
* `mergeExternal.ts:82-114`: a merge of a Bitrix order races with a payment.

Imports:

* `rollback.ts:171-176`: a file that names a record twice cannot be rolled back: the
  update of a row just deleted fails.  `died = "repeats"`.
* `writers.ts:168-173`, `306-310`, `509-535`: the trail of an updated row has the columns
  named there; the writers change more (of an order title, dates, VAT, organization; of a
  payment the mark of a refund, method, VAT), which `rollback.ts:578-603` cannot give back.
  `writers.ts:47-48` calls the trail the fields the import touches.  `rest`.
* `rollback.ts:129-158`: an order's lines, its deal and the lead promoted to it, and an
  organization's notes and messenger dialogs are not counted; they go with the row or lose
  it, though line 14 has any link from outside as a conflict.  Links of the kind "unseen".

Files, tasks, enrollments:

* `attachment.ts:147-148` says that the sweep will take a messenger's file whose job
  could not be queued; the sweep (`scan/backfill.ts:52-158`) does not walk that table.
  `stranded`.
* `retry.ts:73`: two presses of the retry button send a message twice.
* `tasks.ts:349-352`: an edit of "only this one" ends the series if the next task cannot
  be created.  `let`.  And deleting the last task, also one whose rule was taken off,
  does not end a series for good: the task before it has a rule and no successor
  again, which is what the nightly pass looks for.
* `lifecycle.ts:129` of enrollments refuses to reject a provisioned request but not one
  in training or with certificates.
* `fromEnrollment.ts:31-34`: approvals of two requests of one organization at once
  create a person twice, unless the e-mail is the same.  `crossed` of `Enrollment`.
* `fromEnrollment.ts:40-53`: a person named once by the SNILS and once by birthday or
  e-mail gets two students; `OneCardEach` is about those who share a key.  A new student
  with the e-mail of one of another name makes the whole approval fail.
  `docs/INVARIANTS.md:18` (row 8) says that the SNILS and the name with the birthday are
  no keys; here they are.
* `lifecycle.ts:78` with `submit.ts:67-88`: a partner's or a manager's request may be of no
  organization; it is approved and its listeners get no student, against
  `fromEnrollment.ts:7-10` ("approved, but there are no people" is the worst outcome).
  `Outside`.

Papers:

* `number.ts:73-81` and `numberIsFree` (`writers.ts:637-643`) compare the version, too,
  so a later version of an uploaded paper may get the number of another chain, against
  `generate.ts:1174`.  `number.ts:85` writes by id: of two who number one paper the
  second wins.  `versions.ts:108`, `upload-core.ts:160-168`: two uploads that replace one
  file fork the chain.  `writers.ts:766`: 1C may give a paper it made another type, and
  with it another set of numbers and of papers based on it.  These four are the `slips`.
* `upload-core.ts:147`: replacing a numbered uploaded file loses its number.

## 6. What is proved

Every invariant and every step property of every passing run is a theorem, for every
value of the constants that the named assumptions allow (sets of any size, any
bounds).  A proof module EXTENDS the modules it is about.

| Module | About | Theorems |
|---|---|---|
| `CommissionProofs` | `Commission` | `TypeCorrect`, `OneLiveAlways`, `SupersedeChainAlways`, `WinnerAlways`, `TotalAlways`; `LedgerKeptAlways`, the refinement of `PeriodLedger`; `LivePeriodsDisjointAlways`, `PaymentIsOneLineAlways` |
| `OneCPullProofs` | `OneCPull` | `TypeCorrect`, `AccountedForAlways` |
| `PushLeadProofs` | `PushLead` | `TypeCorrect`, `OneSenderAlways`, `AcceptedNotResentAlways`, `CarriedOnAlways` |
| `PushLeadDelivery` | `PushLead`, `Delivery` | `ImplementsDelivery`, the safety part of the refinement |
| `PushDocumentProofs` | `PushDocument` | `PushTypeCorrect`, `PushedIsThereAlways`, `PendingIsCarriedAlways`, `NewestStaysAlways` |
| `OrderProofs` | `ImportRollback`, `Sale`, `OrderTotal` | `ImportTypeCorrect`, `NeverDiesAloneAlways`, `RollbackUndoesAlways`, `TakesNothingAlongAlways`; `SaleTypeCorrect`, `AcceptedHasOrderAlways`, `DealKeptAlways`, `OneOrderPerDealAlways`; `OrderTypeCorrect`, `SnapshotKeptAlways`, `TotalAgreesAlways` |
| `StaffProofs` | `TaskRecurrence`, `Attachment`, `Enrollment` | `RecurrenceTypeCorrect`, `OneSeriesAlways`; `AttachmentTypeCorrect`, `GivenOnceAlways`, `OnlyCleanLeavesAlways`, `WaitingIsCarriedAlways`; `EnrollmentTypeCorrect`, `HeaderAgreesAlways`, `OneCardEachAlways` |
| `OfficeProofs` | `DocumentIssue`, `CommissionRate`, `MCOffice` | `IssueTypeCorrect`, `BasisAsPrintedAlways`, `OneActingPaperAlways`; `RateTypeCorrect`, `RateAsAgreedAlways`; `OfficeTypeCorrect`, `OfficeKeepsItsPromises` |

None of them has a hypothesis beyond the assumptions on the constants.  Where the code
lets something happen that breaks a promise, the model does it, a history variable
records it (`torn`, `crossed`, `lost`, `dropped`, `orphan`, `stranded`, `slips`, ...), and
the property says what still holds; section 5 has each of them with its line.

### The arguments

* *One live statement.*  `LedgerInv` says that a period has at most one live
  statement, that one with statements has a live one, and what the locals of each
  request know: the target of a calculation is a statement of its period, one
  that is to be superseded was closed when it was read, and closed statements
  stay closed.  The last part is what makes it inductive: without it a stale
  target could vacate the slot of a draft.  `CalcCreate` is the only step that
  changes liveness, and it needs the slot to be free or its own target's.
* *The ledger.*  `LedgerInv` suffices: a period's live statement is one, so `Counts` is well
  defined; a status is written to the row it was read from, and a payout's row is closed
  already; the row a new draft supersedes is the live one of the period, closed.
* *Totals.*  `LinesInv`: every line belongs to a statement that exists; the lines of a
  statement that is not torn are of one calculation and add up to its total; and a
  rewrite that has deleted knows all lines of its statement, as long as it is not torn.
  The last part holds because only a rewrite adds lines to a draft that is there, and one
  that commits while another is on its way tears the statement.
* *Disjoint periods, one line of a payment.*  `RangesInv`: until something crosses, no live
  statement overlaps a range that is being calculated, but one of that very range
  (`RangeIsFree`), nor does a range another request calculates (`CalcsApart`); each keeps
  that true until it creates.  `PaymentLines`: a line of a payment is in its statement's
  range and has the amount the payment has; then two live lines of a payment are in one
  statement, and equal if that is of one calculation.
* *Accounted for.*  `PullInv` says of every record of a running job's entity that
  it is still to be written, or among the skips, or held (in the cabinet or the
  backlog), or younger, but for the lag, than anything the job has written or will
  write, or lost by a job that ended too early; and that a cursor lies at least the
  overlap behind some stamp of 1C.  The first part makes `AdvanceCursor` safe, the second an edit with a late stamp; both
  need the overlap to be at least the lag.
* *One sender.*  `ClaimInv`: whoever calls 1C holds a claim at most a day old, so
  the check, which lists only older ones, never clears the claim of a sender; a
  claim is given back by its holder; hence a free claim has no holder and the next
  winner is alone.  An accepted lead stays claimed, and the check's
  list holds no accepted lead, which gives `AcceptedNotResent`.
* *Carried on* is inductive with types and with "a free job holds no lead".
* *Delivery.*  `ClaimInv` with `Unasked`: nothing is under way for a lead nobody asked
  for.  Every action leaves the outcomes as they are, or is one `Ask`, `Confirm`,
  `Report` or `BreakDown`: a job that ends without a confirmation leaves the lead to its
  claim, to the check or to the report, else its step was a trouble.
* *Pushed documents.*  `RunInv`: one job runs, and its version is not older than what 1C
  has, because the job looked whether it is superseded and the queue has one consumer;
  this alone gives `NewestStays`.  `ThereInv` strengthens "pushed": the mark may also be in
  the memory of a request that will take its claim back, or in a job that has its answer;
  in all three cases 1C has the acting version, and no job of an older one runs that could
  change it.  `PendingInv` follows the claim from the request to the job.
* *Rollback.*  `ImportInv` is about three things.  `TrailsHold`: what an import created and
  nobody rolled back is still there under the id of the trail, and no two imports created
  the same row.  `FileTells` and `BatchTells`: while nobody else writes, a trail that names
  nothing twice says what each entity was before, and is silent of those left alone.
  `BackStands`: what a rollback decided to take is still what it would decide, unless it was
  raced.  From the first and the third follows that the database has no reason to refuse
  (a child is taken with its parent or blocks it); from the second that the commit restores
  what the trail has.
* *Proposals and deals.*  `AcceptInv`: a request past the order has one, of the proposal or
  of the deal, and orders are not taken back; so the status is stored only behind it.
  `DealInv`: a won deal has an order, and so has the deal of a win that saw one.
  `OneInv`: while requests do not overlap, the one that runs finds the deal as it saw it, so
  all orders made of a linked deal are the one it names.
* *Totals of orders.*  The property speaks of an order at rest only; `CalmInv` carries it
  through a request: one request runs, what it has read is still so, and only one that has
  written a line and not yet stored the sum owes anything.  `NoLineInv` (for `SnapshotKept`):
  while an order never had a line, no request is on a path that needs one.
* *One series.*  `SeriesInv`: without a cut, at most one task has no successor.  The
  unique parent is what a successor needs to be inserted, so the new task takes the
  place of its parent as that end; all other steps change no parent.  For "is not lost": the
  task every request holds is there, and "only this one" takes the rule from a task which
  has handed it on.
* *A file leaves once and clean.*  `HeldInv`: at most one job is between claim and
  store, and as long as the message waits nobody is and nothing was given: the
  conditional update hands the file over, and no step gives it back.  `CleanInv`: a clean
  verdict is of a clean file, and a job that was let through by it sends a clean file,
  whatever verdict another job writes afterwards.  `CarriedInv`: a row that waits has a
  job, or the sweep, or was left behind.
* *Headers.*  `QuietInv`: where operations on a header do not overlap, what the request read
  is still so, and what it is about to write is the aggregate of what the items will be.
  `CardInv`: until two cross, one approval of the organization is open, and it knows every
  student.  `StudentInv`: no item waits under a header that has left "pending", so an advance
  or a provision moves only items that have a student or are of no organization.
* *One acting paper.*  Papers of one kind and number are a chain: `Unique` (a version
  once, the index), `NoGaps` (every version up to the last), `Ordered` (all but the last are
  old), `Linked` and `Succeeded` (old is what another replaces), `Once`.  `Fitting` says that
  a draft still fits the paper it replaces or that the index will refuse it.  `NoGaps` is
  what an outdated reissue needs: the version it would write is then taken.  `PenInv` and
  `BaseInv` give `BasisAsPrinted`: a number is typed only into a paper without one, and
  what has a number is never numbered again.
* *Rates.*  `Says(rows, current, agreement)`: a history in the order of its dates tells for
  each day what was agreed, by its last row in force, or by what its first row replaced.  A
  request that will write a first row has read the value that is still current.
* *Composition.*  `OfficeSpec` implies each component's own specification
  (`OfficeProofs`: `MovesOne`, `IsEach`): one of them takes its steps, the others stutter.
  So every theorem about a component holds in the composition.  These theorems go further
  than `office`, whose constraints stop at a slip, at the third event of a series and at an
  untidy change.

### Induction

An invariant of steps needs none.  Two arguments about data do: a bounded set of numbers
has a greatest member (the last row of a trail), and a sum over a finite set exists, is one
number, and changes by what a line changes.  Both are proved from the principle that a
nonempty set has a minimal element for a well-founded relation, taken for the set of
counterexamples: it speaks of sets, not of operators, which the provers can instantiate.
In `OrderProofs` the folds of the community modules are unfolded to their function and
treated in this way, for any prices and any finite set of lines; the sums of `Commission`
are used with no more than that equal sets have equal sums, which is all `TotalIsTheLines` needs.

### What the proofs changed in the models

* `PushDocument`: a document found missing in 1C whose row says something else by now is left
  as it is, and the check is over (`MarkMissing`).
* `Enrollment`: a header has items (`EnrollmentAssumption`), and the organization may have
  students before.
* `TaskRecurrence`: a deleted task keeps its id from being given again (`DeletedTask`).
* `DocumentIssue`, `OrderTotal`: the order has room for a paper, the lines are finitely many
  (assumptions that every run's constants fulfil).

### Model-checked only

* Liveness: `NeverForgotten`, `BacklogDrains`, `PendingSettles`, and the fair part of
  `Delivers`; liveness under fairness and ENABLED are out of the prover's reach.
* The counterexamples of section 4, which are single behaviours.

## 7. What is not modelled

See `components` in `PROJECT.json` for every part with its reason.  In short:
transport, formats, layout and pages; tenancy and access rules, which the
repository checks by tables of cases; notifications, automation rules, telephony and
chats, whose jobs are fan-out or keyed by an external id; the Bitrix channel, and the
steps of section 2 that are planned; dry-run and fake modes of the exchange, which
write nothing.  Most of the repository is pages, forms and read-only queries, which
keep no state that two actors could disagree about.
