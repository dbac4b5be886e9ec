# Formal models of the Ozon ERP backend

This directory holds TLA+ models of the parts of the ERP whose correctness
depends on the order in which processes, callbacks and remote answers meet:
the AI points of the enterprises, the executor that spends them, the delivery
of a main image for points, the queue of AI generation tasks, the slots for image
calls, the registry of background jobs, and the corrections of stock and
purchases. TLC checks each model on a small instance. TLAPS proves theorems
about each of them for all instances.

`PROJECT.json` is the index: which definition models which lines
(`map`), what each run checks (`runs`), a faulty variant each property catches
(`mutants`), what the code can get wrong (`hazards`), and where code and
documentation disagree (`findings`).

Paths below are relative to the repository, so `src/services/...` is the backend's
service directory.

## The system

The backend is one Node.js program over MySQL. On the Windows host it runs as
two processes, on ports 8787 and 8788. Both serve HTTP and run the AI workers.
Only 8788 runs the scheduler of background jobs. In each process, code between
two `await`s is atomic. Between processes, one SQL statement or one transaction
is. Vue pages, an Electron shell and two browser plugins talk to it by HTTP. The
Ozon marketplace, carriers, AI providers and object storage are remote.

| Component | State | Operations | Interacts with |
|---|---|---|---|
| AI credit ledger (`ai-credit-ledger.js`) | five tables: wallet, prices, tasks, attempts, ledger lines | configure, price, recharge, reserve, start an attempt, record outcome or receipt, release, reconcile | called by the executor, the platform pages, the delivery coordinator |
| AI credit executor (`ai-credit-execution.js`) | locals across awaits | `execute`: reserve, mark, POST, poll, save, settle, resume | ledger, result store, image adapter |
| AI result store (`ai-credit-result-store.js`) | one file per task | write once, read, recover | executor |
| AI generation queue (`ai-generation-tasks.js`) | one row per task; timers and counters per process | create, tick, claim, execute, retry, recover at start, clean up | providers, executor, limiter |
| AI image limiter (`ai-image-runtime-limiter.js`) | counters and waiters of one process | acquire, drain, release | image provider calls |
| Scheduled jobs (`scheduled-jobs.js`) | job rows with a lock, run rows, timers | register, tick, claim, run, finish, disable, edit, run by hand, recover | the handlers of all background work |
| Material delivery (`ai-material-delivery-coordinator.js`) | a JSON document per item with a fenced lease | prepare, stage, review, settle, reconcile | ledger, result store, providers |
| Draft-save batches (`ai-variant-draft-save-batches.js`) | rows of items | claim, execute, retry, recover | listing drafts |
| MySQL pool (`mysql-pool.js`) | connections, a bounded queue | acquire with a deadline, retry, transaction | everything |
| Procurement ledger (`procurement-ledger.js`) | purchases, receipts, allocations, movements | plan, preview, apply, correct | orders, inventory |
| Order profit versions, finance accruals | revisions and imported operations | record, retry, import | order synchronisation |
| Sessions, QR login, membership | sessions, one-time codes, vouchers | log in, confirm, consume, redeem, revoke | HTTP server |
| OGL dispatch, Ozon client, promotions | batches, rate limits, cleanup runs | refresh, confirm, call, retry | remote services |
| Listing, analytics, finance, team, pages, plugins, scripts | tables and forms | mostly single-row writes, reports, parsing | HTTP |

`PROJECT.json` `components` lists all of them with their files and a status.

### What is hard

* **A lost answer is not a refusal.** A timed-out POST may have created a job at
  the provider. Retrying pays twice; refunding gives work away.
* **Everything resumes.** Requests, queue workers and restarts execute the same
  operation again, at any point of an earlier execution or beside a living one.
* **Locals outlive their truth.** Code checks a permission, a lock, a row or a
  price, awaits, and acts on what it read.
* **Locks have ages, not owners.** A slow owner of an expired lock finishes after
  its successor started.
* **Two processes share the tables**, and "at start" for one of them is the middle
  of the work for the other.

### What makes each component correct

| Component | Properties |
|---|---|
| Ledger | points are conserved; the frozen balance is what the open tasks hold; balances agree with the lines; a bill follows the quote and stands; one unresolved submission per task; a contradicting late result is flagged |
| Executor | one live job per task; a refund only when no provider has the task; the billed result is the saved one; a delivered result is billed or flagged; a saved receipt is resolved while the provider has its result and attempts are left |
| Generation queue | one execution per task; bounded attempts; ends stand; every task ends; a saved job is never posted again |
| Limiter | counters equal slots held; no limit exceeded; no wake-up lost |
| Scheduled jobs | no overlap of a job with itself; a late execution keeps off its successor; no run row blocks its job; an orphaned lock is replaced |
| Material delivery | one POST per stage without proof of failure; points back only when nothing can come; the bill is for the file that is delivered; the document agrees with the bill |
| Procurement ledger | a correction does what its preview promised; what a purchase counts as received is what came; a revision makes its quantities add up; costs explained by a purchase stay covered while the pages leave it alone |
| Pool, QR login, vouchers, versions, accruals | no leaked connection; a code works once; a voucher extends once; revisions without holes; an import counts once |

The last row is planned, not modelled.

## Modules

| Module | Models | State and actions |
|---|---|---|
| `AiCreditLedger` | `ai-credit-ledger.js`, `ai-credit-schema.js` | A variable per table. One action per operation: each is a transaction that takes the tenant's row `FOR UPDATE` first, so it is atomic. Calls that throw or replay change nothing and are stuttering steps. One tenant: rows of two are never read together. |
| `PointSums` | `SUM(column)` | Sums as cardinalities, without recursion, so that they can be proved about. |
| `PrepaidHolds` | the promise to an enterprise | Points are paid in, an order freezes some, and is closed once for at most what it froze. The ledger implements it (`KeepsHolds`). |
| `AiCreditExecution` | `ai-credit-execution.js`, result store, image adapter | Extends the ledger. Each execution is a record: the step it is at and its locals. Each step is the code between two awaits and uses the ledger's own actions. The provider's jobs, crashes and lost answers are actions. A job may be forgotten (404 or 410, which the adapter reports as pending), its result may be of no use, a saved picture may be damaged by now: each ends the execution and leaves the bill open. A POST may also answer with the result and no job number. |
| `AiCreditRecovery` | the queue's row of an operation, `ai-generation-tasks.js` | Extends the executor. A row is claimed by any process; while the result is pending it is claimed again without limit, after an error up to `max_attempts`. `Restart` puts back what was running. Members and platform stay away. |
| `AiGenerationTasks` | `ai-generation-tasks.js`, image calls | A row per task, the rows a tick has read but not claimed, and the step of each execution. `Recover`, `Cleanup`, `Retry`, `Crash` interleave with them. |
| `AiImageRuntimeLimiter` | `ai-image-runtime-limiter.js` | The module's own counters and list of waiters. While the synchronous drain runs, nothing else does. The limit that depends on memory and pool is any value it can take, at each look. |
| `MaterialDelivery` | `ai-material-delivery-coordinator.js` | Extends the ledger. One delivery: its document with the lease and the stage attempts, the private files, the supplier's jobs, the locals of each execution. Each `update()`, file write and call is a step; after an update the code runs on to its next choice within the step. Expired leases, crashes, lost answers, and everything people may change meanwhile are actions. |
| `ProcurementLedger` | `procurement-ledger.js`, the pages of deliveries and purchases in `mysql-cutover.js` | Stock, demand, revisions, purchases with their deliveries, cost tasks and links; the corrections in people's windows. `Preview` and `Apply` are the two requests; `Begin` and `Commit` split a transaction at its first read. See below for the pages. |
| `ScheduledJobs` | `scheduled-jobs.js` | Job rows, running run rows, the step of each claim. Times are ages that a clock advances. |
| `MC...` | | Symmetry sets and constants for TLC. |
| `..._proofs` | | Theorems. |

`AiCreditExecution` and `MaterialDelivery` compose with `AiCreditLedger`: what they do
to points are the ledger's own actions. The generation queue reaches
the provider through the executor for enterprises that pay with points
(`AiCreditRecovery` composes the two), and directly for the internal ones.
`AiGenerationTasks` models the queue with the direct path, with retries by hand, cleanup
and the switches of the workers, which `AiCreditRecovery` leaves out.

### The pages in `ProcurementLedger`

A purchase recorded in the ledger is also shown on the pages of purchases and of
deliveries, whose handlers write the same rows. Each is one action, for a purchase with
one item:

| Action | Handler | What it does |
|---|---|---|
| `Receive` | `applyInboundRecordUpdateMysql`, `planPartialReceipt` | Receives a due delivery. The person may name another total than was due: then the rest of that total is due, while the purchase stays ordered as it was. More than was due may come in. |
| `SetStatus` | the same | Any status to any other: a pending delivery is voided or approved in full, an approved one taken back with its movement, one approved again posted anew. A received delivery whose note names a correction is refused. |
| `DeleteReceipt` | `deleteInboundRecordMysql` | Deletes a delivery, with what it posted. |
| `UpdatePurchase` | `updatePurchaseOrderMysql` | Sets or clears the price, and makes one due delivery the whole quantity ordered, also when part of it has come. |
| `Confirm` | `confirmPurchaseOrderMysql` | Confirms anew a purchase of which nothing has come, or that was corrected to nothing: all of it due, or all of it in stock already. |
| `CancelPurchase`, `DeletePurchase` | the two handlers | Neither looks at links. Deletion takes the postings of received deliveries back, and is refused if one names a correction. |

A delivery keeps what was posted to the stock apart from what corrections took back,
since un-approving deletes the first and leaves the second. A note may name the
correction that last touched the row; whoever edits the delivery may drop the name, and
with it the refusal. `Item` has two history variables about a purchase's past:
`reversed`, once a page took a receipt or the price from it, and `restarted`, once it was
confirmed anew after pieces had come. `IsOrdered` admits more than the code's status
does, which is refreshed by some handlers only.

## Runs

| Run | Question | Bounds |
|---|---|---|
| `ledger_money` | Do points stay conserved and quoted, and does the ledger implement `PrepaidHolds`? | two tasks, two payments of 1 or 2 points, prices of 1 or 2 with two versions, up to two results, one attempt |
| `ledger_attempts` | Is there one unresolved submission, and does a closed bill stand? | one task, two attempts, one receipt, two digests |
| `execution_races` | Can two executions, a crash or lost answer, a review by hand and a change of permission break the bill? | two executions of one task, two attempts, two digests per download, two crashes or lost answers |
| `execution_recovery` | Does the queue resolve every saved receipt it can? | one row, two executions, two attempts of the executor, `max_attempts` of 2, two digests, two crashes or failed calls, with fairness |
| `material_delivery` | Is a stage paid twice, are points given back wrongly, do bill, file and document agree? | two executions, two candidate images, two calls per stage, four stage attempts, two disturbances |
| `procurement` | Does a correction do what its preview promised, is what came what is counted, do revisions add up, do costs stay covered? | a bought product and one made of it, one correction in preparation, quantities up to 2, two purchases with three deliveries each, one cost task, four changes |
| `jobs` | Do locks keep a job apart from itself over a crash and a restart; is an orphaned lock replaced? | one job, two executions, two processes, locks that expire, one crash, with fairness |
| `generation_queue` | One execution, bounded attempts, stable ends, and does every task end? | one image task, two processes, two executions, two attempts, one crash, one renewal |
| `image_slots` | Do the counters count and does nobody wait for nothing? | five requests on two channels with mixed limits, cap 3 |
| `jobs_releases`, `generation_resubmit`, `procurement_stale` | the findings below | the same or smaller |

Why these bounds are enough:

* Two tasks are what it takes for one task's points to leak into another's. A third
  adds no new pair. Two price versions let a price change between quote and bill.
* The executor never looks at two tasks, so one task with two executions shows every
  race. Two attempts are the default of the code. Two digests make two downloads of
  one job differ. Two failures allow a lost answer and then a crash in its recovery.
* The job rows never refer to each other except by the count of running handlers.
  Two executions are a late one and its successor, or a scheduled and a manual run.
* A delivery whose texts are ready (`Prelude` is empty) has the stages that may repeat:
  image and review, and again. Four attempts are a rejected image and a second one, or a
  failed call and its repetition with the review. Two disturbances are a lease that runs
  out and a lost answer, or a crash and something a person changes.
* The corrections of two products are related only by a conversion. One correction in
  preparation meets anybody else's (`Correct`). Four changes are a count, a purchase
  that explains its cost, an edit of a page and a correction. Editions are reserved for the
  correction in preparation, so that the bound never keeps it from being applied.
* Each generation task is claimed and executed on its own. Two processes are the
  deployment. An image task covers the text task's steps, which skip the receipt
  and the poll.
* Five requests fill the cap of three, with two left to wait on different channels.

Bounds that exist only for checking are named: `AttemptBound`, `ThrowBound`,
`CrashBound`, `RenewBound`, `SequenceBound`, `FaultBound`, `ItemBound`, `TaskBound`,
`BatchBound`, `EditionBound`. `Patience` is the row's `max_attempts`. `MaxPoints` is the code's `MAX_POINTS`, made small so
that it is reached. `RenewBound` refuses further retries by hand and pending answers
of a task; recoveries count towards it and are never refused. `SequenceBound` stops a
delivery that would begin another stage attempt; `EditionBound` counts the changes of
all products and refuses further ones.

Deadlock is checked in every run but four. A bounded delivery ends for good when its
points are settled and its disturbances are used up, and the bounded corrections end
when the changes are; there (`material_delivery`, `procurement`, `procurement_stale`) a
state without a successor is the bound, not the program. In `execution_recovery` the
program itself stops: nothing claims a row that is done or failed. The other models never stop:
timers, callers or administrators can always act.

### Fairness

* `RSpec` of the recovery: the event loop runs every continuation, so each
  execution's next step is weakly fair. The queue claims what is due
  (`ai-generation-tasks.js:300`), a process that died is started again, and the
  provider ends its jobs; whether it forgets one afterwards or answers with something
  of no use is its choice. How often the queue comes back is not assumed but
  modelled (`Left`). Reviews, changes of permission and retries by hand are left out: the
  claim is that no human is needed.

  `ReceiptIsResolved` names what remains for one. The provider has no usable result any
  more (`bad`, `gone`). Or the row has failed over a fault, or over another download that was saved
  first. A member's session that cannot be read fails the row at once (`Abandon`). And
  pending answers count as attempts (`ai-generation-tasks.js:348`), so after two of them
  a single fault ends the row; the points then stay frozen until somebody retries
  the row or the platform reconciles the task.
* Neither the delivery nor the corrections promise that something happens: a delivery
  without a proof waits for a person on purpose, so their specifications have none.
* `FairSpec` of the jobs: the scheduler's timer, the clock, awaited statements and
  the service manager that starts a dead process. Operators owe nothing.
* `FairSpec` of the queue: ticks, claims, each execution's steps (provider calls have
  timeouts), restart and recovery, the nightly cleanup. `TasksSettle` needs
  a job not to stay pending for ever. That is what `RenewBound` in `Poll` says: the code
  has no bound of its own on the number of polls.

## Proofs

`AiCreditLedger_proofs`, for any number of tasks, prices, attempts and any bound of
points, from `LimitAssumption`, `RowAssumption` (finitely many keys and references)
and `NullAssumption`:

1. `TypeCorrect`. `TypeOK` alone is not inductive: settling multiplies the number of
   results by the price, and only a task that was reserved has a request.
   `LinkedInvariant` adds `RowsLinked`: a row is absent in full or has its request.
2. `BillsAreAsQuoted`, by `QuoteInvariant`: the property is inductive next to
   `TypeOK`. `PartialCharge` is its arithmetic: charging some of the results costs
   no more than charging all.
3. `FrozenPointsAreHeld`, `PointsAreConserved`, `AuditsAreConsistent`, by
   `BooksInvariant`. `BooksInv` joins the three and `LinesSound`: a line that was not
   posted counts for nothing, and a payment only adds. A balance may only
   be compared with the tasks if each line moves both alike. `StepCases` reduces every
   action to one of four moves of points; `PostBooks`, `TaskSums` and
   `PaymentSums` say what a move does to the sums.
4. `ClosedBillsStand`: an action property.
5. `LedgerKeepsHolds`: refinement of `PrepaidHolds`. Initial states map to
   initial states and each step to a payment, a freeze, a closure or a stutter.
6. `UnresolvedIsAlone` and `LateResultsAreFlagged`, by `AttemptsInvariant`. An
   accepted success closes its task in the same transaction, so no attempt of an open
   task has succeeded (`OpenHasNoSuccess`); without that conjunct a refund could
   follow a success nobody noticed.

`PointSums_proofs` holds the facts about sums: what an update of one row does to
the total, the sum of a column of zeros, of a part of the rows, of one row more, and of
two columns added up. Two more say that a set of naturals has a least
element and a bounded one a greatest; they stand in for induction, and give a meaning to
each `CHOOSE` of a first or a last row.

`AiCreditExecution_proofs`, for any tasks, workers, crashes, provider answers and
reviews by hand, from the ledger's assumptions and `ExecutorAssumption`: `OnlyLedgerCalls`,
`NoBlindResubmission`, `RefundsHaveNoJob`, `BillsAreOnFile`, `DeliveriesAreAccounted`,
`ExecutorTypeCorrect`.

1. `OnlyLedgerCalls`: on the tables every step of the executor is a call of the ledger
   with arguments the ledger takes, or a stutter. The executor starts on a recharged
   wallet, which is not an initial state of the ledger, so what carries over are the
   facts about the ledger's steps (`LinkedStep`, `AttemptsStep`, `BillsLeft`, `BooksStep`,
   `QuoteStep`). With `FundedBooks`, the books of that wallet, they give
   `ExecutionsKeepTheBooks`.
2. The invariant `IInv` has four parts: `RowsInv` (what the executor adds to the rows:
   attempts are numbered, a task under way has one), `LocalsInv` (what an execution
   believes is still true of the tables when it acts on it), `JobsInv` and `FilesInv`.
   `OneLiveJob` is not inductive: two executions about to post would each make a job.
   `JobsInv` therefore speaks of the job that is live *or about to be posted* (`Hot`): it
   belongs to the unresolved attempt, of which there is one, or to a closed task.
3. Steps come in three kinds, with a lemma each: an execution that only reads and
   decides (`Thinks`), one that moves rows (`RowMoves`), and a job or a file that changes
   (`JobMoves`).
4. `DeliveriesAreAccounted` needs `DigestsInv` (only a bill has a result, only a resolved
   attempt a digest, so no step overwrites what accounts for a delivery) and `HandedInv`
   (what an execution is about to hand out is accounted for already).

`MaterialDelivery_proofs`, for any executions, text stages, candidates, disturbances
and stage attempts, from `DeliveryAssumption` and the ledger's assumptions:
`LiveJobsAreOne`, `RefundsAreProven`, `BillsAreDeliveries`, `DocumentsAgree`,
`DeliveryTypeCorrect`, `DeliveryBillsStand`, `DeliveriesKeepTheBooks`,
`DeliveryAttemptsAreSound`. None of the first four is inductive. The invariant `DInv`
says besides:

1. `LeaseInv`: the locals of the execution that the lease names are where `NextStep` says
   the document stands. It has no unresolved attempt of its own but the one at hand, and
   the others hold only attempts from before its claim. So a marker is set only where no
   other attempt of the stage may live.
2. `MarkerInv`: an attempt that somebody may still post has not been posted, and nobody
   else may. A marker is set by one execution; every later one finds it below its claim.
3. `CourseInv`: what the document says of an attempt is so. One that failed has a dead
   job, one that succeeded a usable one, and a file a job that was answered.
   `LocalsInv` says the same of what each execution has in hand, lease or not.
4. `PackageInv`: a final file exists only when the document has come to its end
   (`NextStep(doc) = "final"`). From there no update leads on, so the file stays that of
   the image the review accepted. `BillsAreDeliveries` follows.
5. `BillsInv`: a refund or an end in the document has its reason still. `Hopeless` never
   passes: dead jobs stay dead (`DeadStay`) and no stage gets another call.

Steps come in few kinds. One that leaves document, jobs and files alone is `Quiet`. One
that leaves the document where it stood, while jobs end, is `Steady` (`CourseKept`: where a
document stands depends on nothing such a step changes). One that moves it on is
`AdvanceStep`: a new marker, an attempt's end, the next candidate. `CallsOfLedger` shows
that for the points every step is a call of the ledger, which gives the last three
theorems.

`AiImageRuntimeLimiter_proofs`, for any requests, channels and limits, from
`LimiterAssumption`:

1. `CountersAreTheSlotsHeld` and `LimiterTypeCorrect`. The invariant is `TypeOK /\ OncePerRequest /\
   Accounting`. Without `OncePerRequest`, a request that waited twice could be granted
   a slot it already holds, and the counters would count it twice.
2. `LimitsAreKept`, inductive next to that invariant. A request is admitted only
   while fewer slots are taken than its own limit; so whenever one whose limit is at
   most n joins those it is counted with, there were fewer than n of them.
3. `NoWakeUpIsLost`. A drain ends only when it refuses every waiter. With no slot
   held, no waiter can be refused, because the adaptive limit is at least one.

`ScheduledJobs_proofs`, for any jobs, executions, processes and crashes, from
`ScheduleAssumption`: `JobsAreWellTyped`, `HandlersDoNotOverlap`,
`RunsHaveTheirExecution`, `LateFinishersKeepOff`. `NoOverlap` is not inductive: two
executions that have claimed one job would both come to its handler. The invariant
adds `WorkIsLocked`: the lock of an undisturbed job names every execution that works on
it, from its claim to its end. A lock names one, so there is one.

`AiGenerationTasks_proofs`, for any tasks, processes, executions and bounds, from
`QueueAssumption`: `TasksAreWellTyped`, `AttemptsAreBounded`, `OneExecutionPerTask`,
`EndsStand`. The invariant adds

1. `AttemptLeft`: a task that may be claimed has spent fewer attempts than it may. The
   claim spends one without looking, so the bound rests on every way into the queue.
2. `OneOwner`: the task of an execution says running and has no other execution, unless
   a recovery put it back. Claims start from a task that is not running. An end that
   was written by one execution is then out of reach for every other.
3. `WorkHasTask` and `KnownJobs`: an execution has a task exactly while it is under way,
   and no row or local names a job the provider has not created.

`ProcurementLedger_proofs`, for any products, persons, quantities and changes, from
`ProcurementAssumption`, all of `SerialSpec`: `ProcurementTypeCorrect`,
`ReceiptsStayCounted`, `RevisionsKeepAddingUp`, `CostsStayCovered`,
`CorrectionsKeepTheirPromise`.

1. A revision takes an amount from a line of deliveries, newest first, or leaves it to
   one, oldest first. `SharesAddUp` says that the parts add up to the amount, or to all
   there is. It is an induction along the line, proved instead from the first delivery
   up to which the sum is wrong, which `LeastNatural` provides.
2. The sums of one purchase follow: what a revision leaves received and due is what
   was asked for, whatever the pages had left there (`RevisionsKeepAddingUp` needs no
   invariant beyond the types); what comes in raises count and deliveries alike; a status
   that changes moves both, and the count is never below what it loses.
3. The invariant `PInv` is about all rows: what each purchase counts is what came, its
   links are within that and it has a price, each under the exceptions of the property;
   and no link is to a task that does not exist yet, a task's resolved quantity being the
   sum of its links. `CostsAreCovered` alone is not inductive: a link waiting for a
   future task would explain it at once. A revision may cut a purchase only down to its
   links (`KeepsCosts`). The pages change one purchase and never a link (`Edited`,
   `PagesEdit`); what they take back they mark.
4. For the promise the invariant says of each draft that it is `Honest`: it
   knows no revision to come, its purchase exists, and while its revisions are the
   current ones, its promise is what its plan would do. A
   change of other products touches nothing the plan reads, and a change of one it
   touches raises its revision, which makes the draft stale for ever.
   `procurement_stale` shows that `SerialSpec` cannot be replaced by `Spec`.

Every invariant and every action property that a passing run checks is also a theorem.
Only model-checked is the liveness (`ReceiptIsResolved`, `OrphanIsReplaced`,
`TasksSettle`), which rests on fairness and is out of the prover's reach.

## What the checks found

1. `jobs_releases`. `recoverInterruptedScheduledJobRuns` releases *every* lock when
   the owner starts. A manual run in the other process is alive; its run row is
   failed, its lock is cleared and its job is made due, so a second handler starts
   beside it. A test calls these runs "interrupted by the previous service process".
2. `generation_resubmit`. A process that starts puts back the image task the
   other process is executing. Its worker read the row before the job's number was
   saved and posts a second job. A test promises no resubmission.
3. `procurement_stale`. `apply()` reads the enterprise before it locks the product. Under
   MySQL's default isolation its later plain SELECTs, the snapshot with the
   revision among them, show the rows of that first read. A correction committed while
   it waited for the lock is not seen, and the plan is applied to a stock nobody
   previewed. A comment promises the exact revision inside the transaction.

Met on the way, and visible in the models without a run of their own:

* The edit of an idle job's configuration clears the lock of a run claimed between its
  check and its UPDATE (`ReadConfig`, `WriteConfig`).
* The nightly cleanup deletes tasks that are `completed`, but the code writes `done`
  (`Cleanup`).
* A job number the provider answers with 404 or 410 is asked for again for ever, and the
  points stay frozen (`Query`).
* Saving a purchase of which part has come makes the rest due the whole quantity again:
  two received and five due, of five (`UpdatePurchase`).
* Un-approving or deleting a received delivery, deleting a purchase and clearing its price
  do not look at the costs its pieces explain (`reversed`).
* Pieces can come into a purchase that was corrected to nothing; confirming it anew then
  counts from its new quantity, not from what came (`restarted`).
* Un-approving a delivery that was corrected and whose note no longer says so deletes what
  it posted and leaves what the correction took back: the stock falls below zero (`Posted`).

Properties that these behaviours would break state the exception. `NoOverlap` holds
for jobs whose lock was not taken from a living execution (`disturbed`);
`OneExecution` and `EndStands` hold for tasks not put back under a living execution
(`requeued`). Both are history variables set only where the code does the taking.
`AppliedAsPreviewed` holds when no other change falls between the first read of a
transaction and its writes (`SerialSpec`). `ReceiptsAreCounted` and `CostsAreCovered`
except purchases that are deleted or `restarted`, the second also those that are
`reversed`; every other order of corrections and edits is in their scope.
`test/tenant-receipt-item-status-mysql.test.js` takes receipts back and deletes them, so
these are edits people may make, and the properties say what they cost.

## What is left out, and why

* In the ledger: supplier costs, reasons and actors. Nothing reads them back.
* In the executor: the choice of a channel and the derivation of operation keys;
  the mode of enterprises without a wallet.
* In the jobs: the order in which due jobs are taken, failure counts, history,
  database statements that fail.
* In the queue: priorities, the checks of generated text, and tasks with
  dependencies. Such a task is never selected, since nothing clears
  `depends_on_task_ids`.
* In the limiter: the measurement of memory and pool.
* In the delivery: the supplier's costs, the corrections a review may ask of the text,
  what the stages' contracts accept (an answer is good or bad), images and storage. A
  second delivery has its own row and its own task.
* In the procurement ledger: amounts and shipping costs (a purchase has a price or not),
  the allocation of purchases to orders and requests, and with it purchases merged
  from requests before they are confirmed and changed through them
  (`mysql-cutover.js:22060-22225`, `24050-24230`). Of the pages: purchases of several items,
  deliveries without a purchase (`25030-25078`), moving a delivery to another product, what
  a deleted purchase leaves behind. A delivery that was corrected to nothing and is received
  anew has two movements, of which the model keeps the total; saving it once more, the page
  sets only one of the two (`21841-21865`).
* Everything marked `not_modelled` in `PROJECT.json`, with the reason there.

## Plan

Done: the ledger and the executor with their proofs, the delivery, the jobs, the queue and
the limiter with their proofs, the corrections with theirs. The modules
are ordered by what a mistake costs: points first, then paid calls, then stock and
purchases, then repeated background work.

Next modules, in order:

1. `MysqlPool`, `QrLogin`, `MembershipVouchers`, `ProfitVersions`, `DraftSaveBatches`:
   small modules, each with one race that matters.
2. The allocation of purchases to orders, in `ProcurementLedger`.
3. `OglDispatch` and the marketplace client.

Next proofs: those of the modules above.

## Running

    tlc -workers 2 -config AiCreditLedger_money.cfg MCAiCreditLedger
    tlapm AiCreditLedger_proofs.tla

The longest runs are `procurement` and `execution_recovery`, two to three minutes each.
The proofs take about half an hour, those of the executor, the delivery and the
corrections most of it.
