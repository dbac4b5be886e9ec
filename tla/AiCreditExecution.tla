--------------------------- MODULE AiCreditExecution ---------------------------
(***************************************************************************)
(* The executor that spends the points: it reserves, marks an attempt,     *)
(* calls the provider, saves the result and settles, and resumes whatever  *)
(* an earlier execution of the same operation left behind.                 *)
(*                                                                         *)
(* execute() runs in any number of requests and queue workers at once; an  *)
(* await is a step boundary, so an execution is a program counter and the  *)
(* values its locals hold across awaits.  The ledger's transactions are    *)
(* the actions of AiCreditLedger.  An execution that throws, and a process *)
(* that dies, lose the locals and nothing else.                            *)
(***************************************************************************)
EXTENDS AiCreditLedger

CONSTANTS
  Workers,      \* concurrent executions
  MaxAttempts,  \* maxAttempts of the executor, 2 by default
  ThrowBound    \* crashes and failed calls in one behaviour (for model checking)

ASSUME ExecutorAssumption ==
  /\ Keys # {}
  /\ 1 \in Amounts
  /\ MaxAttempts \in 1 .. AttemptBound
  /\ ThrowBound \in Nat
  /\ Keys \X (1 .. AttemptBound) \subseteq Receipts

VARIABLES
  run,        \* the locals of each execution
  store,      \* digest of the saved result file of each task
  job,        \* what became of the provider's job of each attempt
  reviewed,   \* tasks the platform closed by hand
  delivered,  \* results handed to the callers of each task
  throws      \* crashes and failed calls so far

outside == <<store, job, reviewed, delivered, throws>>
evars   == <<vars, run, outside>>

Steps == {"idle", "authorize", "reserve", "latest", "recover", "verify", "query",
          "inspect", "current", "read", "start", "release", "submit", "receipt",
          "poll", "report", "write", "settle", "deliver"}

\* The locals: where the execution is and the step it asks permission for; its
\* request; the result reserve() or task() showed; the attempt and the receipt
\* it read; the result in hand, how that was verified; the failure to report.
Run == [at : Steps, next : Steps, key : Keys, request : Request \cup {NoRequest},
        bill : Digests \cup {NoDigest}, n : 0 .. AttemptBound,
        receipt : Receipts \cup {NoReceipt}, digest : Digests \cup {NoDigest},
        verified : {"no", "stored", "receipt"},
        failure : {"none", "failed", "retry", "unknown"}]

Idle == [at |-> "idle", next |-> "idle", key |-> CHOOSE k \in Keys : TRUE,
         request |-> NoRequest, bill |-> NoDigest, n |-> 0, receipt |-> NoReceipt,
         digest |-> NoDigest, verified |-> "no", failure |-> "none"]

\* Jobs the provider took and did not fail: it works on one, has its result, a
\* result that cannot be used, or knows it no longer.
Live == {"processing", "done", "bad", "gone"}

\* The executor starts on a wallet that is open, recharged and priced.
EInit ==
  /\ account = [status |-> "active", optedIn |-> TRUE,
                available |-> MaxPoints, frozen |-> 0]
  /\ prices = {[key |-> p, version |-> v, points |-> 1] : p \in PriceKeys, v \in Versions}
  /\ tasks = [k \in Keys |-> NoTask]
  /\ attempts = [k \in Keys |-> << >>]
  /\ \E r \in References :
       entries = [e \in EntryKeys |->
                    IF e = <<"recharge", r>> THEN Line("recharge", MaxPoints, 0)
                    ELSE NoEntry]
  /\ operators = Persons
  /\ run = [w \in Workers |-> Idle]
  /\ store = [k \in Keys |-> NoDigest]
  /\ job = [k \in Keys |-> [n \in AttemptKeys |-> "none"]]
  /\ reviewed = {}
  /\ delivered = [k \in Keys |-> {}]
  /\ throws = 0

-----------------------------------------------------------------------------
At(w, step)  == run[w].at = step
ReceiptOf(k, n) == <<k, n>>   \* the job number the provider gives attempt n
LastOf(k)    == Len(attempts[k])

GoTo(w, step) == run' = [run EXCEPT ![w].at = step]

\* authorize() first, then the step: an execution asks again before whatever
\* spends points or reveals a result.
Asking(locals, step) == [locals EXCEPT !.at = "authorize", !.next = step]
Asks(w, step) == run' = [run EXCEPT ![w] = Asking(@, step)]

\* The execution ends with an answer or an error.
Ends(w) == run' = [run EXCEPT ![w] = Idle]

\* member(): the caller holds the permission; authorizeCurrent also wants the
\* wallet open.
IsOperator(w) == run[w].request.creator \in operators
MayAct(w) == IsOperator(w) /\ account.status = "active"

\* The ledger call that reports the execution's result.
SuccessCall(w) ==
  [outcome |-> "succeeded", retryable |-> FALSE, count |-> 1, digest |-> run[w].digest,
   receipt |-> run[w].receipt, verified |-> run[w].verified]

\* The ledger call that reports a failure; only query() passes the receipt.
FailureCall(w) ==
  [outcome |-> IF run[w].failure = "unknown" THEN "unknown" ELSE "failed",
   retryable |-> run[w].failure = "retry", count |-> 1, digest |-> NoDigest,
   receipt |-> run[w].receipt, verified |-> run[w].verified]

\* No attempt is left after attempt n.  Faulty variant: off by one.
ExhaustedLate(n) == n > MaxAttempts
Exhausted(n) == n >= MaxAttempts

\* What a failed call may be reported as: only an explicit failure is definite,
\* and is retried while attempts are left.  Faulty variant: a timeout is retried.
RetriedTimeouts(definite, n) ==
  IF ~Exhausted(n) THEN {"retry"} ELSE IF definite THEN {"failed"} ELSE {"unknown"}
Failures(definite, n) ==
  IF definite THEN {"failed"} \cup (IF Exhausted(n) THEN {} ELSE {"retry"})
  ELSE {"unknown"}

\* resultStore.write: the file is linked into place once and never replaced.
\* Faulty variant: a later result overwrites it.
Overwrites(k, digest) == TRUE
Installs(k, digest) == store[k] \in {NoDigest, digest}

-----------------------------------------------------------------------------
Begin(w, k, request) ==
  /\ At(w, "idle")
  /\ run' = [run EXCEPT ![w] = Asking([Idle EXCEPT !.key = k, !.request = request],
                                      "reserve")]
  /\ UNCHANGED <<vars, outside>>

\* A refusal ends the execution; before startAttempt it also cancels the task.
Authorize(w) ==
  /\ At(w, "authorize")
  /\ IF MayAct(w) THEN GoTo(w, run[w].next)
     ELSE IF run[w].next = "start" THEN GoTo(w, "release") ELSE Ends(w)
  /\ UNCHANGED <<vars, outside>>

\* Where execute() goes on the status reserve() returned.
Dispatch(w, task) ==
  \/ /\ task.status = "succeeded"
     /\ run' = [run EXCEPT ![w] = Asking([@ EXCEPT !.bill = task.result], "read")]
  \/ task.status = "failed" /\ Ends(w)
  \/ task.status \in {"running", "unknown"} /\ GoTo(w, "latest")
  \/ task.status = "reserved" /\ GoTo(w, "inspect")

\* The available points pay for the request at today's price.
CanPay(request) ==
  \E price \in prices : /\ price.key = request.price /\ IsCurrent(price)
                        /\ price.points * request.results <= account.available

\* A replay is answered even while the wallet is disabled.
ReserveTask(w) ==
  LET k == run[w].key IN
  /\ At(w, "reserve")
  /\ \/ Reserve(k, run[w].request) /\ GoTo(w, "inspect")
     \/ /\ IsOperator(w)
        /\ tasks[k].status # "none" /\ tasks[k].request = run[w].request
        /\ Dispatch(w, tasks[k])
        /\ UNCHANGED vars
     \/ /\ \/ ~IsOperator(w)
           \/ tasks[k].status = "none"
                /\ (account.status # "active" \/ ~CanPay(run[w].request))
           \/ tasks[k].status # "none" /\ tasks[k].request # run[w].request
        /\ Ends(w)
        /\ UNCHANGED vars
  /\ UNCHANGED outside

\* A closed task is answered from the saved result, if that is the billed one.
Read(w) ==
  LET k == run[w].key IN
  /\ At(w, "read")
  /\ delivered' = [delivered EXCEPT ![k] = IF run[w].bill = store[k]
                                           THEN @ \cup {store[k]} ELSE @]
  /\ Ends(w)
  /\ UNCHANGED <<vars, store, job, reviewed, throws>>

-----------------------------------------------------------------------------
\* Recovery of a task that reserve() showed running or unknown: a saved result
\* is looked for while the attempt is unresolved, its receipt is the fallback.
LatestAttempt(w) ==
  LET k == run[w].key
      attempt == attempts[k][LastOf(k)]
      found == [run[w] EXCEPT !.n = LastOf(k), !.receipt = attempt.receipt]
  IN  /\ At(w, "latest")
      /\ run' = [run EXCEPT ![w] =
           IF ~IsOperator(w) THEN Idle
           ELSE IF attempt.status \in Unresolved THEN [found EXCEPT !.at = "recover"]
           ELSE IF attempt.receipt # NoReceipt THEN Asking(found, "query") ELSE Idle]
      /\ UNCHANGED <<vars, outside>>

\* With neither the task stays pending, for the platform to reconcile.
Recover(w) ==
  LET saved == store[run[w].key] IN
  /\ At(w, "recover")
  /\ \/ /\ saved # NoDigest
        /\ run' = [run EXCEPT ![w] = Asking([@ EXCEPT !.digest = saved], "verify")]
     \/ saved = NoDigest /\ run[w].receipt # NoReceipt /\ Asks(w, "query")
     \/ saved = NoDigest /\ run[w].receipt = NoReceipt /\ Ends(w)
  /\ UNCHANGED <<vars, outside>>

\* A saved result whose pictures are damaged by now ends the execution.
Verify(w) ==
  /\ At(w, "verify")
  /\ \/ run' = [run EXCEPT ![w].at = "settle", ![w].verified = "stored"]
     \/ Ends(w)
  /\ UNCHANGED <<vars, outside>>

\* The provider is asked for the job of the saved receipt: it works on it or
\* knows it no longer, and the task stays pending; it failed it for good; or it
\* hands the result out, in bytes of this download, of no use or to be saved.
Query(w) ==
  LET state == job[run[w].key][run[w].n] IN
  /\ At(w, "query")
  /\ \/ state \in {"processing", "gone", "bad"} /\ Ends(w)
     \/ /\ state = "failed"
        /\ run' = [run EXCEPT ![w].at = "report", ![w].failure = "failed",
                              ![w].verified = "receipt"]
     \/ /\ state = "done"
        /\ \E digest \in Digests :
             run' = [run EXCEPT ![w].at = "write", ![w].digest = digest,
                                ![w].verified = "receipt"]
  /\ UNCHANGED <<vars, outside>>

-----------------------------------------------------------------------------
\* A reserved task: its last attempt decides whether another may be made.
Inspect(w) ==
  LET k == run[w].key
      status == IF LastOf(k) = 0 THEN "none" ELSE attempts[k][LastOf(k)].status
  IN  /\ At(w, "inspect")
      /\ run' = [run EXCEPT ![w] =
           IF ~IsOperator(w) \/ status \in Unresolved THEN Idle
           ELSE IF status = "succeeded" THEN [@ EXCEPT !.at = "current"]
           ELSE IF Exhausted(LastOf(k)) THEN [@ EXCEPT !.at = "release"]
           ELSE Asking([@ EXCEPT !.n = LastOf(k) + 1], "start")]
      /\ UNCHANGED <<vars, outside>>

\* Another execution settled in the meantime.
Current(w) ==
  LET task == tasks[run[w].key] IN
  /\ At(w, "current")
  /\ run' = [run EXCEPT ![w] =
       IF IsOperator(w) /\ task.status = "succeeded"
       THEN Asking([@ EXCEPT !.bill = task.result], "read") ELSE Idle]
  /\ UNCHANGED <<vars, outside>>

\* releaseUnsubmitted cancels the task if no provider holds it.
Release(w) ==
  LET k == run[w].key IN
  /\ At(w, "release")
  /\ \/ ReleaseUnsubmitted(k)
     \/ tasks[k].status # "reserved" /\ UNCHANGED vars
  /\ Ends(w)
  /\ UNCHANGED outside

\* The marker is committed before the call.  A marker already there, or a task
\* no longer reserved, means somebody else submits, and this execution waits.
Start(w) ==
  LET k == run[w].key  n == run[w].n IN
  /\ At(w, "start")
  /\ \/ \E provider \in Providers : StartAttempt(k, n, provider) /\ GoTo(w, "submit")
     \/ MayAct(w) /\ (~IsSubmittable(tasks[k]) \/ n <= LastOf(k)) /\ Ends(w) /\ UNCHANGED vars
     \/ ~MayAct(w) /\ GoTo(w, "release") /\ UNCHANGED vars
  /\ UNCHANGED outside

-----------------------------------------------------------------------------
\* The POST: the provider takes the job and says so, answers with the result at
\* once, refuses the job for good, or its answer is lost or of no use, whether it
\* took the job or not.
Submit(w) ==
  LET k == run[w].key  n == run[w].n IN
  /\ At(w, "submit")
  /\ \/ /\ job' = [job EXCEPT ![k][n] = "processing"]
        /\ GoTo(w, "receipt")
        /\ UNCHANGED throws
     \/ /\ job' = [job EXCEPT ![k][n] = "done"]
        /\ \E digest \in Digests :
             run' = [run EXCEPT ![w].at = "write", ![w].digest = digest]
        /\ UNCHANGED throws
     \/ /\ job' = [job EXCEPT ![k][n] = "failed"]
        /\ \E failure \in Failures(TRUE, n) :
             run' = [run EXCEPT ![w].at = "report", ![w].failure = failure]
        /\ UNCHANGED throws
     \/ /\ throws < ThrowBound
        /\ throws' = throws + 1
        /\ \E state \in {"none", "processing", "bad"} : job' = [job EXCEPT ![k][n] = state]
        /\ \E failure \in Failures(FALSE, n) :
             run' = [run EXCEPT ![w].at = "report", ![w].failure = failure]
  /\ UNCHANGED <<vars, store, reviewed, delivered>>

\* onReceipt: nobody else touches the row of an attempt without a receipt, so
\* the ledger takes it.
Receipt(w) ==
  LET k == run[w].key  n == run[w].n IN
  /\ At(w, "receipt")
  /\ RecordReceipt(k, n, ReceiptOf(k, n))
  /\ GoTo(w, "poll")
  /\ UNCHANGED outside

\* Polling inside submit() until the job ends or the adapter gives up, because
\* of the result, the job or the wait.
Poll(w) ==
  LET k == run[w].key  n == run[w].n IN
  /\ At(w, "poll")
  /\ \/ /\ job[k][n] = "done"
        /\ \E digest \in Digests :
             run' = [run EXCEPT ![w].at = "write", ![w].digest = digest]
        /\ UNCHANGED throws
     \/ /\ job[k][n] = "failed"
        /\ \E failure \in Failures(TRUE, n) :
             run' = [run EXCEPT ![w].at = "report", ![w].failure = failure]
        /\ UNCHANGED throws
     \/ /\ \/ job[k][n] \in {"bad", "gone"} /\ UNCHANGED throws
           \/ throws < ThrowBound /\ throws' = throws + 1
        /\ \E failure \in Failures(FALSE, n) :
             run' = [run EXCEPT ![w].at = "report", ![w].failure = failure]
  /\ UNCHANGED <<vars, store, job, reviewed, delivered>>

\* recordOutcome of a failure; a retry asks again and starts the next attempt.
Report(w) ==
  LET k == run[w].key  n == run[w].n
      accepted == Accepts(tasks[k], attempts[k][n], FailureCall(w))
  IN  /\ At(w, "report")
      /\ \/ RecordOutcome(k, n, FailureCall(w))
         \/ ~accepted /\ UNCHANGED vars
      /\ IF accepted /\ run[w].failure = "retry"
         THEN run' = [run EXCEPT ![w] = Asking([@ EXCEPT !.n = n + 1, !.failure = "none"],
                                               "start")]
         ELSE Ends(w)
      /\ UNCHANGED outside

\* A result that differs from the saved one ends the execution unsettled.
Write(w) ==
  LET k == run[w].key IN
  /\ At(w, "write")
  /\ \/ /\ Installs(k, run[w].digest)
        /\ store' = [store EXCEPT ![k] = run[w].digest]
        /\ GoTo(w, "settle")
     \/ ~Installs(k, run[w].digest) /\ Ends(w) /\ UNCHANGED store
  /\ UNCHANGED <<vars, job, reviewed, delivered, throws>>

\* recordOutcome of a success: recorded now, already recorded with the same
\* result (a replay), or refused.
SettleResult(w) ==
  LET k == run[w].key  n == run[w].n
      attempt == attempts[k][n]
      accepted == Accepts(tasks[k], attempt, SuccessCall(w))
      replay == attempt.status = "succeeded" /\ attempt.digest = run[w].digest
                  /\ tasks[k].successful = 1 /\ tasks[k].result = run[w].digest
  IN  /\ At(w, "settle")
      /\ \/ RecordOutcome(k, n, SuccessCall(w))
         \/ ~accepted /\ UNCHANGED vars
      /\ IF accepted \/ replay THEN Asks(w, "deliver") ELSE Ends(w)
      /\ UNCHANGED outside

Deliver(w) ==
  LET k == run[w].key IN
  /\ At(w, "deliver")
  /\ delivered' = [delivered EXCEPT ![k] = @ \cup {run[w].digest}]
  /\ Ends(w)
  /\ UNCHANGED <<vars, store, job, reviewed, throws>>

-----------------------------------------------------------------------------
\* The process dies, or a call throws where the code does not catch.
Throw(w) ==
  /\ ~At(w, "idle")
  /\ throws < ThrowBound
  /\ throws' = throws + 1
  /\ Ends(w)
  /\ UNCHANGED <<vars, store, job, reviewed, delivered>>

\* The provider ends a job, and later forgets it.
Finish(k, n) ==
  /\ \E state \in {"done", "bad", "failed", "gone"} :
       /\ job[k][n] = "processing" \/ (job[k][n] \in {"done", "bad"} /\ state = "gone")
       /\ job' = [job EXCEPT ![k][n] = state]
  /\ UNCHANGED <<vars, run, store, reviewed, delivered, throws>>

\* The platform closes a stuck task by hand, the tenant changes permissions,
\* the platform opens and closes the wallet.
Review(k, count, digest) ==
  /\ Reconcile(k, count, digest)
  /\ reviewed' = reviewed \cup {k}
  /\ UNCHANGED <<run, store, job, delivered, throws>>

Administer ==
  /\ \/ \E people \in SUBSET Persons : SetOperators(people)
     \/ \E status \in {"active", "disabled"} : ConfigureAccount(status)
  /\ UNCHANGED <<run, outside>>

Work(w) ==
  \/ Authorize(w) \/ ReserveTask(w) \/ Read(w)
  \/ LatestAttempt(w) \/ Recover(w) \/ Verify(w) \/ Query(w)
  \/ Inspect(w) \/ Current(w) \/ Release(w) \/ Start(w)
  \/ Submit(w) \/ Receipt(w) \/ Poll(w) \/ Report(w)
  \/ Write(w) \/ SettleResult(w) \/ Deliver(w)

Calls(w) == \E k \in Keys, request \in Request : Begin(w, k, request)

ENext ==
  \/ \E w \in Workers : Calls(w) \/ Work(w) \/ Throw(w)
  \/ \E k \in Keys, n \in AttemptKeys : Finish(k, n)
  \/ \E k \in Keys, count \in 0 .. 1, digest \in Digests : Review(k, count, digest)
  \/ Administer

ESpec == EInit /\ [][ENext]_evars

-----------------------------------------------------------------------------
ETypeOK ==
  /\ TypeOK
  /\ run \in [Workers -> Run]
  /\ store \in [Keys -> Digests \cup {NoDigest}]
  /\ job \in [Keys -> [AttemptKeys -> {"none", "failed"} \cup Live]]
  /\ reviewed \subseteq Keys
  /\ delivered \in [Keys -> SUBSET Digests]
  /\ throws \in 0 .. ThrowBound

LiveJobs(k) == {n \in AttemptKeys : job[k][n] \in Live}
Posting(k)  == {w \in Workers : At(w, "submit") /\ run[w].key = k}

\* No blind resubmission: for one task at most one job is live or about to be,
\* whatever was retried, crashed, timed out or run twice.
OneLiveJob ==
  \A k \in Keys : Cardinality(LiveJobs(k)) + Cardinality(Posting(k)) <= 1

\* Points are given back without a review only when no provider works on the
\* task, holds a result for it, or is about to be asked.
RefundMeansNoJob ==
  \A k \in Keys : tasks[k].status = "failed" /\ k \notin reviewed =>
    LiveJobs(k) = {} /\ Posting(k) = {}

\* What was billed can be read again: the saved file is the billed result.
BillIsOnFile ==
  \A k \in Keys : tasks[k].status = "succeeded" /\ k \notin reviewed =>
    store[k] = tasks[k].result

\* A caller holds a result only if it was billed, or if the attempt that made
\* it is marked as contradicting the bill.
DeliveredIsAccounted ==
  \A k \in Keys : \A digest \in delivered[k] :
    \/ tasks[k].status = "succeeded" /\ tasks[k].result = digest
    \/ \E n \in 1 .. LastOf(k) : attempts[k][n].conflict /\ attempts[k][n].digest = digest
=============================================================================
