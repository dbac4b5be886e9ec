--------------------------- MODULE AiGenerationTasks ---------------------------
(***************************************************************************)
(* The queue of AI generation tasks.                                       *)
(*                                                                         *)
(* Every server process runs a worker on the same table: a tick reads      *)
(* eligible rows, each row is claimed by one conditional UPDATE, and the   *)
(* claimed task is executed.  An image task posts a job to the provider,   *)
(* saves the job's number on the row and polls it, so that a later         *)
(* execution polls the saved job instead of posting again.  A server that  *)
(* starts puts the tasks it finds running back into the queue, whoever     *)
(* runs them.  The enterprises that pay with credits post through          *)
(* AiCreditExecution; this module is the path of all others.               *)
(***************************************************************************)
EXTENDS Integers, FiniteSets

CONSTANTS
  Tasks,        \* task rows
  ImageTasks,   \* the tasks whose field is an image
  Servers,      \* processes that run a worker
  Executions,   \* tasks under execution at once
  MaxAttempts,  \* max_attempts
  Slots,        \* executions a worker allows itself
  RenewBound,   \* renewals after which a task is retried and pends no more (for model checking)
  CrashBound,   \* crashes (for model checking)
  NoTask

ASSUME QueueAssumption ==
  /\ ImageTasks \subseteq Tasks /\ NoTask \notin Tasks
  /\ MaxAttempts \in Nat \ {0} /\ Slots \in Nat \ {0}
  /\ RenewBound \in Nat /\ CrashBound \in Nat
  /\ Servers # {}

VARIABLES
  row,       \* the ai_generation_tasks row of each task
  jobs,      \* how many jobs the provider accepted for each task
  server,    \* each process: down, starting (recovery not run yet), up
  picked,    \* rows the ticks of each process read and have yet to claim
  exec,      \* where each execution is
  renewed,   \* history: how often each task was put back without an attempt failing
  requeued,  \* history: tasks put back while an execution had them
  crashes    \* crashes so far

vars == <<row, jobs, server, picked, exec, renewed, requeued, crashes>>

Statuses == {"absent", "queued", "running", "provider_pending", "done", "failed", "deleted"}
Outcomes == {"none", "done", "pending", "error"}
NoJob    == 0

\* receipt is provider_job_json; rested says that the delay before another
\* poll has passed, expired that the row is older than the retention.
Row  == [status : Statuses, attempts : Nat, receipt : Nat,
         rested : BOOLEAN, expired : BOOLEAN]
Pick == [task : Tasks, job : Nat]
Exec == [at : {"idle", "session", "handler", "receipt", "poll", "settle"},
         task : Tasks \cup {NoTask}, server : Servers, job : Nat, outcome : Outcomes]

Free == [at |-> "idle", task |-> NoTask, server |-> CHOOSE s \in Servers : TRUE,
         job |-> NoJob, outcome |-> "none"]

Init ==
  /\ row = [t \in Tasks |-> [status |-> "absent", attempts |-> 0, receipt |-> NoJob,
                             rested |-> FALSE, expired |-> FALSE]]
  /\ jobs = [t \in Tasks |-> 0]
  /\ server = [s \in Servers |-> "starting"]
  /\ picked = [s \in Servers |-> {}]
  /\ exec = [e \in Executions |-> Free]
  /\ renewed = [t \in Tasks |-> 0]
  /\ requeued = {}
  /\ crashes = 0

-----------------------------------------------------------------------------
At(e, step) == exec[e].at = step
TaskOf(e) == exec[e].task
On(t) == {e \in Executions : TaskOf(e) = t}
Ends(e) == exec' = [exec EXCEPT ![e] = Free]
Outcome(e, o) == exec' = [exec EXCEPT ![e] = [@ EXCEPT !.at = "settle", !.outcome = o]]
MayRenew(t) == renewed[t] < RenewBound

\* UPDATE ... WHERE id: whatever the row says by now, unless it is gone.
SetStatus(t, s) == IF row[t].status = "deleted" THEN row
                   ELSE [row EXCEPT ![t].status = s, ![t].rested = FALSE, ![t].expired = FALSE]

\* The WHERE of the claim.  Faulty variant: a row is claimed on what the tick
\* read.
AsPicked(t) == row[t].status # "deleted"
Claimable(t) == row[t].status \in {"queued", "provider_pending"}

\* attempts >= max_attempts.  Faulty variant: one attempt more.
SpentLate(t) == row[t].attempts > MaxAttempts
Spent(t) == row[t].attempts >= MaxAttempts

\* The statuses a retry by hand accepts.  Faulty variant: any.
RetryAny == Statuses \ {"absent", "deleted"}
Retryable == {"failed", "cancelled", "provider_pending"}

\* The statuses a starting server puts back.  Faulty variant: only the tasks
\* that wait for the provider.
PendingOnly == {"provider_pending"}
Interrupted == {"running", "provider_pending"}

\* The status of a task that succeeded.  Faulty variant: the word the cleanup
\* uses.
CompletedStatus == "completed"
DoneStatus == "done"

-----------------------------------------------------------------------------
Create(t) ==
  /\ row[t].status = "absent"
  /\ row' = SetStatus(t, "queued")
  /\ UNCHANGED <<jobs, server, picked, exec, renewed, requeued, crashes>>

\* A tick of s reads eligible rows, at most its free slots; which of them the
\* ORDER BY puts first is left open.  Ticks of one process may overlap.
Eligible(t) ==
  \/ row[t].status = "queued"
  \/ t \in ImageTasks /\ row[t].status = "provider_pending" /\ row[t].rested

Tick(s, tasks) ==
  /\ server[s] # "down"
  /\ tasks # {}
  /\ \A t \in tasks : Eligible(t)
  /\ Cardinality(tasks) + Cardinality({e \in Executions : exec[e].server = s /\ ~At(e, "idle")})
       <= Slots
  /\ picked' = [picked EXCEPT ![s] = @ \cup {[task |-> t, job |-> row[t].receipt] : t \in tasks}]
  /\ UNCHANGED <<row, jobs, server, exec, renewed, requeued, crashes>>

\* The claim counts an attempt; what it executes is the row as it was read.
Claim(s, p, e) ==
  /\ p \in picked[s]
  /\ picked' = [picked EXCEPT ![s] = @ \ {p}]
  /\ \/ /\ Claimable(p.task)
        /\ At(e, "idle")
        /\ row' = [SetStatus(p.task, "running") EXCEPT ![p.task].attempts = @ + 1]
        /\ exec' = [exec EXCEPT ![e] = [Free EXCEPT
             !.at = "session", !.task = p.task, !.server = s, !.job = p.job]]
     \/ ~Claimable(p.task) /\ UNCHANGED <<row, exec>>
  /\ UNCHANGED <<jobs, server, renewed, requeued, crashes>>

\* executeClaimedTask: without a valid session of its creator the task fails.
Session(e) ==
  /\ At(e, "session")
  /\ \/ /\ exec' = [exec EXCEPT ![e].at = IF exec[e].job = NoJob THEN "handler" ELSE "poll"]
        /\ UNCHANGED row
     \/ Ends(e) /\ row' = SetStatus(TaskOf(e), "failed")
  /\ UNCHANGED <<jobs, server, picked, renewed, requeued, crashes>>

\* The handler of a task without a saved job.  A provider accepts the job, or
\* answers at once, or refuses; or the answer is lost, the job accepted or not.
Handler(e) ==
  LET t == TaskOf(e) IN
  /\ At(e, "handler")
  /\ \/ /\ t \in ImageTasks
        /\ jobs' = [jobs EXCEPT ![t] = @ + 1]
        /\ \/ exec' = [exec EXCEPT ![e] = [@ EXCEPT !.at = "receipt", !.job = jobs[t] + 1]]
           \/ Outcome(e, "error")
     \/ (Outcome(e, "done") \/ Outcome(e, "error")) /\ UNCHANGED jobs
  /\ UNCHANGED <<row, server, picked, renewed, requeued, crashes>>

\* onProviderJob: WHERE id, like every write of an execution.
SaveReceipt(e) ==
  LET t == TaskOf(e) IN
  /\ At(e, "receipt")
  /\ row' = IF row[t].status = "deleted" THEN row
            ELSE [row EXCEPT ![t].receipt = exec[e].job, ![t].rested = FALSE]
  /\ exec' = [exec EXCEPT ![e].at = "poll"]
  /\ UNCHANGED <<jobs, server, picked, renewed, requeued, crashes>>

\* The job ended, well or not, or the wait for it does.  Which of them is left
\* open, except that a job does not stay pending for ever.
Poll(e) ==
  /\ At(e, "poll")
  /\ \/ Outcome(e, "done")
     \/ MayRenew(TaskOf(e)) /\ Outcome(e, "pending")
     \/ Outcome(e, "error")
  /\ UNCHANGED <<row, jobs, server, picked, renewed, requeued, crashes>>

\* executeAuthorizedAiGenerationTask writes its outcome, whoever else did.
Settle(e) ==
  LET t == TaskOf(e) IN
  /\ At(e, "settle")
  /\ Ends(e)
  /\ row' = SetStatus(t,
       CASE exec[e].outcome = "done"    -> DoneStatus
         [] exec[e].outcome = "pending" -> "provider_pending"
         [] exec[e].outcome = "error"   -> IF Spent(t) THEN "failed" ELSE "queued")
  /\ renewed' = [renewed EXCEPT ![t] = IF exec[e].outcome = "pending" THEN @ + 1 ELSE @]
  /\ UNCHANGED <<jobs, server, picked, requeued, crashes>>

-----------------------------------------------------------------------------
\* retryAiGenerationTask keeps the attempts and the saved job.
Retry(t) ==
  /\ row[t].status \in Retryable
  /\ MayRenew(t)
  /\ row' = SetStatus(t, "queued")
  /\ renewed' = [renewed EXCEPT ![t] = @ + 1]
  /\ UNCHANGED <<jobs, server, picked, exec, requeued, crashes>>

\* recoverAiGenerationTasksOnStartup, three seconds after the start.
Recover(s) ==
  LET back == {t \in Tasks : row[t].status \in Interrupted} IN
  /\ server[s] = "starting"
  /\ server' = [server EXCEPT ![s] = "up"]
  /\ row' = [t \in Tasks |->
       IF t \in back THEN [row[t] EXCEPT !.status = "queued", !.rested = FALSE] ELSE row[t]]
  /\ renewed' = [t \in Tasks |-> IF t \in back THEN renewed[t] + 1 ELSE renewed[t]]
  /\ requeued' = requeued \cup {t \in back : On(t) # {}}
  /\ UNCHANGED <<jobs, picked, exec, crashes>>

\* cleanupAiGenerationTaskHistory.
Cleanup ==
  /\ row' = [t \in Tasks |->
       IF row[t].status \in {"completed", "failed", "cancelled"} /\ row[t].expired
       THEN [row[t] EXCEPT !.status = "deleted"] ELSE row[t]]
  /\ UNCHANGED <<jobs, server, picked, exec, renewed, requeued, crashes>>

\* A process dies with its worker; the service manager starts it again.
Crash(s) ==
  /\ crashes < CrashBound
  /\ server[s] # "down"
  /\ crashes' = crashes + 1
  /\ server' = [server EXCEPT ![s] = "down"]
  /\ picked' = [picked EXCEPT ![s] = {}]
  /\ exec' = [e \in Executions |-> IF exec[e].server = s THEN Free ELSE exec[e]]
  /\ UNCHANGED <<row, jobs, renewed, requeued>>

Start(s) ==
  /\ server[s] = "down"
  /\ server' = [server EXCEPT ![s] = "starting"]
  /\ UNCHANGED <<row, jobs, picked, exec, renewed, requeued, crashes>>

\* Time passes for a row: the delay before a poll, the retention of a result.
Age(t) ==
  /\ row' = CASE row[t].status = "provider_pending" -> [row EXCEPT ![t].rested = TRUE]
              [] row[t].status \in {"done", "failed"} -> [row EXCEPT ![t].expired = TRUE]
              [] OTHER -> row
  /\ UNCHANGED <<jobs, server, picked, exec, renewed, requeued, crashes>>

-----------------------------------------------------------------------------
Execute(e) ==
  Session(e) \/ Handler(e) \/ SaveReceipt(e) \/ Poll(e) \/ Settle(e)

Worker(s) ==
  \/ \E tasks \in SUBSET Tasks : Tick(s, tasks)
  \/ \E p \in picked[s], e \in Executions : Claim(s, p, e)

Next ==
  \/ \E t \in Tasks : Create(t) \/ Retry(t) \/ Age(t)
  \/ \E s \in Servers : Worker(s) \/ Recover(s) \/ Crash(s) \/ Start(s)
  \/ \E e \in Executions : Execute(e)
  \/ Cleanup

Spec == Init /\ [][Next]_vars

\* Timers fire, awaited calls come back or fail by their timeouts, a dead
\* process is started again, the cleanup runs every night.
FairSpec ==
  /\ Spec
  /\ \A s \in Servers :
       /\ WF_vars(\E tasks \in SUBSET Tasks : Tick(s, tasks))
       /\ WF_vars(\E p \in picked[s], e \in Executions : Claim(s, p, e))
       /\ WF_vars(Recover(s)) /\ WF_vars(Start(s))
  /\ WF_vars(Cleanup)
  /\ \A e \in Executions : WF_vars(Execute(e))
  /\ \A t \in Tasks : WF_vars(Age(t))

-----------------------------------------------------------------------------
\* Types; a saved job is one the provider has.
TypeOK ==
  /\ row \in [Tasks -> Row]
  /\ jobs \in [Tasks -> Nat]
  /\ server \in [Servers -> {"down", "starting", "up"}]
  /\ picked \in [Servers -> SUBSET Pick]
  /\ exec \in [Executions -> Exec]
  /\ renewed \in [Tasks -> Nat]
  /\ requeued \subseteq Tasks
  /\ crashes \in 0 .. CrashBound
  /\ \A t \in Tasks : row[t].receipt <= jobs[t]

\* Two executions have one task only after a recovery put the task back while
\* an execution of a living process had it.
OneExecution == \A t \in Tasks : t \notin requeued => Cardinality(On(t)) <= 1

\* Left alone, a task is executed max_attempts times: only an answer that is
\* pending, a retry by hand or a recovery gives it another execution.
BoundedAttempts == \A t \in Tasks : row[t].attempts <= MaxAttempts + renewed[t]

\* What has ended stays as it is, an error that arrives late included, but for
\* the retry and the removal of failed tasks.
Ended(t) == row[t].status \in {"done", "failed"}
EndStands ==
  [][\A t \in Tasks :
       Ended(t) /\ t \notin requeued' /\ row'[t].status # row[t].status =>
         row[t].status = "failed" /\ row'[t].status \in {"queued", "deleted"}]_vars

\* No task is lost: whatever crashes, every task that was created ends.
Settled(t) == row[t].status \in {"done", "failed", "deleted"}
TasksSettle == \A t \in Tasks : row[t].status # "absent" ~> Settled(t)

-----------------------------------------------------------------------------
\* "async image provider jobs survive timeout and server restart without
\* resubmission": nothing is posted for a task whose row has a job.
ResumesSavedJob ==
  [][\A t \in Tasks :
       row[t].receipt # NoJob => jobs'[t] = jobs[t]]_vars
=============================================================================
