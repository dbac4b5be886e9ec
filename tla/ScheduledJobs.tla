----------------------------- MODULE ScheduledJobs -----------------------------
(***************************************************************************)
(* The registry of background jobs: a row per job that executions lock,    *)
(* and a row per run.                                                      *)
(*                                                                         *)
(* One server process owns the scheduler; every process may run a job by   *)
(* hand.  An execution is the claim of a job and what runClaimedJob() does *)
(* with it, one database statement or transaction per step.  Times are     *)
(* kept as ages in units of a clock: a lock or a run is stale once it is   *)
(* older than LockTtl, a job is due once its delay has run down to zero.   *)
(***************************************************************************)
EXTENDS Integers, Sequences, FiniteSets

CONSTANTS
  Jobs,           \* job keys
  Executions,     \* claims that may be under way at once
  Owner,          \* the process that runs the scheduler
  Others,         \* the processes that only run jobs by hand
  MaxConcurrent,  \* handlers the scheduler runs at once
  LockTtl,        \* DEFAULT_LOCK_TTL_MINUTES, in clock units
  Delay,          \* time until the next run, in clock units
  NoCatchup,      \* jobs whose missed window is skipped
  CrashBound,     \* crashes of a process (for model checking)
  Nobody, NoJob

ASSUME ScheduleAssumption ==
  /\ MaxConcurrent \in Nat \ {0} /\ LockTtl \in Nat /\ Delay \in Nat
  /\ CrashBound \in Nat
  /\ NoCatchup \subseteq Jobs
  /\ Nobody \notin Executions /\ NoJob \notin Jobs /\ Owner \notin Others

VARIABLES
  row,        \* the scheduled_jobs row of each job
  runs,       \* the scheduled_job_runs rows that say running
  exec,       \* where each execution is
  tick,       \* jobs the scheduler's current tick selected and has yet to lock
  up,         \* the scheduler's process is up and its timer runs
  editor,     \* the job whose configuration is being edited
  crashes,    \* crashes so far
  disturbed   \* history: jobs whose lock was taken from a live execution

vars == <<row, runs, exec, tick, up, editor, crashes, disturbed>>

Servers == {Owner} \cup Others
Age     == 0 .. LockTtl + 1

\* locked_by is a fresh random id per claim; an execution is one claim at a
\* time, so it is its own id.
Row  == [enabled : BOOLEAN, wait : 0 .. Delay,
         lock : Executions \cup {Nobody}, age : Age]
Run  == [job : Jobs, by : Executions, age : Age]
Exec == [at : {"idle", "preflight", "reset", "check", "insert", "handler",
               "finish", "skip", "release"},
         job : Jobs \cup {NoJob}, server : Servers, manual : BOOLEAN]

Free == [at |-> "idle", job |-> NoJob, server |-> Owner, manual |-> FALSE]

Init ==
  /\ row = [j \in Jobs |-> [enabled |-> TRUE, wait |-> Delay, lock |-> Nobody, age |-> 0]]
  /\ runs = {}
  /\ exec = [e \in Executions |-> Free]
  /\ tick = {}
  /\ up = TRUE
  /\ editor = NoJob
  /\ crashes = 0
  /\ disturbed = {}

-----------------------------------------------------------------------------
Stale(age) == age > LockTtl

At(e, step) == exec[e].at = step
JobOf(e) == exec[e].job
GoTo(e, step) == exec' = [exec EXCEPT ![e].at = step]
Ends(e) == exec' = [exec EXCEPT ![e] = Free]

\* e is on job j; j's lock is about to be taken from an execution that is.
Working(e, j) == ~At(e, "idle") /\ JobOf(e) = j
Robbed(j) == \E e \in Executions : row[j].lock = e /\ Working(e, j)
Disturbs(js) == disturbed' = disturbed \cup {j \in js : Robbed(j)}

RunningRows(j) == {r \in runs : r.job = j}
FreshRows(j)   == {r \in RunningRows(j) : ~Stale(r.age)}

\* The WHERE of the claims.  Faulty variants: a stale lock counts for a lock;
\* a lock counts for nothing.
NeverStale(j) == row[j].lock = Nobody
AlwaysFree(j) == TRUE
Claimable(j) == row[j].lock = Nobody \/ Stale(row[j].age)

\* AND locked_by = ?.  Faulty variant: any lock of the job is released.
AnyLock(e, j) == TRUE
HoldsLock(e, j) == row[j].lock = e

\* The rows that stay running when e writes the end of its own (WHERE id = ?).
\* Faulty variant: a run that lost its lock does not write its end.
OtherRunsIfLocked(e) ==
  {r \in runs : ~(r.job = JobOf(e) /\ r.by = e /\ row[r.job].lock = e)}
OtherRuns(e) == {r \in runs : ~(r.job = JobOf(e) /\ r.by = e)}

\* Take the lock: locked_at = now, locked_by = a fresh id.
Locked(r, e) == [r EXCEPT !.lock = e, !.age = 0]
Unlocked(r)  == [r EXCEPT !.lock = Nobody, !.age = 0]

\* Handlers the scheduler counts as running.
Running == {e \in Executions : ~exec[e].manual /\ exec[e].at \in {"handler", "finish"}}

-----------------------------------------------------------------------------
\* tick(), first half of claimDueJobs: select due jobs, at most the free
\* capacity.  Which of them go first is left open.
Due(j) == row[j].enabled /\ row[j].wait = 0 /\ Claimable(j) /\ FreshRows(j) = {}

Select(jobs) ==
  /\ up
  /\ tick = {}
  /\ jobs # {}
  /\ \A j \in jobs : Due(j)
  /\ Cardinality(jobs) <= MaxConcurrent - Cardinality(Running)
  /\ tick' = jobs
  /\ UNCHANGED <<row, runs, exec, up, editor, crashes, disturbed>>

\* Second half: lock the selected rows one by one, as they are by now.
Claim(j, e) ==
  /\ j \in tick
  /\ tick' = tick \ {j}
  /\ \/ /\ Claimable(j)
        /\ At(e, "idle")
        /\ row' = [row EXCEPT ![j] = Locked(@, e)]
        /\ exec' = [exec EXCEPT ![e] =
             [Free EXCEPT !.at = "preflight", !.job = j, !.server = Owner]]
        /\ Disturbs(IF Stale(row[j].age) THEN {j} ELSE {})
     \/ ~Claimable(j) /\ UNCHANGED <<row, exec, disturbed>>
  /\ UNCHANGED <<runs, up, editor, crashes>>

\* runScheduledJobNow: only an unlocked job, whether enabled and due or not.
RunNow(j, e, server) ==
  /\ server = Owner => up
  /\ At(e, "idle")
  /\ row[j].lock = Nobody
  /\ row' = [row EXCEPT ![j] = Locked(@, e)]
  /\ exec' = [exec EXCEPT ![e] =
       [Free EXCEPT !.at = "reset", !.job = j, !.server = server, !.manual = TRUE]]
  /\ UNCHANGED <<runs, tick, up, editor, crashes, disturbed>>

-----------------------------------------------------------------------------
\* beforeRun lets the run pass, defers it, or throws: then the lock stays.
Preflight(e) ==
  LET j == JobOf(e) IN
  /\ At(e, "preflight")
  /\ \/ GoTo(e, "reset") /\ UNCHANGED row
     \/ /\ Ends(e)
        /\ row' = IF HoldsLock(e, j)
                  THEN [row EXCEPT ![j] = [Unlocked(@) EXCEPT !.wait = Delay]] ELSE row
     \/ Ends(e) /\ UNCHANGED row
  /\ UNCHANGED <<runs, tick, up, editor, crashes, disturbed>>

\* startRun: first fail the runs that are stale, ...
ResetStale(e) ==
  /\ At(e, "reset")
  /\ runs' = {r \in runs : r.job = JobOf(e) => ~Stale(r.age)}
  /\ GoTo(e, "check")
  /\ UNCHANGED <<row, tick, up, editor, crashes, disturbed>>

\* ... then refuse if one is still active, ...
CheckActive(e) ==
  /\ At(e, "check")
  /\ GoTo(e, IF RunningRows(JobOf(e)) = {} THEN "insert" ELSE "release")
  /\ UNCHANGED <<row, runs, tick, up, editor, crashes, disturbed>>

ReleaseClaim(e) ==
  LET j == JobOf(e) IN
  /\ At(e, "release")
  /\ row' = IF HoldsLock(e, j) THEN [row EXCEPT ![j] = Unlocked(@)] ELSE row
  /\ Ends(e)
  /\ UNCHANGED <<runs, tick, up, editor, crashes, disturbed>>

\* ... then record the run.  The handler follows, unless a window was missed.
StartRun(e) ==
  LET j == JobOf(e) IN
  /\ At(e, "insert")
  /\ runs' = runs \cup {[job |-> j, by |-> e, age |-> 0]}
  /\ \/ GoTo(e, "handler")
     \/ j \in NoCatchup /\ GoTo(e, "skip")
  /\ UNCHANGED <<row, tick, up, editor, crashes, disturbed>>

\* The handler returns a result, asks to be skipped, or throws.
HandlerEnds(e) ==
  /\ At(e, "handler")
  /\ GoTo(e, "finish")
  /\ UNCHANGED <<row, runs, tick, up, editor, crashes, disturbed>>

\* finishRunSuccess, finishRunFailure, finishRunSkipped: one transaction that
\* ends the run's own row and, while the lock is still its own, releases the
\* job and plans the next run.
FinishRun(e) ==
  LET j == JobOf(e) IN
  /\ At(e, "finish") \/ At(e, "skip")
  /\ runs' = OtherRuns(e)
  /\ row' = IF HoldsLock(e, j)
            THEN [row EXCEPT ![j] = [Unlocked(@) EXCEPT !.wait = Delay]] ELSE row
  /\ Ends(e)
  /\ UNCHANGED <<tick, up, editor, crashes, disturbed>>

-----------------------------------------------------------------------------
\* updateScheduledJobState: disabling releases the lock, whoever holds it.
SetState(j, enabled) ==
  /\ row' = [row EXCEPT ![j] = [IF enabled THEN @ ELSE Unlocked(@)
                                EXCEPT !.enabled = enabled]]
  /\ Disturbs(IF enabled THEN {} ELSE {j})
  /\ UNCHANGED <<runs, exec, tick, up, editor, crashes>>

\* updateScheduledJobConfig: read the row, refuse a locked one, ...
ReadConfig(j) ==
  /\ editor = NoJob
  /\ row[j].lock = Nobody
  /\ editor' = j
  /\ UNCHANGED <<row, runs, exec, tick, up, crashes, disturbed>>

\* ... and write it back, unlocked, with a next run computed from what was read.
WriteConfig ==
  /\ editor # NoJob
  /\ \E wait \in {0, Delay} :
       row' = [row EXCEPT ![editor] = [Unlocked(@) EXCEPT !.wait = wait]]
  /\ Disturbs({editor})
  /\ editor' = NoJob
  /\ UNCHANGED <<runs, exec, tick, up, crashes>>

-----------------------------------------------------------------------------
\* A process dies with what it was executing.
Crash(server) ==
  /\ crashes < CrashBound
  /\ crashes' = crashes + 1
  /\ exec' = [e \in Executions |-> IF exec[e].server = server THEN Free ELSE exec[e]]
  /\ tick' = IF server = Owner THEN {} ELSE tick
  /\ up' = (up /\ server # Owner)
  /\ UNCHANGED <<row, runs, editor, disturbed>>

\* The owner comes back: the registered jobs are enabled again, every running
\* run is failed, and every lock is released and its job made due.
Restart ==
  /\ ~up
  /\ up' = TRUE
  /\ runs' = {}
  /\ row' = [j \in Jobs |->
       IF row[j].lock # Nobody
       THEN [enabled |-> TRUE, wait |-> 0, lock |-> Nobody, age |-> 0]
       ELSE [row[j] EXCEPT !.enabled = TRUE]]
  /\ Disturbs(Jobs)
  /\ UNCHANGED <<exec, tick, editor, crashes>>

\* Ages are told apart up to the point where they are stale.  Faulty variant:
\* they are not.
EverOlder(age) == age + 1
Older(age) == IF age > LockTtl THEN age ELSE age + 1

\* Time passes for every lock, run and plan.
Clock ==
  /\ row' = [j \in Jobs |->
       [row[j] EXCEPT !.wait = IF @ = 0 THEN 0 ELSE @ - 1,
                      !.age = IF row[j].lock = Nobody THEN 0 ELSE Older(@)]]
  /\ runs' = {[r EXCEPT !.age = Older(@)] : r \in runs}
  /\ UNCHANGED <<exec, tick, up, editor, crashes, disturbed>>

-----------------------------------------------------------------------------
Proceed(e) ==
  \/ Preflight(e) \/ ResetStale(e) \/ CheckActive(e) \/ ReleaseClaim(e)
  \/ StartRun(e) \/ HandlerEnds(e) \/ FinishRun(e)

Scheduler ==
  \/ \E jobs \in SUBSET Jobs : Select(jobs)
  \/ \E j \in Jobs, e \in Executions : Claim(j, e)

Operator ==
  \/ \E j \in Jobs, e \in Executions, server \in Servers : RunNow(j, e, server)
  \/ \E j \in Jobs, enabled \in BOOLEAN : SetState(j, enabled)
  \/ \E j \in Jobs : ReadConfig(j)
  \/ WriteConfig

Next ==
  \/ \E e \in Executions : Proceed(e)
  \/ Scheduler
  \/ Operator
  \/ \E server \in Servers : Crash(server)
  \/ Restart
  \/ Clock

Spec == Init /\ [][Next]_vars

\* Timers fire, awaited statements and handlers come back, a dead owner is
\* restarted by its service manager.
FairSpec ==
  /\ Spec
  /\ WF_vars(Clock) /\ WF_vars(Scheduler) /\ WF_vars(Restart)
  /\ \A e \in Executions : WF_vars(Proceed(e))

-----------------------------------------------------------------------------
TypeOK ==
  /\ row \in [Jobs -> Row]
  /\ runs \subseteq Run
  /\ exec \in [Executions -> Exec]
  /\ tick \subseteq Jobs
  /\ up \in BOOLEAN
  /\ editor \in Jobs \cup {NoJob}
  /\ crashes \in 0 .. CrashBound
  /\ disturbed \subseteq Jobs

Handling(j) == {e \in Executions : JobOf(e) = j /\ At(e, "handler")}

\* Two handlers of one job run at once only after its lock was taken from a
\* live execution: by disabling or editing the job, by a claim that found the
\* lock stale, or by a restart of the owner.
NoOverlap == \A j \in Jobs : j \notin disturbed => Cardinality(Handling(j)) <= 1

\* An execution that lost its lock keeps off its successor's: what a finishing,
\* deferred or refused execution does never releases the lock of another.
KeepsOff ==
  \A e, f \in Executions, j \in Jobs :
    e # f /\ Proceed(f) /\ row[j].lock = e => row'[j].lock = e
LateFinishKeepsOff == [][KeepsOff]_vars

\* A run row that says running belongs to an execution, to a crash, or to a
\* lock that was taken away: nothing else leaves the job blocked.
RunningIsOwned ==
  crashes = 0 => \A r \in runs :
    JobOf(r.by) = r.job /\ exec[r.by].at \in {"handler", "finish", "skip"}

\* A lock nobody works under, left by a preflight that threw or a process that
\* died, does not keep an enabled job from running for ever.
Orphaned(j) ==
  row[j].lock # Nobody /\ ~Working(row[j].lock, j)
OrphanIsReplaced ==
  \A j \in Jobs : Orphaned(j) ~> ~Orphaned(j) \/ ~row[j].enabled

-----------------------------------------------------------------------------
\* The restart "releases runs interrupted by the previous service process", so
\* an execution of a process that is still up keeps its lock.
ReleasesInterrupted ==
  [][Restart => \A j \in Jobs, e \in Executions :
       row[j].lock = e /\ Working(e, j) => row'[j].lock = e]_vars
=============================================================================
