-------------------------- MODULE ScheduledJobs_proofs --------------------------
(***************************************************************************)
(* Locks and runs of any number of jobs, executions and processes, with    *)
(* any number of crashes.                                                  *)
(***************************************************************************)
EXTENDS ScheduledJobs, FiniteSetTheorems, TLAPS

\* An execution that is under way has a job.
WorkHasJob == \A e \in Executions : ~At(e, "idle") => JobOf(e) \in Jobs

\* Who works on a job whose lock was never taken from anybody holds that lock.
WorkIsLocked ==
  \A j \in Jobs \ disturbed, e \in Executions : Working(e, j) => row[j].lock = e

\* Why handlers do not overlap: the lock of an undisturbed job names the one
\* execution that works on it.
IInv == TypeOK /\ WorkHasJob /\ WorkIsLocked /\ RunningIsOwned

LEMMA FreeIsExec == Free \in Exec /\ Free.at = "idle"
BY DEF Free, Exec, Servers

\* Locks taken and released leave a row a row.
LEMMA RowsStayRows ==
  ASSUME NEW r \in Row
  PROVE  /\ Unlocked(r) \in Row /\ Unlocked(r).lock = Nobody
         /\ \A wait \in 0 .. Delay : [Unlocked(r) EXCEPT !.wait = wait] \in Row
                                  /\ [Unlocked(r) EXCEPT !.wait = wait].lock = Nobody
         /\ \A e \in Executions : Locked(r, e) \in Row /\ Locked(r, e).lock = e
         /\ \A enabled \in BOOLEAN :
              /\ [r EXCEPT !.enabled = enabled] \in Row
              /\ [r EXCEPT !.enabled = enabled].lock = r.lock
              /\ [Unlocked(r) EXCEPT !.enabled = enabled] \in Row
<1>1. 0 \in Age /\ Delay \in 0 .. Delay /\ 0 \in 0 .. Delay
  BY ScheduleAssumption DEF Age
<1>2. Unlocked(r) \in Row /\ Unlocked(r).lock = Nobody
  BY <1>1 DEF Row, Unlocked
<1>3. \A e \in Executions : Locked(r, e) \in Row /\ Locked(r, e).lock = e
  BY <1>1 DEF Row, Locked
<1>4. \A wait \in 0 .. Delay : [Unlocked(r) EXCEPT !.wait = wait] \in Row
                             /\ [Unlocked(r) EXCEPT !.wait = wait].lock = Nobody
  BY <1>2 DEF Row
<1>5. \A enabled \in BOOLEAN :
        /\ [r EXCEPT !.enabled = enabled] \in Row
        /\ [r EXCEPT !.enabled = enabled].lock = r.lock
        /\ [Unlocked(r) EXCEPT !.enabled = enabled] \in Row
  BY <1>2 DEF Row
<1>6. QED
  BY <1>2, <1>3, <1>4, <1>5

LEMMA AgesStayAges ==
  ASSUME NEW a \in Age
  PROVE  Older(a) \in Age
BY ScheduleAssumption DEF Age, Older

\* An execution that only moves on: nothing changes but where it is, and a lock
\* it holds may be released when it ends.
LEMMA MovesOn ==
  ASSUME IInv, NEW e \in Executions, ~At(e, "idle"), NEW step \in
           {"preflight", "reset", "check", "insert", "handler", "finish", "skip", "release"},
         GoTo(e, step),
         step \in {"handler", "finish", "skip"} \/ exec[e].at \notin {"handler", "finish", "skip"},
         row' = row, runs' \subseteq runs, UNCHANGED <<tick, up, editor, crashes, disturbed>>
  PROVE  IInv'
<1>0. /\ tick' = tick /\ up' = up /\ editor' = editor
      /\ crashes' = crashes /\ disturbed' = disturbed
  OBVIOUS
<1>1. exec' = [exec EXCEPT ![e] = [exec[e] EXCEPT !.at = step]] /\ exec'[e].at = step
      /\ exec'[e].job = exec[e].job
      /\ \A f \in Executions \ {e} : exec'[f] = exec[f]
      /\ exec' \in [Executions -> Exec]
  BY DEF IInv, TypeOK, GoTo, Exec
<1>2. TypeOK'
  BY <1>0, <1>1 DEF IInv, TypeOK, Row, Run, Exec, Age, Servers
<1>3. WorkHasJob'
  BY <1>1 DEF IInv, WorkHasJob, At, JobOf
<1>4. WorkIsLocked'
  BY <1>0, <1>1 DEF IInv, WorkIsLocked, Working, At, JobOf
<1>5. RunningIsOwned'
  BY <1>1 DEF IInv, RunningIsOwned, JobOf, TypeOK, Run
<1>6. QED
  BY <1>2, <1>3, <1>4, <1>5 DEF IInv

LEMMA EndsInOrder ==
  ASSUME IInv, NEW e \in Executions, ~At(e, "idle"), Ends(e),
         row' = row \/ (/\ HoldsLock(e, JobOf(e))
                        /\ \E r \in Row :
                             row' = [row EXCEPT ![JobOf(e)] = r]),
         runs' \subseteq runs,
         crashes = 0 => \A r \in runs' : r.by # e,
         UNCHANGED <<tick, up, editor, crashes, disturbed>>
  PROVE  IInv'
<1>0. /\ tick' = tick /\ up' = up /\ editor' = editor
      /\ crashes' = crashes /\ disturbed' = disturbed
  OBVIOUS
<1>1. /\ exec' \in [Executions -> Exec]
      /\ exec'[e] = Free /\ \A f \in Executions \ {e} : exec'[f] = exec[f]
  BY FreeIsExec DEF IInv, TypeOK, Ends
<1>2. JobOf(e) \in Jobs /\ row[JobOf(e)] \in Row
  BY DEF IInv, TypeOK, WorkHasJob
<1>3. /\ row' \in [Jobs -> Row]
      /\ \A j \in Jobs : row'[j].lock = row[j].lock \/ (j = JobOf(e) /\ row[j].lock = e)
  <2>1. CASE row' = row
    BY <2>1 DEF IInv, TypeOK
  <2>2. CASE /\ HoldsLock(e, JobOf(e))
             /\ \E r \in Row :
                  row' = [row EXCEPT ![JobOf(e)] = r]
    <3>1. PICK r \in Row : row' = [row EXCEPT ![JobOf(e)] = r]
      BY <2>2
    <3>2. row' \in [Jobs -> Row] /\ \A j \in Jobs \ {JobOf(e)} : row'[j] = row[j]
      BY <3>1 DEF IInv, TypeOK
    <3>3. QED
      BY <3>2, <2>2 DEF HoldsLock
  <2>3. QED
    BY <2>1, <2>2
<1>4. TypeOK'
  BY <1>0, <1>1, <1>3 DEF IInv, TypeOK
<1>5. WorkHasJob' /\ WorkIsLocked'
  BY <1>1, <1>3, FreeIsExec DEF IInv, WorkHasJob, WorkIsLocked, Working, At, JobOf
<1>6. RunningIsOwned'
  BY <1>1 DEF IInv, RunningIsOwned, JobOf, TypeOK, Run
<1>7. QED
  BY <1>4, <1>5, <1>6 DEF IInv

\* An execution that begins takes the lock; whoever held it disturbs the job.
LEMMA TakesTheLock ==
  ASSUME IInv, NEW e \in Executions, At(e, "idle"), NEW j \in Jobs, NEW x \in Exec,
         x.job = j, x.at # "idle", exec' = [exec EXCEPT ![e] = x],
         row' = [row EXCEPT ![j] = Locked(@, e)],
         tick' \subseteq Jobs, disturbed \subseteq disturbed', disturbed' \subseteq Jobs,
         \A f \in Executions : Working(f, j) => j \in disturbed',
         UNCHANGED <<runs, up, editor, crashes>>
  PROVE  IInv'
<1>0. runs' = runs /\ up' = up /\ editor' = editor /\ crashes' = crashes
  OBVIOUS
<1>1. /\ exec' \in [Executions -> Exec]
      /\ exec'[e] = x /\ \A f \in Executions \ {e} : exec'[f] = exec[f]
  BY DEF IInv, TypeOK
<1>2. /\ row' \in [Jobs -> Row]
      /\ row'[j].lock = e /\ \A k \in Jobs \ {j} : row'[k] = row[k]
  BY RowsStayRows DEF IInv, TypeOK
<1>3. TypeOK'
  BY <1>0, <1>1, <1>2 DEF IInv, TypeOK, Row, Run, Exec, Age, Servers
<1>4. WorkHasJob'
  BY <1>1 DEF IInv, WorkHasJob, At, JobOf
<1>5. WorkIsLocked'
  BY <1>1, <1>2 DEF IInv, WorkIsLocked, Working, At, JobOf
<1>6. RunningIsOwned'
  BY <1>0, <1>1 DEF IInv, RunningIsOwned, JobOf, At, TypeOK, Run
<1>7. QED
  BY <1>3, <1>4, <1>5, <1>6 DEF IInv

\* A lock released from outside disturbs its job if somebody works under it.
LEMMA ReleasedFromOutside ==
  ASSUME IInv, NEW js \in SUBSET Jobs, Disturbs(js),
         row' \in [Jobs -> Row],
         \A j \in Jobs : row'[j].lock = row[j].lock \/ j \in js,
         runs' \subseteq runs, up' \in BOOLEAN, editor' \in Jobs \cup {NoJob},
         UNCHANGED <<exec, tick, crashes>>
  PROVE  IInv'
<1>0. exec' = exec /\ tick' = tick /\ crashes' = crashes
  OBVIOUS
<1>1. /\ disturbed \subseteq disturbed' /\ disturbed' \subseteq Jobs
      /\ \A j \in js : Robbed(j) => j \in disturbed'
  BY DEF Disturbs, IInv, TypeOK
<1>2. TypeOK'
  BY <1>0, <1>1 DEF IInv, TypeOK, Row, Run, Exec, Age, Servers
<1>3. WorkHasJob'
  BY <1>0 DEF IInv, WorkHasJob, At, JobOf
<1>4. WorkIsLocked'
  BY <1>0, <1>1 DEF IInv, WorkIsLocked, Robbed, Working, At, JobOf
<1>5. RunningIsOwned'
  BY <1>0 DEF IInv, RunningIsOwned, JobOf
<1>6. QED
  BY <1>2, <1>3, <1>4, <1>5 DEF IInv

-----------------------------------------------------------------------------
LEMMA InitHolds == Init => IInv
<1> SUFFICES ASSUME Init PROVE IInv
  OBVIOUS
<1>1. TypeOK
  BY FreeIsExec, ScheduleAssumption DEF Init, TypeOK, Row, Age
<1>2. WorkHasJob /\ WorkIsLocked
  BY FreeIsExec DEF Init, WorkHasJob, WorkIsLocked, Working, At
<1>3. RunningIsOwned
  BY DEF Init, RunningIsOwned
<1>4. QED
  BY <1>1, <1>2, <1>3 DEF IInv

LEMMA ProceedKeeps ==
  ASSUME IInv, NEW e \in Executions, Proceed(e)
  PROVE  IInv'
<1> DEFINE j == JobOf(e)
<1>1. CASE Preflight(e)
  <2>0. ~At(e, "idle") /\ exec[e].at \notin {"handler", "finish", "skip"}
    BY <1>1 DEF Preflight, At
  <2>1. \A r \in runs : crashes = 0 => r.by # e
    BY <2>0 DEF IInv, RunningIsOwned
  <2>2. CASE GoTo(e, "reset") /\ UNCHANGED row
    BY <1>1, <2>0, <2>2, MovesOn DEF Preflight
  <2>3. CASE Ends(e)
    <3>1. row[j] \in Row /\ [Unlocked(row[j]) EXCEPT !.wait = Delay] \in Row
      BY <2>0, RowsStayRows, ScheduleAssumption DEF IInv, TypeOK, WorkHasJob
    <3>2. row' = row \/ (/\ HoldsLock(e, JobOf(e))
                         /\ \E r \in Row : row' = [row EXCEPT ![JobOf(e)] = r])
      BY <1>1, <3>1, <2>3, <2>0 DEF Preflight, Ends, GoTo
    <3>3. QED
      BY <1>1, <2>0, <2>1, <2>3, <3>2, EndsInOrder DEF Preflight
  <2>4. QED
    BY <1>1, <2>2, <2>3 DEF Preflight
<1>2. CASE ResetStale(e)
  <2>1. ~At(e, "idle") /\ exec[e].at \notin {"handler", "finish", "skip"} /\ runs' \subseteq runs
    BY <1>2 DEF ResetStale, At
  <2>2. QED
    BY <1>2, <2>1, MovesOn DEF ResetStale
<1>3. CASE CheckActive(e)
  <2>1. ~At(e, "idle") /\ exec[e].at \notin {"handler", "finish", "skip"} /\ runs' \subseteq runs
    BY <1>3 DEF CheckActive, At
  <2>2. QED
    BY <1>3, <2>1, MovesOn DEF CheckActive
<1>4. CASE ReleaseClaim(e)
  <2>0. ~At(e, "idle") /\ exec[e].at \notin {"handler", "finish", "skip"}
    BY <1>4 DEF ReleaseClaim, At
  <2>1. \A r \in runs : crashes = 0 => r.by # e
    BY <2>0 DEF IInv, RunningIsOwned
  <2>2. row[j] \in Row /\ Unlocked(row[j]) \in Row
    BY <2>0, RowsStayRows DEF IInv, TypeOK, WorkHasJob
  <2>3. row' = row \/ (/\ HoldsLock(e, JobOf(e))
                       /\ \E r \in Row : row' = [row EXCEPT ![JobOf(e)] = r])
    BY <1>4, <2>2 DEF ReleaseClaim
  <2>4. QED
    BY <1>4, <2>0, <2>1, <2>3, EndsInOrder DEF ReleaseClaim
<1>5. CASE StartRun(e)
  <2>1. PICK step \in {"handler", "skip"} : GoTo(e, step)
    BY <1>5 DEF StartRun
  <2>2. /\ ~At(e, "idle") /\ j \in Jobs
        /\ row' = row /\ tick' = tick /\ up' = up /\ editor' = editor
        /\ crashes' = crashes /\ disturbed' = disturbed
        /\ runs' = runs \cup {[job |-> j, by |-> e, age |-> 0]}
    BY <1>5 DEF StartRun, At, IInv, WorkHasJob
  <2>3. /\ exec'[e].at = step /\ exec'[e].job = exec[e].job
        /\ \A f \in Executions \ {e} : exec'[f] = exec[f]
        /\ exec' \in [Executions -> Exec]
    BY <2>1 DEF IInv, TypeOK, GoTo, Exec
  <2>4. runs' \subseteq Run
    BY <2>2, ScheduleAssumption DEF IInv, TypeOK, Run, Age
  <2>5. TypeOK'
    BY <2>2, <2>3, <2>4 DEF IInv, TypeOK, Row, Run, Exec, Age, Servers
  <2>6. WorkHasJob'
    BY <2>2, <2>3 DEF IInv, WorkHasJob, At, JobOf
  <2>7. WorkIsLocked'
    BY <2>2, <2>3 DEF IInv, WorkIsLocked, Working, At, JobOf
  <2>8. RunningIsOwned'
    BY <2>1, <2>2, <2>3 DEF IInv, RunningIsOwned, JobOf, TypeOK, Run
  <2>9. QED
    BY <2>5, <2>6, <2>7, <2>8 DEF IInv
<1>6. CASE HandlerEnds(e)
  BY <1>6, MovesOn DEF HandlerEnds, At
<1>7. CASE FinishRun(e)
  <2>0. ~At(e, "idle")
    BY <1>7 DEF FinishRun, At
  <2>1. runs' \subseteq runs /\ (crashes = 0 => \A r \in runs' : r.by # e)
    BY <1>7 DEF FinishRun, OtherRuns, IInv, RunningIsOwned
  <2>2. row[j] \in Row /\ [Unlocked(row[j]) EXCEPT !.wait = Delay] \in Row
    BY <2>0, RowsStayRows, ScheduleAssumption DEF IInv, TypeOK, WorkHasJob
  <2>3. row' = row \/ (/\ HoldsLock(e, JobOf(e))
                       /\ \E r \in Row : row' = [row EXCEPT ![JobOf(e)] = r])
    BY <1>7, <2>2 DEF FinishRun
  <2>4. QED
    BY <1>7, <2>0, <2>1, <2>3, EndsInOrder DEF FinishRun
<1>8. QED
  BY <1>1, <1>2, <1>3, <1>4, <1>5, <1>6, <1>7 DEF Proceed

LEMMA SchedulerKeeps ==
  ASSUME IInv, Scheduler
  PROVE  IInv'
<1>1. CASE \E jobs \in SUBSET Jobs : Select(jobs)
  <2>1. /\ tick' \subseteq Jobs /\ row' = row /\ runs' = runs /\ exec' = exec /\ up' = up
        /\ editor' = editor /\ crashes' = crashes /\ disturbed' = disturbed
    BY <1>1 DEF Select
  <2>2. TypeOK' /\ RunningIsOwned'
    BY <2>1 DEF IInv, TypeOK, RunningIsOwned, JobOf, Row, Run, Exec, Age, Servers
  <2>3. WorkHasJob' /\ WorkIsLocked'
    BY <2>1 DEF IInv, WorkHasJob, WorkIsLocked, Working, At, JobOf
  <2>4. QED
    BY <2>2, <2>3 DEF IInv
<1>2. CASE \E j \in Jobs, e \in Executions : Claim(j, e)
  <2>1. PICK j \in Jobs, e \in Executions : Claim(j, e)
    BY <1>2
  <2>2. CASE ~Claimable(j) /\ UNCHANGED <<row, exec, disturbed>>
    <3>1. /\ tick' \subseteq Jobs /\ row' = row /\ runs' = runs /\ exec' = exec /\ up' = up
          /\ editor' = editor /\ crashes' = crashes /\ disturbed' = disturbed
      BY <2>1, <2>2 DEF Claim, IInv, TypeOK
    <3>2. TypeOK' /\ RunningIsOwned'
      BY <3>1 DEF IInv, TypeOK, RunningIsOwned, JobOf, Row, Run, Exec, Age, Servers
    <3>3. WorkHasJob' /\ WorkIsLocked'
      BY <3>1 DEF IInv, WorkHasJob, WorkIsLocked, Working, At, JobOf
    <3>4. QED
      BY <3>2, <3>3 DEF IInv
  <2>3. CASE Claimable(j) /\ At(e, "idle")
    <3> DEFINE x == [Free EXCEPT !.at = "preflight", !.job = j, !.server = Owner]
    <3>1. x \in Exec /\ x.job = j /\ x.at # "idle"
      BY DEF Free, Exec, Servers
    <3>2. /\ exec' = [exec EXCEPT ![e] = x]
          /\ row' = [row EXCEPT ![j] = Locked(@, e)]
          /\ tick' \subseteq Jobs
          /\ Disturbs(IF Stale(row[j].age) THEN {j} ELSE {})
          /\ UNCHANGED <<runs, up, editor, crashes>>
      BY <2>1, <2>3 DEF Claim, IInv, TypeOK
    <3>3. /\ disturbed \subseteq disturbed' /\ disturbed' \subseteq Jobs
          /\ Stale(row[j].age) /\ Robbed(j) => j \in disturbed'
      BY <3>2 DEF Disturbs, IInv, TypeOK
    <3>4. \A f \in Executions : Working(f, j) => j \in disturbed'
      <4> SUFFICES ASSUME NEW f \in Executions, Working(f, j), j \notin disturbed
                   PROVE  j \in disturbed'
        BY <3>3
      <4>1. row[j].lock = f
        BY DEF IInv, WorkIsLocked
      <4>2. Stale(row[j].age) /\ Robbed(j)
        BY <4>1, <2>3, ScheduleAssumption DEF Claimable, Robbed
      <4>3. QED
        BY <4>2, <3>3
    <3> HIDE DEF x
    <3>5. QED
      BY <2>3, <3>1, <3>2, <3>3, <3>4, TakesTheLock
  <2>4. QED
    BY <2>1, <2>2, <2>3 DEF Claim
<1>3. QED
  BY <1>1, <1>2 DEF Scheduler

LEMMA OperatorKeeps ==
  ASSUME IInv, Operator
  PROVE  IInv'
<1>1. CASE \E j \in Jobs, e \in Executions, server \in Servers : RunNow(j, e, server)
  <2>1. PICK j \in Jobs, e \in Executions, server \in Servers : RunNow(j, e, server)
    BY <1>1
  <2> DEFINE x == [Free EXCEPT !.at = "reset", !.job = j, !.server = server, !.manual = TRUE]
  <2>2. x \in Exec /\ x.job = j /\ x.at # "idle"
    BY DEF Free, Exec, Servers
  <2>3. /\ At(e, "idle") /\ row[j].lock = Nobody
        /\ exec' = [exec EXCEPT ![e] = x]
        /\ row' = [row EXCEPT ![j] = Locked(@, e)]
        /\ tick' \subseteq Jobs /\ disturbed' = disturbed /\ disturbed' \subseteq Jobs
        /\ UNCHANGED <<runs, up, editor, crashes>>
    BY <2>1 DEF RunNow, IInv, TypeOK
  <2>4. \A f \in Executions : Working(f, j) => j \in disturbed'
    BY <2>3, ScheduleAssumption DEF IInv, WorkIsLocked
  <2> HIDE DEF x
  <2>5. QED
    BY <2>2, <2>3, <2>4, TakesTheLock
<1>2. CASE \E j \in Jobs, enabled \in BOOLEAN : SetState(j, enabled)
  <2>1. PICK j \in Jobs, enabled \in BOOLEAN : SetState(j, enabled)
    BY <1>2
  <2>2. Disturbs(IF enabled THEN {} ELSE {j}) /\ UNCHANGED <<exec, tick, crashes>>
        /\ runs' = runs /\ up' = up /\ editor' = editor
    BY <2>1 DEF SetState
  <2>3. /\ row' \in [Jobs -> Row] /\ \A k \in Jobs \ {j} : row'[k] = row[k]
        /\ enabled => row'[j].lock = row[j].lock
    BY <2>1, RowsStayRows DEF SetState, IInv, TypeOK
  <2>4. \A k \in Jobs : row'[k].lock = row[k].lock \/ k \in (IF enabled THEN {} ELSE {j})
    BY <2>3
  <2>5. QED
    BY <2>2, <2>3, <2>4, ReleasedFromOutside DEF IInv, TypeOK
<1>3. CASE \E j \in Jobs : ReadConfig(j)
  <2>1. /\ editor' \in Jobs /\ row' = row /\ runs' = runs /\ exec' = exec /\ up' = up
        /\ tick' = tick /\ crashes' = crashes /\ disturbed' = disturbed
    BY <1>3 DEF ReadConfig
  <2>2. TypeOK' /\ RunningIsOwned'
    BY <2>1 DEF IInv, TypeOK, RunningIsOwned, JobOf, Row, Run, Exec, Age, Servers
  <2>3. WorkHasJob' /\ WorkIsLocked'
    BY <2>1 DEF IInv, WorkHasJob, WorkIsLocked, Working, At, JobOf
  <2>4. QED
    BY <2>2, <2>3 DEF IInv
<1>4. CASE WriteConfig
  <2>1. /\ editor \in Jobs /\ Disturbs({editor}) /\ editor' = NoJob
        /\ UNCHANGED <<exec, tick, crashes>> /\ runs' = runs /\ up' = up
    BY <1>4 DEF WriteConfig, IInv, TypeOK
  <2>2. PICK wait \in 0 .. Delay :
          row' = [row EXCEPT ![editor] = [Unlocked(@) EXCEPT !.wait = wait]]
    <3>1. {0, Delay} \subseteq 0 .. Delay
      BY ScheduleAssumption
    <3>2. QED
      BY <1>4, <3>1 DEF WriteConfig
  <2>3. row' \in [Jobs -> Row] /\ \A k \in Jobs \ {editor} : row'[k] = row[k]
    BY <2>1, <2>2, RowsStayRows DEF IInv, TypeOK
  <2>4. QED
    BY <2>1, <2>3, ReleasedFromOutside DEF IInv, TypeOK
<1>5. QED
  BY <1>1, <1>2, <1>3, <1>4 DEF Operator

LEMMA CrashKeeps ==
  ASSUME IInv, NEW server \in Servers, Crash(server)
  PROVE  IInv'
<1>1. /\ exec' = [e \in Executions |-> IF exec[e].server = server THEN Free ELSE exec[e]]
      /\ crashes < CrashBound /\ crashes' = crashes + 1
      /\ tick' \subseteq Jobs /\ up' \in BOOLEAN
      /\ row' = row /\ runs' = runs /\ editor' = editor /\ disturbed' = disturbed
  BY DEF Crash, IInv, TypeOK
<1>2. crashes' \in 0 .. CrashBound /\ crashes' # 0
  BY <1>1, ScheduleAssumption DEF IInv, TypeOK
<1>3. exec' \in [Executions -> Exec]
  BY <1>1, FreeIsExec DEF IInv, TypeOK
<1>4. TypeOK'
  BY <1>1, <1>2, <1>3 DEF IInv, TypeOK, Row, Run, Exec, Age, Servers
<1>5. WorkHasJob'
  BY <1>1, FreeIsExec DEF IInv, WorkHasJob, At, JobOf
<1>6. WorkIsLocked'
  BY <1>1, FreeIsExec DEF IInv, WorkIsLocked, Working, At, JobOf
<1>7. RunningIsOwned'
  BY <1>2 DEF RunningIsOwned
<1>8. QED
  BY <1>4, <1>5, <1>6, <1>7 DEF IInv

LEMMA RestartKeeps ==
  ASSUME IInv, Restart
  PROVE  IInv'
<1>1. Disturbs(Jobs) /\ UNCHANGED <<exec, tick, crashes>> /\ runs' = {} /\ up' = TRUE
      /\ editor' = editor
  BY DEF Restart
<1>2. row' \in [Jobs -> Row]
  <2>1. [enabled |-> TRUE, wait |-> 0, lock |-> Nobody, age |-> 0] \in Row
    BY ScheduleAssumption DEF Row, Age
  <2>2. \A j \in Jobs : [row[j] EXCEPT !.enabled = TRUE] \in Row
    BY RowsStayRows DEF IInv, TypeOK
  <2>3. QED
    BY <2>1, <2>2 DEF Restart
<1>3. QED
  BY <1>1, <1>2, ReleasedFromOutside DEF IInv, TypeOK

LEMMA ClockKeeps ==
  ASSUME IInv, Clock
  PROVE  IInv'
<1>1. /\ exec' = exec /\ tick' = tick /\ up' = up /\ editor' = editor
      /\ crashes' = crashes /\ disturbed' = disturbed
  BY DEF Clock
<1>2. row' \in [Jobs -> Row] /\ \A j \in Jobs : row'[j].lock = row[j].lock
  <2> SUFFICES ASSUME NEW j \in Jobs
               PROVE  /\ [row[j] EXCEPT !.wait = IF @ = 0 THEN 0 ELSE @ - 1,
                                      !.age = IF row[j].lock = Nobody THEN 0 ELSE Older(@)] \in Row
                      /\ [row[j] EXCEPT !.wait = IF @ = 0 THEN 0 ELSE @ - 1,
                                      !.age = IF row[j].lock = Nobody THEN 0 ELSE Older(@)].lock
                           = row[j].lock
    BY DEF Clock
  <2>1. row[j] \in Row
    BY DEF IInv, TypeOK
  <2>2. Older(row[j].age) \in Age /\ 0 \in Age
    BY <2>1, AgesStayAges, ScheduleAssumption DEF Row, Age
  <2>3. (IF row[j].wait = 0 THEN 0 ELSE row[j].wait - 1) \in 0 .. Delay
    BY <2>1, ScheduleAssumption DEF Row
  <2>4. QED
    BY <2>1, <2>2, <2>3 DEF Row
<1>3. /\ runs' \subseteq Run
      /\ \A r \in runs' : \E q \in runs : r.by = q.by /\ r.job = q.job
  <2> SUFFICES ASSUME NEW q \in runs
               PROVE  /\ [q EXCEPT !.age = Older(@)] \in Run
                      /\ [q EXCEPT !.age = Older(@)].by = q.by
                      /\ [q EXCEPT !.age = Older(@)].job = q.job
    BY DEF Clock
  <2>1. q \in Run
    BY DEF IInv, TypeOK
  <2>2. Older(q.age) \in Age
    BY <2>1, AgesStayAges DEF Run
  <2>3. QED
    BY <2>1, <2>2 DEF Run
<1>4. TypeOK'
  BY <1>1, <1>2, <1>3 DEF IInv, TypeOK, Row, Run, Exec, Age, Servers
<1>5. WorkHasJob' /\ WorkIsLocked'
  BY <1>1, <1>2 DEF IInv, WorkHasJob, WorkIsLocked, Working, At, JobOf, TypeOK
<1>6. RunningIsOwned'
  BY <1>1, <1>3 DEF IInv, RunningIsOwned, JobOf
<1>7. QED
  BY <1>4, <1>5, <1>6 DEF IInv

LEMMA StepKeeps == IInv /\ [Next]_vars => IInv'
<1> SUFFICES ASSUME IInv, [Next]_vars PROVE IInv'
  OBVIOUS
<1>1. CASE \E e \in Executions : Proceed(e)
  BY <1>1, ProceedKeeps
<1>2. CASE Scheduler
  BY <1>2, SchedulerKeeps
<1>3. CASE Operator
  BY <1>3, OperatorKeeps
<1>4. CASE \E server \in Servers : Crash(server)
  BY <1>4, CrashKeeps
<1>5. CASE Restart
  BY <1>5, RestartKeeps
<1>6. CASE Clock
  BY <1>6, ClockKeeps
<1>7. CASE UNCHANGED vars
  <2>1. TypeOK' /\ RunningIsOwned'
    BY <1>7 DEF vars, IInv, TypeOK, RunningIsOwned, JobOf, Row, Run, Exec, Age, Servers
  <2>2. WorkHasJob' /\ WorkIsLocked'
    BY <1>7 DEF vars, IInv, WorkHasJob, WorkIsLocked, Working, At, JobOf
  <2>3. QED
    BY <2>1, <2>2 DEF IInv
<1>8. QED
  BY <1>1, <1>2, <1>3, <1>4, <1>5, <1>6, <1>7 DEF Next

LEMMA LocksAreSound == Spec => []IInv
BY InitHolds, StepKeeps, PTL DEF Spec

-----------------------------------------------------------------------------
\* Rows, runs and executions keep their shape.
THEOREM JobsAreWellTyped == Spec => []TypeOK
BY LocksAreSound, PTL DEF IInv

\* Two handlers of one job overlap only after its lock was taken from a live
\* execution, by disabling or editing the job, by a claim of a stale lock, or
\* by a restart of the owner.
THEOREM HandlersDoNotOverlap == Spec => []NoOverlap
<1>1. IInv => NoOverlap
  <2> SUFFICES ASSUME IInv, NEW j \in Jobs, j \notin disturbed
               PROVE  Cardinality(Handling(j)) <= 1
    BY DEF NoOverlap
  <2>1. \A e \in Handling(j) : row[j].lock = e
    BY DEF Handling, IInv, WorkIsLocked, Working, At
  <2>2. CASE Handling(j) = {}
    BY <2>2, FS_EmptySet
  <2>3. CASE Handling(j) # {}
    <3>1. PICK e : Handling(j) = {e}
      BY <2>1, <2>3
    <3>2. Cardinality(Handling(j)) = 1
      BY <3>1, FS_Singleton
    <3>3. QED
      BY <3>2
  <2>4. QED
    BY <2>2, <2>3
<1>2. QED
  BY <1>1, LocksAreSound, PTL

\* Without a crash, a run row that says running belongs to an execution that
\* will write its end.
THEOREM RunsHaveTheirExecution == Spec => []RunningIsOwned
BY LocksAreSound, PTL DEF IInv

\* What a finishing, deferred or refused execution does never releases the lock
\* of another one.
THEOREM LateFinishersKeepOff == Spec => LateFinishKeepsOff
<1>1. IInv => KeepsOff
  <2> SUFFICES ASSUME IInv, NEW e \in Executions, NEW f \in Executions, NEW j \in Jobs,
                      e # f, Proceed(f), row[j].lock = e
               PROVE  row'[j].lock = e
    BY DEF KeepsOff
  <2>1. row' = row \/ \E r : HoldsLock(f, JobOf(f)) /\ row' = [row EXCEPT ![JobOf(f)] = r]
    BY DEF Proceed, Preflight, ResetStale, CheckActive, ReleaseClaim, StartRun,
           HandlerEnds, FinishRun
  <2>2. QED
    BY <2>1 DEF HoldsLock, IInv, TypeOK
<1>2. QED
  BY <1>1, LocksAreSound, PTL DEF LateFinishKeepsOff, Spec
=============================================================================
