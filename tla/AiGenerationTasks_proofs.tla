------------------------ MODULE AiGenerationTasks_proofs ------------------------
(***************************************************************************)
(* Executions, attempts and ends of any number of tasks in any number of   *)
(* processes.                                                              *)
(***************************************************************************)
EXTENDS AiGenerationTasks, FiniteSetTheorems, TLAPS

\* An execution is on a task exactly while it is under way, and settles an
\* outcome.
WorkHasTask ==
  \A e \in Executions :
    /\ At(e, "idle") => TaskOf(e) = NoTask
    /\ ~At(e, "idle") => TaskOf(e) \in Tasks
    /\ At(e, "settle") => exec[e].outcome # "none"

\* The task of an execution says running, and has no other, unless a recovery
\* put it back.
OneOwner ==
  \A e, f \in Executions :
    TaskOf(e) \in Tasks \ requeued =>
      row[TaskOf(e)].status = "running" /\ (TaskOf(f) = TaskOf(e) => f = e)

\* A job that was read or posted is one the provider has.
KnownJobs ==
  /\ \A e \in Executions : TaskOf(e) \in Tasks => exec[e].job <= jobs[TaskOf(e)]
  /\ \A s \in Servers : \A p \in picked[s] : p.job <= jobs[p.task]

\* A task that may be claimed has an attempt left.
Startable == {"absent", "queued", "provider_pending"}
AttemptLeft ==
  \A t \in Tasks : row[t].status \in Startable => row[t].attempts < MaxAttempts + renewed[t]

IInv == TypeOK /\ WorkHasTask /\ OneOwner /\ KnownJobs /\ BoundedAttempts /\ AttemptLeft

LEMMA FreeIsExec == Free \in Exec /\ Free.at = "idle" /\ Free.task = NoTask /\ Free.job = NoJob
BY QueueAssumption DEF Free, Exec, NoJob, Outcomes

\* A write of a status leaves the other rows, the attempts and the job alone.
LEMMA StatusIsSet ==
  ASSUME row \in [Tasks -> Row], NEW t \in Tasks, NEW s \in Statuses
  PROVE  /\ SetStatus(t, s) \in [Tasks -> Row]
         /\ \A u \in Tasks \ {t} : SetStatus(t, s)[u] = row[u]
         /\ SetStatus(t, s)[t].attempts = row[t].attempts
         /\ SetStatus(t, s)[t].receipt = row[t].receipt
         /\ SetStatus(t, s)[t].status = IF row[t].status = "deleted" THEN "deleted" ELSE s
<1>1. row[t] \in Row
  OBVIOUS
<1>2. CASE row[t].status = "deleted"
  BY <1>2 DEF SetStatus
<1>3. CASE row[t].status # "deleted"
  <2> DEFINE x == [row[t] EXCEPT !.status = s, !.rested = FALSE, !.expired = FALSE]
  <2>1. x \in Row /\ x.status = s /\ x.attempts = row[t].attempts /\ x.receipt = row[t].receipt
    BY <1>1 DEF Row
  <2>2. SetStatus(t, s) = [row EXCEPT ![t] = x]
    BY <1>3 DEF SetStatus
  <2> HIDE DEF x
  <2>3. QED
    BY <1>3, <2>1, <2>2
<1>4. QED
  BY <1>2, <1>3

LEMMA InitHolds == Init => IInv
<1> SUFFICES ASSUME Init PROVE IInv
  OBVIOUS
<1>1. TypeOK
  BY FreeIsExec, QueueAssumption DEF Init, TypeOK, Row, Statuses, NoJob
<1>2. WorkHasTask /\ OneOwner /\ KnownJobs
  BY FreeIsExec, QueueAssumption DEF Init, WorkHasTask, OneOwner, KnownJobs, At, TaskOf
<1>3. BoundedAttempts /\ AttemptLeft
  BY QueueAssumption DEF Init, BoundedAttempts, AttemptLeft
<1>4. QED
  BY <1>1, <1>2, <1>3 DEF IInv

\* An execution ends, and its last word is a status of its task.
LEMMA EndsWith ==
  ASSUME IInv, NEW e \in Executions, ~At(e, "idle"), Ends(e),
         NEW s \in Statuses, row' = SetStatus(TaskOf(e), s),
         renewed' \in [Tasks -> Nat], \A t \in Tasks : renewed'[t] >= renewed[t],
         s \in Startable => row[TaskOf(e)].attempts < MaxAttempts + renewed'[TaskOf(e)],
         UNCHANGED <<jobs, server, picked, requeued, crashes>>
  PROVE  IInv'
<1> DEFINE t == TaskOf(e)
<1>0. /\ jobs' = jobs /\ server' = server /\ picked' = picked
      /\ requeued' = requeued /\ crashes' = crashes
  OBVIOUS
<1>1. t \in Tasks
  BY DEF IInv, WorkHasTask
<1>2. /\ row' \in [Tasks -> Row] /\ \A u \in Tasks \ {t} : row'[u] = row[u]
      /\ row'[t].attempts = row[t].attempts /\ row'[t].receipt = row[t].receipt
      /\ row'[t].status \in {"deleted", s}
  BY <1>1, StatusIsSet DEF IInv, TypeOK
<1>3. /\ exec' \in [Executions -> Exec] /\ exec'[e] = Free
      /\ \A f \in Executions \ {e} : exec'[f] = exec[f]
  BY FreeIsExec DEF Ends, IInv, TypeOK
<1>4. TypeOK'
  BY <1>0, <1>1, <1>2, <1>3 DEF IInv, TypeOK, Row, Pick, Exec, Statuses, Outcomes
<1>5. WorkHasTask'
  BY <1>3, FreeIsExec DEF IInv, WorkHasTask, At, TaskOf
<1>6. OneOwner'
  <2> SUFFICES ASSUME NEW f \in Executions, NEW g \in Executions, exec'[f].task \in Tasks \ requeued
               PROVE  /\ row'[exec'[f].task].status = "running"
                      /\ exec'[g].task = exec'[f].task => g = f
    BY <1>0 DEF OneOwner, TaskOf
  <2>1. f # e /\ exec'[f] = exec[f]
    BY <1>3, FreeIsExec, QueueAssumption
  <2>2. exec[f].task # t
    BY <2>1, <1>1 DEF IInv, OneOwner, TaskOf
  <2>3. QED
    BY <2>1, <2>2, <1>2, <1>3, FreeIsExec, QueueAssumption DEF IInv, OneOwner, TaskOf
<1>7. KnownJobs'
  BY <1>0, <1>3, FreeIsExec, QueueAssumption DEF IInv, KnownJobs, TaskOf
<1>8. BoundedAttempts' /\ AttemptLeft'
  <2> SUFFICES ASSUME NEW u \in Tasks
               PROVE  /\ row'[u].attempts <= MaxAttempts + renewed'[u]
                      /\ row'[u].status \in Startable => row'[u].attempts < MaxAttempts + renewed'[u]
    BY DEF BoundedAttempts, AttemptLeft, Startable
  <2>1. /\ row[u].attempts \in Nat /\ row'[u].attempts = row[u].attempts
        /\ renewed[u] \in Nat /\ renewed'[u] \in Nat /\ renewed'[u] >= renewed[u]
        /\ row[u].attempts <= MaxAttempts + renewed[u]
    BY <1>2 DEF IInv, TypeOK, Row, BoundedAttempts
  <2>2. row'[u].status \in Startable =>
          (u = t /\ s \in Startable) \/ row'[u].status = row[u].status
    BY <1>2 DEF Startable
  <2>3. QED
    BY <2>1, <2>2, QueueAssumption DEF IInv, AttemptLeft
<1>9. QED
  BY <1>4, <1>5, <1>6, <1>7, <1>8 DEF IInv

\* An execution goes on: it may learn the number of a job the provider has.
LEMMA GoesOn ==
  ASSUME IInv, NEW e \in Executions, ~At(e, "idle"),
         exec' \in [Executions -> Exec], exec'[e].task = exec[e].task, exec'[e].at # "idle",
         exec'[e].at = "settle" => exec'[e].outcome # "none",
         \A f \in Executions \ {e} : exec'[f] = exec[f],
         jobs' \in [Tasks -> Nat], \A t \in Tasks : jobs'[t] >= jobs[t],
         exec'[e].job <= jobs'[TaskOf(e)],
         row' \in [Tasks -> Row], \A t \in Tasks : row'[t].receipt <= jobs'[t],
         \A t \in Tasks : row'[t].status = row[t].status /\ row'[t].attempts = row[t].attempts,
         UNCHANGED <<server, picked, renewed, requeued, crashes>>
  PROVE  IInv'
<1>0. /\ server' = server /\ picked' = picked
      /\ renewed' = renewed /\ requeued' = requeued /\ crashes' = crashes
  OBVIOUS
<1>1. TypeOK'
  BY <1>0 DEF IInv, TypeOK, Row, Pick, Exec, Statuses, Outcomes
<1>2. WorkHasTask'
  BY DEF IInv, WorkHasTask, At, TaskOf
<1>3. \A f \in Executions : exec'[f].task = exec[f].task
  OBVIOUS
<1>4. OneOwner'
  BY <1>0, <1>3 DEF IInv, OneOwner, TaskOf
<1>5. KnownJobs'
  <2>1. \A f \in Executions : exec'[f].task \in Tasks => exec'[f].job <= jobs'[exec'[f].task]
    <3> SUFFICES ASSUME NEW f \in Executions, exec[f].task \in Tasks
                 PROVE  exec'[f].job <= jobs'[exec[f].task]
      BY <1>3
    <3>1. CASE f = e
      BY <3>1 DEF TaskOf
    <3>2. CASE f # e
      <4>1. /\ exec[f].job <= jobs[exec[f].task] /\ exec'[f].job = exec[f].job
            /\ jobs'[exec[f].task] >= jobs[exec[f].task]
        BY <3>2 DEF IInv, KnownJobs, TaskOf
      <4>2. /\ exec[f].job \in Nat /\ jobs[exec[f].task] \in Nat
            /\ jobs'[exec[f].task] \in Nat
        BY DEF IInv, TypeOK, Exec
      <4>3. QED
        BY <4>1, <4>2
    <3>3. QED
      BY <3>1, <3>2
  <2>2. \A s \in Servers : \A p \in picked'[s] : p.job <= jobs'[p.task]
    <3> SUFFICES ASSUME NEW s \in Servers, NEW p \in picked[s]
                 PROVE  p.job <= jobs'[p.task]
      BY <1>0
    <3>1. p.task \in Tasks /\ p.job \in Nat
      BY DEF IInv, TypeOK, Pick
    <3>2. p.job <= jobs[p.task] /\ jobs[p.task] \in Nat /\ jobs'[p.task] \in Nat
          /\ jobs'[p.task] >= jobs[p.task]
      BY <3>1 DEF IInv, KnownJobs, TypeOK
    <3>3. QED
      BY <3>1, <3>2
  <2>3. QED
    BY <2>1, <2>2 DEF KnownJobs, TaskOf
<1>6. BoundedAttempts' /\ AttemptLeft'
  BY <1>0 DEF IInv, BoundedAttempts, AttemptLeft, Startable
<1>7. QED
  BY <1>1, <1>2, <1>4, <1>5, <1>6 DEF IInv

\* A row is changed while no execution goes on or ends.
LEMMA RowsChange ==
  ASSUME IInv,
         row' \in [Tasks -> Row], renewed' \in [Tasks -> Nat],
         \A t \in Tasks : row'[t].receipt = row[t].receipt /\ row'[t].attempts = row[t].attempts
                         /\ renewed'[t] >= renewed[t],
         \A t \in Tasks : row'[t].status \in Startable =>
           row[t].status \in Startable \/ renewed'[t] > renewed[t],
         \A t \in Tasks : row[t].status = "running" /\ row'[t].status # "running" =>
           t \in requeued' \/ On(t) = {},
         requeued \subseteq requeued', requeued' \subseteq Tasks,
         server' \in [Servers -> {"down", "starting", "up"}],
         UNCHANGED <<exec, jobs, picked, crashes>>
  PROVE  IInv'
<1>0. exec' = exec /\ jobs' = jobs /\ picked' = picked /\ crashes' = crashes
  OBVIOUS
<1>1. TypeOK'
  BY <1>0 DEF IInv, TypeOK, Row, Pick, Exec, Statuses, Outcomes
<1>2. WorkHasTask'
  BY <1>0 DEF IInv, WorkHasTask, At, TaskOf
<1>3. OneOwner'
  <2> SUFFICES ASSUME NEW f \in Executions, NEW g \in Executions, exec[f].task \in Tasks \ requeued'
               PROVE  /\ row'[exec[f].task].status = "running"
                      /\ exec[g].task = exec[f].task => g = f
    BY <1>0 DEF OneOwner, TaskOf
  <2>1. exec[f].task \in Tasks \ requeued /\ On(exec[f].task) # {}
    BY DEF On, TaskOf
  <2>2. QED
    BY <2>1 DEF IInv, OneOwner, TaskOf
<1>4. KnownJobs'
  BY <1>0 DEF IInv, KnownJobs, TaskOf
<1>5. BoundedAttempts' /\ AttemptLeft'
  <2> SUFFICES ASSUME NEW u \in Tasks
               PROVE  /\ row'[u].attempts <= MaxAttempts + renewed'[u]
                      /\ row'[u].status \in Startable => row'[u].attempts < MaxAttempts + renewed'[u]
    BY DEF BoundedAttempts, AttemptLeft, Startable
  <2>1. /\ row[u].attempts \in Nat /\ row'[u].attempts = row[u].attempts
        /\ renewed[u] \in Nat /\ renewed'[u] \in Nat /\ renewed'[u] >= renewed[u]
        /\ row[u].attempts <= MaxAttempts + renewed[u]
    BY DEF IInv, TypeOK, Row, BoundedAttempts
  <2>2. QED
    BY <2>1, QueueAssumption DEF IInv, AttemptLeft
<1>6. QED
  BY <1>1, <1>2, <1>3, <1>4, <1>5 DEF IInv

-----------------------------------------------------------------------------
\* An execution moves to a step with an outcome and a job.
LEMMA MovesTo ==
  ASSUME exec \in [Executions -> Exec], NEW e \in Executions, NEW x \in Exec,
         exec' = [exec EXCEPT ![e] = x], x.task = exec[e].task
  PROVE  /\ exec' \in [Executions -> Exec] /\ exec'[e] = x /\ exec'[e].task = exec[e].task
         /\ \A f \in Executions \ {e} : exec'[f] = exec[f]
OBVIOUS

LEMMA OutcomeIs ==
  ASSUME exec \in [Executions -> Exec], NEW e \in Executions,
         NEW o \in {"done", "pending", "error"}, Outcome(e, o)
  PROVE  /\ exec' \in [Executions -> Exec] /\ exec'[e].task = exec[e].task
         /\ exec'[e].at = "settle" /\ exec'[e].outcome # "none" /\ exec'[e].job = exec[e].job
         /\ \A f \in Executions \ {e} : exec'[f] = exec[f]
<1> DEFINE x == [exec[e] EXCEPT !.at = "settle", !.outcome = o]
<1>0. exec[e] \in Exec
  OBVIOUS
<1>1. /\ x \in Exec /\ x.task = exec[e].task /\ x.at = "settle"
      /\ x.outcome = o /\ x.job = exec[e].job
  BY <1>0 DEF Exec, Outcomes
<1>2. exec' = [exec EXCEPT ![e] = x]
  BY DEF Outcome
<1> HIDE DEF x
<1>3. QED
  BY <1>1, <1>2, MovesTo

LEMMA ExecuteKeeps ==
  ASSUME IInv, NEW e \in Executions, Execute(e)
  PROVE  IInv'
<1> DEFINE t == TaskOf(e)
<1>0. ~At(e, "idle") /\ t \in Tasks
  BY DEF Execute, Session, Handler, SaveReceipt, Poll, Settle, At, IInv, WorkHasTask
<1>1. CASE Session(e)
  <2>1. CASE Ends(e) /\ row' = SetStatus(TaskOf(e), "failed")
    BY <1>0, <1>1, <2>1, EndsWith DEF Session, Statuses, Startable, IInv, TypeOK
  <2>2. CASE /\ exec' = [exec EXCEPT ![e].at = IF exec[e].job = NoJob THEN "handler" ELSE "poll"]
             /\ UNCHANGED row
    <3>1. /\ exec' \in [Executions -> Exec] /\ exec'[e].task = exec[e].task
          /\ exec'[e].at \in {"handler", "poll"} /\ exec'[e].job = exec[e].job
          /\ \A f \in Executions \ {e} : exec'[f] = exec[f]
      BY <2>2 DEF IInv, TypeOK, Exec
    <3>2. QED
      BY <1>0, <1>1, <2>2, <3>1, GoesOn DEF Session, IInv, TypeOK, KnownJobs, TaskOf
  <2>3. QED
    BY <1>1, <2>1, <2>2 DEF Session
<1>2. CASE Handler(e)
  <2>1. /\ jobs' \in [Tasks -> Nat] /\ \A u \in Tasks : jobs'[u] >= jobs[u]
        /\ row' = row /\ UNCHANGED <<server, picked, renewed, requeued, crashes>>
    BY <1>0, <1>2 DEF Handler, IInv, TypeOK
  <2>2. \A u \in Tasks : row'[u].receipt <= jobs'[u]
    BY <2>1 DEF IInv, TypeOK, Row
  <2>3. /\ exec' \in [Executions -> Exec] /\ exec'[e].task = exec[e].task
        /\ exec'[e].at \in {"receipt", "settle"}
        /\ exec'[e].at = "settle" => exec'[e].outcome # "none"
        /\ \A f \in Executions \ {e} : exec'[f] = exec[f]
        /\ exec'[e].job <= jobs'[t]
    <3>1. CASE Outcome(e, "done") \/ Outcome(e, "error")
      <4>1. /\ exec' \in [Executions -> Exec] /\ exec'[e].task = exec[e].task
            /\ exec'[e].at = "settle" /\ exec'[e].outcome # "none"
            /\ exec'[e].job = exec[e].job
            /\ \A f \in Executions \ {e} : exec'[f] = exec[f]
        BY <3>1, OutcomeIs DEF IInv, TypeOK
      <4>2. exec[e].job <= jobs[t] /\ jobs[t] \in Nat /\ jobs'[t] \in Nat /\ exec[e].job \in Nat
        BY <1>0, <2>1 DEF IInv, TypeOK, KnownJobs, Exec, TaskOf
      <4>3. QED
        BY <4>1, <4>2, <2>1, <1>0
    <3>2. CASE /\ jobs' = [jobs EXCEPT ![t] = @ + 1]
               /\ exec' = [exec EXCEPT ![e] = [@ EXCEPT !.at = "receipt", !.job = jobs[t] + 1]]
      <4> DEFINE x == [exec[e] EXCEPT !.at = "receipt", !.job = jobs[t] + 1]
      <4>0. exec[e] \in Exec /\ jobs[t] + 1 \in Nat /\ jobs'[t] = jobs[t] + 1
        BY <1>0, <3>2 DEF IInv, TypeOK
      <4>1. /\ x \in Exec /\ x.task = exec[e].task /\ x.at = "receipt" /\ x.job = jobs[t] + 1
        BY <4>0 DEF Exec
      <4>2. exec' = [exec EXCEPT ![e] = x]
        BY <3>2
      <4> HIDE DEF x
      <4>3. QED
        BY <4>0, <4>1, <4>2, MovesTo DEF IInv, TypeOK
    <3>3. QED
      BY <1>2, <3>1, <3>2 DEF Handler
  <2>4. QED
    BY <1>0, <2>1, <2>2, <2>3, GoesOn DEF IInv, TypeOK
<1>3. CASE SaveReceipt(e)
  <2>1. /\ exec' \in [Executions -> Exec] /\ exec'[e].task = exec[e].task
        /\ exec'[e].at = "poll" /\ exec'[e].job = exec[e].job
        /\ \A f \in Executions \ {e} : exec'[f] = exec[f]
    BY <1>3 DEF SaveReceipt, IInv, TypeOK, Exec
  <2>2. exec[e].job <= jobs[t] /\ exec[e].job \in Nat
    BY <1>0 DEF IInv, KnownJobs, TypeOK, Exec, TaskOf
  <2>3. /\ row' \in [Tasks -> Row]
        /\ \A u \in Tasks : /\ row'[u].receipt <= jobs[u]
                           /\ row'[u].status = row[u].status /\ row'[u].attempts = row[u].attempts
    <3> DEFINE x == [row[t] EXCEPT !.receipt = exec[e].job, !.rested = FALSE]
    <3>1. /\ x \in Row /\ x.receipt = exec[e].job
          /\ x.status = row[t].status /\ x.attempts = row[t].attempts
      BY <1>0, <2>2 DEF IInv, TypeOK, Row
    <3>2. row' = row \/ row' = [row EXCEPT ![t] = x]
      BY <1>3 DEF SaveReceipt
    <3> HIDE DEF x
    <3>3. CASE row' = row
      BY <3>3 DEF IInv, TypeOK
    <3>4. CASE row' = [row EXCEPT ![t] = x]
      <4>1. /\ row' \in [Tasks -> Row] /\ row'[t] = x
            /\ \A u \in Tasks \ {t} : row'[u] = row[u]
        BY <1>0, <3>1, <3>4 DEF IInv, TypeOK
      <4>2. QED
        BY <4>1, <3>1, <2>2 DEF IInv, TypeOK
    <3>5. QED
      BY <3>2, <3>3, <3>4
  <2>4. jobs' = jobs /\ UNCHANGED <<server, picked, renewed, requeued, crashes>>
    BY <1>3 DEF SaveReceipt
  <2>5. QED
    BY <1>0, <2>1, <2>2, <2>3, <2>4, GoesOn DEF IInv, TypeOK
<1>4. CASE Poll(e)
  <2>1. \E o \in {"done", "pending", "error"} : Outcome(e, o)
    BY <1>4 DEF Poll
  <2>2. /\ exec' \in [Executions -> Exec] /\ exec'[e].task = exec[e].task
        /\ exec'[e].at = "settle" /\ exec'[e].outcome # "none" /\ exec'[e].job = exec[e].job
        /\ \A f \in Executions \ {e} : exec'[f] = exec[f]
    BY <2>1, OutcomeIs DEF IInv, TypeOK
  <2>3. /\ row' = row /\ jobs' = jobs
        /\ UNCHANGED <<server, picked, renewed, requeued, crashes>>
    BY <1>4 DEF Poll
  <2>4. exec[e].job <= jobs[t]
    BY <1>0 DEF IInv, KnownJobs, TaskOf
  <2>5. QED
    BY <1>0, <2>2, <2>3, <2>4, GoesOn DEF IInv, TypeOK
<1>5. CASE Settle(e)
  <2>1. exec[e].outcome \in {"done", "pending", "error"}
    BY <1>5 DEF Settle, IInv, WorkHasTask, TypeOK, Exec, Outcomes
  <2>2. /\ renewed' \in [Tasks -> Nat] /\ \A u \in Tasks : renewed'[u] >= renewed[u]
        /\ exec[e].outcome = "pending" => renewed'[t] = renewed[t] + 1
        /\ renewed[t] \in Nat /\ row[t].attempts \in Nat /\ renewed'[t] \in Nat
    BY <1>0, <1>5 DEF Settle, IInv, TypeOK, Row
  <2>3. \E s \in Statuses :
          /\ row' = SetStatus(t, s)
          /\ s \in Startable => row[t].attempts < MaxAttempts + renewed'[t]
    <3>1. CASE exec[e].outcome = "done"
      BY <1>5, <3>1 DEF Settle, DoneStatus, Statuses, Startable
    <3>2. CASE exec[e].outcome = "pending"
      <4>1. row[t].attempts < MaxAttempts + renewed'[t]
        BY <1>0, <2>2, <3>2, QueueAssumption DEF IInv, BoundedAttempts
      <4>2. QED
        BY <1>5, <3>2, <4>1 DEF Settle, Statuses
    <3>3. CASE exec[e].outcome = "error" /\ Spent(t)
      BY <1>5, <3>3 DEF Settle, Statuses, Startable
    <3>4. CASE exec[e].outcome = "error" /\ ~Spent(t)
      <4>1. row[t].attempts < MaxAttempts + renewed'[t]
        BY <2>2, <3>4, QueueAssumption DEF Spent
      <4>2. QED
        BY <1>5, <3>4, <4>1 DEF Settle, Statuses
    <3>5. QED
      BY <2>1, <3>1, <3>2, <3>3, <3>4
  <2>4. Ends(e) /\ UNCHANGED <<jobs, server, picked, requeued, crashes>>
    BY <1>5 DEF Settle
  <2>5. QED
    BY <1>0, <2>2, <2>3, <2>4, EndsWith
<1>6. QED
  BY <1>1, <1>2, <1>3, <1>4, <1>5 DEF Execute

LEMMA WorkerKeeps ==
  ASSUME IInv, NEW s \in Servers, Worker(s)
  PROVE  IInv'
<1>1. CASE \E tasks \in SUBSET Tasks : Tick(s, tasks)
  <2>1. PICK tasks \in SUBSET Tasks : Tick(s, tasks)
    BY <1>1
  <2>0. /\ row' = row /\ jobs' = jobs /\ server' = server /\ exec' = exec
        /\ renewed' = renewed /\ requeued' = requeued /\ crashes' = crashes
        /\ picked' = [picked EXCEPT ![s] =
             @ \cup {[task |-> t, job |-> row[t].receipt] : t \in tasks}]
    BY <2>1 DEF Tick
  <2>2. \A t \in tasks : /\ [task |-> t, job |-> row[t].receipt] \in Pick
                         /\ row[t].receipt <= jobs[t]
    BY DEF IInv, TypeOK, Row, Pick
  <2>3. picked' \in [Servers -> SUBSET Pick]
    BY <2>0, <2>2 DEF IInv, TypeOK
  <2>4. TypeOK'
    BY <2>0, <2>3 DEF IInv, TypeOK, Row, Pick, Exec, Statuses, Outcomes
  <2>5. KnownJobs'
    <3>1. \A z \in Servers : \A p \in picked'[z] : p.job <= jobs[p.task]
      BY <2>0, <2>2 DEF IInv, KnownJobs, TypeOK
    <3>2. QED
      BY <2>0, <3>1 DEF IInv, KnownJobs, TaskOf
  <2>6. WorkHasTask' /\ OneOwner' /\ BoundedAttempts' /\ AttemptLeft'
    BY <2>0 DEF IInv, WorkHasTask, OneOwner, BoundedAttempts, AttemptLeft, Startable, At, TaskOf
  <2>7. QED
    BY <2>4, <2>5, <2>6 DEF IInv
<1>2. CASE \E p \in picked[s], e \in Executions : Claim(s, p, e)
  <2>1. PICK p \in picked[s], e \in Executions : Claim(s, p, e)
    BY <1>2
  <2> DEFINE t == p.task
  <2>0. /\ jobs' = jobs /\ server' = server
        /\ renewed' = renewed /\ requeued' = requeued /\ crashes' = crashes
        /\ picked' = [picked EXCEPT ![s] = @ \ {p}]
    BY <2>1 DEF Claim
  <2>2. p \in Pick /\ t \in Tasks /\ p.job \in Nat /\ p.job <= jobs[t]
    BY DEF IInv, TypeOK, Pick, KnownJobs
  <2>3. /\ picked' \in [Servers -> SUBSET Pick]
        /\ \A z \in Servers : picked'[z] \subseteq picked[z]
    BY <2>0 DEF IInv, TypeOK
  <2>4. CASE ~Claimable(t) /\ UNCHANGED <<row, exec>>
    <3>1. TypeOK'
      BY <2>0, <2>3, <2>4 DEF IInv, TypeOK, Row, Pick, Exec, Statuses, Outcomes
    <3>2. KnownJobs'
      BY <2>0, <2>3, <2>4 DEF IInv, KnownJobs, TaskOf
    <3>3. WorkHasTask' /\ OneOwner' /\ BoundedAttempts' /\ AttemptLeft'
      BY <2>0, <2>4 DEF IInv, WorkHasTask, OneOwner, BoundedAttempts, AttemptLeft, Startable, At, TaskOf
    <3>4. QED
      BY <3>1, <3>2, <3>3 DEF IInv
  <2>5. CASE Claimable(t) /\ At(e, "idle")
    <3> DEFINE x == [Free EXCEPT !.at = "session", !.task = p.task, !.server = s, !.job = p.job]
               r == SetStatus(t, "running")
               y == [r[t] EXCEPT !.attempts = @ + 1]
    <3>1. x \in Exec /\ x.task = t /\ x.at = "session" /\ x.job = p.job
      BY <2>2, FreeIsExec DEF Free, Exec
    <3>2. exec' = [exec EXCEPT ![e] = x] /\ row' = [r EXCEPT ![t] = y]
      BY <2>1, <2>5 DEF Claim
    <3>3. /\ r \in [Tasks -> Row] /\ \A u \in Tasks \ {t} : r[u] = row[u]
          /\ r[t].attempts = row[t].attempts /\ r[t].receipt = row[t].receipt
          /\ r[t].status = "running" /\ row[t].status \in Startable
      BY <2>2, <2>5, StatusIsSet DEF IInv, TypeOK, Statuses, Claimable, Startable
    <3>4. r[t] \in Row
      BY <3>3, <2>2
    <3>5. /\ y \in Row /\ y.status = "running" /\ y.receipt = row[t].receipt
          /\ y.attempts = row[t].attempts + 1
      <4> HIDE DEF r
      <4>1. QED
        BY <3>3, <3>4 DEF Row
    <3> HIDE DEF x, r, y
    <3>6. /\ row' \in [Tasks -> Row] /\ row'[t] = y
          /\ \A u \in Tasks \ {t} : row'[u] = row[u]
      BY <3>2, <3>3, <3>5, <2>2
    <3>7. /\ exec' \in [Executions -> Exec] /\ exec'[e] = x
          /\ \A f \in Executions \ {e} : exec'[f] = exec[f]
      BY <3>1, <3>2 DEF IInv, TypeOK
    <3>8. \A u \in Tasks : row'[u].receipt = row[u].receipt
      BY <3>5, <3>6
    <3>9. TypeOK'
      BY <2>0, <2>3, <3>6, <3>7, <3>8 DEF IInv, TypeOK, Row, Pick, Exec, Statuses, Outcomes
    <3>10. WorkHasTask'
      BY <3>1, <3>7, <2>2 DEF IInv, WorkHasTask, At, TaskOf
    <3>11. \A f \in Executions : t \notin requeued => exec[f].task # t
      BY <3>3, <2>2 DEF IInv, OneOwner, TaskOf, Startable
    <3>12. OneOwner'
      <4> SUFFICES ASSUME NEW f \in Executions, NEW g \in Executions,
                          exec'[f].task \in Tasks \ requeued
                   PROVE  /\ row'[exec'[f].task].status = "running"
                          /\ exec'[g].task = exec'[f].task => g = f
        BY <2>0 DEF OneOwner, TaskOf
      <4>1. CASE f = e
        BY <4>1, <3>1, <3>5, <3>6, <3>7, <3>11, <2>2
      <4>2. CASE f # e
        <5>1. exec'[f] = exec[f] /\ exec[f].task # t
          BY <4>2, <3>7, <3>11, <2>2
        <5>2. row[exec[f].task].status = "running" /\ (exec[g].task = exec[f].task => g = f)
          BY <5>1 DEF IInv, OneOwner, TaskOf
        <5>3. QED
          BY <5>1, <5>2, <3>1, <3>6, <3>7
      <4>3. QED
        BY <4>1, <4>2
    <3>13. KnownJobs'
      BY <2>0, <2>2, <2>3, <3>1, <3>7 DEF IInv, KnownJobs, TaskOf
    <3>14. BoundedAttempts' /\ AttemptLeft'
      <4>1. /\ row[t].attempts \in Nat /\ renewed[t] \in Nat
            /\ row[t].attempts < MaxAttempts + renewed[t]
        BY <2>2, <3>3 DEF IInv, TypeOK, Row, AttemptLeft
      <4>2. row'[t].attempts <= MaxAttempts + renewed'[t] /\ row'[t].status \notin Startable
        BY <4>1, <2>0, <3>5, <3>6, QueueAssumption DEF Startable
      <4>3. QED
        BY <4>2, <2>0, <3>6 DEF IInv, BoundedAttempts, AttemptLeft, Startable
    <3>15. QED
      BY <3>9, <3>10, <3>12, <3>13, <3>14 DEF IInv
  <2>6. QED
    BY <2>1, <2>4, <2>5 DEF Claim
<1>3. QED
  BY <1>1, <1>2 DEF Worker

LEMMA CreateKeeps ==
  ASSUME IInv, NEW t \in Tasks, Create(t)
  PROVE  IInv'
<1>1. row' = SetStatus(t, "queued") /\ row[t].status = "absent"
      /\ renewed' = renewed /\ requeued' = requeued /\ server' = server
      /\ UNCHANGED <<exec, jobs, picked, crashes>>
  BY DEF Create
<1>2. /\ row' \in [Tasks -> Row] /\ \A u \in Tasks \ {t} : row'[u] = row[u]
      /\ row'[t].attempts = row[t].attempts /\ row'[t].receipt = row[t].receipt
  BY <1>1, StatusIsSet DEF IInv, TypeOK, Statuses
<1>3. \A u \in Tasks : renewed'[u] >= renewed[u]
  BY <1>1 DEF IInv, TypeOK
<1>4. QED
  BY <1>1, <1>2, <1>3, RowsChange DEF IInv, TypeOK, Startable

LEMMA RetryKeeps ==
  ASSUME IInv, NEW t \in Tasks, Retry(t)
  PROVE  IInv'
<1>1. row' = SetStatus(t, "queued") /\ row[t].status \in Retryable
      /\ renewed' = [renewed EXCEPT ![t] = @ + 1] /\ requeued' = requeued /\ server' = server
      /\ UNCHANGED <<exec, jobs, picked, crashes>>
  BY DEF Retry
<1>2. /\ row' \in [Tasks -> Row] /\ \A u \in Tasks \ {t} : row'[u] = row[u]
      /\ row'[t].attempts = row[t].attempts /\ row'[t].receipt = row[t].receipt
  BY <1>1, StatusIsSet DEF IInv, TypeOK, Statuses
<1>3. /\ renewed' \in [Tasks -> Nat] /\ renewed'[t] > renewed[t]
      /\ \A u \in Tasks : renewed'[u] >= renewed[u]
  BY <1>1 DEF IInv, TypeOK
<1>4. row[t].status # "running"
  BY <1>1 DEF Retryable
<1>5. QED
  BY <1>1, <1>2, <1>3, <1>4, RowsChange DEF IInv, TypeOK

\* Only what a row says of its age changes.
LEMMA AgeKeeps ==
  ASSUME IInv, NEW t \in Tasks, Age(t)
  PROVE  IInv'
<1>1. /\ row' = row \/ row' = [row EXCEPT ![t].rested = TRUE] \/ row' = [row EXCEPT ![t].expired = TRUE]
      /\ renewed' = renewed /\ requeued' = requeued /\ server' = server
      /\ UNCHANGED <<exec, jobs, picked, crashes>>
  BY DEF Age
<1>2. /\ row' \in [Tasks -> Row]
      /\ \A u \in Tasks : /\ row'[u].status = row[u].status
                         /\ row'[u].attempts = row[u].attempts /\ row'[u].receipt = row[u].receipt
  <2>0. row \in [Tasks -> Row] /\ row[t] \in Row
    BY DEF IInv, TypeOK
  <2>1. PICK x \in Row : /\ row' = [row EXCEPT ![t] = x] /\ x.status = row[t].status
                        /\ x.attempts = row[t].attempts /\ x.receipt = row[t].receipt
    <3>1. \E x \in {row[t], [row[t] EXCEPT !.rested = TRUE], [row[t] EXCEPT !.expired = TRUE]} :
            row' = [row EXCEPT ![t] = x]
      BY <1>1, <2>0
    <3>2. \A x \in {row[t], [row[t] EXCEPT !.rested = TRUE], [row[t] EXCEPT !.expired = TRUE]} :
            /\ x \in Row /\ x.status = row[t].status
            /\ x.attempts = row[t].attempts /\ x.receipt = row[t].receipt
      BY <2>0 DEF Row
    <3>3. QED
      BY <3>1, <3>2
  <2>2. row' \in [Tasks -> Row] /\ row'[t] = x /\ \A u \in Tasks \ {t} : row'[u] = row[u]
    BY <2>0, <2>1
  <2>3. QED
    BY <2>1, <2>2
<1>3. \A u \in Tasks : renewed'[u] >= renewed[u]
  BY <1>1 DEF IInv, TypeOK
<1>4. QED
  BY <1>1, <1>2, <1>3, RowsChange DEF IInv, TypeOK

LEMMA RecoverKeeps ==
  ASSUME IInv, NEW s \in Servers, Recover(s)
  PROVE  IInv'
<1> DEFINE back == {t \in Tasks : row[t].status \in Interrupted}
<1>1. /\ row' = [t \in Tasks |->
           IF t \in back THEN [row[t] EXCEPT !.status = "queued", !.rested = FALSE] ELSE row[t]]
      /\ renewed' = [t \in Tasks |-> IF t \in back THEN renewed[t] + 1 ELSE renewed[t]]
      /\ requeued' = requeued \cup {t \in back : On(t) # {}}
      /\ server' = [server EXCEPT ![s] = "up"]
      /\ UNCHANGED <<exec, jobs, picked, crashes>>
  BY DEF Recover
<1>2. \A t \in Tasks :
        LET x == [row[t] EXCEPT !.status = "queued", !.rested = FALSE] IN
        x \in Row /\ x.attempts = row[t].attempts /\ x.receipt = row[t].receipt
  <2> SUFFICES ASSUME NEW t \in Tasks
               PROVE  LET x == [row[t] EXCEPT !.status = "queued", !.rested = FALSE] IN
                      x \in Row /\ x.attempts = row[t].attempts /\ x.receipt = row[t].receipt
    OBVIOUS
  <2>1. row[t] \in Row
    BY DEF IInv, TypeOK
  <2>2. QED
    BY <2>1 DEF Row, Statuses
<1>3. /\ row' \in [Tasks -> Row]
      /\ \A t \in Tasks : row'[t].attempts = row[t].attempts /\ row'[t].receipt = row[t].receipt
      /\ \A t \in Tasks \ back : row'[t] = row[t]
  BY <1>1, <1>2 DEF IInv, TypeOK
<1>4. /\ renewed' \in [Tasks -> Nat] /\ \A t \in Tasks : renewed'[t] >= renewed[t]
      /\ \A t \in back : renewed'[t] > renewed[t]
  <2>1. back \subseteq Tasks /\ renewed \in [Tasks -> Nat]
    BY DEF IInv, TypeOK
  <2>2. renewed' = [t \in Tasks |-> IF t \in back THEN renewed[t] + 1 ELSE renewed[t]]
    BY <1>1
  <2> HIDE DEF back
  <2>3. \A t \in Tasks : /\ renewed[t] \in Nat
                         /\ renewed'[t] = IF t \in back THEN renewed[t] + 1 ELSE renewed[t]
    BY <2>1, <2>2
  <2>4. \A t \in Tasks : renewed'[t] \in Nat
    BY <2>3
  <2>5. renewed' \in [Tasks -> Nat]
    BY <2>2, <2>4
  <2>6. QED
    BY <2>1, <2>3, <2>5
<1>5. /\ requeued \subseteq requeued' /\ requeued' \subseteq Tasks
      /\ server' \in [Servers -> {"down", "starting", "up"}]
  BY <1>1 DEF IInv, TypeOK
<1>6. \A t \in Tasks : row'[t].status # row[t].status => t \in back
  BY <1>3
<1>7. \A t \in back : t \in requeued' \/ On(t) = {}
  BY <1>1
<1> HIDE DEF back
<1>8. QED
  BY <1>1, <1>3, <1>4, <1>5, <1>6, <1>7, RowsChange

LEMMA CleanupKeeps ==
  ASSUME IInv, Cleanup
  PROVE  IInv'
<1>1. /\ row' = [t \in Tasks |->
           IF row[t].status \in {"completed", "failed", "cancelled"} /\ row[t].expired
           THEN [row[t] EXCEPT !.status = "deleted"] ELSE row[t]]
      /\ renewed' = renewed /\ requeued' = requeued /\ server' = server
      /\ UNCHANGED <<exec, jobs, picked, crashes>>
  BY DEF Cleanup
<1>2. /\ row' \in [Tasks -> Row]
      /\ \A t \in Tasks : row'[t].attempts = row[t].attempts /\ row'[t].receipt = row[t].receipt
      /\ \A t \in Tasks :
           \/ row'[t].status = row[t].status
           \/ row'[t].status = "deleted" /\ row[t].status # "running"
  <2>1. row' = [t \in Tasks |-> row'[t]] /\ row \in [Tasks -> Row]
    BY <1>1 DEF IInv, TypeOK
  <2>2. \A t \in Tasks :
          /\ row'[t] \in Row /\ row'[t].attempts = row[t].attempts
          /\ row'[t].receipt = row[t].receipt
          /\ \/ row'[t].status = row[t].status
             \/ row'[t].status = "deleted" /\ row[t].status # "running"
    <3> SUFFICES ASSUME NEW t \in Tasks
                 PROVE  /\ row'[t] \in Row /\ row'[t].attempts = row[t].attempts
                        /\ row'[t].receipt = row[t].receipt
                        /\ \/ row'[t].status = row[t].status
                           \/ row'[t].status = "deleted" /\ row[t].status # "running"
      OBVIOUS
    <3>1. row[t] \in Row
      BY DEF IInv, TypeOK
    <3>2. \/ row'[t] = row[t]
          \/ row[t].status # "running" /\ row'[t] = [row[t] EXCEPT !.status = "deleted"]
      BY <1>1
    <3> DEFINE x == [row[t] EXCEPT !.status = "deleted"]
    <3>3. /\ x \in Row /\ x.attempts = row[t].attempts /\ x.receipt = row[t].receipt
          /\ x.status = "deleted"
      BY <3>1 DEF Row, Statuses
    <3>4. \/ row'[t] = row[t]
          \/ row[t].status # "running" /\ row'[t] = x
      BY <3>2
    <3> HIDE DEF x
    <3>5. CASE row'[t] = row[t]
      BY <3>1, <3>5
    <3>6. CASE row[t].status # "running" /\ row'[t] = x
      BY <3>3, <3>6
    <3>7. QED
      BY <3>4, <3>5, <3>6
  <2>3. QED
    BY <2>1, <2>2
<1>3. \A t \in Tasks : renewed'[t] >= renewed[t]
  BY <1>1 DEF IInv, TypeOK
<1>4. QED
  BY <1>1, <1>2, <1>3, RowsChange DEF IInv, TypeOK, Startable

LEMMA CrashKeeps ==
  ASSUME IInv, NEW s \in Servers, Crash(s)
  PROVE  IInv'
<1>1. /\ row' = row /\ jobs' = jobs /\ renewed' = renewed /\ requeued' = requeued
      /\ crashes < CrashBound /\ crashes' = crashes + 1
      /\ server' = [server EXCEPT ![s] = "down"] /\ picked' = [picked EXCEPT ![s] = {}]
      /\ exec' = [e \in Executions |-> IF exec[e].server = s THEN Free ELSE exec[e]]
  BY DEF Crash
<1>2. /\ picked' \in [Servers -> SUBSET Pick] /\ server' \in [Servers -> {"down", "starting", "up"}]
      /\ \A z \in Servers : picked'[z] \subseteq picked[z]
      /\ crashes' \in 0 .. CrashBound
  BY <1>1, QueueAssumption DEF IInv, TypeOK
<1>3. /\ exec' \in [Executions -> Exec]
      /\ \A e \in Executions : exec'[e] = exec[e] \/ exec'[e] = Free
  BY <1>1, FreeIsExec DEF IInv, TypeOK
<1>4. TypeOK'
  BY <1>1, <1>2, <1>3 DEF IInv, TypeOK, Row, Pick, Exec, Statuses, Outcomes
<1>5. WorkHasTask'
  BY <1>3, FreeIsExec DEF IInv, WorkHasTask, At, TaskOf
<1>6. OneOwner'
  BY <1>1, <1>3, FreeIsExec, QueueAssumption DEF IInv, OneOwner, TaskOf
<1>7. KnownJobs'
  BY <1>1, <1>2, <1>3, FreeIsExec, QueueAssumption DEF IInv, KnownJobs, TaskOf
<1>8. BoundedAttempts' /\ AttemptLeft'
  BY <1>1 DEF IInv, BoundedAttempts, AttemptLeft, Startable
<1>9. QED
  BY <1>4, <1>5, <1>6, <1>7, <1>8 DEF IInv

LEMMA StartKeeps ==
  ASSUME IInv, NEW s \in Servers, Start(s)
  PROVE  IInv'
<1>1. /\ server' \in [Servers -> {"down", "starting", "up"}]
      /\ row' = row /\ renewed' = renewed /\ requeued' = requeued
      /\ UNCHANGED <<exec, jobs, picked, crashes>>
  BY DEF Start, IInv, TypeOK
<1>2. \A t \in Tasks : renewed'[t] >= renewed[t]
  BY <1>1 DEF IInv, TypeOK
<1>3. QED
  BY <1>1, <1>2, RowsChange DEF IInv, TypeOK

LEMMA StepKeeps == IInv /\ [Next]_vars => IInv'
<1> SUFFICES ASSUME IInv, [Next]_vars PROVE IInv'
  OBVIOUS
<1>1. CASE \E t \in Tasks : Create(t) \/ Retry(t) \/ Age(t)
  BY <1>1, CreateKeeps, RetryKeeps, AgeKeeps
<1>2. CASE \E s \in Servers : Worker(s) \/ Recover(s) \/ Crash(s) \/ Start(s)
  BY <1>2, WorkerKeeps, RecoverKeeps, CrashKeeps, StartKeeps
<1>3. CASE \E e \in Executions : Execute(e)
  BY <1>3, ExecuteKeeps
<1>4. CASE Cleanup
  BY <1>4, CleanupKeeps
<1>5. CASE UNCHANGED vars
  <2>1. \A t \in Tasks : renewed'[t] >= renewed[t]
    BY <1>5 DEF vars, IInv, TypeOK
  <2>2. /\ row' = row /\ renewed' = renewed /\ requeued' = requeued /\ server' = server
        /\ UNCHANGED <<exec, jobs, picked, crashes>>
    BY <1>5 DEF vars
  <2>3. QED
    BY <2>1, <2>2, RowsChange DEF IInv, TypeOK
<1>6. QED
  BY <1>1, <1>2, <1>3, <1>4, <1>5 DEF Next

LEMMA QueueIsSound == Spec => []IInv
BY InitHolds, StepKeeps, PTL DEF Spec

-----------------------------------------------------------------------------
\* Rows and executions keep their shape, and a saved job is one the provider has.
THEOREM TasksAreWellTyped == Spec => []TypeOK
BY QueueIsSound, PTL DEF IInv

\* Left alone, a task is executed max_attempts times: only a pending answer, a
\* retry by hand or a recovery gives it another execution.
THEOREM AttemptsAreBounded == Spec => []BoundedAttempts
BY QueueIsSound, PTL DEF IInv

\* Two executions have one task only after a recovery put it back while a living
\* process had it.
THEOREM OneExecutionPerTask == Spec => []OneExecution
<1>1. IInv => OneExecution
  <2> SUFFICES ASSUME IInv, NEW t \in Tasks, t \notin requeued
               PROVE  Cardinality(On(t)) <= 1
    BY DEF OneExecution
  <2>1. \A e, f \in On(t) : e = f
    BY DEF On, IInv, OneOwner
  <2>2. CASE On(t) = {}
    BY <2>2, FS_EmptySet
  <2>3. CASE On(t) # {}
    <3>1. PICK e : On(t) = {e}
      BY <2>1, <2>3
    <3>2. Cardinality(On(t)) = 1
      BY <3>1, FS_Singleton
    <3>3. QED
      BY <3>2
  <2>4. QED
    BY <2>2, <2>3
<1>2. QED
  BY <1>1, QueueIsSound, PTL

\* What has ended stays as it is, but for the retry and the removal of failed
\* tasks, unless a recovery put the task back.
THEOREM EndsStand == Spec => EndStands
<1>1. ASSUME IInv, Next, NEW t \in Tasks,
             Ended(t), t \notin requeued', row'[t].status # row[t].status
      PROVE  row[t].status = "failed" /\ row'[t].status \in {"queued", "deleted"}
  <2>0. row \in [Tasks -> Row] /\ row[t].status \in {"done", "failed"}
    BY <1>1 DEF IInv, TypeOK, Ended
  <2>1. CASE \E u \in Tasks : Create(u) \/ Retry(u) \/ Age(u)
    <3>1. PICK u \in Tasks : Create(u) \/ Retry(u) \/ Age(u)
      BY <2>1
    <3>2. CASE Create(u)
      <4>1. \A v \in Tasks \ {u} : row'[v] = row[v]
        BY <3>2, <2>0, StatusIsSet DEF Create, Statuses
      <4>2. QED
        BY <3>2, <4>1, <2>0, <1>1 DEF Create
    <3>3. CASE Retry(u)
      <4>1. /\ \A v \in Tasks \ {u} : row'[v] = row[v]
            /\ row'[u].status \in {"deleted", "queued"}
        BY <3>3, <2>0, StatusIsSet DEF Retry, Statuses
      <4>2. QED
        BY <3>3, <4>1, <2>0, <1>1 DEF Retry, Retryable
    <3>4. CASE Age(u)
      <4>1. \/ row' = row
            \/ row' = [row EXCEPT ![u].rested = TRUE]
            \/ row' = [row EXCEPT ![u].expired = TRUE]
        BY <3>4 DEF Age
      <4>2. row'[t].status = row[t].status
        BY <4>1, <2>0 DEF Row
      <4>3. QED
        BY <4>2, <1>1
    <3>5. QED
      BY <3>1, <3>2, <3>3, <3>4
  <2>2. CASE \E s \in Servers : Worker(s) \/ Recover(s) \/ Crash(s) \/ Start(s)
    <3>1. PICK s \in Servers : Worker(s) \/ Recover(s) \/ Crash(s) \/ Start(s)
      BY <2>2
    <3>2. CASE Worker(s)
      <4>1. PICK p \in picked[s], e \in Executions : Claim(s, p, e)
        BY <3>2, <1>1 DEF Worker, Tick
      <4>2. p.task \in Tasks /\ Claimable(p.task)
            /\ row' = [SetStatus(p.task, "running") EXCEPT ![p.task].attempts = @ + 1]
        BY <4>1, <1>1 DEF Claim, IInv, TypeOK, Pick
      <4>3. p.task # t
        BY <4>2, <2>0 DEF Claimable
      <4>4. row'[t] = SetStatus(p.task, "running")[t]
        BY <4>2, <4>3, <2>0, StatusIsSet DEF Statuses
      <4>5. QED
        BY <4>2, <4>3, <4>4, <2>0, <1>1, StatusIsSet DEF Statuses
    <3>3. CASE Recover(s)
      <4>1. row'[t] = row[t]
        BY <3>3, <2>0 DEF Recover, Interrupted
      <4>2. QED
        BY <4>1, <1>1
    <3>4. CASE Crash(s) \/ Start(s)
      BY <3>4, <1>1 DEF Crash, Start
    <3>5. QED
      BY <3>1, <3>2, <3>3, <3>4
  <2>3. CASE \E e \in Executions : Execute(e)
    <3>1. PICK e \in Executions : Execute(e)
      BY <2>3
    <3>2. /\ TaskOf(e) \in Tasks /\ requeued' = requeued
          /\ t = TaskOf(e) => row[t].status = "running"
      BY <3>1, <1>1 DEF Execute, Session, Handler, SaveReceipt, Poll, Settle, At,
                        IInv, WorkHasTask, OneOwner
    <3>3. TaskOf(e) # t
      BY <3>2, <2>0
    <3>4. CASE \E x \in Statuses : row' = SetStatus(TaskOf(e), x)
      BY <3>2, <3>3, <3>4, <2>0, <1>1, StatusIsSet
    <3>5. CASE row' = row \/ \E x : row' = [row EXCEPT ![TaskOf(e)] = x]
      BY <3>2, <3>3, <3>5, <2>0, <1>1
    <3>6. (\E x \in Statuses : row' = SetStatus(TaskOf(e), x))
          \/ (row' = row \/ \E x : row' = [row EXCEPT ![TaskOf(e)] = x])
      <4>1. CASE Session(e)
        BY <4>1 DEF Session, Statuses
      <4>2. CASE Handler(e) \/ SaveReceipt(e) \/ Poll(e)
        BY <4>2 DEF Handler, SaveReceipt, Poll
      <4>3. CASE Settle(e)
        <5>1. exec[e].outcome \in {"done", "pending", "error"}
          BY <4>3, <1>1 DEF Settle, IInv, WorkHasTask, TypeOK, Exec, Outcomes
        <5>2. QED
          BY <4>3, <5>1 DEF Settle, DoneStatus, Statuses
      <4>4. QED
        BY <3>1, <4>1, <4>2, <4>3 DEF Execute
    <3>7. QED
      BY <3>4, <3>5, <3>6
  <2>4. CASE Cleanup
    <3>1. \/ row'[t] = row[t]
          \/ /\ row[t].status = "failed"
             /\ row'[t] = [row[t] EXCEPT !.status = "deleted"]
      BY <2>4, <2>0 DEF Cleanup
    <3>2. row[t] \in Row
      BY <2>0
    <3>3. QED
      BY <3>1, <3>2, <1>1 DEF Row
  <2>5. QED
    BY <1>1, <2>1, <2>2, <2>3, <2>4 DEF Next
<1>2. IInv /\ [Next]_vars =>
        [\A t \in Tasks :
           Ended(t) /\ t \notin requeued' /\ row'[t].status # row[t].status =>
             row[t].status = "failed" /\ row'[t].status \in {"queued", "deleted"}]_vars
  BY <1>1
<1>3. QED
  BY <1>2, QueueIsSound, PTL DEF EndStands, Spec
=============================================================================
