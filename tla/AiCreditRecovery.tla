---------------------------- MODULE AiCreditRecovery ----------------------------
(***************************************************************************)
(* Who comes back for a task: the queue of generations under its executor. *)
(*                                                                         *)
(* A row of the queue asks the executor for one operation.  It is claimed  *)
(* by any of the processes; while the result is pending it is claimed      *)
(* again without limit, after other errors only as often as max_attempts   *)
(* allows, and a process that starts puts back what was running.  Members  *)
(* and platform stay away here: what they may do is in AiCreditExecution.  *)
(***************************************************************************)
EXTENDS AiCreditExecution

CONSTANT Patience   \* max_attempts of a row, 2 by default

ASSUME RecoveryAssumption == Patience \in Nat \ {0}

VARIABLE row        \* the ai_generation_tasks row of each operation

rvars == <<evars, row>>

\* attempts is counted as far as it is compared; error is what error_json keeps
\* of the last execution.
Row == [status : {"queued", "running", "provider_pending", "done", "failed"},
        attempts : 0 .. Patience, error : {"none", "fault", "overtaken", "refused"}]

RInit ==
  /\ EInit
  /\ row = [k \in Keys |-> [status |-> "queued", attempts |-> 0, error |-> "none"]]

\* claimAndRunTask(): of several processes the UPDATE lets one through.
Due(k) == row[k].status \in {"queued", "provider_pending"}
Claimed(k, status, error) ==
  row' = [row EXCEPT ![k] =
    [status |-> status, error |-> error,
     attempts |-> IF @.attempts < Patience THEN @.attempts + 1 ELSE Patience]]
Claim(w, k) ==
  /\ Due(k)
  /\ \E request \in Request : Begin(w, k, request)
  /\ Claimed(k, "running", "none")

\* executeClaimedTask(): the member's session cannot be read, and the row fails at
\* once, whatever attempts it has left.
Abandon(k) ==
  /\ Due(k) /\ throws < ThrowBound
  /\ throws' = throws + 1
  /\ Claimed(k, "failed", "fault")
  /\ UNCHANGED <<vars, run, store, job, reviewed, delivered>>

\* executeAuthorizedAiGenerationTask(): the row after an execution that answered,
\* is pending, or failed.
Left(k, outcome) ==
  row' = [row EXCEPT ![k] =
    IF outcome \in {"done", "provider_pending"}
    THEN [@ EXCEPT !.status = outcome]
    ELSE [@ EXCEPT !.status = IF row[k].attempts >= Patience THEN "failed" ELSE "queued",
                   !.error = outcome]]

\* How execute() ends when it ends where it is.
Outcome(w) ==
  LET k == run[w].key  n == run[w].n IN
  CASE \/ At(w, "deliver")
       \/ At(w, "read") /\ run[w].bill = store[k] -> "done"
    [] \/ run[w].at \in {"latest", "recover", "inspect", "current", "start"}
       \/ At(w, "query") /\ job[k][n] # "bad"
       \/ /\ At(w, "report") /\ run[w].failure = "unknown"
          /\ Accepts(tasks[k], attempts[k][n], FailureCall(w)) -> "provider_pending"
    [] At(w, "verify") -> "fault"
    [] \/ At(w, "write")
       \/ run[w].at \in {"settle", "report"} /\ attempts[k][n].status \notin Unresolved
         -> "overtaken"
    [] OTHER -> "refused"

Execute(w) ==
  /\ Work(w)
  /\ IF run'[w].at = "idle" THEN Left(run[w].key, Outcome(w)) ELSE UNCHANGED row

\* A call throws and the row learns of it; or the process dies and it does not.
Fail(w)  == Throw(w) /\ Left(run[w].key, "fault")
Crash(w) == Throw(w) /\ UNCHANGED row

\* recoverAiGenerationTasksOnStartup(), of any of the processes.
Restart(k) ==
  /\ row[k].status \in {"running", "provider_pending"}
  /\ row' = [row EXCEPT ![k].status = "queued"]
  /\ UNCHANGED evars

Provide(k, n) == Finish(k, n) /\ UNCHANGED row

RNext ==
  \/ \E w \in Workers : Execute(w) \/ Fail(w) \/ Crash(w) \/ \E k \in Keys : Claim(w, k)
  \/ \E k \in Keys : Abandon(k) \/ Restart(k) \/ \E n \in AttemptKeys : Provide(k, n)

\* An execution that runs goes on, the queue claims what is due, a process that
\* died starts again, and the provider ends its jobs; it need not forget them.
Orphaned(k) == \A w \in Workers : At(w, "idle") \/ run[w].key # k
RSpec ==
  /\ RInit /\ [][RNext]_rvars
  /\ \A w \in Workers : WF_rvars(Execute(w))
  /\ \A k \in Keys :
       /\ WF_rvars(\E w \in Workers : Claim(w, k))
       /\ WF_rvars(Orphaned(k) /\ Restart(k))
       /\ \A n \in AttemptKeys : WF_rvars(job[k][n] = "processing" /\ Provide(k, n))

-----------------------------------------------------------------------------
\* A submission whose job number was saved gets its outcome, whatever crashed,
\* timed out, or was downloaded twice, unless the provider has no usable result to
\* hand out any more, or the row failed over a fault or over another download that
\* was saved first.  The executor itself never refuses its result.
Known(k, n) == n <= LastOf(k) /\ attempts[k][n].receipt # NoReceipt
Resolved(k, n) == n <= LastOf(k) /\ attempts[k][n].status \notin Unresolved
GaveUp(k) == row[k].status = "failed" /\ row[k].error \in {"fault", "overtaken"}
ReceiptIsResolved ==
  \A k \in Keys, n \in AttemptKeys :
    Known(k, n) ~> Resolved(k, n) \/ job[k][n] \in {"bad", "gone"} \/ GaveUp(k)
=============================================================================
