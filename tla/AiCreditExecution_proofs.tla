------------------------ MODULE AiCreditExecution_proofs ------------------------
(***************************************************************************)
(* What any number of executions, crashes and lost answers can do to any   *)
(* number of tasks.                                                        *)
(***************************************************************************)
EXTENDS AiCreditExecution, AiCreditLedger_proofs, FiniteSetTheorems

\* The step an execution is at or asks permission for.
StepOf(r) == IF r.at = "authorize" THEN r.next ELSE r.at

Asked    == {"reserve", "read", "verify", "query", "start", "deliver"}
Numbered == {"recover", "verify", "query", "start", "submit", "receipt", "poll", "report",
             "write", "settle"}
InHand   == {"verify", "write", "settle", "deliver"}

\* Locals that belong to their step.
LocalsOK(r) ==
  /\ r \in Run
  /\ r.at # "idle" => r.request \in Request
  /\ r.at = "authorize" => r.next \in Asked
  /\ StepOf(r) \in Numbered => r.n \in AttemptKeys
  /\ StepOf(r) \in InHand => r.digest \in Digests
  /\ StepOf(r) = "read" => r.bill \in Digests
  /\ r.at = "report" => r.failure # "none" /\ (r.failure = "retry" => ~Exhausted(r.n))

\* Locals that agree with the tables, the files and the provider.
LocalsFit(r) ==
  /\ r.at = "latest" => LastOf(r.key) >= 1
  /\ StepOf(r) = "start" => r.n <= LastOf(r.key) + 1
  /\ r.at = "submit" => r.n <= LastOf(r.key) /\ job[r.key][r.n] = "none"
  /\ r.at = "report" /\ r.failure \in {"failed", "retry"} => job[r.key][r.n] = "failed"
  /\ StepOf(r) \in {"verify", "settle", "deliver"} => store[r.key] = r.digest

LocalsInv ==
  /\ run \in [Workers -> Run]
  /\ \A w \in Workers : LocalsOK(run[w]) /\ LocalsFit(run[w])

\* What the executor adds to the rows: attempts are numbered, a task under way
\* has one, a bill has a result.
RowsInv ==
  /\ TypeOK /\ RowsLinked /\ AttemptsInv
  /\ \A k \in Keys : \A n \in 1 .. Len(attempts[k]) : attempts[k][n].key = n
  /\ \A k \in Keys : tasks[k].status \in {"running", "unknown"} => Len(attempts[k]) >= 1
  /\ \A k \in Keys : tasks[k].status = "succeeded" => tasks[k].result \in Digests

\* The provider has a job of the attempt, or is about to be asked for one.
Posts(w, k, n) == At(w, "submit") /\ run[w].key = k /\ run[w].n = n
Hot(k, n) == job[k][n] \in Live \/ \E w \in Workers : Posts(w, k, n)

JobTypes == [Keys -> [AttemptKeys -> {"none", "failed"} \cup Live]]

\* Why no job is raced: it belongs to an attempt that is still unresolved, of
\* which an open task has one, or to a closed task, which starts no other.
JobsInv ==
  /\ job \in JobTypes
  /\ \A k \in Keys, n \in AttemptKeys : job[k][n] # "none" => n <= Len(attempts[k])
  /\ \A k \in Keys, n \in AttemptKeys : Hot(k, n) =>
       tasks[k].status \in Final \/ attempts[k][n].status \in Unresolved
  /\ \A k \in Keys, m, n \in AttemptKeys : Hot(k, m) /\ Hot(k, n) => m = n
  /\ \A v, w \in Workers :
       At(v, "submit") /\ At(w, "submit") /\ run[v].key = run[w].key => v = w
  /\ \A k \in Keys, n \in AttemptKeys : tasks[k].status = "failed" /\ k \notin reviewed =>
       ~Hot(k, n)

FilesInv ==
  /\ store \in [Keys -> Digests \cup {NoDigest}]
  /\ BillIsOnFile

IInv == RowsInv /\ LocalsInv /\ JobsInv /\ FilesInv

-----------------------------------------------------------------------------
LEMMA IdleIsOK == Idle \in Run /\ LocalsOK(Idle) /\ Idle.at = "idle"
<1>1. (CHOOSE k \in Keys : TRUE) \in Keys
  BY ExecutorAssumption
<1>2. 0 \in 0 .. AttemptBound
  BY LimitAssumption
<1>3. Idle \in Run
  BY <1>1, <1>2 DEF Idle, Run, Steps
<1>4. Idle.at = "idle"
  BY DEF Idle
<1>5. QED
  BY <1>3, <1>4 DEF LocalsOK, StepOf, Asked, Numbered, InHand

\* authorize() keeps the locals and remembers the step.
LEMMA AskingKeeps ==
  ASSUME NEW r \in Run, NEW step \in Asked
  PROVE  LET x == Asking(r, step) IN
         /\ x \in Run /\ x.at = "authorize" /\ x.next = step /\ StepOf(x) = step
         /\ x.key = r.key /\ x.request = r.request /\ x.bill = r.bill /\ x.n = r.n
         /\ x.receipt = r.receipt /\ x.digest = r.digest /\ x.verified = r.verified
         /\ x.failure = r.failure
<1> DEFINE x == Asking(r, step)
<1>1. step \in Steps /\ "authorize" \in Steps
  BY DEF Asked, Steps
<1>2. x = [r EXCEPT !.at = "authorize", !.next = step]
  BY DEF Asking
<1>3. /\ x \in Run /\ x.at = "authorize" /\ x.next = step
      /\ x.key = r.key /\ x.request = r.request /\ x.bill = r.bill /\ x.n = r.n
      /\ x.receipt = r.receipt /\ x.digest = r.digest /\ x.verified = r.verified
      /\ x.failure = r.failure
  BY <1>1, <1>2 DEF Run
<1>4. StepOf(x) = step
  BY <1>3 DEF StepOf
<1>5. QED
  BY <1>3, <1>4

\* Tables that stay keep what is true of them.
LEMMA RowsStay ==
  ASSUME RowsInv, account' = account, prices' = prices, tasks' = tasks,
         attempts' = attempts, entries' = entries, operators' = operators
  PROVE  RowsInv'
<1>1. TypeOK'
  BY DEF RowsInv, TypeOK
<1>2. RowsLinked'
  BY DEF RowsInv, RowsLinked
<1>3. AttemptsInv'
  BY DEF RowsInv, AttemptsInv, OneUnresolvedAttempt, OpenHasNoSuccess, LateResultFlagged
<1>4. QED
  BY <1>1, <1>2, <1>3 DEF RowsInv

\* A step that changes nothing but its execution's locals, and does not come to
\* a POST, needs locals that fit.
LEMMA Thinks ==
  ASSUME IInv, NEW w \in Workers, NEW x, run' = [run EXCEPT ![w] = x],
         x.at # "submit", LocalsOK(x), LocalsFit(x), UNCHANGED <<vars, store, job, reviewed>>
  PROVE  IInv'
<1>0. /\ account' = account /\ prices' = prices /\ tasks' = tasks /\ attempts' = attempts
      /\ entries' = entries /\ operators' = operators
      /\ store' = store /\ job' = job /\ reviewed' = reviewed
  BY DEF vars
<1>1. RowsInv'
  BY <1>0, RowsStay DEF IInv
<1>2. /\ run' \in [Workers -> Run] /\ run'[w] = x
      /\ \A v \in Workers \ {w} : run'[v] = run[v]
  BY DEF IInv, LocalsInv, LocalsOK
<1>3. \A r : LocalsFit(r)' <=> LocalsFit(r)
  BY <1>0 DEF LocalsFit, LastOf
<1>4. LocalsInv'
  BY <1>2, <1>3 DEF IInv, LocalsInv
<1>5. \A v \in Workers : At(v, "submit")' => At(v, "submit") /\ run'[v] = run[v]
  BY <1>2 DEF At
<1>6. \A k \in Keys, n \in AttemptKeys : Hot(k, n)' => Hot(k, n)
  BY <1>0, <1>5 DEF Hot, Posts
<1>7. JobsInv'
  BY <1>0, <1>5, <1>6 DEF IInv, JobsInv
<1>8. FilesInv'
  BY <1>0 DEF IInv, FilesInv, BillIsOnFile
<1>9. QED
  BY <1>1, <1>4, <1>7, <1>8 DEF IInv

\* An execution that ends.
LEMMA EndsThink ==
  ASSUME IInv, NEW w \in Workers, Ends(w), UNCHANGED <<vars, store, job, reviewed>>
  PROVE  IInv'
<1>1. LocalsFit(Idle)
  BY IdleIsOK DEF LocalsFit, StepOf
<1>2. QED
  BY <1>1, IdleIsOK, Thinks DEF Ends

\* An execution that goes on with the same locals.
LEMMA GoesOn ==
  ASSUME IInv, NEW w \in Workers, NEW step \in {"inspect", "latest", "release", "reserve"},
         GoTo(w, step), run[w].at # "idle",
         step = "latest" => LastOf(run[w].key) >= 1,
         UNCHANGED <<vars, store, job, reviewed>>
  PROVE  IInv'
<1> DEFINE r == run[w]  x == [r EXCEPT !.at = step]
<1>1. r \in Run /\ LocalsOK(r)
  BY DEF IInv, LocalsInv
<1>2. /\ x \in Run /\ x.at = step /\ x.request = r.request /\ x.key = r.key
      /\ run' = [run EXCEPT ![w] = x]
  BY <1>1 DEF Run, Steps, GoTo
<1> HIDE DEF x
<1>3. LocalsOK(x)
  BY <1>1, <1>2 DEF LocalsOK, StepOf, Asked, Numbered, InHand
<1>4. LocalsFit(x)
  BY <1>2 DEF LocalsFit, StepOf
<1>5. QED
  BY <1>2, <1>3, <1>4, Thinks

\* An execution that asks again before its next step.
LEMMA AsksOn ==
  ASSUME IInv, NEW w \in Workers, NEW r, NEW step \in Asked,
         run' = [run EXCEPT ![w] = Asking(r, step)], UNCHANGED <<vars, store, job, reviewed>>,
         r \in Run, r.request \in Request,
         step \in {"verify", "query", "start"} => r.n \in AttemptKeys,
         step \in {"verify", "deliver"} => r.digest \in Digests /\ store[r.key] = r.digest,
         step = "read" => r.bill \in Digests,
         step = "start" => r.n <= LastOf(r.key) + 1
  PROVE  IInv'
<1> DEFINE x == Asking(r, step)
<1>1. /\ x \in Run /\ x.at = "authorize" /\ x.next = step /\ StepOf(x) = step
      /\ x.key = r.key /\ x.request = r.request /\ x.bill = r.bill /\ x.n = r.n
      /\ x.digest = r.digest
  BY AskingKeeps
<1> HIDE DEF x
<1>2. LocalsOK(x)
  BY <1>1 DEF LocalsOK, Asked, Numbered, InHand
<1>3. LocalsFit(x)
  BY <1>1 DEF LocalsFit, Asked
<1>4. QED
  BY <1>1, <1>2, <1>3, Thinks DEF x

LEMMA BeginStep ==
  ASSUME IInv, NEW w \in Workers, NEW k \in Keys, NEW request \in Request, Begin(w, k, request)
  PROVE  IInv'
<1> DEFINE r == [Idle EXCEPT !.key = k, !.request = request]
<1>1. r \in Run /\ r.request \in Request
  BY IdleIsOK DEF Run
<1>2. run' = [run EXCEPT ![w] = Asking(r, "reserve")] /\ UNCHANGED <<vars, store, job, reviewed>>
  BY DEF Begin, outside
<1> HIDE DEF r
<1>3. QED
  BY <1>1, <1>2, AsksOn DEF Asked

LEMMA AuthorizeStep ==
  ASSUME IInv, NEW w \in Workers, Authorize(w)
  PROVE  IInv'
<1> DEFINE r == run[w]  x == [r EXCEPT !.at = r.next]
<1>1. r \in Run /\ LocalsOK(r) /\ LocalsFit(r) /\ r.at = "authorize" /\ r.next \in Asked
  BY DEF Authorize, At, IInv, LocalsInv, LocalsOK
<1>2. UNCHANGED <<vars, store, job, reviewed>>
  BY DEF Authorize, outside
<1>3. CASE GoTo(w, r.next)
  <2>1. /\ x \in Run /\ x.at = r.next /\ x.request = r.request /\ x.key = r.key /\ x.n = r.n
        /\ x.digest = r.digest /\ x.bill = r.bill /\ run' = [run EXCEPT ![w] = x]
    BY <1>1, <1>3 DEF Run, GoTo
  <2> HIDE DEF x
  <2>2. StepOf(x) = x.at /\ StepOf(r) = x.at
    BY <1>1, <2>1 DEF StepOf, Asked
  <2>3. LocalsOK(x)
    BY <1>1, <2>1, <2>2 DEF LocalsOK, Asked
  <2>4. LocalsFit(x)
    BY <1>1, <2>1, <2>2 DEF LocalsFit, Asked
  <2>5. x.at # "submit"
    BY <1>1, <2>1 DEF Asked
  <2>6. QED
    BY <1>2, <2>1, <2>3, <2>4, <2>5, Thinks
<1>4. CASE GoTo(w, "release")
  BY <1>1, <1>2, <1>4, GoesOn
<1>5. CASE Ends(w)
  BY <1>2, <1>5, EndsThink
<1>6. QED
  BY <1>3, <1>4, <1>5 DEF Authorize

LEMMA ReadStep ==
  ASSUME IInv, NEW w \in Workers, Read(w) \/ Deliver(w) \/ Throw(w)
  PROVE  IInv'
<1>1. Ends(w) /\ UNCHANGED <<vars, store, job, reviewed>>
  BY DEF Read, Deliver, Throw, vars
<1>2. QED
  BY <1>1, EndsThink

\* An attempt of a task is an attempt, and its number a key.
LEMMA AttemptIsRow ==
  ASSUME IInv, NEW k \in Keys, LastOf(k) >= 1
  PROVE  /\ attempts[k][LastOf(k)] \in Attempt /\ LastOf(k) \in AttemptKeys
         /\ LastOf(k) \in 1 .. Len(attempts[k])
<1>1. attempts[k] \in Seq(Attempt) /\ LastOf(k) = Len(attempts[k])
  BY DEF IInv, RowsInv, TypeOK, LastOf
<1>2. LastOf(k) \in 1 .. Len(attempts[k]) /\ attempts[k][LastOf(k)] \in Attempt
  BY <1>1
<1>3. attempts[k][LastOf(k)].key = LastOf(k)
  BY <1>2 DEF IInv, RowsInv
<1>4. QED
  BY <1>2, <1>3 DEF Attempt

LEMMA LatestStep ==
  ASSUME IInv, NEW w \in Workers, LatestAttempt(w)
  PROVE  IInv'
<1> DEFINE r == run[w]
           k == r.key
           attempt == attempts[k][LastOf(k)]
           found == [r EXCEPT !.n = LastOf(k), !.receipt = attempt.receipt]
           x == [found EXCEPT !.at = "recover"]
<1>1. r \in Run /\ LocalsOK(r) /\ LocalsFit(r) /\ r.at = "latest" /\ k \in Keys /\ r.request \in Request
  BY DEF LatestAttempt, At, IInv, LocalsInv, LocalsOK, Run
<1>2. UNCHANGED <<vars, store, job, reviewed>>
  BY DEF LatestAttempt, outside
<1>3. attempt \in Attempt /\ LastOf(k) \in AttemptKeys
  BY <1>1, AttemptIsRow DEF LocalsFit
<1>4. /\ found \in Run /\ found.n = LastOf(k) /\ found.request = r.request /\ found.key = k
      /\ x \in Run /\ x.at = "recover" /\ x.n = LastOf(k) /\ x.request = r.request
  <2>1. attempt.receipt \in Receipts \cup {NoReceipt} /\ LastOf(k) \in 0 .. AttemptBound
    BY <1>3 DEF Attempt, AttemptKeys
  <2> HIDE DEF attempt
  <2>2. /\ found \in Run /\ found.n = LastOf(k) /\ found.request = r.request
        /\ found.key = k
    BY <1>1, <2>1 DEF Run
  <2> HIDE DEF found
  <2>3. x \in Run /\ x.at = "recover" /\ x.n = found.n /\ x.request = found.request
    BY <2>2 DEF Run, Steps
  <2>4. QED
    BY <2>2, <2>3
<1>5. \/ run' = [run EXCEPT ![w] = Idle]
      \/ run' = [run EXCEPT ![w] = x]
      \/ run' = [run EXCEPT ![w] = Asking(found, "query")]
  BY DEF LatestAttempt
<1> HIDE DEF found, x
<1>6. CASE run' = [run EXCEPT ![w] = Idle]
  BY <1>2, <1>6, EndsThink DEF Ends
<1>7. CASE run' = [run EXCEPT ![w] = x]
  <2>1. LocalsOK(x) /\ LocalsFit(x) /\ x.at # "submit"
    BY <1>1, <1>3, <1>4 DEF LocalsOK, LocalsFit, StepOf, Asked, Numbered, InHand
  <2>2. QED
    BY <1>2, <1>7, <2>1, Thinks
<1>8. CASE run' = [run EXCEPT ![w] = Asking(found, "query")]
  BY <1>1, <1>2, <1>3, <1>4, <1>8, AsksOn DEF Asked
<1>9. QED
  BY <1>5, <1>6, <1>7, <1>8

LEMMA RecoverStep ==
  ASSUME IInv, NEW w \in Workers, Recover(w)
  PROVE  IInv'
<1> DEFINE r == run[w]
           saved == store[r.key]
           found == [r EXCEPT !.digest = saved]
<1>1. /\ r \in Run /\ r.at = "recover" /\ r.key \in Keys /\ r.request \in Request
      /\ r.n \in AttemptKeys /\ saved \in Digests \cup {NoDigest}
  BY DEF Recover, At, IInv, LocalsInv, LocalsOK, Run, StepOf, Numbered, FilesInv
<1>2. UNCHANGED <<vars, store, job, reviewed>>
  BY DEF Recover, outside
<1>3. found \in Run /\ found.digest = saved /\ found.request = r.request /\ found.key = r.key
      /\ found.n = r.n
  BY <1>1 DEF Run
<1>4. \/ saved # NoDigest /\ run' = [run EXCEPT ![w] = Asking(found, "verify")]
      \/ run' = [run EXCEPT ![w] = Asking(r, "query")]
      \/ Ends(w)
  BY DEF Recover, Asks
<1> HIDE DEF found
<1>5. CASE saved # NoDigest /\ run' = [run EXCEPT ![w] = Asking(found, "verify")]
  BY <1>1, <1>2, <1>3, <1>5, AsksOn DEF Asked
<1>6. CASE run' = [run EXCEPT ![w] = Asking(r, "query")]
  BY <1>1, <1>2, <1>6, AsksOn DEF Asked
<1>7. QED
  BY <1>2, <1>4, <1>5, <1>6, EndsThink

LEMMA VerifyStep ==
  ASSUME IInv, NEW w \in Workers, Verify(w)
  PROVE  IInv'
<1> DEFINE r == run[w]
           x == [r EXCEPT !.at = "settle", !.verified = "stored"]
<1>1. r \in Run /\ LocalsOK(r) /\ LocalsFit(r) /\ r.at = "verify" /\ StepOf(r) = "verify"
  BY DEF Verify, At, IInv, LocalsInv, StepOf
<1>2. /\ UNCHANGED <<vars, store, job, reviewed>>
      /\ run' = [run EXCEPT ![w] = x] \/ Ends(w)
  BY DEF Verify, outside, IInv, LocalsInv
<1>3. /\ x \in Run /\ x.at = "settle" /\ x.request = r.request /\ x.key = r.key /\ x.n = r.n
      /\ x.digest = r.digest
  BY ZenonT(40), <1>1 DEF Run, Steps
<1> HIDE DEF x
<1>4. LocalsOK(x)
  BY <1>1, <1>3 DEF LocalsOK, StepOf, Numbered, InHand
<1>5. LocalsFit(x)
  BY <1>1, <1>3 DEF LocalsFit, StepOf
<1>6. CASE Ends(w)
  BY <1>2, <1>6, EndsThink
<1>7. CASE run' = [run EXCEPT ![w] = x]
  BY <1>2, <1>3, <1>4, <1>5, <1>7, Thinks
<1>8. QED
  BY <1>2, <1>6, <1>7

\* Locals changed one after the other are changed at once.
LEMMA LocalsAtOnce ==
  ASSUME NEW w \in Workers, run \in [Workers -> Run], NEW step, NEW value
  PROVE  /\ [run EXCEPT ![w].at = step] = [run EXCEPT ![w] = [run[w] EXCEPT !.at = step]]
         /\ [run EXCEPT ![w].at = step, ![w].failure = value]
              = [run EXCEPT ![w] = [run[w] EXCEPT !.at = step, !.failure = value]]
         /\ [run EXCEPT ![w].at = step, ![w].digest = value]
              = [run EXCEPT ![w] = [run[w] EXCEPT !.at = step, !.digest = value]]
         /\ [run EXCEPT ![w].at = step, ![w].failure = value, ![w].verified = "receipt"]
              = [run EXCEPT ![w] = [run[w] EXCEPT !.at = step, !.failure = value,
                                                  !.verified = "receipt"]]
         /\ [run EXCEPT ![w].at = step, ![w].digest = value, ![w].verified = "receipt"]
              = [run EXCEPT ![w] = [run[w] EXCEPT !.at = step, !.digest = value,
                                                  !.verified = "receipt"]]
<1>1. [run EXCEPT ![w].at = step] = [run EXCEPT ![w] = [run[w] EXCEPT !.at = step]]
  OBVIOUS
<1>2. [run EXCEPT ![w].at = step, ![w].failure = value]
        = [run EXCEPT ![w] = [run[w] EXCEPT !.at = step, !.failure = value]]
  OBVIOUS
<1>3. [run EXCEPT ![w].at = step, ![w].digest = value]
        = [run EXCEPT ![w] = [run[w] EXCEPT !.at = step, !.digest = value]]
  OBVIOUS
<1>4. [run EXCEPT ![w].at = step, ![w].failure = value, ![w].verified = "receipt"]
        = [run EXCEPT ![w] = [run[w] EXCEPT !.at = step, !.failure = value,
                                            !.verified = "receipt"]]
  OBVIOUS
<1>5. [run EXCEPT ![w].at = step, ![w].digest = value, ![w].verified = "receipt"]
        = [run EXCEPT ![w] = [run[w] EXCEPT !.at = step, !.digest = value,
                                            !.verified = "receipt"]]
  OBVIOUS
<1>6. QED
  BY <1>1, <1>2, <1>3, <1>4, <1>5

\* A result is in hand.
LEMMA Downloads ==
  ASSUME IInv, NEW w \in Workers, NEW x \in Run, x.at = "write", x.request \in Request,
         x.n \in AttemptKeys, x.digest \in Digests, run' = [run EXCEPT ![w] = x],
         UNCHANGED <<vars, store, job, reviewed>>
  PROVE  IInv'
<1>1. LocalsOK(x) /\ LocalsFit(x)
  BY DEF LocalsOK, LocalsFit, StepOf, Numbered, InHand
<1>2. QED
  BY <1>1, Thinks

\* A failure is to be reported.
LEMMA Despairs ==
  ASSUME IInv, NEW w \in Workers, NEW x \in Run, x.at = "report", x.request \in Request,
         x.n \in AttemptKeys, x.failure \in {"failed", "retry", "unknown"},
         x.failure = "retry" => ~Exhausted(x.n),
         x.failure # "unknown" => job[x.key][x.n] = "failed",
         run' = [run EXCEPT ![w] = x], UNCHANGED <<vars, store, job, reviewed>>
  PROVE  IInv'
<1>1. LocalsOK(x) /\ LocalsFit(x)
  BY DEF LocalsOK, LocalsFit, StepOf, Numbered, InHand
<1>2. QED
  BY <1>1, Thinks

LEMMA QueryStep ==
  ASSUME IInv, NEW w \in Workers, Query(w)
  PROVE  IInv'
<1> DEFINE r == run[w]
           x == [r EXCEPT !.at = "report", !.failure = "failed", !.verified = "receipt"]
           y(digest) == [r EXCEPT !.at = "write", !.digest = digest, !.verified = "receipt"]
<1>1. r \in Run /\ r.at = "query" /\ r.request \in Request /\ r.n \in AttemptKeys
  BY DEF Query, At, IInv, LocalsInv, LocalsOK, StepOf, Numbered
<1>2. UNCHANGED <<vars, store, job, reviewed>>
  BY DEF Query, outside
<1>3. /\ x \in Run /\ x.at = "report" /\ x.request = r.request /\ x.key = r.key /\ x.n = r.n
      /\ x.failure = "failed"
  <2>1. "report" \in Steps /\ r \in Run
    BY <1>1 DEF Steps
  <2>2. x \in Run
    BY <2>1 DEF Run
  <2>3. /\ x.at = "report" /\ x.request = r.request /\ x.key = r.key /\ x.n = r.n
        /\ x.failure = "failed"
    BY <2>1 DEF Run
  <2>4. QED
    BY <2>2, <2>3
<1>4. \A digest \in Digests :
        /\ y(digest) \in Run /\ y(digest).at = "write" /\ y(digest).request = r.request
        /\ y(digest).n = r.n /\ y(digest).digest = digest
  BY <1>1 DEF Run, Steps
<1>5. \/ Ends(w)
      \/ job[r.key][r.n] = "failed" /\ run' = [run EXCEPT ![w] = x]
      \/ \E digest \in Digests : run' = [run EXCEPT ![w] = y(digest)]
  <2>1. run \in [Workers -> Run]
    BY DEF IInv, LocalsInv
  <2>2. ASSUME job[r.key][r.n] = "failed",
               run' = [run EXCEPT ![w].at = "report", ![w].failure = "failed",
                                  ![w].verified = "receipt"]
        PROVE  run' = [run EXCEPT ![w] = x]
    BY <2>1, <2>2, LocalsAtOnce
  <2>3. ASSUME NEW digest \in Digests,
               run' = [run EXCEPT ![w].at = "write", ![w].digest = digest,
                                  ![w].verified = "receipt"]
        PROVE  run' = [run EXCEPT ![w] = y(digest)]
    BY <2>1, <2>3, LocalsAtOnce
  <2> HIDE DEF x, y
  <2>4. QED
    BY <2>2, <2>3 DEF Query
<1> HIDE DEF x, y
<1>6. CASE job[r.key][r.n] = "failed" /\ run' = [run EXCEPT ![w] = x]
  BY <1>1, <1>2, <1>3, <1>6, Despairs
<1>7. ASSUME NEW digest \in Digests, run' = [run EXCEPT ![w] = y(digest)]
      PROVE  IInv'
  BY <1>1, <1>2, <1>4, <1>7, Downloads
<1>8. QED
  BY <1>2, <1>5, <1>6, <1>7, EndsThink

\* What a failure may be reported as.
LEMMA FailuresAre ==
  ASSUME NEW n \in AttemptKeys, NEW definite \in BOOLEAN, NEW failure \in Failures(definite, n)
  PROVE  /\ failure \in {"failed", "retry", "unknown"}
         /\ failure = "retry" => ~Exhausted(n)
         /\ failure # "unknown" => definite
BY DEF Failures

LEMMA PollStep ==
  ASSUME IInv, NEW w \in Workers, Poll(w)
  PROVE  IInv'
<1> DEFINE r == run[w]
           x(failure) == [r EXCEPT !.at = "report", !.failure = failure]
           y(digest) == [r EXCEPT !.at = "write", !.digest = digest]
<1>1. r \in Run /\ r.at = "poll" /\ r.request \in Request /\ r.n \in AttemptKeys
  BY DEF Poll, At, IInv, LocalsInv, LocalsOK, StepOf, Numbered
<1>2. UNCHANGED <<vars, store, job, reviewed>>
  BY DEF Poll, outside
<1>3. \A failure \in {"failed", "retry", "unknown"} :
        /\ x(failure) \in Run /\ x(failure).at = "report" /\ x(failure).request = r.request
        /\ x(failure).key = r.key /\ x(failure).n = r.n /\ x(failure).failure = failure
  BY <1>1 DEF Run, Steps
<1>4. \A digest \in Digests :
        /\ y(digest) \in Run /\ y(digest).at = "write" /\ y(digest).request = r.request
        /\ y(digest).n = r.n /\ y(digest).digest = digest
  BY <1>1 DEF Run, Steps
<1>5. \/ \E digest \in Digests : run' = [run EXCEPT ![w] = y(digest)]
      \/ /\ job[r.key][r.n] = "failed"
         /\ \E failure \in Failures(TRUE, r.n) : run' = [run EXCEPT ![w] = x(failure)]
      \/ \E failure \in Failures(FALSE, r.n) : run' = [run EXCEPT ![w] = x(failure)]
  <2>1. run \in [Workers -> Run]
    BY DEF IInv, LocalsInv
  <2>2. ASSUME NEW failure, run' = [run EXCEPT ![w].at = "report", ![w].failure = failure]
        PROVE  run' = [run EXCEPT ![w] = x(failure)]
    BY <2>1, <2>2, LocalsAtOnce
  <2>3. ASSUME NEW digest \in Digests,
               run' = [run EXCEPT ![w].at = "write", ![w].digest = digest]
        PROVE  run' = [run EXCEPT ![w] = y(digest)]
    BY <2>1, <2>3, LocalsAtOnce
  <2> HIDE DEF x, y
  <2>4. QED
    BY <2>2, <2>3 DEF Poll
<1> HIDE DEF x, y
<1>6. ASSUME NEW digest \in Digests, run' = [run EXCEPT ![w] = y(digest)]
      PROVE  IInv'
  BY <1>1, <1>2, <1>4, <1>6, Downloads
<1>7. ASSUME NEW definite \in BOOLEAN, NEW failure \in Failures(definite, r.n),
             definite => job[r.key][r.n] = "failed", run' = [run EXCEPT ![w] = x(failure)]
      PROVE  IInv'
  <2>1. /\ failure \in {"failed", "retry", "unknown"}
        /\ failure = "retry" => ~Exhausted(r.n)
        /\ failure # "unknown" => definite
    BY <1>1, FailuresAre
  <2>2. /\ x(failure) \in Run /\ x(failure).at = "report" /\ x(failure).request = r.request
        /\ x(failure).key = r.key /\ x(failure).n = r.n /\ x(failure).failure = failure
    BY <1>3, <2>1
  <2>3. QED
    BY <1>1, <1>2, <1>7, <2>1, <2>2, Despairs
<1>8. QED
  BY <1>5, <1>6, <1>7

LEMMA InspectStep ==
  ASSUME IInv, NEW w \in Workers, Inspect(w)
  PROVE  IInv'
<1> DEFINE r == run[w]
           x(step) == [r EXCEPT !.at = step]
           next == [r EXCEPT !.n = LastOf(r.key) + 1]
<1>1. /\ r \in Run /\ LocalsOK(r) /\ r.at = "inspect" /\ r.request \in Request /\ r.key \in Keys
  BY DEF Inspect, At, IInv, LocalsInv, LocalsOK, Run
<1>2. UNCHANGED <<vars, store, job, reviewed>>
  BY DEF Inspect, outside
<1>3. \A step \in {"current", "release"} :
        /\ x(step) \in Run /\ x(step).at = step /\ x(step).request = r.request
  BY <1>1 DEF Run, Steps
<1>4. \/ Ends(w)
      \/ \E step \in {"current", "release"} : run' = [run EXCEPT ![w] = x(step)]
      \/ ~Exhausted(LastOf(r.key)) /\ run' = [run EXCEPT ![w] = Asking(next, "start")]
  <2>1. run \in [Workers -> Run]
    BY DEF IInv, LocalsInv
  <2> DEFINE status == IF LastOf(r.key) = 0 THEN "none" ELSE attempts[r.key][LastOf(r.key)].status
  <2>2. run' = [run EXCEPT ![w] =
           IF ~IsOperator(w) \/ status \in Unresolved THEN Idle
           ELSE IF status = "succeeded" THEN x("current")
           ELSE IF Exhausted(LastOf(r.key)) THEN x("release")
           ELSE Asking(next, "start")]
    BY <2>1 DEF Inspect
  <2> HIDE DEF x, next, status
  <2>3. QED
    BY <2>2 DEF Ends
<1> HIDE DEF x
<1>5. ASSUME NEW step \in {"current", "release"}, run' = [run EXCEPT ![w] = x(step)]
      PROVE  IInv'
  <2>1. LocalsOK(x(step)) /\ LocalsFit(x(step)) /\ x(step).at # "submit"
    BY <1>1, <1>3 DEF LocalsOK, LocalsFit, StepOf, Numbered, InHand
  <2>2. QED
    BY <1>2, <1>5, <2>1, Thinks
<1>6. CASE ~Exhausted(LastOf(r.key)) /\ run' = [run EXCEPT ![w] = Asking(next, "start")]
  <2>1. LastOf(r.key) \in Nat
    BY <1>1 DEF LastOf, IInv, RowsInv, TypeOK
  <2>2. LastOf(r.key) + 1 \in AttemptKeys
    BY <1>6, <2>1, ExecutorAssumption, LimitAssumption DEF Exhausted, AttemptKeys
  <2>3. /\ next \in Run /\ next.n = LastOf(r.key) + 1 /\ next.request = r.request
        /\ next.key = r.key
    BY <1>1, <2>2 DEF Run, AttemptKeys
  <2> HIDE DEF next
  <2>4. next.n <= LastOf(next.key) + 1 /\ next.n \in AttemptKeys /\ next.request \in Request
    BY <1>1, <2>1, <2>2, <2>3
  <2>5. "start" \in Asked
    BY DEF Asked
  <2>6. QED
    BY <1>2, <1>6, <2>3, <2>4, <2>5, AsksOn
<1>7. QED
  BY <1>2, <1>4, <1>5, <1>6, EndsThink

\* An execution that goes to read what was billed.
LEMMA Answers ==
  ASSUME IInv, NEW w \in Workers, run[w].at # "idle", tasks[run[w].key].status = "succeeded",
         run' = [run EXCEPT ![w] = Asking([@ EXCEPT !.bill = tasks[run[w].key].result], "read")],
         UNCHANGED <<vars, store, job, reviewed>>
  PROVE  IInv'
<1> DEFINE r == run[w]
           result == tasks[r.key].result
           x == [r EXCEPT !.bill = result]
<1>1. r \in Run /\ r.request \in Request /\ result \in Digests
  BY DEF IInv, LocalsInv, LocalsOK, Run, RowsInv
<1>2. run' = [run EXCEPT ![w] = Asking(x, "read")]
  BY DEF IInv, LocalsInv
<1> HIDE DEF result
<1>3. x \in Run /\ x.bill = result /\ x.request = r.request /\ x.key = r.key
  BY <1>1 DEF Run
<1> HIDE DEF x
<1>4. QED
  BY <1>1, <1>2, <1>3, AsksOn DEF Asked

LEMMA CurrentStep ==
  ASSUME IInv, NEW w \in Workers, Current(w)
  PROVE  IInv'
<1>1. UNCHANGED <<vars, store, job, reviewed>> /\ run[w].at = "current"
  BY DEF Current, outside, At
<1>2. \/ Ends(w)
      \/ /\ tasks[run[w].key].status = "succeeded"
         /\ run' = [run EXCEPT ![w] = Asking([@ EXCEPT !.bill = tasks[run[w].key].result], "read")]
  BY DEF Current, Ends, IInv, LocalsInv
<1>3. QED
  BY <1>1, <1>2, EndsThink, Answers

-----------------------------------------------------------------------------
\* The rows as the invariant knows them.
LEMMA RowTypes ==
  ASSUME IInv, NEW k \in Keys
  PROVE  /\ tasks[k] \in Task /\ attempts[k] \in Seq(Attempt)
         /\ LastOf(k) = Len(attempts[k]) /\ LastOf(k) \in Nat
         /\ \A n \in 1 .. LastOf(k) : n \in AttemptKeys /\ attempts[k][n] \in Attempt
<1>1. tasks[k] \in Task /\ attempts[k] \in Seq(Attempt) /\ LastOf(k) = Len(attempts[k])
  BY DEF IInv, RowsInv, TypeOK, LastOf
<1>2. LastOf(k) \in Nat
  BY <1>1
<1>3. ASSUME NEW n \in 1 .. LastOf(k)
      PROVE  n \in AttemptKeys /\ attempts[k][n] \in Attempt
  <2>1. attempts[k][n] \in Attempt /\ attempts[k][n].key = n
    BY <1>1, <1>3 DEF IInv, RowsInv
  <2>2. QED
    BY <2>1 DEF Attempt
<1>4. QED
  BY <1>1, <1>2, <1>3

\* A job that is live or about to be belongs to an attempt on file; of a task
\* that is not closed it is the last one, and the task is under way.
LEMMA HotIsUnderWay ==
  ASSUME IInv, NEW k \in Keys, NEW n \in AttemptKeys, Hot(k, n)
  PROVE  /\ n \in 1 .. LastOf(k)
         /\ tasks[k].status \notin Final =>
              n = LastOf(k) /\ tasks[k].status \in {"running", "unknown"}
<1>1. LastOf(k) = Len(attempts[k]) /\ LastOf(k) \in Nat /\ n \in Nat /\ n >= 1
  BY RowTypes DEF AttemptKeys
<1>2. n <= LastOf(k)
  <2>1. CASE job[k][n] \in Live
    BY <1>1, <2>1 DEF IInv, JobsInv, Live
  <2>2. ASSUME NEW w \in Workers, Posts(w, k, n)
        PROVE  n <= LastOf(k)
    BY <2>2 DEF Posts, At, IInv, LocalsInv, LocalsFit
  <2>3. QED
    BY <2>1, <2>2 DEF Hot
<1>3. tasks[k].status \in Final \/ attempts[k][n].status \in Unresolved
  BY DEF IInv, JobsInv
<1>4. QED
  BY <1>1, <1>2, <1>3 DEF IInv, RowsInv, AttemptsInv, OneUnresolvedAttempt

\* A step of the ledger on one task keeps the rows, the files, and the locals of
\* the executions it does not move.
LEMMA TablesKept ==
  ASSUME IInv, [Next]_vars, UNCHANGED <<store, job>>, NEW k \in Keys,
         reviewed \subseteq reviewed',
         run' \in [Workers -> Run],
         \A v \in Workers :
           run'[v] = run[v] \/ (LocalsOK(run[v])' /\ LocalsFit(run[v])'),
         \A j \in Keys \ {k} : tasks'[j] = tasks[j] /\ attempts'[j] = attempts[j],
         Len(attempts'[k]) >= Len(attempts[k]),
         \A n \in 1 .. Len(attempts'[k]) : attempts'[k][n].key = n,
         tasks'[k].status \in {"running", "unknown"} => Len(attempts'[k]) >= 1,
         tasks'[k].status = "succeeded" =>
           /\ tasks'[k].result \in Digests
           /\ k \notin reviewed' => store[k] = tasks'[k].result
  PROVE  /\ RowsInv' /\ LocalsInv' /\ FilesInv'
         /\ \A j \in Keys, n \in AttemptKeys :
              job[j][n] # "none" => n <= Len(attempts'[j])
<1>1. TypeOK' /\ RowsLinked' /\ AttemptsInv'
  BY LinkedStep, AttemptsStep DEF IInv, RowsInv
<1>2. RowsInv'
  <2>1. \A j \in Keys : \A n \in 1 .. Len(attempts'[j]) : attempts'[j][n].key = n
    BY DEF IInv, RowsInv
  <2>2. \A j \in Keys : tasks'[j].status \in {"running", "unknown"} => Len(attempts'[j]) >= 1
    BY DEF IInv, RowsInv
  <2>3. \A j \in Keys : tasks'[j].status = "succeeded" => tasks'[j].result \in Digests
    BY DEF IInv, RowsInv
  <2>4. QED
    BY <1>1, <2>1, <2>2, <2>3 DEF RowsInv
<1>3. \A j \in Keys : Len(attempts[j]) \in Nat /\ Len(attempts'[j]) \in Nat
                       /\ Len(attempts'[j]) >= Len(attempts[j])
  <2>1. \A j \in Keys : Len(attempts[j]) \in Nat
    BY RowTypes
  <2>2. \A j \in Keys : Len(attempts'[j]) \in Nat
    BY <1>1 DEF TypeOK
  <2>3. QED
    BY <2>1, <2>2
<1>4. ASSUME NEW v \in Workers
      PROVE  LocalsOK(run[v])' /\ LocalsFit(run[v])'
  <2>1. CASE run'[v] = run[v]
    <3>1. LocalsOK(run[v]) /\ LocalsFit(run[v]) /\ run[v] \in Run
      BY DEF IInv, LocalsInv
    <3>2. LocalsOK(run[v])'
      BY <2>1, <3>1 DEF LocalsOK, StepOf
    <3>3. run[v].key \in Keys /\ run[v].n \in Nat
      BY <3>1, LimitAssumption DEF Run
    <3>4. LocalsFit(run[v])'
      BY <1>3, <2>1, <3>1, <3>3 DEF LocalsFit, StepOf, LastOf
    <3>5. QED
      BY <3>2, <3>4
  <2>2. QED
    BY <2>1
<1>5. LocalsInv'
  BY <1>4 DEF LocalsInv
<1>6. FilesInv'
  BY DEF IInv, FilesInv, BillIsOnFile
<1>7. ASSUME NEW j \in Keys, NEW n \in AttemptKeys, job[j][n] # "none"
      PROVE  n <= Len(attempts'[j])
  BY <1>3, <1>7 DEF IInv, JobsInv, AttemptKeys
<1>8. QED
  BY <1>2, <1>5, <1>6, <1>7

\* A step of the ledger on one task, which starts no job.
LEMMA RowMoves ==
  ASSUME IInv, [Next]_vars, UNCHANGED <<store, job>>, NEW k \in Keys,
         reviewed \subseteq reviewed',
         run' \in [Workers -> Run],
         \A v \in Workers :
           \/ run'[v] = run[v]
           \/ LocalsOK(run[v])' /\ LocalsFit(run[v])' /\ run'[v].at # "submit",
         \A j \in Keys \ {k} : tasks'[j] = tasks[j] /\ attempts'[j] = attempts[j],
         Len(attempts'[k]) >= Len(attempts[k]),
         \A n \in 1 .. Len(attempts'[k]) : attempts'[k][n].key = n,
         tasks'[k].status \in {"running", "unknown"} => Len(attempts'[k]) >= 1,
         tasks'[k].status = "succeeded" =>
           /\ tasks'[k].result \in Digests
           /\ k \notin reviewed' => store[k] = tasks'[k].result,
         \A n \in AttemptKeys : Hot(k, n) =>
           tasks'[k].status \in Final \/ attempts'[k][n].status \in Unresolved,
         tasks'[k].status = "failed" /\ k \notin reviewed' =>
           \A n \in AttemptKeys : ~Hot(k, n)
  PROVE  IInv'
<1>1. /\ RowsInv' /\ LocalsInv' /\ FilesInv'
      /\ \A j \in Keys, n \in AttemptKeys : job[j][n] # "none" => n <= Len(attempts'[j])
  <2>1. \A v \in Workers :
          run'[v] = run[v] \/ (LocalsOK(run[v])' /\ LocalsFit(run[v])')
    OBVIOUS
  <2>2. QED
    BY <2>1, TablesKept
<1>2. \A v \in Workers : At(v, "submit")' => At(v, "submit") /\ run'[v] = run[v]
  BY DEF At
<1>3. \A j \in Keys, n \in AttemptKeys : Hot(j, n)' => Hot(j, n)
  BY <1>2 DEF Hot, Posts
<1>4. JobsInv'
  <2>1. job' \in JobTypes /\ \A j \in Keys, n \in AttemptKeys :
          job'[j][n] # "none" => n <= Len(attempts'[j])
    BY <1>1 DEF IInv, JobsInv
  <2>2. \A j \in Keys, n \in AttemptKeys : Hot(j, n)' =>
          tasks'[j].status \in Final \/ attempts'[j][n].status \in Unresolved
    BY <1>3 DEF IInv, JobsInv
  <2>3. \A j \in Keys, m, n \in AttemptKeys : Hot(j, m)' /\ Hot(j, n)' => m = n
    BY <1>3 DEF IInv, JobsInv
  <2>4. \A u, v \in Workers :
          At(u, "submit")' /\ At(v, "submit")' /\ run'[u].key = run'[v].key => u = v
    BY <1>2 DEF IInv, JobsInv
  <2>5. \A j \in Keys, n \in AttemptKeys :
          tasks'[j].status = "failed" /\ j \notin reviewed' => ~Hot(j, n)'
    BY <1>3 DEF IInv, JobsInv
  <2>6. QED
    BY <2>1, <2>2, <2>3, <2>4, <2>5 DEF JobsInv
<1>5. QED
  BY <1>1, <1>4 DEF IInv

\* The locals an execution goes on with after a step of the ledger.
LEMMA WorkerMoves ==
  ASSUME IInv, NEW w \in Workers, NEW x \in Run, run' = [run EXCEPT ![w] = x],
         LocalsOK(run[w])', LocalsFit(run[w])', x.at # "submit"
  PROVE  /\ run' \in [Workers -> Run]
         /\ \A v \in Workers :
              \/ run'[v] = run[v]
              \/ LocalsOK(run[v])' /\ LocalsFit(run[v])' /\ run'[v].at # "submit"
<1>1. run \in [Workers -> Run]
  BY DEF IInv, LocalsInv
<1>2. /\ run' \in [Workers -> Run] /\ run'[w] = x
      /\ \A v \in Workers \ {w} : run'[v] = run[v]
  BY <1>1
<1>3. QED
  BY <1>2

LEMMA EndsMoves ==
  ASSUME IInv, NEW w \in Workers, Ends(w)
  PROVE  /\ run' \in [Workers -> Run]
         /\ \A v \in Workers :
              \/ run'[v] = run[v]
              \/ LocalsOK(run[v])' /\ LocalsFit(run[v])' /\ run'[v].at # "submit"
<1>1. run'[w] = Idle /\ run' = [run EXCEPT ![w] = Idle]
  BY DEF Ends, IInv, LocalsInv
<1>2. LocalsOK(run[w])'
  BY <1>1, IdleIsOK DEF LocalsOK, StepOf
<1>3. LocalsFit(run[w])'
  BY <1>1, IdleIsOK DEF LocalsFit, StepOf
<1>4. QED
  BY <1>1, <1>2, <1>3, IdleIsOK, WorkerMoves

LEMMA ReserveStep ==
  ASSUME IInv, NEW w \in Workers, ReserveTask(w)
  PROVE  IInv'
<1> DEFINE r == run[w]  k == r.key
<1>1. /\ r \in Run /\ LocalsOK(r) /\ r.at = "reserve" /\ r.request \in Request /\ k \in Keys
  BY DEF ReserveTask, At, IInv, LocalsInv, LocalsOK, Run
<1>2. UNCHANGED <<store, job, reviewed>>
  BY DEF ReserveTask, outside
<1>3. CASE Reserve(k, r.request) /\ GoTo(w, "inspect")
  <2> DEFINE x == [r EXCEPT !.at = "inspect"]
  <2>1. /\ x \in Run /\ x.at = "inspect" /\ x.request = r.request
        /\ run' = [run EXCEPT ![w] = x] /\ run'[w] = x
    BY <1>1, <1>3 DEF Run, Steps, GoTo, IInv, LocalsInv
  <2> HIDE DEF x
  <2>2. LocalsOK(run[w])' /\ LocalsFit(run[w])'
    <3>1. LocalsOK(run[w])'
      BY <1>1, <2>1 DEF LocalsOK, StepOf, Numbered, InHand
    <3>2. LocalsFit(run[w])'
      BY <1>1, <2>1 DEF LocalsFit, StepOf
    <3>3. QED
      BY <3>1, <3>2
  <2>3. [Next]_vars
    BY <1>1, <1>3 DEF Next, Member
  <2>4. /\ attempts' = attempts /\ tasks'[k].status = "reserved" /\ attempts[k] = << >>
        /\ \A j \in Keys \ {k} : tasks'[j] = tasks[j]
    BY <1>1, <1>3 DEF Reserve, IInv, RowsInv, TypeOK, RowsLinked
  <2>5. Len(attempts'[k]) = 0 /\ LastOf(k) = 0
    BY <2>4 DEF LastOf
  <2>6. \A n \in AttemptKeys : ~Hot(k, n)
    BY <1>1, <2>5, HotIsUnderWay
  <2>7. /\ run' \in [Workers -> Run]
        /\ \A v \in Workers :
             \/ run'[v] = run[v]
             \/ LocalsOK(run[v])' /\ LocalsFit(run[v])' /\ run'[v].at # "submit"
    BY <2>1, <2>2, WorkerMoves
  <2>8. \A n \in 1 .. Len(attempts'[k]) : attempts'[k][n].key = n
    BY <2>5
  <2>9. Len(attempts'[k]) >= Len(attempts[k])
    BY <2>4, <2>5
  <2>10. QED
    BY <1>1, <1>2, <2>3, <2>4, <2>6, <2>7, <2>8, <2>9, RowMoves
<1>4. CASE Dispatch(w, tasks[k]) /\ UNCHANGED vars
  <2>1. UNCHANGED <<vars, store, job, reviewed>>
    BY <1>2, <1>4
  <2>2. CASE tasks[k].status \in {"running", "unknown"} /\ GoTo(w, "latest")
    <3>1. LastOf(k) >= 1
      BY <1>1, <2>2 DEF IInv, RowsInv, LastOf
    <3>2. QED
      BY <1>1, <2>1, <2>2, <3>1, GoesOn
  <2>3. CASE GoTo(w, "inspect")
    BY <1>1, <2>1, <2>3, GoesOn
  <2>4. CASE Ends(w)
    BY <2>1, <2>4, EndsThink
  <2>5. CASE /\ tasks[k].status = "succeeded"
             /\ run' = [run EXCEPT ![w] = Asking([@ EXCEPT !.bill = tasks[k].result], "read")]
    BY <1>1, <2>1, <2>5, Answers
  <2>6. QED
    BY <1>4, <2>2, <2>3, <2>4, <2>5 DEF Dispatch
<1>5. CASE Ends(w) /\ UNCHANGED vars
  BY <1>2, <1>5, EndsThink
<1>6. QED
  BY <1>3, <1>4, <1>5 DEF ReserveTask

\* A settlement closes one task, of which no job may be under way unless it was
\* delivered or reviewed.
LEMMA SettleMoves ==
  ASSUME IInv, NEW k \in Keys, NEW count \in Nat, NEW digest,
         Settle(k, count, digest)
  PROVE  /\ tasks'[k].status = IF count = 0 THEN "failed" ELSE "succeeded"
         /\ tasks'[k].result = IF count = 0 THEN NoDigest ELSE digest
         /\ \A j \in Keys \ {k} : tasks'[j] = tasks[j]
BY SettleRow DEF IInv, RowsInv

LEMMA ReleaseStep ==
  ASSUME IInv, NEW w \in Workers, Release(w)
  PROVE  IInv'
<1> DEFINE k == run[w].key
<1>1. k \in Keys /\ Ends(w) /\ UNCHANGED <<store, job, reviewed>>
  BY DEF Release, outside, IInv, LocalsInv, Run
<1>2. CASE ReleaseUnsubmitted(k)
  <2>1. [Next]_vars
    BY <1>1, <1>2 DEF Next, Member
  <2>2. /\ tasks[k].status = "reserved" /\ attempts' = attempts /\ Settle(k, 0, NoDigest)
    BY <1>2 DEF ReleaseUnsubmitted
  <2>3. tasks'[k].status = "failed" /\ \A j \in Keys \ {k} : tasks'[j] = tasks[j]
    BY <1>1, <2>2, SettleMoves
  <2>4. \A n \in AttemptKeys : ~Hot(k, n)
    BY <1>1, <2>2, HotIsUnderWay DEF Final
  <2>5. /\ Len(attempts'[k]) >= Len(attempts[k])
        /\ \A n \in 1 .. Len(attempts'[k]) : attempts'[k][n].key = n
    BY <1>1, <2>2, RowTypes DEF IInv, RowsInv
  <2>6. /\ run' \in [Workers -> Run]
        /\ \A v \in Workers :
             \/ run'[v] = run[v]
             \/ LocalsOK(run[v])' /\ LocalsFit(run[v])' /\ run'[v].at # "submit"
    BY <1>1, EndsMoves
  <2>7. QED
    BY <1>1, <2>1, <2>2, <2>3, <2>4, <2>5, <2>6, RowMoves
<1>3. CASE UNCHANGED vars
  BY <1>1, <1>3, EndsThink
<1>4. QED
  BY <1>2, <1>3 DEF Release

\* Nobody submits for a task that has no job under way.
LEMMA NobodyPosts ==
  ASSUME IInv, NEW k \in Keys, \A n \in AttemptKeys : ~Hot(k, n), NEW v \in Workers,
         At(v, "submit")
  PROVE  run[v].key # k
<1>1. run[v].n \in AttemptKeys
  BY DEF IInv, LocalsInv, LocalsOK, At, StepOf, Numbered
<1>2. QED
  BY <1>1 DEF Hot, Posts

\* The marker is committed: the execution comes to its POST, alone.
LEMMA Marks ==
  ASSUME IInv, NEW w \in Workers, NEW k \in Keys, NEW n \in AttemptKeys,
         run[w].key = k, run[w].n = n, run[w].request \in Request, n <= LastOf(k) + 1,
         NEW provider \in Providers, StartAttempt(k, n, provider), GoTo(w, "submit"),
         UNCHANGED <<store, job, reviewed>>
  PROVE  IInv'
<1> DEFINE x == [run[w] EXCEPT !.at = "submit"]
           row == [key |-> n, provider |-> provider, status |-> "submitted",
                   receipt |-> NoReceipt, digest |-> NoDigest, conflict |-> FALSE]
<1>1. /\ run'[w] \in Run /\ run'[w].at = "submit" /\ run'[w].request \in Request
      /\ run'[w].key = k /\ run'[w].n = n
      /\ run' \in [Workers -> Run] /\ \A v \in Workers \ {w} : run'[v] = run[v]
  <2>1. run \in [Workers -> Run]
    BY DEF IInv, LocalsInv
  <2>2. /\ x \in Run /\ x.at = "submit" /\ x.request = run[w].request /\ x.key = run[w].key
        /\ x.n = run[w].n /\ run' = [run EXCEPT ![w] = x]
    BY <2>1 DEF Run, Steps, GoTo
  <2> HIDE DEF x
  <2>3. QED
    BY <2>1, <2>2
<1>2. /\ attempts[k] \in Seq(Attempt) /\ LastOf(k) = Len(attempts[k]) /\ LastOf(k) \in Nat
      /\ tasks[k] \in Task
  BY RowTypes
<1>3. \A m \in 1 .. LastOf(k) : attempts[k][m].key = m
  BY <1>2 DEF IInv, RowsInv
<1>4. n = LastOf(k) + 1
  <2>1. \A m \in 1 .. LastOf(k) : n # m
    BY <1>2, <1>3 DEF StartAttempt
  <2>2. QED
    BY <1>2, <2>1 DEF AttemptKeys
<1>5. row \in Attempt /\ row.key = n /\ row.status = "submitted"
  BY DEF Attempt
<1>6. /\ attempts'[k] = Append(attempts[k], row) /\ tasks'[k].status = "running"
      /\ tasks[k].status = "reserved"
      /\ \A j \in Keys \ {k} : tasks'[j] = tasks[j] /\ attempts'[j] = attempts[j]
  BY DEF StartAttempt, IsSubmittable, IInv, RowsInv, TypeOK, Task
<1> HIDE DEF row
<1>7. /\ Len(attempts'[k]) = n /\ attempts'[k][n] = row
      /\ \A m \in 1 .. LastOf(k) : attempts'[k][m] = attempts[k][m]
  BY <1>2, <1>4, <1>5, <1>6
<1>8. Len(attempts'[k]) >= Len(attempts[k]) /\ Len(attempts'[k]) >= 1 /\ n \in Nat
  BY <1>2, <1>4, <1>7
<1>9. \A m \in 1 .. Len(attempts'[k]) : attempts'[k][m].key = m
  BY <1>2, <1>3, <1>4, <1>5, <1>7
<1>10. \A m \in AttemptKeys : ~Hot(k, m)
  BY <1>6, HotIsUnderWay DEF Final
<1>11. job[k][n] = "none"
  BY <1>2, <1>4 DEF IInv, JobsInv
<1>12. LocalsOK(run[w])' /\ LocalsFit(run[w])'
  <2>1. LocalsOK(run[w])'
    BY <1>1 DEF LocalsOK, StepOf, Numbered, InHand
  <2>2. LocalsFit(run[w])'
    BY <1>1, <1>7, <1>8, <1>11 DEF LocalsFit, StepOf, LastOf
  <2>3. QED
    BY <2>1, <2>2
<1>13. /\ RowsInv' /\ LocalsInv' /\ FilesInv'
       /\ \A j \in Keys, m \in AttemptKeys :
            job[j][m] # "none" => m <= Len(attempts'[j])
  <2>1. [Next]_vars
    BY DEF Next, Member
  <2>2. \A v \in Workers :
          run'[v] = run[v] \/ (LocalsOK(run[v])' /\ LocalsFit(run[v])')
    BY <1>1, <1>12
  <2>3. QED
    BY <1>1, <1>6, <1>8, <1>9, <2>1, <2>2, TablesKept
<1>14. JobsInv'
  <2>1. \A v \in Workers \ {w} : At(v, "submit")' => At(v, "submit") /\ run[v].key # k
    BY <1>1, <1>10, NobodyPosts DEF At
  <2>2. \A j \in Keys, m \in AttemptKeys : Hot(j, m)' =>
          IF j = k THEN m = n ELSE Hot(j, m)
    <3>1. ASSUME NEW j \in Keys, NEW m \in AttemptKeys, Hot(j, m)'
          PROVE  Hot(j, m) \/ Posts(w, j, m)'
      BY <1>1, <3>1 DEF Hot, Posts, At
    <3>2. \A j \in Keys, m \in AttemptKeys : Posts(w, j, m)' => j = k /\ m = n
      BY <1>1 DEF Posts
    <3>3. QED
      BY <1>10, <3>1, <3>2
  <2>3. job' \in JobTypes /\ \A j \in Keys, m \in AttemptKeys :
          job'[j][m] # "none" => m <= Len(attempts'[j])
    BY <1>13 DEF IInv, JobsInv
  <2>4. \A j \in Keys, m \in AttemptKeys : Hot(j, m)' =>
          tasks'[j].status \in Final \/ attempts'[j][m].status \in Unresolved
    <3>1. attempts'[k][n].status \in Unresolved
      BY <1>5, <1>7 DEF Unresolved
    <3>2. QED
      BY ZenonT(40), <1>6, <2>2, <3>1 DEF IInv, JobsInv
  <2>5. \A j \in Keys, m, o \in AttemptKeys : Hot(j, m)' /\ Hot(j, o)' => m = o
    BY <2>2 DEF IInv, JobsInv
  <2>6. \A u, v \in Workers :
          At(u, "submit")' /\ At(v, "submit")' /\ run'[u].key = run'[v].key => u = v
    BY <1>1, <2>1 DEF IInv, JobsInv
  <2>7. \A j \in Keys, m \in AttemptKeys :
          tasks'[j].status = "failed" /\ j \notin reviewed' => ~Hot(j, m)'
    BY <1>6, <2>2 DEF IInv, JobsInv
  <2>8. QED
    BY <2>3, <2>4, <2>5, <2>6, <2>7 DEF JobsInv
<1>15. QED
  BY <1>13, <1>14 DEF IInv

LEMMA StartStep ==
  ASSUME IInv, NEW w \in Workers, Start(w)
  PROVE  IInv'
<1> DEFINE r == run[w]  k == r.key  n == r.n
<1>1. /\ r \in Run /\ LocalsOK(r) /\ r.at = "start" /\ r.request \in Request /\ k \in Keys
      /\ n \in AttemptKeys /\ n <= LastOf(k) + 1
  BY DEF Start, At, IInv, LocalsInv, LocalsOK, LocalsFit, Run, StepOf, Numbered
<1>2. UNCHANGED <<store, job, reviewed>>
  BY DEF Start, outside
<1>3. ASSUME NEW provider \in Providers, StartAttempt(k, n, provider), GoTo(w, "submit")
      PROVE  IInv'
  BY <1>1, <1>2, <1>3, Marks
<1>4. CASE Ends(w) /\ UNCHANGED vars
  BY <1>2, <1>4, EndsThink
<1>5. CASE GoTo(w, "release") /\ UNCHANGED vars
  BY <1>1, <1>2, <1>5, GoesOn
<1>6. QED
  BY <1>3, <1>4, <1>5 DEF Start

-----------------------------------------------------------------------------
\* A step that changes one job, and of the executions at most one that was
\* waiting for that job's answer: no job becomes live that nobody was about to
\* ask for.
LEMMA JobMoves ==
  ASSUME IInv, UNCHANGED <<vars, store, reviewed>>, run' \in [Workers -> Run],
         NEW k \in Keys, NEW n \in AttemptKeys, NEW state \in {"none", "failed"} \cup Live,
         job' = [job EXCEPT ![k][n] = state],
         n <= LastOf(k), state \in Live => Hot(k, n),
         \A v \in Workers :
           \/ run'[v] = run[v] /\ LocalsFit(run[v])'
           \/ LocalsOK(run[v])' /\ LocalsFit(run[v])' /\ run'[v].at # "submit"
  PROVE  IInv'
<1>1. /\ account' = account /\ prices' = prices /\ tasks' = tasks /\ attempts' = attempts
      /\ entries' = entries /\ operators' = operators
      /\ store' = store /\ reviewed' = reviewed
  BY DEF vars
<1>2. RowsInv'
  BY <1>1 DEF IInv, RowsInv, TypeOK, RowsLinked, AttemptsInv, OneUnresolvedAttempt,
              OpenHasNoSuccess, LateResultFlagged
<1>3. LocalsInv'
  <2>1. \A v \in Workers : run'[v] = run[v] => LocalsOK(run[v])'
    BY DEF IInv, LocalsInv, LocalsOK, StepOf
  <2>2. QED
    BY <2>1 DEF LocalsInv
<1>4. \A v \in Workers : At(v, "submit")' => At(v, "submit") /\ run'[v] = run[v]
  BY DEF At
<1>5. /\ job' \in JobTypes /\ job'[k][n] = state
      /\ \A j \in Keys, m \in AttemptKeys : j # k \/ m # n => job'[j][m] = job[j][m]
  BY DEF IInv, JobsInv, JobTypes
<1>6. \A j \in Keys, m \in AttemptKeys : Hot(j, m)' => Hot(j, m)
  <2>1. ASSUME NEW j \in Keys, NEW m \in AttemptKeys, Hot(j, m)', job'[j][m] \in Live
        PROVE  Hot(j, m)
    BY <1>5, <2>1 DEF Hot
  <2>2. QED
    BY <1>4, <2>1 DEF Hot, Posts
<1>7. JobsInv'
  <2>1. \A j \in Keys, m \in AttemptKeys : job'[j][m] # "none" => m <= Len(attempts'[j])
    BY <1>1, <1>5 DEF IInv, JobsInv, LastOf
  <2>2. \A j \in Keys, m \in AttemptKeys : Hot(j, m)' =>
          tasks'[j].status \in Final \/ attempts'[j][m].status \in Unresolved
    BY <1>1, <1>6 DEF IInv, JobsInv
  <2>3. \A j \in Keys, m, o \in AttemptKeys : Hot(j, m)' /\ Hot(j, o)' => m = o
    BY <1>6 DEF IInv, JobsInv
  <2>4. \A u, v \in Workers :
          At(u, "submit")' /\ At(v, "submit")' /\ run'[u].key = run'[v].key => u = v
    BY <1>4 DEF IInv, JobsInv
  <2>5. \A j \in Keys, m \in AttemptKeys :
          tasks'[j].status = "failed" /\ j \notin reviewed' => ~Hot(j, m)'
    BY <1>1, <1>6 DEF IInv, JobsInv
  <2>6. QED
    BY <1>5, <2>1, <2>2, <2>3, <2>4, <2>5 DEF JobsInv
<1>8. FilesInv'
  BY <1>1 DEF IInv, FilesInv, BillIsOnFile
<1>9. QED
  BY <1>2, <1>3, <1>7, <1>8 DEF IInv

LEMMA FinishStep ==
  ASSUME IInv, NEW k \in Keys, NEW n \in AttemptKeys, Finish(k, n)
  PROVE  IInv'
<1>1. /\ job[k][n] \in {"processing", "done", "bad"} /\ run' = run
      /\ UNCHANGED <<vars, store, reviewed>>
  BY DEF Finish
<1>2. PICK state \in {"done", "bad", "failed", "gone"} : job' = [job EXCEPT ![k][n] = state]
  BY DEF Finish
<1>3. \A j \in Keys, m \in AttemptKeys :
        job'[j][m] = IF j = k /\ m = n THEN state ELSE job[j][m]
  BY <1>2 DEF IInv, JobsInv, JobTypes
<1>4. ASSUME NEW v \in Workers
      PROVE  LocalsFit(run[v])'
  <2>1. LocalsOK(run[v]) /\ LocalsFit(run[v]) /\ run[v].key \in Keys
    BY DEF IInv, LocalsInv, Run
  <2>2. run[v].at \in {"submit", "report"} => run[v].n \in AttemptKeys
    BY <2>1 DEF LocalsOK, StepOf, Numbered
  <2>3. attempts' = attempts /\ store' = store
    BY <1>1 DEF vars
  <2>4. QED
    BY <1>1, <1>3, <2>1, <2>2, <2>3 DEF LocalsFit, StepOf, LastOf
<1>5. n <= LastOf(k) /\ Hot(k, n)
  BY <1>1 DEF IInv, JobsInv, LastOf, Hot, Live
<1>6. run' \in [Workers -> Run] /\ state \in {"none", "failed"} \cup Live
  BY <1>1 DEF IInv, LocalsInv, Live
<1>7. QED
  BY <1>1, <1>2, <1>4, <1>5, <1>6, JobMoves

\* What a POST comes to.
LEMMA Posted ==
  ASSUME IInv, NEW w \in Workers, NEW k \in Keys, NEW n \in AttemptKeys,
         At(w, "submit"), run[w].key = k, run[w].n = n,
         NEW x \in Run, run' = [run EXCEPT ![w] = x],
         x.at \in {"receipt", "report", "write"}, x.request \in Request, x.key = k, x.n = n,
         NEW state \in {"none", "failed", "processing", "done", "bad"},
         job' = [job EXCEPT ![k][n] = state],
         x.at = "report" =>
           /\ x.failure # "none" /\ (x.failure = "retry" => ~Exhausted(n))
           /\ x.failure # "unknown" => state = "failed",
         x.at = "write" => x.digest \in Digests,
         UNCHANGED <<vars, store, reviewed>>
  PROVE  IInv'
<1>1. /\ run' \in [Workers -> Run] /\ run'[w] = x
      /\ \A v \in Workers \ {w} : run'[v] = run[v]
  BY DEF IInv, LocalsInv
<1>2. job[k][n] = "none" /\ n <= LastOf(k) /\ Hot(k, n)
  BY DEF IInv, LocalsInv, LocalsFit, At, Hot, Posts
<1>3. \A j \in Keys, m \in AttemptKeys :
        job'[j][m] = IF j = k /\ m = n THEN state ELSE job[j][m]
  BY DEF IInv, JobsInv, JobTypes
<1>4. attempts' = attempts /\ store' = store
  BY DEF vars
<1>5. LocalsOK(run[w])' /\ LocalsFit(run[w])'
  <2>1. LocalsOK(run[w])'
    BY <1>1 DEF LocalsOK, StepOf, Numbered, InHand
  <2>2. LocalsFit(run[w])'
    BY <1>1, <1>3 DEF LocalsFit, StepOf
  <2>3. QED
    BY <2>1, <2>2
<1>6. ASSUME NEW v \in Workers \ {w}
      PROVE  run'[v] = run[v] /\ LocalsFit(run[v])'
  <2>1. LocalsOK(run[v]) /\ LocalsFit(run[v]) /\ run[v].key \in Keys
    BY DEF IInv, LocalsInv, Run
  <2>2. run[v].at \in {"submit", "report"} => run[v].n \in AttemptKeys
    BY <2>1 DEF LocalsOK, StepOf, Numbered
  <2>3. run[v].at = "submit" => run[v].key # k
    BY DEF IInv, JobsInv, At
  <2>4. LocalsFit(run[v])'
    BY <1>1, <1>2, <1>3, <1>4, <2>1, <2>2, <2>3 DEF LocalsFit, StepOf, LastOf
  <2>5. QED
    BY <1>1, <2>4
<1>7. state \in {"none", "failed"} \cup Live
  BY DEF Live
<1>8. QED
  BY <1>1, <1>2, <1>5, <1>6, <1>7, JobMoves

LEMMA SubmitStep ==
  ASSUME IInv, NEW w \in Workers, Submit(w)
  PROVE  IInv'
<1> DEFINE r == run[w]
           y == [r EXCEPT !.at = "receipt"]
           z(digest) == [r EXCEPT !.at = "write", !.digest = digest]
           x(failure) == [r EXCEPT !.at = "report", !.failure = failure]
<1>1. /\ r \in Run /\ At(w, "submit") /\ r.request \in Request /\ r.n \in AttemptKeys
      /\ r.key \in Keys
  BY DEF Submit, At, IInv, LocalsInv, LocalsOK, StepOf, Numbered, Run
<1>2. UNCHANGED <<vars, store, reviewed>>
  BY DEF Submit
<1>3. /\ y \in Run /\ y.at = "receipt" /\ y.request = r.request /\ y.key = r.key /\ y.n = r.n
  BY <1>1 DEF Run, Steps
<1>4. \A failure \in {"failed", "retry", "unknown"} :
        /\ x(failure) \in Run /\ x(failure).at = "report" /\ x(failure).request = r.request
        /\ x(failure).key = r.key /\ x(failure).n = r.n /\ x(failure).failure = failure
  BY <1>1 DEF Run, Steps
<1>5. \A digest \in Digests :
        /\ z(digest) \in Run /\ z(digest).at = "write" /\ z(digest).request = r.request
        /\ z(digest).key = r.key /\ z(digest).n = r.n /\ z(digest).digest = digest
  BY <1>1 DEF Run, Steps
<1>6. \/ job' = [job EXCEPT ![r.key][r.n] = "processing"] /\ run' = [run EXCEPT ![w] = y]
      \/ /\ job' = [job EXCEPT ![r.key][r.n] = "done"]
         /\ \E digest \in Digests : run' = [run EXCEPT ![w] = z(digest)]
      \/ /\ job' = [job EXCEPT ![r.key][r.n] = "failed"]
         /\ \E failure \in Failures(TRUE, r.n) : run' = [run EXCEPT ![w] = x(failure)]
      \/ /\ \E state \in {"none", "processing", "bad"} : job' = [job EXCEPT ![r.key][r.n] = state]
         /\ \E failure \in Failures(FALSE, r.n) : run' = [run EXCEPT ![w] = x(failure)]
  <2>1. run \in [Workers -> Run]
    BY DEF IInv, LocalsInv
  <2>2. ASSUME NEW failure, run' = [run EXCEPT ![w].at = "report", ![w].failure = failure]
        PROVE  run' = [run EXCEPT ![w] = x(failure)]
    BY <2>1, <2>2, LocalsAtOnce
  <2>3. GoTo(w, "receipt") => run' = [run EXCEPT ![w] = y]
    BY <2>1, LocalsAtOnce DEF GoTo
  <2>4. ASSUME NEW digest \in Digests,
               run' = [run EXCEPT ![w].at = "write", ![w].digest = digest]
        PROVE  run' = [run EXCEPT ![w] = z(digest)]
    BY <2>1, <2>4, LocalsAtOnce
  <2> HIDE DEF x, y, z
  <2>5. QED
    BY <2>2, <2>3, <2>4 DEF Submit
<1> HIDE DEF x, y, z
<1>7. CASE job' = [job EXCEPT ![r.key][r.n] = "processing"] /\ run' = [run EXCEPT ![w] = y]
  BY <1>1, <1>2, <1>3, <1>7, Posted
<1>8. ASSUME NEW definite \in BOOLEAN, NEW failure \in Failures(definite, r.n),
             run' = [run EXCEPT ![w] = x(failure)],
             NEW state \in {"none", "failed", "processing", "bad"},
             definite => state = "failed",
             job' = [job EXCEPT ![r.key][r.n] = state]
      PROVE  IInv'
  <2>1. /\ failure \in {"failed", "retry", "unknown"}
        /\ failure = "retry" => ~Exhausted(r.n)
        /\ failure # "unknown" => definite
    BY <1>1, FailuresAre
  <2>2. /\ x(failure) \in Run /\ x(failure).at = "report" /\ x(failure).request = r.request
        /\ x(failure).key = r.key /\ x(failure).n = r.n /\ x(failure).failure = failure
    BY <1>4, <2>1
  <2>3. QED
    BY ZenonT(40), <1>1, <1>2, <1>8, <2>1, <2>2, Posted
<1>9. ASSUME NEW digest \in Digests, run' = [run EXCEPT ![w] = z(digest)],
             job' = [job EXCEPT ![r.key][r.n] = "done"]
      PROVE  IInv'
  <2>1. /\ z(digest) \in Run /\ z(digest).at = "write" /\ z(digest).request = r.request
        /\ z(digest).key = r.key /\ z(digest).n = r.n /\ z(digest).digest = digest
    BY <1>5, <1>9
  <2>2. "done" \in {"none", "failed", "processing", "done", "bad"}
    OBVIOUS
  <2>3. QED
    BY ZenonT(40), <1>1, <1>2, <1>9, <2>1, <2>2, Posted
<1>10. QED
  BY <1>6, <1>7, <1>8, <1>9

-----------------------------------------------------------------------------
\* An execution that asks again after a step of the ledger.
LEMMA AsksMoves ==
  ASSUME IInv, NEW w \in Workers, NEW r \in Run, NEW step \in {"start", "deliver"},
         run' = [run EXCEPT ![w] = Asking(r, step)], r.request \in Request,
         step = "start" => r.n \in AttemptKeys /\ r.n <= Len(attempts'[r.key]) + 1,
         step = "deliver" => r.digest \in Digests /\ store'[r.key] = r.digest
  PROVE  /\ run' \in [Workers -> Run]
         /\ \A v \in Workers :
              \/ run'[v] = run[v]
              \/ LocalsOK(run[v])' /\ LocalsFit(run[v])' /\ run'[v].at # "submit"
<1> DEFINE x == Asking(r, step)
<1>1. step \in Asked
  BY DEF Asked
<1>2. /\ x \in Run /\ x.at = "authorize" /\ x.next = step /\ StepOf(x) = step
      /\ x.key = r.key /\ x.request = r.request /\ x.n = r.n /\ x.digest = r.digest
  BY <1>1, AskingKeeps
<1>3. run' = [run EXCEPT ![w] = x]
  OBVIOUS
<1> HIDE DEF x
<1>4. run'[w] = x
  BY <1>3 DEF IInv, LocalsInv
<1>5. LocalsOK(run[w])'
  BY <1>1, <1>2, <1>4 DEF LocalsOK, StepOf, Numbered, InHand
<1>6. LocalsFit(run[w])'
  BY <1>2, <1>4 DEF LocalsFit, StepOf, LastOf
<1>7. QED
  BY <1>2, <1>3, <1>5, <1>6, WorkerMoves

LEMMA ReceiptStep ==
  ASSUME IInv, NEW w \in Workers, Receipt(w)
  PROVE  IInv'
<1> DEFINE r == run[w]  k == r.key  n == r.n  x == [r EXCEPT !.at = "poll"]
<1>1. /\ r \in Run /\ r.at = "receipt" /\ r.request \in Request /\ n \in AttemptKeys
      /\ k \in Keys /\ UNCHANGED <<store, job, reviewed>>
  BY DEF Receipt, At, IInv, LocalsInv, LocalsOK, StepOf, Numbered, Run, outside
<1>2. /\ x \in Run /\ x.at = "poll" /\ x.request = r.request /\ x.n = n
      /\ run' = [run EXCEPT ![w] = x] /\ run'[w] = x
  BY <1>1, LocalsAtOnce DEF Receipt, GoTo, Run, Steps, IInv, LocalsInv
<1> HIDE DEF x
<1>3. LocalsOK(run[w])' /\ LocalsFit(run[w])'
  <2>1. LocalsOK(run[w])'
    BY <1>1, <1>2 DEF LocalsOK, StepOf, Numbered, InHand
  <2>2. LocalsFit(run[w])'
    BY <1>2 DEF LocalsFit, StepOf
  <2>3. QED
    BY <2>1, <2>2
<1>4. /\ run' \in [Workers -> Run]
      /\ \A v \in Workers :
           \/ run'[v] = run[v]
           \/ LocalsOK(run[v])' /\ LocalsFit(run[v])' /\ run'[v].at # "submit"
  BY <1>2, <1>3, WorkerMoves
<1>5. ReceiptOf(k, n) \in Receipts /\ RecordReceipt(k, n, ReceiptOf(k, n))
  BY <1>1, ExecutorAssumption DEF ReceiptOf, AttemptKeys, Receipt
<1>6. [Next]_vars
  BY <1>1, <1>5 DEF Next, Member
<1>7. /\ attempts[k] \in Seq(Attempt) /\ LastOf(k) = Len(attempts[k]) /\ LastOf(k) \in Nat
      /\ \A m \in 1 .. LastOf(k) : attempts[k][m] \in Attempt
  BY <1>1, RowTypes
<1>8. /\ tasks' = tasks /\ Len(attempts'[k]) = Len(attempts[k])
      /\ \A j \in Keys \ {k} : attempts'[j] = attempts[j]
      /\ \A m \in 1 .. LastOf(k) : /\ attempts'[k][m].key = attempts[k][m].key
                                    /\ attempts'[k][m].status = attempts[k][m].status
  BY SMTT(30), <1>1, <1>5, <1>7 DEF RecordReceipt, IInv, RowsInv, TypeOK, Attempt
<1>9. \A m \in 1 .. Len(attempts'[k]) : attempts'[k][m].key = m
  BY <1>1, <1>7, <1>8 DEF IInv, RowsInv
<1>10. \A m \in AttemptKeys : Hot(k, m) =>
         tasks'[k].status \in Final \/ attempts'[k][m].status \in Unresolved
  BY <1>1, <1>8, HotIsUnderWay DEF IInv, JobsInv
<1>11. tasks'[k].status = "failed" /\ k \notin reviewed' => \A m \in AttemptKeys : ~Hot(k, m)
  BY <1>1, <1>8 DEF IInv, JobsInv
<1>12. /\ tasks'[k].status \in {"running", "unknown"} => Len(attempts'[k]) >= 1
       /\ tasks'[k].status = "succeeded" =>
            /\ tasks'[k].result \in Digests
            /\ k \notin reviewed' => store[k] = tasks'[k].result
  BY <1>1, <1>8 DEF IInv, RowsInv, FilesInv, BillIsOnFile
<1>13. Len(attempts'[k]) >= Len(attempts[k])
  BY <1>7, <1>8
<1>14. QED
  BY <1>1, <1>4, <1>6, <1>8, <1>9, <1>10, <1>11, <1>12, <1>13, RowMoves

\* What recordOutcome does to the rows.
LEMMA OutcomeRows ==
  ASSUME IInv, NEW k \in Keys, NEW n \in AttemptKeys, NEW call \in OutcomeCall,
         RecordOutcome(k, n, call)
  PROVE  /\ [Next]_vars
         /\ n \in 1 .. LastOf(k) /\ attempts[k][n].status \in Unresolved
         /\ \A j \in Keys \ {k} : tasks'[j] = tasks[j] /\ attempts'[j] = attempts[j]
         /\ Len(attempts'[k]) = Len(attempts[k])
         /\ \A m \in 1 .. Len(attempts'[k]) : attempts'[k][m].key = m
         /\ \A m \in 1 .. LastOf(k) : m # n => attempts'[k][m] = attempts[k][m]
         /\ attempts'[k][n] = Recorded(tasks[k], attempts[k][n], call)
         /\ attempts'[k][n].status = call.outcome
         /\ tasks[k].status \in Final => tasks'[k] = tasks[k]
         /\ tasks[k].status \notin Final =>
              /\ call.outcome = "unknown" => tasks'[k].status = "unknown"
              /\ call.outcome = "failed" =>
                   tasks'[k].status = IF call.retryable THEN "reserved" ELSE "failed"
              /\ call.outcome = "succeeded" =>
                   tasks'[k].status = "succeeded" /\ tasks'[k].result = call.digest
<1>1. /\ attempts[k] \in Seq(Attempt) /\ LastOf(k) = Len(attempts[k]) /\ LastOf(k) \in Nat
      /\ \A m \in 1 .. LastOf(k) : attempts[k][m] \in Attempt
      /\ tasks[k] \in Task
  BY RowTypes
<1>2. n \in 1 .. LastOf(k) /\ Accepts(tasks[k], attempts[k][n], call)
  BY <1>1 DEF RecordOutcome
<1>3. attempts[k][n].status \in Unresolved
  BY <1>2 DEF Accepts, VerifiedRecovery, Unresolved
<1>4. [Next]_vars
  BY DEF Next, Member
<1> DEFINE row == Recorded(tasks[k], attempts[k][n], call)
<1>5. row.key = attempts[k][n].key /\ row.status = call.outcome
  BY <1>1, <1>2 DEF Recorded, Attempt
<1>6. attempts' = [attempts EXCEPT ![k][n] = row]
  BY DEF RecordOutcome, IInv, RowsInv, TypeOK
<1> HIDE DEF row
<1>7. /\ Len(attempts'[k]) = Len(attempts[k]) /\ attempts'[k][n] = row
      /\ \A m \in 1 .. LastOf(k) : m # n => attempts'[k][m] = attempts[k][m]
      /\ \A j \in Keys \ {k} : attempts'[j] = attempts[j]
  BY <1>1, <1>2, <1>6 DEF IInv, RowsInv, TypeOK
<1>8. \A m \in 1 .. Len(attempts'[k]) : attempts'[k][m].key = m
  BY <1>1, <1>2, <1>5, <1>7 DEF IInv, RowsInv
<1>9. /\ \A j \in Keys \ {k} : tasks'[j] = tasks[j]
      /\ tasks[k].status \in Final => tasks'[k] = tasks[k]
      /\ tasks[k].status \notin Final =>
           /\ call.outcome = "unknown" => tasks'[k].status = "unknown"
           /\ call.outcome = "failed" =>
                tasks'[k].status = IF call.retryable THEN "reserved" ELSE "failed"
           /\ call.outcome = "succeeded" =>
                tasks'[k].status = "succeeded" /\ tasks'[k].result = call.digest
  <2>1. call.outcome \in Outcomes /\ call.count \in Nat /\ call.count # 0
    BY LimitAssumption DEF OutcomeCall
  <2>2. tasks \in [Keys -> Task]
    BY DEF IInv, RowsInv, TypeOK
  <2>3. CASE tasks[k].status \in Final
    BY <2>3 DEF RecordOutcome, IsClosed
  <2>4. CASE tasks[k].status \notin Final /\ call.outcome = "unknown"
    BY <1>1, <2>2, <2>4 DEF RecordOutcome, IsClosed, Task
  <2>5. CASE tasks[k].status \notin Final /\ call.outcome = "failed" /\ call.retryable
    BY <1>1, <2>2, <2>5 DEF RecordOutcome, IsClosed, Task
  <2>6. CASE tasks[k].status \notin Final /\ call.outcome = "failed" /\ ~call.retryable
    <3>1. Settle(k, 0, call.digest)
      BY <2>6 DEF RecordOutcome, IsClosed
    <3>2. QED
      BY <2>6, <3>1, SettleMoves
  <2>7. CASE tasks[k].status \notin Final /\ call.outcome = "succeeded"
    <3>1. Settle(k, call.count, call.digest)
      BY <2>7 DEF RecordOutcome, IsClosed
    <3>2. QED
      BY <2>1, <2>7, <3>1, SettleMoves
  <2>8. QED
    BY <2>1, <2>3, <2>4, <2>5, <2>6, <2>7 DEF Outcomes
<1>10. QED
  BY <1>2, <1>3, <1>4, <1>5, <1>7, <1>8, <1>9 DEF row

\* Recording an outcome keeps the invariant, when a failure is reported as
\* definite only of a job that failed, and a success has its result on file.
LEMMA OutcomeMoves ==
  ASSUME IInv, UNCHANGED <<store, job, reviewed>>, NEW k \in Keys, NEW n \in AttemptKeys,
         NEW call \in OutcomeCall, RecordOutcome(k, n, call),
         call.outcome = "failed" => job[k][n] = "failed",
         call.outcome = "succeeded" => store[k] = call.digest,
         run' \in [Workers -> Run],
         \A v \in Workers :
           \/ run'[v] = run[v]
           \/ LocalsOK(run[v])' /\ LocalsFit(run[v])' /\ run'[v].at # "submit"
  PROVE  IInv'
<1>1. /\ [Next]_vars
      /\ n \in 1 .. LastOf(k) /\ attempts[k][n].status \in Unresolved
      /\ \A j \in Keys \ {k} : tasks'[j] = tasks[j] /\ attempts'[j] = attempts[j]
      /\ Len(attempts'[k]) = Len(attempts[k])
      /\ \A m \in 1 .. Len(attempts'[k]) : attempts'[k][m].key = m
      /\ attempts'[k][n].status = call.outcome
  BY OutcomeRows
<1>2. tasks[k].status \in Final => tasks'[k] = tasks[k]
  BY OutcomeRows
<1>3. tasks[k].status \notin Final =>
        /\ call.outcome = "unknown" => tasks'[k].status = "unknown"
        /\ call.outcome = "failed" =>
             tasks'[k].status = IF call.retryable THEN "reserved" ELSE "failed"
        /\ call.outcome = "succeeded" =>
             tasks'[k].status = "succeeded" /\ tasks'[k].result = call.digest
  BY OutcomeRows
<1>4. /\ LastOf(k) = Len(attempts[k]) /\ LastOf(k) \in Nat
      /\ call.outcome \in Outcomes /\ (call.outcome = "succeeded" => call.digest \in Digests)
  BY RowTypes DEF OutcomeCall
<1>5. ASSUME tasks[k].status \notin Final, NEW m \in AttemptKeys, Hot(k, m)
      PROVE  m = n /\ call.outcome # "failed"
  <2>1. n = LastOf(k)
    BY <1>1, <1>4, <1>5 DEF IInv, RowsInv, AttemptsInv, OneUnresolvedAttempt
  <2>2. m = n
    BY <1>5, <2>1, HotIsUnderWay
  <2>3. job[k][n] # "failed"
    BY <1>5, <2>2 DEF Hot, Live, Posts, At, IInv, LocalsInv, LocalsFit
  <2>4. QED
    BY <2>2, <2>3
<1>6. \A m \in AttemptKeys : Hot(k, m) =>
        tasks'[k].status \in Final \/ attempts'[k][m].status \in Unresolved
  BY <1>1, <1>2, <1>3, <1>4, <1>5 DEF Outcomes, Final, Unresolved
<1>7. tasks'[k].status = "failed" /\ k \notin reviewed' => \A m \in AttemptKeys : ~Hot(k, m)
  <2>1. CASE tasks[k].status \in Final
    BY <1>2, <2>1 DEF IInv, JobsInv
  <2>2. CASE tasks[k].status \notin Final
    BY <1>3, <1>4, <1>5, <2>2 DEF Outcomes
  <2>3. QED
    BY <2>1, <2>2
<1>8. /\ tasks'[k].status \in {"running", "unknown"} => Len(attempts'[k]) >= 1
      /\ tasks'[k].status = "succeeded" =>
           /\ tasks'[k].result \in Digests
           /\ k \notin reviewed' => store[k] = tasks'[k].result
  <2>1. Len(attempts'[k]) >= 1
    BY <1>1, <1>4
  <2>2. CASE tasks[k].status \in Final
    BY <1>2, <2>1, <2>2 DEF IInv, RowsInv, FilesInv, BillIsOnFile
  <2>3. CASE tasks[k].status \notin Final
    <3>1. CASE call.outcome = "succeeded"
      BY <1>3, <1>4, <2>1, <2>3, <3>1
    <3>2. CASE call.outcome # "succeeded"
      BY <1>3, <1>4, <2>1, <2>3, <3>2 DEF Outcomes
    <3>3. QED
      BY <3>1, <3>2
  <2>4. QED
    BY <2>2, <2>3
<1>9. Len(attempts'[k]) >= Len(attempts[k])
  BY <1>1, <1>4
<1>10. QED
  BY <1>1, <1>6, <1>7, <1>8, <1>9, RowMoves

\* What an execution reports is a call of the ledger.
LEMMA FailureIsCall ==
  ASSUME IInv, NEW w \in Workers, At(w, "report")
  PROVE  FailureCall(w) \in OutcomeCall
<1>1. run[w] \in Run /\ run[w].request \in Request
  BY DEF At, IInv, LocalsInv, LocalsOK
<1>2. 1 \in 1 .. MaxResults
  BY <1>1, LimitAssumption DEF Request
<1>3. run[w].receipt \in Receipts \cup {NoReceipt} /\ run[w].verified \in {"no", "stored", "receipt"}
  BY <1>1 DEF Run
<1>4. QED
  BY <1>2, <1>3 DEF FailureCall, OutcomeCall, Outcomes

LEMMA SuccessIsCall ==
  ASSUME IInv, NEW w \in Workers, At(w, "settle")
  PROVE  SuccessCall(w) \in OutcomeCall
<1>1. run[w] \in Run /\ run[w].request \in Request /\ run[w].digest \in Digests
  BY DEF At, IInv, LocalsInv, LocalsOK, StepOf, InHand
<1>2. 1 \in 1 .. MaxResults
  BY <1>1, LimitAssumption DEF Request
<1>3. run[w].receipt \in Receipts \cup {NoReceipt} /\ run[w].verified \in {"no", "stored", "receipt"}
  BY <1>1 DEF Run
<1>4. QED
  BY <1>1, <1>2, <1>3, NullAssumption DEF SuccessCall, OutcomeCall, Outcomes

LEMMA ReportStep ==
  ASSUME IInv, NEW w \in Workers, Report(w)
  PROVE  IInv'
<1> DEFINE r == run[w]  k == r.key  n == r.n  call == FailureCall(w)
           x == [r EXCEPT !.n = n + 1, !.failure = "none"]
<1>1. /\ r \in Run /\ r.at = "report" /\ r.request \in Request /\ n \in AttemptKeys
      /\ k \in Keys /\ UNCHANGED <<store, job, reviewed>>
      /\ r.failure \in {"failed", "retry", "unknown"} /\ (r.failure = "retry" => ~Exhausted(n))
      /\ r.failure \in {"failed", "retry"} => job[k][n] = "failed"
  BY DEF Report, At, IInv, LocalsInv, LocalsOK, LocalsFit, StepOf, Numbered, Run, outside
<1>2. call \in OutcomeCall
  BY <1>1, FailureIsCall DEF At
<1>3. call.outcome = IF r.failure = "unknown" THEN "unknown" ELSE "failed"
  BY DEF FailureCall
<1>4. /\ RecordOutcome(k, n, call) \/ (~Accepts(tasks[k], attempts[k][n], call) /\ UNCHANGED vars)
      /\ IF Accepts(tasks[k], attempts[k][n], call) /\ r.failure = "retry"
         THEN run' = [run EXCEPT ![w] = Asking([@ EXCEPT !.n = n + 1, !.failure = "none"], "start")]
         ELSE Ends(w)
  BY DEF Report
<1> HIDE DEF call
<1>5. CASE RecordOutcome(k, n, call)
  <2>1. /\ run' \in [Workers -> Run]
        /\ \A v \in Workers :
             \/ run'[v] = run[v]
             \/ LocalsOK(run[v])' /\ LocalsFit(run[v])' /\ run'[v].at # "submit"
    <3>1. CASE Ends(w)
      BY <3>1, EndsMoves
    <3>2. CASE /\ r.failure = "retry"
               /\ run' = [run EXCEPT ![w] = Asking([@ EXCEPT !.n = n + 1, !.failure = "none"], "start")]
      <4>1. n + 1 \in AttemptKeys
        BY <1>1, <3>2, ExecutorAssumption, LimitAssumption DEF Exhausted, AttemptKeys
      <4>2. x \in Run /\ x.n = n + 1 /\ x.key = k /\ x.request = r.request
        <5>1. n + 1 \in 0 .. AttemptBound
          BY <4>1, LimitAssumption DEF AttemptKeys
        <5>2. x \in Run
          BY <1>1, <5>1 DEF Run
        <5>3. x.n = n + 1 /\ x.key = k /\ x.request = r.request
          BY <1>1 DEF Run
        <5>4. QED
          BY <5>2, <5>3
      <4>3. run' = [run EXCEPT ![w] = Asking(x, "start")]
        BY <3>2 DEF IInv, LocalsInv
      <4> HIDE DEF x
      <4>4. n <= LastOf(k) /\ Len(attempts'[k]) = LastOf(k) /\ LastOf(k) \in Nat
        BY <1>1, <1>2, <1>5, OutcomeRows, RowTypes
      <4>5. x.n <= Len(attempts'[x.key]) + 1
        BY <1>1, <4>2, <4>4 DEF AttemptKeys
      <4>6. QED
        BY <1>1, <4>1, <4>2, <4>3, <4>5, AsksMoves
    <3>3. QED
      BY <1>4, <3>1, <3>2
  <2>2. call.outcome = "failed" => job[k][n] = "failed"
    BY <1>1, <1>3
  <2>3. call.outcome # "succeeded"
    BY <1>3
  <2>4. QED
    BY <1>1, <1>2, <1>5, <2>1, <2>2, <2>3, OutcomeMoves
<1>6. CASE ~Accepts(tasks[k], attempts[k][n], call) /\ UNCHANGED vars
  BY <1>1, <1>4, <1>6, EndsThink
<1>7. QED
  BY <1>4, <1>5, <1>6

LEMMA SettleStep ==
  ASSUME IInv, NEW w \in Workers, SettleResult(w)
  PROVE  IInv'
<1> DEFINE r == run[w]  k == r.key  n == r.n  call == SuccessCall(w)
<1>1. /\ r \in Run /\ r.at = "settle" /\ r.request \in Request /\ n \in AttemptKeys
      /\ k \in Keys /\ UNCHANGED <<store, job, reviewed>>
      /\ r.digest \in Digests /\ store[k] = r.digest
  BY DEF SettleResult, At, IInv, LocalsInv, LocalsOK, LocalsFit, StepOf, Numbered, InHand, Run,
         outside
<1>2. call \in OutcomeCall
  BY <1>1, SuccessIsCall DEF At
<1>3. call.outcome = "succeeded" /\ call.digest = r.digest
  BY DEF SuccessCall
<1>4. /\ RecordOutcome(k, n, call) \/ UNCHANGED vars
      /\ run' = [run EXCEPT ![w] = Asking(r, "deliver")] \/ Ends(w)
  BY DEF SettleResult, Asks, IInv, LocalsInv
<1> HIDE DEF call
<1>5. CASE RecordOutcome(k, n, call)
  <2>1. /\ run' \in [Workers -> Run]
        /\ \A v \in Workers :
             \/ run'[v] = run[v]
             \/ LocalsOK(run[v])' /\ LocalsFit(run[v])' /\ run'[v].at # "submit"
    <3>1. CASE Ends(w)
      BY <3>1, EndsMoves
    <3>2. CASE run' = [run EXCEPT ![w] = Asking(r, "deliver")]
      BY <1>1, <3>2, AsksMoves
    <3>3. QED
      BY <1>4, <3>1, <3>2
  <2>2. QED
    BY <1>1, <1>2, <1>3, <1>5, <2>1, OutcomeMoves
<1>6. CASE UNCHANGED vars
  <2>1. CASE Ends(w)
    BY <1>1, <1>6, <2>1, EndsThink
  <2>2. CASE run' = [run EXCEPT ![w] = Asking(r, "deliver")]
    BY <1>1, <1>6, <2>2, AsksOn DEF Asked
  <2>3. QED
    BY <1>4, <2>1, <2>2
<1>7. QED
  BY <1>4, <1>5, <1>6

\* A result is linked into place once; nothing on file is replaced.
LEMMA WriteStep ==
  ASSUME IInv, NEW w \in Workers, Write(w)
  PROVE  IInv'
<1> DEFINE r == run[w]  k == r.key  x == [r EXCEPT !.at = "settle"]
<1>1. /\ r \in Run /\ r.at = "write" /\ r.request \in Request /\ r.n \in AttemptKeys
      /\ k \in Keys /\ r.digest \in Digests
      /\ account' = account /\ prices' = prices /\ tasks' = tasks /\ attempts' = attempts
      /\ entries' = entries /\ operators' = operators
      /\ job' = job /\ reviewed' = reviewed
  BY DEF Write, At, IInv, LocalsInv, LocalsOK, StepOf, Numbered, InHand, Run, vars
<1>2. CASE Ends(w) /\ store' = store
  BY <1>1, <1>2, EndsThink DEF vars
<1>3. CASE /\ Installs(k, r.digest) /\ store' = [store EXCEPT ![k] = r.digest]
           /\ GoTo(w, "settle")
  <2>1. /\ x \in Run /\ x.at = "settle" /\ x.request = r.request /\ x.key = r.key /\ x.n = r.n
        /\ x.digest = r.digest /\ run' = [run EXCEPT ![w] = x]
    BY <1>1, <1>3 DEF Run, Steps, GoTo, IInv, LocalsInv
  <2> HIDE DEF x
  <2>2. /\ run' \in [Workers -> Run] /\ run'[w] = x
        /\ \A v \in Workers \ {w} : run'[v] = run[v]
    BY <2>1 DEF IInv, LocalsInv
  <2>3. /\ store' \in [Keys -> Digests \cup {NoDigest}] /\ store'[k] = r.digest
        /\ \A j \in Keys : store[j] # NoDigest => store'[j] = store[j]
    BY <1>1, <1>3 DEF Installs, IInv, FilesInv
  <2>4. RowsInv'
    BY <1>1 DEF IInv, RowsInv, TypeOK, RowsLinked, AttemptsInv, OneUnresolvedAttempt,
                OpenHasNoSuccess, LateResultFlagged
  <2>5. LocalsInv'
    <3>1. LocalsOK(run[w])'
      BY <1>1, <2>1, <2>2 DEF LocalsOK, StepOf, Numbered, InHand
    <3>2. LocalsFit(run[w])'
      BY <1>1, <2>1, <2>2, <2>3 DEF LocalsFit, StepOf
    <3>3. ASSUME NEW v \in Workers \ {w}
          PROVE  LocalsOK(run[v])' /\ LocalsFit(run[v])'
      <4>1. LocalsOK(run[v]) /\ LocalsFit(run[v]) /\ run[v].key \in Keys /\ run'[v] = run[v]
        BY <2>2 DEF IInv, LocalsInv, Run
      <4>2. LocalsOK(run[v])'
        BY <4>1 DEF LocalsOK, StepOf
      <4>3. StepOf(run[v]) \in {"verify", "settle", "deliver"} => run[v].digest # NoDigest
        BY <4>1, NullAssumption DEF LocalsOK, InHand
      <4>4. StepOf(run[v])' = StepOf(run[v])
        BY <4>1 DEF StepOf
      <4>5. LocalsFit(run[v])'
        BY <1>1, <2>3, <4>1, <4>3, <4>4 DEF LocalsFit, LastOf
      <4>6. QED
        BY <4>2, <4>5
    <3>4. QED
      BY <2>2, <3>1, <3>2, <3>3 DEF LocalsInv
  <2>6. JobsInv'
    <3>1. \A v \in Workers : At(v, "submit")' => At(v, "submit") /\ run'[v] = run[v]
      BY <2>1, <2>2 DEF At
    <3>2. \A j \in Keys, m \in AttemptKeys : Hot(j, m)' => Hot(j, m)
      BY <1>1, <3>1 DEF Hot, Posts
    <3>3. QED
      BY <1>1, <3>1, <3>2 DEF IInv, JobsInv
  <2>7. FilesInv'
    BY <1>1, <2>3, NullAssumption DEF IInv, FilesInv, BillIsOnFile, RowsInv
  <2>8. QED
    BY <2>4, <2>5, <2>6, <2>7 DEF IInv
<1>4. QED
  BY <1>2, <1>3 DEF Write

-----------------------------------------------------------------------------
LEMMA ReviewStep ==
  ASSUME IInv, NEW k \in Keys, NEW count \in 0 .. 1, NEW digest \in Digests,
         Review(k, count, digest)
  PROVE  IInv'
<1>1. /\ tasks[k].status \in {"unknown", "running"} /\ Settle(k, count, digest)
      /\ attempts' = attempts /\ Reconcile(k, count, digest)
      /\ run' = run /\ store' = store /\ job' = job /\ reviewed' = reviewed \cup {k}
  BY DEF Review, Reconcile
<1>2. [Next]_vars
  <2>1. tasks[k].request \in Request
    BY <1>1 DEF IInv, RowsInv, RowsLinked
  <2>2. count \in 0 .. MaxResults
    BY <2>1, LimitAssumption DEF Request
  <2>3. QED
    BY <1>1, <2>2 DEF Next, Platform
<1>3. /\ tasks'[k].status = IF count = 0 THEN "failed" ELSE "succeeded"
      /\ tasks'[k].result = IF count = 0 THEN NoDigest ELSE digest
      /\ \A j \in Keys \ {k} : tasks'[j] = tasks[j]
  BY <1>1, SettleMoves
<1>4. /\ Len(attempts'[k]) >= Len(attempts[k])
      /\ \A n \in 1 .. Len(attempts'[k]) : attempts'[k][n].key = n
  BY <1>1, RowTypes DEF IInv, RowsInv
<1>5. run' \in [Workers -> Run] /\ \A v \in Workers : run'[v] = run[v]
  BY <1>1 DEF IInv, LocalsInv
<1>6. tasks'[k].status \in Final /\ k \in reviewed' /\ reviewed \subseteq reviewed'
  BY <1>1, <1>3 DEF Final
<1>7. tasks'[k].status \notin {"running", "unknown"}
  BY <1>6 DEF Final
<1>8. tasks'[k].status = "succeeded" =>
        tasks'[k].result \in Digests /\ (k \notin reviewed' => store[k] = tasks'[k].result)
  BY <1>3, <1>6
<1>9. QED
  BY <1>1, <1>2, <1>3, <1>4, <1>5, <1>6, <1>7, <1>8, RowMoves

LEMMA AdministerStep ==
  ASSUME IInv, Administer
  PROVE  IInv'
<1>1. PICK k \in Keys : TRUE
  BY ExecutorAssumption
<1>2. /\ run' = run /\ store' = store /\ job' = job /\ reviewed' = reviewed
      /\ tasks' = tasks /\ attempts' = attempts /\ [Next]_vars
  BY DEF Administer, outside, SetOperators, ConfigureAccount, Next, Platform
<1>3. /\ Len(attempts'[k]) >= Len(attempts[k])
      /\ \A n \in 1 .. Len(attempts'[k]) : attempts'[k][n].key = n
      /\ tasks'[k].status \in {"running", "unknown"} => Len(attempts'[k]) >= 1
  BY <1>2, RowTypes DEF IInv, RowsInv
<1>4. tasks'[k].status = "succeeded" =>
        tasks'[k].result \in Digests /\ (k \notin reviewed' => store[k] = tasks'[k].result)
  BY <1>2 DEF IInv, RowsInv, FilesInv, BillIsOnFile
<1>5. /\ \A n \in AttemptKeys : Hot(k, n) =>
           tasks'[k].status \in Final \/ attempts'[k][n].status \in Unresolved
      /\ tasks'[k].status = "failed" /\ k \notin reviewed' => \A n \in AttemptKeys : ~Hot(k, n)
  BY <1>2 DEF IInv, JobsInv
<1>6. run' \in [Workers -> Run] /\ \A v \in Workers : run'[v] = run[v]
  BY <1>2 DEF IInv, LocalsInv
<1>7. QED
  BY <1>2, <1>3, <1>4, <1>5, <1>6, RowMoves

LEMMA ExecutorInit == EInit => IInv
<1> SUFFICES ASSUME EInit
             PROVE  IInv
  OBVIOUS
<1>1. MaxPoints \in Nat /\ 1 \in Amounts
  BY LimitAssumption, ExecutorAssumption
<1>2. tasks = [k \in Keys |-> NoTask] /\ attempts = [k \in Keys |-> << >>]
  BY DEF EInit
<1>3. \A k \in Keys : /\ tasks[k] = NoTask /\ tasks[k].status = "none"
                      /\ attempts[k] = << >> /\ Len(attempts[k]) = 0
  BY <1>2 DEF NoTask
<1>4. RowsInv
  <2>1. account \in Account
    BY <1>1 DEF EInit, Account, Points
  <2>2. prices \subseteq Price
    BY <1>1 DEF EInit, Price
  <2>3. NoTask \in Task
    BY <1>1, LimitAssumption DEF NoTask, Task, Points
  <2>4. tasks \in [Keys -> Task] /\ attempts \in [Keys -> Seq(Attempt)]
    BY <1>2, <2>3
  <2>5. entries \in [EntryKeys -> Entry]
    <3>1. NoEntry \in Entry /\ Line("recharge", MaxPoints, 0) \in Entry
      BY <1>1 DEF NoEntry, Line, Entry
    <3>2. QED
      BY <3>1 DEF EInit
  <2>6. TypeOK
    BY <2>1, <2>2, <2>4, <2>5 DEF EInit, TypeOK
  <2>7. RowsLinked /\ AttemptsInv
    BY <1>3 DEF RowsLinked, AttemptsInv, OneUnresolvedAttempt, OpenHasNoSuccess,
                LateResultFlagged, Final
  <2>8. QED
    BY <1>3, <2>6, <2>7 DEF RowsInv
<1>5. run = [w \in Workers |-> Idle]
  BY DEF EInit
<1>6. LocalsInv
  <2>1. LocalsFit(Idle)
    BY IdleIsOK DEF LocalsFit, StepOf
  <2>2. QED
    BY <1>5, <2>1, IdleIsOK DEF LocalsInv
<1>7. JobsInv
  <2>1. /\ job = [k \in Keys |-> [n \in AttemptKeys |-> "none"]]
        /\ \A k \in Keys, n \in AttemptKeys : job[k][n] = "none"
    BY DEF EInit
  <2>2. \A w \in Workers : ~At(w, "submit")
    BY <1>5, IdleIsOK DEF At
  <2>3. \A k \in Keys, n \in AttemptKeys : ~Hot(k, n)
    BY <2>1, <2>2 DEF Hot, Posts, Live
  <2>4. job \in JobTypes
    BY <2>1 DEF JobTypes
  <2>5. QED
    BY <2>1, <2>2, <2>3, <2>4 DEF JobsInv
<1>8. FilesInv
  BY <1>3 DEF EInit, FilesInv, BillIsOnFile
<1>9. QED
  BY <1>4, <1>6, <1>7, <1>8 DEF IInv

LEMMA ExecutorStep ==
  ASSUME IInv, [ENext]_evars
  PROVE  IInv'
<1>1. CASE UNCHANGED evars
  BY <1>1 DEF evars, vars, outside, IInv, RowsInv, TypeOK, RowsLinked, AttemptsInv,
              OneUnresolvedAttempt, OpenHasNoSuccess, LateResultFlagged, LocalsInv, LocalsOK,
              LocalsFit, StepOf, LastOf, JobsInv, Hot, Posts, At, FilesInv, BillIsOnFile
<1>2. ASSUME NEW w \in Workers, Calls(w) \/ Work(w) \/ Throw(w)
      PROVE  IInv'
  <2>1. CASE Calls(w)
    BY <2>1, BeginStep DEF Calls
  <2>2. CASE Throw(w)
    BY <2>2, ReadStep
  <2>3. CASE Work(w)
    BY <2>3, AuthorizeStep, ReserveStep, ReadStep, LatestStep, RecoverStep, VerifyStep, QueryStep,
       InspectStep, CurrentStep, ReleaseStep, StartStep, SubmitStep, ReceiptStep, PollStep,
       ReportStep, WriteStep, SettleStep DEF Work
  <2>4. QED
    BY <1>2, <2>1, <2>2, <2>3
<1>3. QED
  BY <1>1, <1>2, FinishStep, ReviewStep, AdministerStep DEF ENext

LEMMA ExecutorInvariant == ESpec => []IInv
BY ExecutorInit, ExecutorStep, PTL DEF ESpec

-----------------------------------------------------------------------------
\* Whatever the executions do to the points, a call of the ledger does.
LEMMA LedgerStep ==
  ASSUME IInv, [ENext]_evars
  PROVE  [Next]_vars
<1>1. CASE UNCHANGED evars
  BY <1>1 DEF evars
<1>2. ASSUME NEW w \in Workers, Calls(w) \/ Work(w) \/ Throw(w)
      PROVE  [Next]_vars
  <2>1. /\ run[w].key \in Keys
        /\ run[w].at \in {"start", "receipt", "report", "settle"} => run[w].n \in AttemptKeys
    BY DEF IInv, LocalsInv, LocalsOK, StepOf, Numbered, Run
  <2>2. CASE ReserveTask(w)
    <3>1. run[w].request \in Request
      BY <2>2 DEF ReserveTask, At, IInv, LocalsInv, LocalsOK
    <3>2. QED
      BY <2>1, <2>2, <3>1 DEF ReserveTask, Next, Member
  <2>3. CASE Release(w)
    BY <2>1, <2>3 DEF Release, Next, Member, IInv, LocalsInv, Run
  <2>4. CASE Start(w)
    BY <2>1, <2>4 DEF Start, Next, Member, At, IInv, LocalsInv, Run
  <2>5. CASE Receipt(w)
    <3>1. run[w].n \in AttemptKeys /\ run[w].key \in Keys
      BY <2>1, <2>5 DEF Receipt, At, IInv, LocalsInv, Run
    <3>2. ReceiptOf(run[w].key, run[w].n) \in Receipts
      BY <3>1, ExecutorAssumption DEF ReceiptOf, AttemptKeys
    <3>3. QED
      BY <2>5, <3>1, <3>2 DEF Receipt, Next, Member
  <2>6. CASE Report(w)
    <3>1. run[w].n \in AttemptKeys /\ run[w].key \in Keys /\ FailureCall(w) \in OutcomeCall
      BY <2>1, <2>6, FailureIsCall DEF Report, At, IInv, LocalsInv, Run
    <3>2. QED
      BY <2>6, <3>1 DEF Report, Next, Member
  <2>7. CASE SettleResult(w)
    <3>1. run[w].n \in AttemptKeys /\ run[w].key \in Keys /\ SuccessCall(w) \in OutcomeCall
      BY <2>1, <2>7, SuccessIsCall DEF SettleResult, At, IInv, LocalsInv, Run
    <3>2. QED
      BY <2>7, <3>1 DEF SettleResult, Next, Member
  <2>8. CASE Calls(w) \/ Throw(w) \/ Authorize(w) \/ Read(w) \/ LatestAttempt(w) \/ Recover(w)
              \/ Verify(w) \/ Query(w) \/ Inspect(w) \/ Current(w) \/ Submit(w) \/ Poll(w)
              \/ Write(w) \/ Deliver(w)
    BY <2>8 DEF Calls, Begin, Throw, Authorize, Read, LatestAttempt, Recover, Verify, Query,
                Inspect, Current, Submit, Poll, Write, Deliver
  <2>9. QED
    BY <1>2, <2>2, <2>3, <2>4, <2>5, <2>6, <2>7, <2>8 DEF Work
<1>3. ASSUME NEW k \in Keys, NEW count \in 0 .. 1, NEW digest \in Digests,
             Review(k, count, digest)
      PROVE  [Next]_vars
  <2>1. tasks[k].request \in Request
    BY <1>3 DEF Review, Reconcile, IInv, RowsInv, RowsLinked
  <2>2. count \in 0 .. MaxResults
    BY <2>1, LimitAssumption DEF Request
  <2>3. QED
    BY <1>3, <2>2 DEF Review, Next, Platform
<1>4. CASE Administer
  BY <1>4 DEF Administer, Next, Platform
<1>5. ASSUME NEW k \in Keys, NEW n \in AttemptKeys, Finish(k, n)
      PROVE  [Next]_vars
  BY <1>5 DEF Finish
<1>6. QED
  BY <1>1, <1>2, <1>3, <1>4, <1>5 DEF ENext

\* The executor touches the points only by calls of the ledger, each with the
\* arguments the ledger takes: whatever the ledger keeps, it keeps under every
\* interleaving of executions, crashes and lost answers.
THEOREM OnlyLedgerCalls == ESpec => [][Next]_vars
<1>1. IInv /\ [ENext]_evars => [Next]_vars
  BY LedgerStep
<1>2. QED
  BY <1>1, ExecutorInvariant, PTL DEF ESpec

\* The books of the ledger balance under the executions, too.
LEMMA BooksOfExecutions == ESpec => [](BooksInv /\ BilledAsQuoted)
<1>1. EInit => BooksInv /\ BilledAsQuoted
  <2> SUFFICES ASSUME EInit
               PROVE  BooksInv /\ BilledAsQuoted
    OBVIOUS
  <2>1. TypeOK
    BY ExecutorInit DEF IInv, RowsInv
  <2>2. account.available = MaxPoints /\ account.frozen = 0 /\ tasks = [k \in Keys |-> NoTask]
    BY DEF EInit
  <2>3. PICK r \in References :
          entries = [e \in EntryKeys |-> IF e = <<"recharge", r>>
                                         THEN Line("recharge", MaxPoints, 0) ELSE NoEntry]
    BY DEF EInit
  <2>4. QED
    BY <2>1, <2>2, <2>3, FundedBooks
<1>2. IInv /\ IInv' /\ BooksInv /\ BilledAsQuoted /\ [ENext]_evars
      => BooksInv' /\ BilledAsQuoted'
  BY LedgerStep, BooksStep, QuoteStep DEF IInv, RowsInv
<1>3. QED
  BY <1>1, <1>2, ExecutorInvariant, PTL DEF ESpec

\* No interleaving of executions, crashes and lost answers leaks a hold, loses a
\* point, bills another price than the quoted one, or rewrites a closed bill.
THEOREM ExecutionsKeepTheBooks ==
  ESpec => [](FrozenIsHeld /\ PointsConserved /\ AuditConsistent /\ BilledAsQuoted)
BY BooksOfExecutions, PTL DEF BooksInv

\* Of the jobs of a task at most one is live or about to be.
LEMMA OneJob ==
  ASSUME IInv
  PROVE  OneLiveJob
<1> SUFFICES ASSUME NEW k \in Keys
             PROVE  Cardinality(LiveJobs(k)) + Cardinality(Posting(k)) <= 1
  BY DEF OneLiveJob
<1>1. \A m, n \in LiveJobs(k) : m = n
  BY DEF LiveJobs, Hot, IInv, JobsInv
<1>2. \A v, w \in Posting(k) : v = w
  BY DEF Posting, IInv, JobsInv
<1>3. LiveJobs(k) = {} \/ Posting(k) = {}
  <2>1. ASSUME NEW m \in LiveJobs(k), NEW w \in Posting(k)
        PROVE  FALSE
    <3>1. /\ w \in Workers /\ At(w, "submit") /\ run[w].key = k
          /\ m \in AttemptKeys /\ job[k][m] \in Live
      BY <2>1 DEF Posting, LiveJobs
    <3>2. run[w].n \in AttemptKeys /\ job[k][run[w].n] = "none"
      BY <3>1 DEF IInv, LocalsInv, LocalsOK, LocalsFit, At, StepOf, Numbered
    <3>3. Hot(k, m) /\ Hot(k, run[w].n)
      BY <3>1 DEF Hot, Posts
    <3>4. m = run[w].n
      BY <3>1, <3>2, <3>3 DEF IInv, JobsInv
    <3>5. QED
      BY <3>1, <3>2, <3>4 DEF Live
  <2>2. QED
    BY <2>1
<1>4. LiveJobs(k) = {} \/ \E n : LiveJobs(k) = {n}
  BY <1>1
<1>5. Posting(k) = {} \/ \E w : Posting(k) = {w}
  BY <1>2
<1>6. Cardinality(LiveJobs(k)) \in {0, 1} /\ (LiveJobs(k) = {} => Cardinality(LiveJobs(k)) = 0)
  BY <1>4, FS_EmptySet, FS_Singleton
<1>7. Cardinality(Posting(k)) \in {0, 1} /\ (Posting(k) = {} => Cardinality(Posting(k)) = 0)
  BY <1>5, FS_EmptySet, FS_Singleton
<1>8. QED
  BY <1>3, <1>6, <1>7

\* No blind resubmission: retries, crashes, lost answers and executions that run
\* twice never leave two jobs of one task with the provider.
THEOREM NoBlindResubmission == ESpec => []OneLiveJob
<1>1. IInv => OneLiveJob
  BY OneJob
<1>2. QED
  BY <1>1, ExecutorInvariant, PTL

\* The points of a task are given back only when no job can still deliver for
\* it, unless the platform closed it by hand.
THEOREM RefundsHaveNoJob == ESpec => []RefundMeansNoJob
<1>1. IInv => RefundMeansNoJob
  <2> SUFFICES ASSUME IInv, NEW k \in Keys, tasks[k].status = "failed", k \notin reviewed
               PROVE  LiveJobs(k) = {} /\ Posting(k) = {}
    BY DEF RefundMeansNoJob
  <2>1. \A n \in AttemptKeys : ~Hot(k, n)
    BY DEF IInv, JobsInv
  <2>2. LiveJobs(k) = {}
    BY <2>1 DEF LiveJobs, Hot
  <2>3. Posting(k) = {}
    BY <2>1, NobodyPosts DEF Posting
  <2>4. QED
    BY <2>2, <2>3
<1>2. QED
  BY <1>1, ExecutorInvariant, PTL

\* The result a task was billed for is the one on file.
THEOREM BillsAreOnFile == ESpec => []BillIsOnFile
<1>1. IInv => BillIsOnFile
  BY DEF IInv, FilesInv
<1>2. QED
  BY <1>1, ExecutorInvariant, PTL

-----------------------------------------------------------------------------
\* A result is accounted for: it was billed, or its attempt is marked.
Accounted(k, digest) ==
  \/ tasks[k].status = "succeeded" /\ tasks[k].result = digest
  \/ \E n \in 1 .. LastOf(k) : attempts[k][n].conflict /\ attempts[k][n].digest = digest

\* Only a bill has a result, only a resolved attempt a digest.
DigestsInv ==
  /\ \A k \in Keys : tasks[k].status # "succeeded" => tasks[k].result = NoDigest
  /\ \A k \in Keys : \A n \in 1 .. Len(attempts[k]) :
       attempts[k][n].status \in Unresolved => attempts[k][n].digest = NoDigest

\* What is handed out, and what an execution is about to hand out.
HandedInv ==
  /\ delivered \in [Keys -> SUBSET Digests]
  /\ \A k \in Keys : \A digest \in delivered[k] : Accounted(k, digest)
  /\ \A w \in Workers :
       /\ StepOf(run[w]) = "deliver" => Accounted(run[w].key, run[w].digest)
       /\ StepOf(run[w]) = "read" => Accounted(run[w].key, run[w].bill)

\* A step of the ledger rewrites only attempts that are unresolved.
LEMMA AttemptsKept ==
  ASSUME IInv, DigestsInv, [Next]_vars, NEW k \in Keys
  PROVE  /\ Len(attempts'[k]) \in Nat /\ Len(attempts'[k]) >= Len(attempts[k])
         /\ \A n \in 1 .. Len(attempts[k]) :
              attempts'[k][n] = attempts[k][n] \/ attempts[k][n].status \in Unresolved
         /\ \A n \in 1 .. Len(attempts'[k]) :
              attempts'[k][n].status \in Unresolved => attempts'[k][n].digest = NoDigest
<1> DEFINE Goal == /\ Len(attempts'[k]) \in Nat /\ Len(attempts'[k]) >= Len(attempts[k])
                   /\ \A n \in 1 .. Len(attempts[k]) :
                        attempts'[k][n] = attempts[k][n] \/ attempts[k][n].status \in Unresolved
                   /\ \A n \in 1 .. Len(attempts'[k]) :
                        attempts'[k][n].status \in Unresolved => attempts'[k][n].digest = NoDigest
<1>1. /\ attempts \in [Keys -> Seq(Attempt)] /\ attempts[k] \in Seq(Attempt)
      /\ Len(attempts[k]) \in Nat
      /\ \A n \in 1 .. Len(attempts[k]) : attempts[k][n] \in Attempt
      /\ \A n \in 1 .. Len(attempts[k]) :
           attempts[k][n].status \in Unresolved => attempts[k][n].digest = NoDigest
  BY DEF IInv, RowsInv, TypeOK, DigestsInv
<1>2. CASE attempts'[k] = attempts[k]
  BY <1>1, <1>2
<1>3. ASSUME NEW j \in Keys, NEW key \in AttemptKeys, NEW provider \in Providers,
             StartAttempt(j, key, provider)
      PROVE  Goal
  <2> DEFINE row == [key |-> key, provider |-> provider, status |-> "submitted",
                     receipt |-> NoReceipt, digest |-> NoDigest, conflict |-> FALSE]
  <2>1. row \in Attempt /\ row.digest = NoDigest
    BY DEF Attempt
  <2>2. attempts' = [attempts EXCEPT ![j] = Append(attempts[j], row)]
    BY <1>1, <1>3 DEF StartAttempt
  <2> HIDE DEF row
  <2>3. CASE j = k
    BY <1>1, <2>1, <2>2, <2>3
  <2>4. CASE j # k
    BY <1>1, <1>2, <2>2, <2>4
  <2>5. QED
    BY <2>3, <2>4
<1>4. ASSUME NEW j \in Keys, NEW n \in AttemptKeys, NEW call \in OutcomeCall,
             RecordOutcome(j, n, call)
      PROVE  Goal
  <2>1. CASE j = k
    <3>1. /\ n \in 1 .. LastOf(k) /\ attempts[k][n].status \in Unresolved
          /\ Len(attempts'[k]) = Len(attempts[k])
          /\ \A m \in 1 .. LastOf(k) : m # n => attempts'[k][m] = attempts[k][m]
          /\ attempts'[k][n] = Recorded(tasks[k], attempts[k][n], call)
      BY <1>4, <2>1, OutcomeRows
    <3>2. LastOf(k) = Len(attempts[k])
      BY DEF LastOf
    <3>3. /\ Recorded(tasks[k], attempts[k][n], call).status = call.outcome
          /\ call.outcome # "succeeded" =>
               Recorded(tasks[k], attempts[k][n], call).digest = NoDigest
      BY <1>1, <3>1, <3>2 DEF Recorded, Attempt
    <3>4. QED
      BY <1>1, <3>1, <3>2, <3>3 DEF Unresolved
  <2>2. CASE j # k
    BY <1>2, <1>4, <2>2, OutcomeRows
  <2>3. QED
    BY <2>1, <2>2
<1>5. ASSUME NEW j \in Keys, NEW n \in AttemptKeys, NEW receipt \in Receipts,
             RecordReceipt(j, n, receipt)
      PROVE  Goal
  <2> DEFINE row == [attempts[j][n] EXCEPT !.receipt = receipt]
  <2>1. /\ n \in 1 .. Len(attempts[j]) /\ attempts[j][n].status = "submitted"
        /\ attempts' = [attempts EXCEPT ![j][n] = row]
    BY <1>1, <1>5 DEF RecordReceipt
  <2>2. CASE j = k
    <3>1. row.digest = NoDigest
      BY <1>1, <2>1, <2>2 DEF Attempt, Unresolved
    <3> HIDE DEF row
    <3>2. QED
      BY <1>1, <2>1, <2>2, <3>1 DEF Unresolved
  <2>3. CASE j # k
    BY <1>1, <1>2, <2>1, <2>3
  <2>4. QED
    BY <2>2, <2>3
<1>6. QED
  BY <1>2, <1>3, <1>4, <1>5
     DEF Next, Platform, Member, ConfigureAccount, CreatePrice, Recharge, Reconcile, SetOperators,
         Reserve, ReleaseUnsubmitted, vars

LEMMA DigestsStep ==
  ASSUME IInv, DigestsInv, [Next]_vars
  PROVE  DigestsInv'
<1>1. TypeOK /\ RowsLinked
  BY DEF IInv, RowsInv
<1>2. \A k \in Keys : tasks'[k].status # "succeeded" => tasks'[k].result = NoDigest
  <2> SUFFICES ASSUME NEW k \in Keys, tasks'[k].status # "succeeded"
               PROVE  tasks'[k].result = NoDigest
    OBVIOUS
  <2>1. tasks[k] \in Task /\ (tasks[k].status # "succeeded" => tasks[k].result = NoDigest)
    BY <1>1 DEF TypeOK, DigestsInv
  <2>2. CASE Untouched
    <3>1. tasks[k].status # "succeeded"
      BY <2>1, <2>2 DEF Untouched, Open
    <3>2. QED
      BY <2>1, <2>2, <3>1 DEF Untouched
  <2>3. ASSUME NEW reference \in References, NEW points \in Amounts, Pays(reference, points)
        PROVE  tasks'[k].result = NoDigest
    BY <2>1, <2>3 DEF Pays
  <2>4. ASSUME NEW j \in Keys, NEW request \in Request, NEW price \in prices,
               Freezes(j, request, price)
        PROVE  tasks'[k].result = NoDigest
    BY <1>1, <2>1, <2>4 DEF Freezes, TypeOK
  <2>5. ASSUME NEW j \in Keys, NEW count \in Nat, NEW digest \in Digests \cup {NoDigest},
               Closes(j, count, digest)
        PROVE  tasks'[k].result = NoDigest
    BY <2>1, <2>5, SettleMoves DEF Closes
  <2>6. QED
    BY <1>1, <2>2, <2>3, <2>4, <2>5, StepCases
<1>3. QED
  BY <1>2, AttemptsKept DEF DigestsInv

\* What is accounted for stays so.
LEMMA AccountedStays ==
  ASSUME IInv, DigestsInv, [Next]_vars, NEW k \in Keys, NEW digest \in Digests,
         Accounted(k, digest)
  PROVE  Accounted(k, digest)'
<1>1. CASE tasks[k].status = "succeeded" /\ tasks[k].result = digest
  BY <1>1, BillsLeft DEF IInv, RowsInv, LeavesBills, Final, Accounted
<1>2. ASSUME NEW n \in 1 .. LastOf(k), attempts[k][n].conflict, attempts[k][n].digest = digest
      PROVE  Accounted(k, digest)'
  <2>1. Len(attempts[k]) \in Nat /\ LastOf(k) = Len(attempts[k])
    BY RowTypes
  <2>2. attempts[k][n].status \notin Unresolved
    BY <1>2, <2>1, NullAssumption DEF DigestsInv
  <2>3. attempts'[k][n] = attempts[k][n] /\ n \in 1 .. Len(attempts'[k])
    BY <1>2, <2>1, <2>2, AttemptsKept
  <2>4. QED
    BY <1>2, <2>3 DEF Accounted, LastOf
<1>3. QED
  BY <1>1, <1>2 DEF Accounted

\* An execution moves, and hands out what is accounted for.
LEMMA HandedKept ==
  ASSUME IInv, DigestsInv, HandedInv, [Next]_vars, NEW w \in Workers,
         \A v \in Workers \ {w} : run'[v] = run[v],
         delivered' \in [Keys -> SUBSET Digests],
         \A k \in Keys : \A digest \in delivered'[k] :
           digest \in delivered[k] \/ Accounted(k, digest),
         StepOf(run[w])' = "deliver" => Accounted(run[w].key, run[w].digest)',
         StepOf(run[w])' = "read" => Accounted(run[w].key, run[w].bill)'
  PROVE  HandedInv'
<1>1. \A k \in Keys, digest \in Digests : Accounted(k, digest) => Accounted(k, digest)'
  BY AccountedStays
<1>2. ASSUME NEW k \in Keys, NEW digest \in delivered'[k]
      PROVE  Accounted(k, digest)'
  <2>1. Accounted(k, digest) /\ digest \in Digests
    BY <1>2 DEF HandedInv
  <2>2. QED
    BY <1>1, <2>1
<1>3. ASSUME NEW v \in Workers \ {w}
      PROVE  /\ StepOf(run[v])' = "deliver" => Accounted(run[v].key, run[v].digest)'
             /\ StepOf(run[v])' = "read" => Accounted(run[v].key, run[v].bill)'
  <2>1. run'[v] = run[v] /\ LocalsOK(run[v]) /\ run[v].key \in Keys
    BY DEF IInv, LocalsInv, LocalsOK, Run
  <2>2. StepOf(run[v])' = StepOf(run[v])
    BY <2>1 DEF StepOf
  <2>3. CASE StepOf(run[v]) = "deliver"
    <3>1. run[v].digest \in Digests /\ Accounted(run[v].key, run[v].digest)
      BY <2>1, <2>3 DEF LocalsOK, InHand, HandedInv
    <3>2. Accounted(run[v].key, run[v].digest)'
      BY SMTT(30), <1>1, <2>1, <3>1 DEF Accounted, LastOf
    <3>3. QED
      BY <2>2, <2>3, <3>2
  <2>4. CASE StepOf(run[v]) = "read"
    <3>1. run[v].bill \in Digests /\ Accounted(run[v].key, run[v].bill)
      BY <2>1, <2>4 DEF LocalsOK, HandedInv
    <3>2. Accounted(run[v].key, run[v].bill)'
      BY <1>1, <2>1, <3>1 DEF Accounted, LastOf
    <3>3. QED
      BY <2>2, <2>4, <3>2
  <2>5. QED
    BY <2>2, <2>3, <2>4
<1>4. QED
  BY <1>2, <1>3 DEF HandedInv

\* A step whose execution comes neither to reading nor to delivering.
LEMMA HandsNothing ==
  ASSUME IInv, DigestsInv, HandedInv, [Next]_vars, NEW w \in Workers,
         \A v \in Workers \ {w} : run'[v] = run[v], delivered' = delivered,
         StepOf(run[w])' \notin {"deliver", "read"}
  PROVE  HandedInv'
<1>1. /\ delivered' \in [Keys -> SUBSET Digests]
      /\ \A k \in Keys : \A digest \in delivered'[k] :
           digest \in delivered[k] \/ Accounted(k, digest)
  BY DEF HandedInv
<1>2. QED
  BY <1>1, HandedKept

\* The steps after which an execution neither reads nor delivers.
LEMMA StepsAway ==
  ASSUME IInv, NEW w \in Workers,
         \/ Calls(w) \/ Throw(w) \/ Read(w) \/ Deliver(w) \/ LatestAttempt(w) \/ Recover(w)
         \/ Verify(w) \/ Query(w) \/ Inspect(w) \/ Release(w) \/ Start(w) \/ Submit(w)
         \/ Receipt(w) \/ Poll(w) \/ Report(w) \/ Write(w)
  PROVE  /\ \A v \in Workers \ {w} : run'[v] = run[v]
         /\ StepOf(run[w])' \notin {"deliver", "read"}
<1> DEFINE Goal == /\ \A v \in Workers \ {w} : run'[v] = run[v]
                   /\ StepOf(run[w])' \notin {"deliver", "read"}
<1>1. run \in [Workers -> Run] /\ Idle.at = "idle"
  BY IdleIsOK DEF IInv, LocalsInv
<1>2. ASSUME NEW x, run' = [run EXCEPT ![w] = x], StepOf(x) \notin {"deliver", "read"}
      PROVE  Goal
  <2>1. run'[w] = x /\ \A v \in Workers \ {w} : run'[v] = run[v]
    BY <1>1, <1>2
  <2>2. StepOf(run[w])' = StepOf(x)
    BY <2>1 DEF StepOf
  <2>3. QED
    BY <1>2, <2>1, <2>2
<1>3. Ends(w) => Goal
  BY <1>1, <1>2 DEF Ends, StepOf
<1>4. ASSUME NEW r \in Run, NEW step \in Asked \ {"deliver", "read"},
             run' = [run EXCEPT ![w] = Asking(r, step)]
      PROVE  Goal
  BY <1>2, <1>4, AskingKeeps
<1>5. ASSUME NEW r \in Run, NEW step \in Steps \ {"authorize", "deliver", "read"},
             r.at = step, run' = [run EXCEPT ![w] = r]
      PROVE  Goal
  BY <1>2, <1>5 DEF StepOf
<1> DEFINE r == run[w]
<1>6. r \in Run /\ r.key \in Keys
  BY <1>1 DEF Run
<1>7. ASSUME NEW step \in Steps \ {"authorize", "deliver", "read"}, GoTo(w, step)
      PROVE  Goal
  <2> DEFINE x == [r EXCEPT !.at = step]
  <2>1. x \in Run /\ x.at = step /\ run' = [run EXCEPT ![w] = x]
    BY <1>1, <1>6, <1>7 DEF GoTo, Run
  <2> HIDE DEF x
  <2>2. QED
    BY <1>5, <2>1
<1>8. CASE Calls(w)
  <2>1. PICK k \in Keys, request \in Request : Begin(w, k, request)
    BY <1>8 DEF Calls
  <2> DEFINE x == [Idle EXCEPT !.key = k, !.request = request]
  <2>2. x \in Run
    BY IdleIsOK DEF Run
  <2>3. run' = [run EXCEPT ![w] = Asking(x, "reserve")]
    BY <2>1 DEF Begin
  <2> HIDE DEF x
  <2>4. "reserve" \in Asked \ {"deliver", "read"}
    BY DEF Asked
  <2>5. QED
    BY <1>4, <2>2, <2>3, <2>4
<1>9. CASE Throw(w) \/ Read(w) \/ Deliver(w) \/ Release(w)
  BY <1>3, <1>9 DEF Throw, Read, Deliver, Release
<1>10. CASE LatestAttempt(w)
  <2> DEFINE attempt == attempts[r.key][LastOf(r.key)]
             found == [r EXCEPT !.n = LastOf(r.key), !.receipt = attempt.receipt]
             x == [found EXCEPT !.at = "recover"]
  <2>1. LastOf(r.key) >= 1
    BY <1>10 DEF LatestAttempt, At, IInv, LocalsInv, LocalsFit
  <2>2. attempt.receipt \in Receipts \cup {NoReceipt} /\ LastOf(r.key) \in 0 .. AttemptBound
    BY <1>6, <2>1, AttemptIsRow DEF Attempt, AttemptKeys
  <2>3. \/ Ends(w)
        \/ run' = [run EXCEPT ![w] = x]
        \/ run' = [run EXCEPT ![w] = Asking(found, "query")]
    BY <1>10 DEF LatestAttempt, Ends
  <2> HIDE DEF attempt
  <2>4. found \in Run
    BY <1>6, <2>2 DEF Run
  <2> HIDE DEF found
  <2>5. x \in Run /\ x.at = "recover"
    BY <2>4 DEF Run, Steps
  <2> HIDE DEF x
  <2>6. "query" \in Asked \ {"deliver", "read"} /\ "recover" \in Steps \ {"authorize", "deliver", "read"}
    BY DEF Asked, Steps
  <2>7. QED
    BY <1>3, <1>4, <1>5, <2>3, <2>4, <2>5, <2>6
<1>11. CASE Recover(w)
  <2> DEFINE x == [r EXCEPT !.digest = store[r.key]]
  <2>1. x \in Run
    BY <1>6 DEF Run, IInv, FilesInv
  <2>2. \/ Ends(w)
        \/ run' = [run EXCEPT ![w] = Asking(x, "verify")]
        \/ run' = [run EXCEPT ![w] = Asking(r, "query")]
    BY <1>1, <1>11 DEF Recover, Asks
  <2> HIDE DEF x
  <2>3. {"verify", "query"} \subseteq Asked \ {"deliver", "read"}
    BY DEF Asked
  <2>4. QED
    BY <1>3, <1>4, <1>6, <2>1, <2>2, <2>3
<1>12. CASE Verify(w)
  <2>1. run' = [run EXCEPT ![w].at = "settle", ![w].verified = "stored"] => Goal
    BY <1>1 DEF StepOf, Run
  <2>2. QED
    BY <1>3, <1>12, <2>1 DEF Verify
<1>13. CASE Query(w)
  <2>1. ASSUME run' = [run EXCEPT ![w].at = "report", ![w].failure = "failed",
                                  ![w].verified = "receipt"]
        PROVE  Goal
    BY <1>1, <2>1 DEF StepOf, Run
  <2>2. ASSUME NEW digest,
               run' = [run EXCEPT ![w].at = "write", ![w].digest = digest,
                                  ![w].verified = "receipt"]
        PROVE  Goal
    BY <1>1, <2>2 DEF StepOf, Run
  <2>3. QED
    BY <1>3, <1>13, <2>1, <2>2 DEF Query
<1>14. ASSUME NEW failure, run' = [run EXCEPT ![w].at = "report", ![w].failure = failure]
       PROVE  Goal
  BY <1>1, <1>14 DEF StepOf, Run
<1>15. ASSUME NEW digest, run' = [run EXCEPT ![w].at = "write", ![w].digest = digest]
       PROVE  Goal
  BY <1>1, <1>15 DEF StepOf, Run
<1>16. CASE Submit(w) \/ Poll(w)
  <2>1. "receipt" \in Steps \ {"authorize", "deliver", "read"}
    BY DEF Steps
  <2>2. QED
    BY <1>7, <1>14, <1>15, <1>16, <2>1 DEF Submit, Poll
<1>17. CASE Start(w) \/ Receipt(w) \/ Write(w)
  <2>1. {"submit", "release", "poll", "settle"} \subseteq Steps \ {"authorize", "deliver", "read"}
    BY DEF Steps
  <2>2. QED
    BY <1>3, <1>7, <1>17, <2>1 DEF Start, Receipt, Write
<1>18. CASE Inspect(w)
  <2> DEFINE x(step) == [r EXCEPT !.at = step]
             next == [r EXCEPT !.n = LastOf(r.key) + 1]
             status == IF LastOf(r.key) = 0 THEN "none" ELSE attempts[r.key][LastOf(r.key)].status
  <2>1. run' = [run EXCEPT ![w] =
           IF ~IsOperator(w) \/ status \in Unresolved THEN Idle
           ELSE IF status = "succeeded" THEN x("current")
           ELSE IF Exhausted(LastOf(r.key)) THEN x("release")
           ELSE Asking(next, "start")]
    BY <1>1, <1>18 DEF Inspect
  <2>2. \A step \in {"current", "release"} : x(step) \in Run /\ x(step).at = step
    BY <1>6 DEF Run, Steps
  <2>3. ~Exhausted(LastOf(r.key)) => next \in Run
    <3>1. LastOf(r.key) \in Nat
      BY <1>6, RowTypes
    <3>2. ~Exhausted(LastOf(r.key)) => LastOf(r.key) + 1 \in 0 .. AttemptBound
      BY <3>1, ExecutorAssumption, LimitAssumption DEF Exhausted
    <3>3. QED
      BY <1>6, <3>2 DEF Run
  <2> HIDE DEF x, next, status
  <2>4. /\ {"current", "release"} \subseteq Steps \ {"authorize", "deliver", "read"}
        /\ "start" \in Asked \ {"deliver", "read"}
    BY DEF Steps, Asked
  <2>5. ASSUME NEW step \in {"current", "release"}, run' = [run EXCEPT ![w] = x(step)]
        PROVE  Goal
    BY <1>5, <2>2, <2>4, <2>5
  <2>6. ASSUME next \in Run, run' = [run EXCEPT ![w] = Asking(next, "start")]
        PROVE  Goal
    BY <1>4, <2>4, <2>6
  <2>7. ASSUME run' = [run EXCEPT ![w] = Idle]
        PROVE  Goal
    BY <1>3, <2>7 DEF Ends
  <2>8. \/ run' = [run EXCEPT ![w] = Idle]
        \/ \E step \in {"current", "release"} : run' = [run EXCEPT ![w] = x(step)]
        \/ ~Exhausted(LastOf(r.key)) /\ run' = [run EXCEPT ![w] = Asking(next, "start")]
    BY <2>1
  <2>9. CASE \E step \in {"current", "release"} : run' = [run EXCEPT ![w] = x(step)]
    <3>1. PICK step \in {"current", "release"} : run' = [run EXCEPT ![w] = x(step)]
      BY <2>9
    <3>2. QED
      BY <2>5, <3>1
  <2>10. CASE ~Exhausted(LastOf(r.key)) /\ run' = [run EXCEPT ![w] = Asking(next, "start")]
    <3>1. next \in Run /\ run' = [run EXCEPT ![w] = Asking(next, "start")]
      BY <2>3, <2>10
    <3>2. QED
      BY <2>6, <3>1
  <2>11. CASE run' = [run EXCEPT ![w] = Idle]
    BY <2>7, <2>11
  <2>12. QED
    BY <2>8, <2>9, <2>10, <2>11
<1>19. CASE Report(w)
  <2> DEFINE x == [r EXCEPT !.n = r.n + 1, !.failure = "none"]
  <2>1. /\ r.n \in Nat /\ (r.failure = "retry" => ~Exhausted(r.n))
    <3>1. r.at = "report" /\ LocalsOK(r)
      BY <1>19 DEF Report, At, IInv, LocalsInv
    <3>2. r.n \in Nat
      BY <1>6, LimitAssumption DEF Run
    <3>3. QED
      BY <3>1, <3>2 DEF LocalsOK
  <2>2. r.failure = "retry" => x \in Run
    <3>1. r.failure = "retry" => r.n + 1 \in 0 .. AttemptBound
      BY <2>1, ExecutorAssumption, LimitAssumption DEF Exhausted
    <3>2. QED
      BY <1>6, <3>1 DEF Run
  <2>3. Ends(w) \/ (r.failure = "retry" /\ run' = [run EXCEPT ![w] = Asking(x, "start")])
    BY <1>1, <1>19 DEF Report
  <2> HIDE DEF x
  <2>4. "start" \in Asked \ {"deliver", "read"}
    BY DEF Asked
  <2>5. QED
    BY <1>3, <1>4, <2>2, <2>3, <2>4
<1>20. QED
  BY <1>8, <1>9, <1>10, <1>11, <1>12, <1>13, <1>16, <1>17, <1>18, <1>19

\* A success that is recorded is accounted for.
LEMMA SuccessIsAccounted ==
  ASSUME IInv, NEW k \in Keys, NEW n \in AttemptKeys, NEW call \in OutcomeCall,
         call.outcome = "succeeded", RecordOutcome(k, n, call)
  PROVE  Accounted(k, call.digest)'
<1>1. /\ n \in 1 .. LastOf(k) /\ Len(attempts'[k]) = Len(attempts[k])
      /\ attempts'[k][n] = Recorded(tasks[k], attempts[k][n], call)
      /\ tasks[k].status \in Final => tasks'[k] = tasks[k]
      /\ tasks[k].status \notin Final =>
           tasks'[k].status = "succeeded" /\ tasks'[k].result = call.digest
  BY OutcomeRows
<1>2. attempts[k][n] \in Attempt /\ LastOf(k) = Len(attempts[k])
  BY <1>1, RowTypes
<1>3. /\ Recorded(tasks[k], attempts[k][n], call).digest = call.digest
      /\ Recorded(tasks[k], attempts[k][n], call).conflict = Conflicts(tasks[k], call)
  BY <1>2 DEF Recorded, Attempt
<1>4. CASE tasks[k].status \notin Final
  BY <1>1, <1>4 DEF Accounted
<1>5. CASE tasks[k].status \in Final /\ Conflicts(tasks[k], call)
  <2>1. n \in 1 .. Len(attempts'[k]) /\ attempts'[k][n].conflict
        /\ attempts'[k][n].digest = call.digest
    BY <1>1, <1>2, <1>3, <1>5
  <2>2. QED
    BY <2>1 DEF Accounted, LastOf
<1>6. CASE tasks[k].status \in Final /\ ~Conflicts(tasks[k], call)
  BY <1>1, <1>6 DEF Accounted, Conflicts
<1>7. QED
  BY <1>4, <1>5, <1>6

LEMMA HandedStep ==
  ASSUME IInv, IInv', DigestsInv, HandedInv, [ENext]_evars
  PROVE  HandedInv'
<1>1. [Next]_vars
  BY LedgerStep
<1>2. \A k \in Keys, digest \in Digests : Accounted(k, digest) => Accounted(k, digest)'
  BY <1>1, AccountedStays
<1>3. CASE run' = run /\ delivered' = delivered
  <2>1. ASSUME NEW v \in Workers
        PROVE  /\ StepOf(run[v])' = "deliver" => Accounted(run[v].key, run[v].digest)'
               /\ StepOf(run[v])' = "read" => Accounted(run[v].key, run[v].bill)'
    <3>1. LocalsOK(run[v]) /\ run[v].key \in Keys /\ run'[v] = run[v]
      BY <1>3 DEF IInv, LocalsInv, LocalsOK, Run
    <3>2. /\ StepOf(run[v]) = "deliver" =>
               run[v].digest \in Digests /\ Accounted(run[v].key, run[v].digest)
          /\ StepOf(run[v]) = "read" =>
               run[v].bill \in Digests /\ Accounted(run[v].key, run[v].bill)
      BY <3>1 DEF LocalsOK, InHand, HandedInv
    <3>3. StepOf(run[v])' = StepOf(run[v])
      BY <3>1 DEF StepOf
    <3>4. QED
      BY SMTT(30), <1>2, <3>1, <3>2, <3>3 DEF Accounted, LastOf
  <2>2. ASSUME NEW k \in Keys, NEW digest \in delivered'[k]
        PROVE  Accounted(k, digest)'
    BY <1>2, <1>3, <2>2 DEF HandedInv
  <2>3. QED
    BY <1>3, <2>1, <2>2 DEF HandedInv
<1>4. ASSUME NEW w \in Workers,
             \/ Calls(w) \/ Throw(w) \/ LatestAttempt(w) \/ Recover(w)
             \/ Verify(w) \/ Query(w) \/ Inspect(w) \/ Release(w) \/ Start(w) \/ Submit(w)
             \/ Receipt(w) \/ Poll(w) \/ Report(w) \/ Write(w)
      PROVE  HandedInv'
  <2>1. delivered' = delivered
    BY <1>4 DEF Calls, Begin, Throw, LatestAttempt, Recover, Verify, Query, Inspect, Release,
                Start, Submit, Receipt, Poll, Report, Write, outside
  <2>2. /\ \A v \in Workers \ {w} : run'[v] = run[v]
        /\ StepOf(run[w])' \notin {"deliver", "read"}
    BY <1>4, StepsAway
  <2>3. QED
    BY <1>1, <2>1, <2>2, HandsNothing
<1>5. ASSUME NEW w \in Workers, Read(w) \/ Deliver(w)
      PROVE  HandedInv'
  <2> DEFINE r == run[w]  k == r.key
  <2>1. /\ \A v \in Workers \ {w} : run'[v] = run[v]
        /\ StepOf(run[w])' \notin {"deliver", "read"}
    BY <1>5, StepsAway
  <2>2. r \in Run /\ k \in Keys /\ LocalsOK(r) /\ (r.at = "read" \/ r.at = "deliver")
    BY <1>5 DEF Read, Deliver, At, IInv, LocalsInv, Run
  <2>3. PICK digest \in Digests :
          /\ Accounted(k, digest)
          /\ \/ delivered' = delivered
             \/ delivered' = [delivered EXCEPT ![k] = @ \cup {digest}]
    <3>1. CASE Read(w)
      <4>1. r.bill \in Digests /\ Accounted(k, r.bill)
        BY <2>2, <3>1 DEF Read, At, LocalsOK, StepOf, HandedInv
      <4>2. \/ delivered' = delivered
            \/ delivered' = [delivered EXCEPT ![k] = @ \cup {r.bill}]
        BY <2>2, <3>1 DEF Read, HandedInv
      <4>3. QED
        BY <4>1, <4>2
    <3>2. CASE Deliver(w)
      <4>1. r.digest \in Digests /\ Accounted(k, r.digest)
        BY <2>2, <3>2 DEF Deliver, At, LocalsOK, StepOf, InHand, HandedInv
      <4>2. delivered' = [delivered EXCEPT ![k] = @ \cup {r.digest}]
        BY <3>2 DEF Deliver
      <4>3. QED
        BY <4>1, <4>2
    <3>3. QED
      BY <1>5, <3>1, <3>2
  <2>4. delivered' \in [Keys -> SUBSET Digests]
    BY <2>2, <2>3 DEF HandedInv
  <2>5. \A j \in Keys : \A d \in delivered'[j] : d \in delivered[j] \/ Accounted(j, d)
    BY <2>2, <2>3 DEF HandedInv
  <2>6. QED
    BY <1>1, <2>1, <2>4, <2>5, HandedKept
<1>6. ASSUME NEW w \in Workers, delivered' = delivered,
             \A v \in Workers \ {w} : run'[v] = run[v],
             StepOf(run[w])' = "deliver" => Accounted(run[w].key, run[w].digest)',
             StepOf(run[w])' = "read" => Accounted(run[w].key, run[w].bill)'
      PROVE  HandedInv'
  <2>1. /\ delivered' \in [Keys -> SUBSET Digests]
        /\ \A k \in Keys : \A digest \in delivered'[k] :
             digest \in delivered[k] \/ Accounted(k, digest)
    BY <1>6 DEF HandedInv
  <2>2. QED
    BY <1>1, <1>6, <2>1, HandedKept
<1>7. ASSUME NEW w \in Workers, delivered' = delivered, Ends(w)
      PROVE  HandedInv'
  <2>1. run' = [run EXCEPT ![w] = Idle] /\ run \in [Workers -> Run]
    BY <1>7 DEF Ends, IInv, LocalsInv
  <2>2. StepOf(run[w])' = "idle" /\ \A v \in Workers \ {w} : run'[v] = run[v]
    BY <2>1, IdleIsOK DEF StepOf
  <2>3. QED
    BY <1>6, <1>7, <2>2
<1>8. ASSUME NEW w \in Workers, delivered' = delivered,
             NEW step \in Steps \ {"authorize", "deliver", "read"}, GoTo(w, step)
      PROVE  HandedInv'
  <2>1. run' = [run EXCEPT ![w] = [run[w] EXCEPT !.at = step]] /\ run[w] \in Run
        /\ run \in [Workers -> Run]
    BY <1>8 DEF GoTo, IInv, LocalsInv
  <2>2. run'[w].at = step /\ \A v \in Workers \ {w} : run'[v] = run[v]
    BY <2>1 DEF Run
  <2>3. StepOf(run[w])' \notin {"deliver", "read"}
    BY <2>2 DEF StepOf
  <2>4. QED
    BY <1>6, <1>8, <2>2, <2>3
<1>9. ASSUME NEW w \in Workers, delivered' = delivered, UNCHANGED vars,
             tasks[run[w].key].status = "succeeded", run[w].at # "idle",
             run' = [run EXCEPT ![w] = Asking([@ EXCEPT !.bill = tasks[run[w].key].result], "read")]
      PROVE  HandedInv'
  <2> DEFINE r == run[w]  result == tasks[r.key].result
             x == [r EXCEPT !.bill = result]
             y == Asking(x, "read")
  <2>1. r \in Run /\ result \in Digests /\ run \in [Workers -> Run]
    BY <1>9 DEF IInv, LocalsInv, Run, RowsInv
  <2>2. run' = [run EXCEPT ![w] = y]
    BY <1>9, <2>1
  <2> HIDE DEF result
  <2>3. x \in Run /\ x.bill = result /\ x.key = r.key
    BY <2>1 DEF Run
  <2> HIDE DEF x
  <2>4. y \in Run /\ StepOf(y) = "read" /\ y.bill = result /\ y.key = r.key
    BY <2>3, AskingKeeps DEF Asked
  <2> HIDE DEF y
  <2>5. run'[w] = y /\ \A v \in Workers \ {w} : run'[v] = run[v]
    BY <2>1, <2>2
  <2>6. StepOf(run[w])' = "read"
    BY <2>4, <2>5 DEF StepOf
  <2>7. tasks' = tasks
    BY <1>9 DEF vars
  <2>8. Accounted(run[w].key, run[w].bill)'
    BY <1>9, <2>4, <2>5, <2>7 DEF Accounted, result
  <2>9. QED
    BY <1>6, <1>9, <2>5, <2>6, <2>8
<1>10. ASSUME NEW w \in Workers, Authorize(w)
       PROVE  HandedInv'
  <2> DEFINE r == run[w]
  <2>1. r \in Run /\ LocalsOK(r) /\ r.at = "authorize" /\ r.next \in Asked /\ r.key \in Keys
        /\ delivered' = delivered /\ UNCHANGED vars /\ run \in [Workers -> Run]
    BY <1>10 DEF Authorize, At, outside, IInv, LocalsInv, LocalsOK, Run
  <2>2. CASE GoTo(w, r.next)
    <3> DEFINE x == [r EXCEPT !.at = r.next]
    <3>1. /\ x.at = r.next /\ x.key = r.key /\ x.digest = r.digest /\ x.bill = r.bill
          /\ run' = [run EXCEPT ![w] = x]
      BY <2>1, <2>2 DEF GoTo, Run
    <3> HIDE DEF x
    <3>2. run'[w] = x /\ \A v \in Workers \ {w} : run'[v] = run[v]
      BY <2>1, <3>1
    <3>3. StepOf(run[w])' = StepOf(run[w])
      BY <2>1, <3>1, <3>2 DEF StepOf, Asked
    <3>4. attempts' = attempts /\ tasks' = tasks
      BY <2>1 DEF vars
    <3>5. /\ StepOf(run[w]) = "deliver" => Accounted(run[w].key, run[w].digest)
          /\ StepOf(run[w]) = "read" => Accounted(run[w].key, run[w].bill)
      BY DEF HandedInv
    <3>6. /\ StepOf(run[w])' = "deliver" => Accounted(run[w].key, run[w].digest)'
          /\ StepOf(run[w])' = "read" => Accounted(run[w].key, run[w].bill)'
      BY <3>1, <3>2, <3>3, <3>4, <3>5 DEF Accounted, LastOf
    <3>7. QED
      BY <1>6, <2>1, <3>2, <3>6
  <2>3. CASE GoTo(w, "release")
    BY <1>8, <2>1, <2>3 DEF Steps
  <2>4. CASE Ends(w)
    BY <1>7, <2>1, <2>4
  <2>5. QED
    BY <1>10, <2>2, <2>3, <2>4 DEF Authorize
<1>11. ASSUME NEW w \in Workers, ReserveTask(w)
       PROVE  HandedInv'
  <2>1. delivered' = delivered /\ run[w].at # "idle"
    BY <1>11 DEF ReserveTask, outside, At
  <2>2. {"inspect", "latest"} \subseteq Steps \ {"authorize", "deliver", "read"}
    BY DEF Steps
  <2>3. CASE Dispatch(w, tasks[run[w].key]) /\ UNCHANGED vars
    <3>1. CASE /\ tasks[run[w].key].status = "succeeded"
               /\ run' = [run EXCEPT ![w] =
                           Asking([@ EXCEPT !.bill = tasks[run[w].key].result], "read")]
      BY <1>9, <2>1, <2>3, <3>1
    <3>2. QED
      BY <1>7, <1>8, <2>1, <2>2, <2>3, <3>1 DEF Dispatch
  <2>4. QED
    BY <1>7, <1>8, <1>11, <2>1, <2>2, <2>3 DEF ReserveTask
<1>12. ASSUME NEW w \in Workers, Current(w)
       PROVE  HandedInv'
  <2>1. delivered' = delivered /\ run[w].at # "idle" /\ UNCHANGED vars
    BY <1>12 DEF Current, outside, At
  <2>2. \/ Ends(w)
        \/ /\ tasks[run[w].key].status = "succeeded"
           /\ run' = [run EXCEPT ![w] =
                       Asking([@ EXCEPT !.bill = tasks[run[w].key].result], "read")]
    BY <1>12 DEF Current, Ends, IInv, LocalsInv
  <2>3. QED
    BY <1>7, <1>9, <2>1, <2>2
<1>13. ASSUME NEW w \in Workers, SettleResult(w)
       PROVE  HandedInv'
  <2> DEFINE r == run[w]  y == Asking(r, "deliver")
  <2>1. /\ r \in Run /\ r.at = "settle" /\ r.n \in AttemptKeys /\ r.key \in Keys
        /\ r.digest \in Digests /\ delivered' = delivered /\ run \in [Workers -> Run]
        /\ SuccessCall(w) \in OutcomeCall
    BY <1>13, SuccessIsCall DEF SettleResult, At, IInv, LocalsInv, LocalsOK, StepOf, Numbered,
                                InHand, Run, outside
  <2>2. PICK k \in Keys, n \in AttemptKeys, call \in OutcomeCall :
          k = r.key /\ n = r.n /\ call = SuccessCall(w)
    BY <2>1
  <2>3. call.outcome = "succeeded" /\ call.digest = r.digest
    BY <2>2 DEF SuccessCall
  <2>4. CASE run' = [run EXCEPT ![w] = y] /\ Accounted(k, call.digest)'
    <3>1. y \in Run /\ StepOf(y) = "deliver" /\ y.digest = r.digest /\ y.key = r.key
      BY <2>1, AskingKeeps DEF Asked
    <3> HIDE DEF y
    <3>2. run'[w] = y /\ \A v \in Workers \ {w} : run'[v] = run[v]
      BY <2>1, <2>4
    <3>3. StepOf(run[w])' = "deliver"
      BY <3>1, <3>2 DEF StepOf
    <3>4. Accounted(run[w].key, run[w].digest)'
      BY <2>2, <2>3, <2>4, <3>1, <3>2 DEF Accounted, LastOf
    <3>5. QED
      BY <1>6, <2>1, <3>2, <3>3, <3>4
  <2>5. RecordOutcome(k, n, call) => Accounted(k, call.digest)'
    BY <2>3, SuccessIsAccounted
  <2>6. UNCHANGED vars /\ tasks[k].result = r.digest => Accounted(k, call.digest)'
    <3> SUFFICES ASSUME UNCHANGED vars, tasks[k].result = r.digest
                 PROVE  Accounted(k, call.digest)'
      OBVIOUS
    <3>1. tasks[k].status = "succeeded" /\ tasks' = tasks
      BY <2>1, NullAssumption DEF DigestsInv, vars
    <3>2. QED
      BY <2>3, <3>1 DEF Accounted
  <2>7. \/ Ends(w)
        \/ run' = [run EXCEPT ![w] = y] /\ RecordOutcome(k, n, call)
        \/ run' = [run EXCEPT ![w] = y] /\ UNCHANGED vars /\ tasks[k].result = r.digest
    <3>1. Asks(w, "deliver") => run' = [run EXCEPT ![w] = y]
      BY <2>1 DEF Asks
    <3> HIDE DEF y
    <3>2. QED
      BY <1>13, <2>2, <3>1 DEF SettleResult
  <2> HIDE DEF y
  <2>8. QED
    BY <1>7, <2>1, <2>4, <2>5, <2>6, <2>7
<1>14. CASE UNCHANGED evars
  BY <1>3, <1>14 DEF evars, outside
<1>15. ASSUME NEW w \in Workers, Calls(w) \/ Work(w) \/ Throw(w)
       PROVE  HandedInv'
  BY <1>4, <1>5, <1>10, <1>11, <1>12, <1>13, <1>15 DEF Work
<1>16. CASE (\E k \in Keys, n \in AttemptKeys : Finish(k, n)) \/ Administer
            \/ (\E k \in Keys, count \in 0 .. 1, digest \in Digests : Review(k, count, digest))
  BY <1>3, <1>16 DEF Finish, Administer, Review, outside
<1>17. QED
  BY <1>14, <1>15, <1>16 DEF ENext

\* A caller never holds a result that the books do not explain.
THEOREM DeliveriesAreAccounted == ESpec => []DeliveredIsAccounted
<1>1. EInit => DigestsInv /\ HandedInv
  <2> SUFFICES ASSUME EInit
               PROVE  DigestsInv /\ HandedInv
    OBVIOUS
  <2>1. \A k \in Keys : tasks[k].result = NoDigest /\ attempts[k] = << >> /\ Len(attempts[k]) = 0
    BY DEF EInit, NoTask
  <2>2. \A w \in Workers : StepOf(run[w]) = "idle"
    BY IdleIsOK DEF EInit, StepOf
  <2>3. delivered = [k \in Keys |-> {}]
    BY DEF EInit
  <2>4. QED
    BY <2>1, <2>2, <2>3 DEF DigestsInv, HandedInv
<1>2. IInv /\ DigestsInv /\ HandedInv /\ IInv' /\ [ENext]_evars => DigestsInv' /\ HandedInv'
  BY LedgerStep, DigestsStep, HandedStep
<1>3. HandedInv => DeliveredIsAccounted
  BY DEF HandedInv, DeliveredIsAccounted, Accounted
<1>4. QED
  BY <1>1, <1>2, <1>3, ExecutorInvariant, PTL DEF ESpec

-----------------------------------------------------------------------------
\* The variables of the executor that the invariant leaves out.
RestOK ==
  /\ reviewed \subseteq Keys
  /\ delivered \in [Keys -> SUBSET Digests]
  /\ throws \in 0 .. ThrowBound

LEMMA RestStep ==
  ASSUME IInv, RestOK, [ENext]_evars
  PROVE  RestOK'
<1>1. CASE UNCHANGED <<reviewed, delivered, throws>>
  BY <1>1 DEF RestOK
<1>2. ASSUME throws < ThrowBound, throws' = throws + 1, UNCHANGED <<reviewed, delivered>>
      PROVE  RestOK'
  BY <1>2, ExecutorAssumption DEF RestOK
<1>3. ASSUME NEW w \in Workers, Read(w)
      PROVE  RestOK'
  <2>1. run[w].bill \in Digests /\ run[w].key \in Keys
    BY <1>3 DEF Read, At, IInv, LocalsInv, LocalsOK, StepOf, Run
  <2>2. QED
    BY <1>3, <2>1 DEF Read, RestOK
<1>4. ASSUME NEW w \in Workers, Deliver(w)
      PROVE  RestOK'
  <2>1. run[w].digest \in Digests /\ run[w].key \in Keys
    BY <1>4 DEF Deliver, At, IInv, LocalsInv, LocalsOK, StepOf, InHand, Run
  <2>2. QED
    BY <1>4, <2>1 DEF Deliver, RestOK
<1>5. ASSUME NEW k \in Keys, NEW count \in 0 .. 1, NEW digest \in Digests,
             Review(k, count, digest)
      PROVE  RestOK'
  BY <1>5 DEF Review, RestOK
<1>6. ASSUME NEW w \in Workers, Calls(w) \/ Work(w) \/ Throw(w)
      PROVE  RestOK'
  <2>1. CASE Submit(w) \/ Poll(w) \/ Throw(w)
    BY <1>1, <1>2, <2>1 DEF Submit, Poll, Throw
  <2>2. CASE Calls(w) \/ Authorize(w) \/ ReserveTask(w) \/ LatestAttempt(w) \/ Recover(w)
              \/ Verify(w) \/ Query(w) \/ Inspect(w) \/ Current(w) \/ Release(w) \/ Start(w)
              \/ Receipt(w) \/ Report(w) \/ Write(w) \/ SettleResult(w)
    BY <1>1, <2>2 DEF Calls, Begin, Authorize, ReserveTask, LatestAttempt, Recover, Verify, Query,
                      Inspect, Current, Release, Start, Receipt, Report, Write, SettleResult,
                      outside
  <2>3. QED
    BY <1>3, <1>4, <1>6, <2>1, <2>2 DEF Work
<1>7. CASE UNCHANGED evars \/ Administer \/ \E k \in Keys, n \in AttemptKeys : Finish(k, n)
  BY <1>1, <1>7 DEF evars, outside, Administer, Finish
<1>8. QED
  BY <1>5, <1>6, <1>7 DEF ENext

\* Every table, file and local keeps its shape.
THEOREM ExecutorTypeCorrect == ESpec => []ETypeOK
<1>1. EInit => RestOK
  BY ExecutorAssumption DEF EInit, RestOK
<1>2. IInv /\ RestOK /\ [ENext]_evars => RestOK'
  BY RestStep
<1>3. IInv /\ RestOK => ETypeOK
  BY DEF IInv, RowsInv, LocalsInv, JobsInv, JobTypes, FilesInv, RestOK, ETypeOK
<1>4. QED
  BY <1>1, <1>2, <1>3, ExecutorInvariant, PTL DEF ESpec
=============================================================================
