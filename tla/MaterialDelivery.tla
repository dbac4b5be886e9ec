---------------------------- MODULE MaterialDelivery ----------------------------
(***************************************************************************)
(* The coordinator that delivers one main image for one quote.             *)
(*                                                                         *)
(* A delivery is a document in the item's row: the attempts of each stage, *)
(* the candidate, and a lease that names the execution allowed to go on.   *)
(* An execution claims the lease, passes the stages (texts, an image, its  *)
(* review, and again for a rejected candidate), packs the accepted image   *)
(* and settles the one task of AiCreditLedger it stands for.  Executions   *)
(* outlive their lease, die, lose answers, and are taken up again.         *)
(*                                                                         *)
(* Each update() is one transaction, so one action; so is each write of a  *)
(* private file and each call of a supplier.  After an update the code     *)
(* runs on synchronously to its next choice, which is part of the action.  *)
(***************************************************************************)
EXTENDS AiCreditLedger

CONSTANTS
  Workers,           \* executions, in either process
  Prelude,           \* the text stages before the image: analysis, plan
  MaxCandidates,     \* images the quote may try, 2 by default
  MaxStageAttempts,  \* calls per stage, 2 by default
  SequenceBound,     \* stage attempts of the delivery (for model checking)
  FaultBound,        \* disturbances in one behaviour (for model checking): leases that
                     \* run out, crashes, lost answers, changes by people
  NoWorker, NoPackage

ASSUME DeliveryAssumption ==
  /\ MaxCandidates \in 1 .. 3 /\ MaxStageAttempts \in 1 .. 3
  /\ SequenceBound \in Nat /\ FaultBound \in Nat
  /\ Prelude \in Seq(STRING)
  /\ Keys # {} /\ 1 \in AttemptKeys /\ MaxResults >= 1 /\ 1 \in Amounts
  /\ NoWorker \notin Workers
  /\ NoPackage \notin [digest : Digests, candidate : 1 .. MaxCandidates]

VARIABLES
  item,       \* the item's row: waiting, ours, or in other hands
  doc,        \* its checkpoint final_delivery_v1
  expired,    \* the lease has run out
  source,     \* the source draft is what the delivery was prepared from
  job,        \* what became of the supplier's job of each attempt
  posts,      \* how often each attempt was posted
  file,       \* the private files of each attempt: none, the proof that it
              \* completed with the answer, or the result, which goes before it
  package,    \* the final file: its digest and the candidate in it
  run,        \* the locals of each execution
  reviewed,   \* the platform or the member closed the task by hand
  faults

files    == <<file, package>>
supplier == <<job, posts>>
others   == <<reviewed, faults>>
dvars    == <<vars, item, doc, expired, source, supplier, files, run, others>>

Key       == CHOOSE k \in Keys : TRUE
Stages    == {<<Prelude[i], 0>> : i \in DOMAIN Prelude} \cup ({"main", "review"} \X (1 .. MaxCandidates))
Sequences == 1 .. SequenceBound

StageAttempt == [stage : Stages, status : {"submitted", "unknown", "failed", "succeeded"},
                 receipt : BOOLEAN]
Document == [status : {"none", "prepared", "running", "unknown", "failed", "succeeded"},
             candidate : 1 .. MaxCandidates, attempts : Seq(StageAttempt),
             owner : Workers \cup {NoWorker}, reconcile : BOOLEAN,
             final : Digests \cup {NoDigest}]
Package  == [digest : Digests, candidate : 1 .. MaxCandidates]

\* The locals: the step, and the one to go on with; the sequence at the claim; the task as reserve() showed
\* it; whether the attempt of the ledger is at hand; the stage attempt and the
\* receipt read with it; whether the supplier attested completion; the digest.
Steps == {"idle", "reserve", "link", "start", "receipt", "recover", "mark", "check",
          "permit", "post", "answer", "query", "complete", "save", "record", "fail",
          "discard", "turn", "final", "pack", "settle", "bill", "close", "giveup",
          "refund", "bury", "reconcile", "doubt", "report", "clear"}
Run == [at : Steps, next : Steps, claimed : 0 .. SequenceBound,
        status : {"none"} \cup Open \cup Final, bill : Digests \cup {NoDigest},
        financial : BOOLEAN, n : {0} \cup Sequences, receipt : BOOLEAN,
        definite : BOOLEAN, digest : Digests \cup {NoDigest}]
Idle == [at |-> "idle", next |-> "idle", claimed |-> 0, status |-> "none", bill |-> NoDigest,
         financial |-> FALSE, n |-> 0, receipt |-> FALSE, definite |-> FALSE,
         digest |-> NoDigest]

DInit ==
  /\ account = [status |-> "active", optedIn |-> TRUE,
                available |-> MaxPoints, frozen |-> 0]
  /\ prices = {[key |-> p, version |-> v, points |-> 1] : p \in PriceKeys, v \in Versions}
  /\ tasks = [k \in Keys |-> NoTask]
  /\ attempts = [k \in Keys |-> << >>]
  /\ \E r \in References :
       entries = [e \in EntryKeys |->
                    IF e = <<"recharge", r>> THEN Line("recharge", MaxPoints, 0)
                    ELSE NoEntry]
  /\ operators = Persons
  /\ item = "queued"
  /\ doc = [status |-> "none", candidate |-> 1, attempts |-> << >>, owner |-> NoWorker,
            reconcile |-> FALSE, final |-> NoDigest]
  /\ expired = FALSE
  /\ source = TRUE
  /\ job = [n \in Sequences |-> "none"]
  /\ posts = [n \in Sequences |-> 0]
  /\ file = [n \in Sequences |-> "none"]
  /\ package = NoPackage
  /\ run = [w \in Workers |-> Idle]
  /\ reviewed = FALSE
  /\ faults = 0
-----------------------------------------------------------------------------
At(w, step)   == run[w].at = step
GoTo(w, step) == run' = [run EXCEPT ![w].at = step]
Ends(w)       == run' = [run EXCEPT ![w] = Idle]

\* catch: an execution that has the ledger's attempt marks the delivery unknown;
\* finally: every execution gives its lease back.
Failed(locals) == [Idle EXCEPT !.at = IF locals.financial THEN "doubt" ELSE "clear"]
Fails(w) == run' = [run EXCEPT ![w] = Failed(@)]

\* locked(): the lease is the execution's own and has not run out, and the item
\* is still the one it claimed.  Faulty variant: the token is not looked at.
OwnsUnfenced(w) == ~expired /\ item = "ours"
Owns(w) == doc.owner = w /\ ~expired /\ item = "ours"

\* The checks of locked() that an update may ask for besides the lease.
Authorized   == tasks[Key].request.creator \in operators
WalletIsOpen == account.status = "active" /\ tasks[Key].status \in {"running", "unknown"}
MayGoOn(w)   == Owns(w) /\ Authorized /\ source /\ WalletIsOpen

\* An update that the checks allow changes the document and goes on; another
\* one faults.
Update(w, allowed, document, locals) ==
  /\ IF allowed THEN doc' = document /\ run' = [run EXCEPT ![w] = locals]
     ELSE UNCHANGED doc /\ Fails(w)
  /\ UNCHANGED <<vars, item, expired, source, supplier, files, others>>

-----------------------------------------------------------------------------
\* Attempts of one stage, and where a document stands.
Of(d, stage) == {n \in 1 .. Len(d.attempts) : d.attempts[n].stage = stage}
LastIn(S)    == CHOOSE n \in S : \A other \in S : other <= n
IsDone(d, stage) ==
  Of(d, stage) # {} /\ d.attempts[LastIn(Of(d, stage))].status = "succeeded"

\* The stages in their order, up to the review of the candidate at hand.
Course(d) == [i \in 1 .. Len(Prelude) |-> <<Prelude[i], 0>>]
             \o << <<"main", d.candidate>>, <<"review", d.candidate>> >>
ToDo(d)   == {i \in DOMAIN Course(d) : ~IsDone(d, Course(d)[i])}
Current(d) == Course(d)[CHOOSE i \in ToDo(d) : \A other \in ToDo(d) : i <= other]

\* The verdict in the stored review.
IsAccepted(d) == job[LastIn(Of(d, <<"review", d.candidate>>))] = "good"

\* Another image may be tried.  Faulty variant: one too many.
IsCandidateBeyond(d) == d.candidate <= MaxCandidates
IsCandidateLeft(d) == d.candidate < MaxCandidates

\* The attempt of a stage is over without a result, so that another may follow.
\* Faulty variant: so it is when its fate is unknown.
IsOverOrUnknown(attempt) == attempt.status \in {"failed", "unknown"}
IsOver(attempt) == attempt.status = "failed"

\* What runStage and the loop over the candidates do next on document d.
NextStep(d) ==
  LET made == Of(d, Current(d)) IN
  IF ToDo(d) = {} THEN IF IsAccepted(d) THEN "final"
                       ELSE IF IsCandidateLeft(d) THEN "turn" ELSE "giveup"
  ELSE IF made = {} THEN "mark"
  ELSE IF ~IsOver(d.attempts[LastIn(made)]) THEN "check"
  ELSE IF Cardinality(made) < MaxStageAttempts THEN "mark" ELSE "giveup"

\* The locals of an execution that goes on with document d.
Going(locals, d) ==
  LET n == IF NextStep(d) = "check" THEN LastIn(Of(d, Current(d))) ELSE 0 IN
  [Idle EXCEPT !.at = NextStep(d), !.claimed = locals.claimed, !.n = n,
               !.financial = locals.financial, !.receipt = n # 0 /\ d.attempts[n].receipt]

Progress(w, allowed, document) == Update(w, allowed, document, Going(run[w], document))

-----------------------------------------------------------------------------
\* A new execution takes the lease if nobody holds one that has not run out.
Claim(w) ==
  /\ At(w, "idle")
  /\ item = IF doc.status = "none" THEN "queued" ELSE "ours"
  /\ doc.owner = NoWorker \/ expired
  /\ source
  /\ operators # {}
  /\ doc' = [doc EXCEPT !.owner = w, !.status = IF @ = "none" THEN "prepared" ELSE @]
  /\ item' = "ours"
  /\ expired' = FALSE
  /\ run' = [run EXCEPT ![w] = [Idle EXCEPT !.at = "reserve",
                                            !.claimed = Len(doc.attempts)]]
  /\ UNCHANGED <<vars, source, supplier, files, others>>

\* reserve(): a new task, or the one this delivery has.
ReserveTask(w, request) ==
  /\ At(w, "reserve")
  /\ request.results = 1
  /\ IF tasks[Key].status = "none" THEN Reserve(Key, request)
     ELSE request = tasks[Key].request /\ Authorized /\ UNCHANGED vars
  /\ run' = [run EXCEPT ![w].at = "link", ![w].status = tasks'[Key].status,
                        ![w].bill = tasks'[Key].result]
  /\ UNCHANGED <<item, doc, expired, source, supplier, files, others>>

\* reserve() refuses: no permission, no open wallet or no points.
ReserveIsRefused(w) ==
  /\ At(w, "reserve")
  /\ \/ operators = {}
     \/ tasks[Key].status = "none" /\ account.status # "active"
  /\ Fails(w)
  /\ UNCHANGED <<vars, item, doc, expired, source, supplier, files, others>>

\* verifyFinal(): the file packs a candidate whose image and review the document
\* has as succeeded, with a review that passed.
IsVerified ==
  /\ package # NoPackage
  /\ LET c == package.candidate IN
     /\ IsDone(doc, <<"main", c>>) /\ IsDone(doc, <<"review", c>>)
     /\ job[LastIn(Of(doc, <<"review", c>>))] = "good"

\* The document is linked to the task, and the task's end, if it has one, is
\* carried over: a bill for another result than the file is not this delivery's.
\* Else the execution will go on with the document as it is now.
Link(w) ==
  LET status == run[w].status IN
  /\ At(w, "link")
  /\ Update(w, Owns(w) /\ Authorized /\ source, doc,
       IF doc.reconcile THEN [Idle EXCEPT !.at = "reconcile"]
       ELSE IF status = "failed" THEN [Idle EXCEPT !.at = "bury"]
       ELSE IF status # "succeeded"
            THEN [Going(run[w], doc) EXCEPT !.at = "start", !.next = NextStep(doc)]
       ELSE IF IsVerified /\ package.digest = run[w].bill
            THEN [Idle EXCEPT !.at = "close", !.digest = run[w].bill]
       ELSE [Idle EXCEPT !.at = "reconcile"])

\* The one attempt of the composite delivery, new or as found.
FindAttempt(w, provider) ==
  /\ At(w, "start")
  /\ \/ attempts[Key] = << >> /\ StartAttempt(Key, 1, provider)
     \/ attempts[Key] # << >> /\ Authorized /\ UNCHANGED vars
  /\ run' = [run EXCEPT ![w].at = "receipt", ![w].financial = TRUE]
  /\ UNCHANGED <<item, doc, expired, source, supplier, files, others>>

NoAttempt(w) ==
  /\ At(w, "start")
  /\ \/ ~Authorized
     \/ attempts[Key] = << >> /\ (account.status # "active" \/ tasks[Key].status # "reserved")
  /\ Fails(w)
  /\ UNCHANGED <<vars, item, doc, expired, source, supplier, files, others>>

\* The receipt of the delivery itself, with which its failure is proved later.
KeepReceipt(w, receipt) ==
  /\ At(w, "receipt")
  /\ IF attempts[Key][1].receipt = receipt THEN UNCHANGED vars /\ GoTo(w, "recover")
     ELSE IF attempts[Key][1].status = "submitted"
          THEN RecordReceipt(Key, 1, receipt) /\ GoTo(w, "recover")
     ELSE UNCHANGED vars /\ Fails(w)
  /\ UNCHANGED <<item, doc, expired, source, supplier, files, others>>

\* A final file left by an earlier execution is settled; else the stages go on.
Recover(w) ==
  /\ At(w, "recover")
  /\ run' = [run EXCEPT ![w] = IF package # NoPackage
                               THEN [@ EXCEPT !.at = "settle", !.digest = package.digest,
                                              !.n = 0, !.receipt = FALSE]
                               ELSE [@ EXCEPT !.at = run[w].next]]
  /\ UNCHANGED <<vars, item, doc, expired, source, supplier, files, others>>

-----------------------------------------------------------------------------
\* A marker for a new attempt is on file before the supplier is called.
Mark(w) ==
  LET n == Len(doc.attempts) + 1
      marked == [doc EXCEPT !.attempts = Append(@,
                   [stage |-> Current(doc), status |-> "submitted", receipt |-> FALSE]),
                            !.status = "running"]
  IN  /\ At(w, "mark") /\ n \in Sequences
      /\ Update(w, MayGoOn(w), marked, Going(run[w], marked))

\* What the files say of the attempt: a result, proof of completion, or nothing.
\* A proof with a receipt this execution has not read is not accepted.
Check(w) ==
  LET n == run[w].n IN
  /\ At(w, "check")
  /\ run' = [run EXCEPT ![w] =
       IF file[n] = "result" THEN [@ EXCEPT !.at = "record"]
       ELSE IF file[n] = "none" THEN [@ EXCEPT !.at = "permit"]
       ELSE IF doc.attempts[n].receipt /\ ~@.receipt THEN Failed(@)
       ELSE [@ EXCEPT !.at = "save", !.definite = TRUE]]
  /\ UNCHANGED <<vars, item, doc, expired, source, supplier, files, others>>

\* Only a marker this execution set itself may be posted: one from before its
\* claim may have been.  Faulty variant: a marker without a receipt is posted.
Reposts(w) == TRUE
IsFirstCall(w) == run[w].n > run[w].claimed

\* The permit is asked for before every call of a supplier.
Permit(w) ==
  LET n == run[w].n IN
  /\ At(w, "permit")
  /\ Update(w, MayGoOn(w) /\ doc.attempts[n].status \in Unresolved, doc,
       IF run[w].receipt THEN [run[w] EXCEPT !.at = "query"]
       ELSE IF IsFirstCall(w) THEN [run[w] EXCEPT !.at = "post"]
       ELSE Failed(run[w]))

\* The POST leaves; the lease may have run out since the permit.
Submit(w) ==
  LET n == run[w].n IN
  /\ At(w, "post")
  /\ posts' = [posts EXCEPT ![n] = @ + 1]
  /\ job' = [job EXCEPT ![n] = IF @ = "none" THEN "processing" ELSE @]
  /\ GoTo(w, "answer")
  /\ UNCHANGED <<vars, item, doc, expired, source, files, others>>

\* saveReceipt(): the job number is kept whoever holds the lease.
Receive(w) ==
  LET n == run[w].n IN
  /\ At(w, "answer")
  /\ ~doc.attempts[n].receipt /\ doc.attempts[n].status \in Unresolved
  /\ doc' = [doc EXCEPT !.attempts[n].receipt = TRUE]
  /\ UNCHANGED <<vars, item, expired, source, supplier, files, run, others>>

\* How a job of a stage may end: usable, usable but with a review that rejects,
\* unusable, or failed by the supplier's own word.
EndsOf(stage) ==
  {"good", "bad", "failed"} \cup (IF stage[1] = "review" THEN {"rejected"} ELSE {})

\* The supplier's answer, to a POST or to a query by receipt.  A job ends at the
\* latest when its end is first told; an answer to a POST may come without the
\* word that it is complete.
Answer(w) ==
  LET n == run[w].n IN
  /\ At(w, "answer") \/ At(w, "query")
  /\ \E end \in EndsOf(doc.attempts[n].stage), definite \in BOOLEAN :
       /\ job[n] \in {"processing", end}
       /\ At(w, "query") \/ end = "failed" => definite
       /\ job' = [job EXCEPT ![n] = end]
       /\ run' = [run EXCEPT ![w].definite = definite,
                             ![w].at = IF end = "failed" THEN "fail"
                                       ELSE IF definite THEN "complete" ELSE "save"]
  /\ UNCHANGED <<vars, item, doc, expired, source, posts, files, others>>

\* The job is still processing; the delivery waits.
Pending(w) ==
  /\ At(w, "query")
  /\ job[run[w].n] = "processing"
  /\ Fails(w)
  /\ UNCHANGED <<vars, item, doc, expired, source, supplier, files, others>>

\* The supplier's word that the attempt is complete is filed with its answer.
Complete(w) ==
  /\ At(w, "complete")
  /\ file' = [file EXCEPT ![run[w].n] = IF @ = "result" THEN @ ELSE "proof"]
  /\ GoTo(w, "save")
  /\ UNCHANGED <<vars, item, doc, expired, source, supplier, package, others>>

\* A usable result is filed.  An unusable text that is proved complete is a failed
\* attempt; any other unusable result is a doubt.  Faulty variant: an image that
\* cannot be read counts as failed too.
IsWastedMedia(w, stage) == run[w].definite
IsWasted(w, stage) == run[w].definite /\ stage[1] # "main"
Save(w) ==
  LET n == run[w].n IN
  /\ At(w, "save")
  /\ IF job[n] # "bad" THEN file' = [file EXCEPT ![n] = "result"] /\ GoTo(w, "record")
     ELSE /\ UNCHANGED file
          /\ IF IsWasted(w, doc.attempts[n].stage) THEN GoTo(w, "discard") ELSE Fails(w)
  /\ UNCHANGED <<vars, item, doc, expired, source, supplier, package, others>>

\* The document with attempt n at its end.  Its receipt stays in the row but is
\* not read again, and is dropped here.
Finished(n, status) ==
  [doc EXCEPT !.attempts[n].status = status, !.attempts[n].receipt = FALSE]

Record(w) ==
  /\ At(w, "record")
  /\ Progress(w, MayGoOn(w), [Finished(run[w].n, "succeeded") EXCEPT !.status = "running"])

\* A failure by the supplier's word is recorded even if the wallet was closed or
\* the source changed meanwhile; an unusable text only in a delivery that may go on.
Fail(w) ==
  /\ At(w, "fail") \/ At(w, "discard")
  /\ Progress(w, IF At(w, "fail") THEN Owns(w) /\ Authorized ELSE MayGoOn(w),
              Finished(run[w].n, "failed"))

\* A rejected candidate is followed by the next.
Turn(w) ==
  /\ At(w, "turn")
  /\ Progress(w, MayGoOn(w), [doc EXCEPT !.candidate = @ + 1])

-----------------------------------------------------------------------------
\* assertCurrent() before the final file is written, settled or given up.
Reassert(w, step, next) ==
  /\ At(w, step)
  /\ Update(w, MayGoOn(w), doc, [run[w] EXCEPT !.at = next])

\* The final file is written once.  Its bytes hold the attempt, costs included,
\* so two executions may pack different bytes, and the second is refused.
\* Faulty variant: it replaces the first.
Replaces(digest) == TRUE
Installs(digest) == package = NoPackage \/ package.digest = digest
Pack(w) ==
  /\ At(w, "pack")
  /\ \E digest \in Digests :
       /\ package' = IF Installs(digest) THEN [digest |-> digest, candidate |-> doc.candidate]
                     ELSE package
       /\ run' = [run EXCEPT ![w] = IF Installs(digest)
                                    THEN [@ EXCEPT !.at = "settle", !.digest = digest]
                                    ELSE Failed(@)]
  /\ UNCHANGED <<vars, item, doc, expired, source, supplier, file, others>>

Settled(w) ==
  /\ At(w, "settle")
  /\ Update(w, IsVerified /\ MayGoOn(w), doc, [run[w] EXCEPT !.at = "bill"])

\* The ledger's answer confirms the outcome: it is the task's end, and a late
\* one is not in conflict with the bill.  Faulty variant: the answer is not
\* looked at.
IsTakenForAgreed(call) == TRUE
IsAgreed(call) ==
  tasks'[Key].status = call.outcome /\ (attempts' # attempts => ~attempts'[Key][1].conflict)

\* recordOutcome() with the ledger's answer: recorded now, or a replay of the
\* same outcome, or an error.
Reports(w, call, agreed) ==
  LET attempt == attempts[Key][1]
      isReplay == /\ attempt.status = call.outcome
                  /\ call.outcome = "succeeded" =>
                       attempt.digest = call.digest /\ tasks[Key].result = call.digest
  IN  /\ \/ RecordOutcome(Key, 1, call)
         \/ ~Accepts(tasks[Key], attempt, call) /\ UNCHANGED vars
      /\ IF Accepts(tasks[Key], attempt, call) \/ isReplay
         THEN GoTo(w, IF IsAgreed(call) THEN agreed ELSE "reconcile")
         ELSE Fails(w)
      /\ UNCHANGED <<item, doc, expired, source, supplier, files, others>>

BillCall(digest, receipt) ==
  [outcome |-> "succeeded", retryable |-> FALSE, count |-> 1, digest |-> digest,
   receipt |-> receipt, verified |-> "stored"]
RefundCall(receipt) ==
  [outcome |-> "failed", retryable |-> FALSE, count |-> 1, digest |-> NoDigest,
   receipt |-> receipt, verified |-> "receipt"]
DoubtCall ==
  [outcome |-> "unknown", retryable |-> FALSE, count |-> 1, digest |-> NoDigest,
   receipt |-> NoReceipt, verified |-> "no"]

Bill(w, receipt)   == At(w, "bill") /\ Reports(w, BillCall(run[w].digest, receipt), "close")
Refund(w, receipt) == At(w, "refund") /\ Reports(w, RefundCall(receipt), "bury")

\* The document follows the ledger.
Close(w) ==
  /\ At(w, "close")
  /\ Update(w, Owns(w) /\ Authorized /\ source,
            [doc EXCEPT !.status = "succeeded", !.final = run[w].digest],
            [run[w] EXCEPT !.at = "clear"])
Bury(w) ==
  /\ At(w, "bury")
  /\ Update(w, Owns(w) /\ Authorized /\ (run[w].financial \/ source),
            [doc EXCEPT !.status = "failed"], [run[w] EXCEPT !.at = "clear"])

\* The ledger says otherwise: the delivery stops for the platform to look at.
Reconciles(w) ==
  /\ At(w, "reconcile")
  /\ Update(w, Owns(w), [doc EXCEPT !.status = "unknown", !.reconcile = TRUE], Failed(run[w]))

\* markUnknown(): in the document if the lease allows, then in the ledger.
Doubt(w) ==
  LET open == {n \in 1 .. Len(doc.attempts) : doc.attempts[n].status = "submitted"}
      first == CHOOSE n \in open : \A other \in open : n <= other
  IN  /\ At(w, "doubt")
      /\ doc' = IF ~Owns(w) THEN doc
                ELSE [doc EXCEPT !.status = "unknown",
                        !.attempts = [n \in DOMAIN @ |-> IF n \in open /\ n = first
                                        THEN [@[n] EXCEPT !.status = "unknown"] ELSE @[n]]]
      /\ GoTo(w, "report")
      /\ UNCHANGED <<vars, item, expired, source, supplier, files, others>>

Report(w) ==
  /\ At(w, "report")
  /\ \/ RecordOutcome(Key, 1, DoubtCall)
     \/ ~Accepts(tasks[Key], attempts[Key][1], DoubtCall) /\ UNCHANGED vars
  /\ GoTo(w, "clear")
  /\ UNCHANGED <<item, doc, expired, source, supplier, files, others>>

\* finally: only the owner's lease is given back.
Clear(w) ==
  /\ At(w, "clear")
  /\ doc' = IF doc.owner = w THEN [doc EXCEPT !.owner = NoWorker] ELSE doc
  /\ Ends(w)
  /\ UNCHANGED <<vars, item, expired, source, supplier, files, others>>

Disturbs == faults < FaultBound /\ faults' = faults + 1

\* A statement or a call fails after it took effect or before.
Throw(w) ==
  /\ ~At(w, "idle") /\ ~At(w, "clear") /\ Disturbs
  /\ run' = [run EXCEPT ![w] = IF @.at = "doubt" THEN [@ EXCEPT !.at = "report"]
                               ELSE IF @.at = "report" THEN [@ EXCEPT !.at = "clear"]
                               ELSE Failed(@)]
  /\ UNCHANGED <<vars, item, doc, expired, source, supplier, files, reviewed>>

\* The process dies, or the lease cannot be given back: it stays until it runs
\* out.
Crash(w) ==
  /\ ~At(w, "idle") /\ Disturbs
  /\ Ends(w)
  /\ UNCHANGED <<vars, item, doc, expired, source, supplier, files, reviewed>>

-----------------------------------------------------------------------------
\* The lease outlasts two minutes without an update of its owner.
Expire ==
  /\ doc.owner # NoWorker /\ ~expired
  /\ Disturbs
  /\ expired' = TRUE
  /\ UNCHANGED <<vars, item, doc, source, supplier, files, run, reviewed>>

\* What people do to a delivery in flight: they pause the item, or the batch
\* worker claims it; edit its source, or undo that; close or cancel its task by
\* hand; give and take permissions; open and close the wallet.
TakeOver ==
  /\ item # "taken"
  /\ item' = "taken"
  /\ UNCHANGED <<vars, source, reviewed>>
EditSource ==
  /\ source' = ~source
  /\ UNCHANGED <<vars, item, reviewed>>
Review ==
  /\ \/ \E count \in 0 .. 1, digest \in Digests : Reconcile(Key, count, digest)
     \/ ReleaseUnsubmitted(Key)
  /\ reviewed' = TRUE
  /\ UNCHANGED <<item, source>>
Administer ==
  /\ \/ \E people \in SUBSET Persons : SetOperators(people)
     \/ \E status \in {"active", "disabled"} : ConfigureAccount(status)
  /\ UNCHANGED <<item, source, reviewed>>

Change ==
  /\ Disturbs
  /\ TakeOver \/ EditSource \/ Review \/ Administer
  /\ UNCHANGED <<doc, expired, supplier, files, run>>

Prepare(w) ==
  \/ Claim(w)
  \/ \E request \in Request : ReserveTask(w, request)
  \/ ReserveIsRefused(w)
  \/ Link(w)
  \/ \E provider \in Providers : FindAttempt(w, provider)
  \/ NoAttempt(w)
  \/ \E receipt \in Receipts : KeepReceipt(w, receipt)
  \/ Recover(w)

Stage(w) ==
  \/ Mark(w) \/ Check(w) \/ Permit(w) \/ Submit(w) \/ Receive(w) \/ Answer(w)
  \/ Pending(w) \/ Complete(w) \/ Save(w) \/ Record(w) \/ Fail(w) \/ Turn(w)

Conclude(w) ==
  \/ Reassert(w, "final", "pack")
  \/ Reassert(w, "giveup", "refund")
  \/ Pack(w) \/ Settled(w)
  \/ \E receipt \in Receipts : Bill(w, receipt) \/ Refund(w, receipt)
  \/ Close(w) \/ Bury(w) \/ Reconciles(w) \/ Doubt(w) \/ Report(w) \/ Clear(w)

DNext ==
  \/ \E w \in Workers :
       Prepare(w) \/ Stage(w) \/ Conclude(w) \/ Throw(w) \/ Crash(w)
  \/ Expire
  \/ Change

DSpec == DInit /\ [][DNext]_dvars

-----------------------------------------------------------------------------
\* Every row, file and local keeps its shape.
DTypeOK ==
  /\ TypeOK
  /\ item \in {"queued", "ours", "taken"}
  /\ doc \in Document
  /\ expired \in BOOLEAN /\ source \in BOOLEAN /\ reviewed \in BOOLEAN
  /\ job \in [Sequences -> {"none", "processing", "good", "bad", "rejected", "failed"}]
  /\ posts \in [Sequences -> Nat]
  /\ file \in [Sequences -> {"none", "proof", "result"}]
  /\ package \in Package \cup {NoPackage}
  /\ run \in [Workers -> Run]
  /\ faults \in 0 .. FaultBound

\* A job that will deliver nothing: the supplier says it failed, or its text is of
\* no use.  An image that cannot be read may be there all the same.
IsDead(n) ==
  \/ job[n] = "failed"
  \/ job[n] = "bad" /\ doc.attempts[n].stage[1] # "main"

\* A stage is never paid for twice: each marker is posted at most once, and a
\* second attempt follows only when the supplier's first job is dead, whoever
\* held the lease meanwhile and whatever answers were lost.
OneLiveJob ==
  /\ \A n \in Sequences : posts[n] <= 1
  /\ \A stage \in Stages : \A m, n \in Of(doc, stage) :
       m < n => IsDead(m)

\* Points come back only when nothing was delivered: every call of some stage
\* came to nothing, or the last image the quote allows was rejected.
RefundIsProven ==
  tasks[Key].status = "failed" /\ ~reviewed =>
    \/ \E stage \in Stages :
         /\ Cardinality(Of(doc, stage)) = MaxStageAttempts
         /\ \A n \in Of(doc, stage) : IsDead(n)
    \/ \E n \in Of(doc, <<"review", MaxCandidates>>) : job[n] = "rejected"

\* Points are taken only for the file on disk, which holds an image whose review
\* accepted it, and only once an image and a review are there.
BillIsTheDelivery ==
  tasks[Key].status = "succeeded" /\ ~reviewed =>
    /\ package # NoPackage /\ package.digest = tasks[Key].result
    /\ IsVerified

\* What the document tells the member of the end is what the bill says.
DocumentAgrees ==
  /\ doc.status = "succeeded" =>
       /\ tasks[Key].status = "succeeded"
       /\ doc.final = tasks[Key].result /\ package.digest = doc.final
  /\ doc.status = "failed" => tasks[Key].status = "failed"
=============================================================================
