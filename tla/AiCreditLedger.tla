---------------------------- MODULE AiCreditLedger ----------------------------
(***************************************************************************)
(* The prepaid AI points of one enterprise.                                *)
(*                                                                         *)
(* Every operation is one MySQL transaction that first takes the tenant's  *)
(* row FOR UPDATE (lockTenant), so each is one atomic action here.  Rows   *)
(* of two tenants are never read together, so one tenant is modelled.  A   *)
(* call that throws rolls back; a call that replays an earlier one returns *)
(* what is stored: neither changes state, and both are stuttering steps.   *)
(***************************************************************************)
EXTENDS Integers, Sequences, FiniteSets, PointSums

CONSTANTS
  Persons,        \* members of the enterprise
  Keys,           \* idempotency keys; (tenant, key) is unique, so a key is a task
  Inputs,         \* input_sha256 of a request
  PriceKeys,      \* billable capabilities
  References,     \* payment references of recharges
  Providers,      \* provider and model of an attempt
  Receipts,       \* job numbers a provider hands out
  Digests,        \* sha256 of a stored result
  Amounts,        \* points a recharge or a price may name
  Versions,       \* price versions
  MaxPoints,      \* MAX_POINTS, 10^12 in the code
  MaxResults,     \* results one task may request, 100 in the code
  AttemptBound,   \* attempts per task, the executor's maxAttempts (at most 5)
  NoRequest, NoReceipt, NoDigest

ASSUME LimitAssumption ==
  /\ MaxPoints \in Nat /\ MaxResults \in Nat /\ AttemptBound \in Nat
  /\ Amounts \subseteq 1 .. MaxPoints
  /\ Versions \subseteq Nat

ASSUME RowAssumption == IsFiniteSet(Keys) /\ IsFiniteSet(References)

ASSUME NullAssumption == NoReceipt \notin Receipts /\ NoDigest \notin Digests

VARIABLES
  account,    \* the ai_credit_accounts row
  prices,     \* the ai_credit_prices rows
  tasks,      \* the ai_credit_tasks row of each key
  attempts,   \* the ai_credit_attempts rows of each task, by attempt_number
  entries,    \* the ai_credit_entries row of each entry_key
  operators   \* members who hold the operations permission now

vars == <<account, prices, tasks, attempts, entries, operators>>

Points     == 0 .. MaxPoints
Final      == {"succeeded", "failed"}
Open       == {"reserved", "running", "unknown"}
Outcomes   == {"succeeded", "failed", "unknown"}
Unresolved == {"submitted", "unknown"}
AttemptKeys == 1 .. AttemptBound
EntryKeys  == ({"recharge"} \X References) \cup ({"reserve", "settle"} \X Keys)

Account == [status : {"none", "disabled", "active"}, optedIn : BOOLEAN,
            available : Points, frozen : Points]
Price   == [key : PriceKeys, version : Versions, points : Amounts]
Request == [creator : Persons, input : Inputs, price : PriceKeys,
            results : 1 .. MaxResults]
Task    == [status : {"none"} \cup Open \cup Final,
            request : Request \cup {NoRequest}, points : Points,
            reserved : Points, charged : Points,
            successful : 0 .. MaxResults, result : Digests \cup {NoDigest}]
Attempt == [key : AttemptKeys, provider : Providers,
            status : {"submitted"} \cup Outcomes,
            receipt : Receipts \cup {NoReceipt},
            digest : Digests \cup {NoDigest}, conflict : BOOLEAN]
Entry   == [kind : {"none", "recharge", "reserve", "settle", "release"},
            available : Int, frozen : Int]

\* What recordOutcome is told.  The executor always passes the digest of the
\* stored result both as resultSha256 and as outcomeSha256, with the reference
\* credit-result:<task>, so one digest stands for the three; a failure has none.
OutcomeCall ==
  {call \in [outcome : Outcomes, retryable : BOOLEAN, count : 1 .. MaxResults,
             digest : Digests \cup {NoDigest}, receipt : Receipts \cup {NoReceipt},
             verified : {"no", "stored", "receipt"}] :
     call.digest = NoDigest <=> call.outcome # "succeeded"}

NoTask  == [status |-> "none", request |-> NoRequest, points |-> 0, reserved |-> 0,
            charged |-> 0, successful |-> 0, result |-> NoDigest]
NoEntry == [kind |-> "none", available |-> 0, frozen |-> 0]

Init ==
  /\ account = [status |-> "none", optedIn |-> FALSE, available |-> 0, frozen |-> 0]
  /\ prices = {}
  /\ tasks = [k \in Keys |-> NoTask]
  /\ attempts = [k \in Keys |-> << >>]
  /\ entries = [e \in EntryKeys |-> NoEntry]
  /\ operators \in SUBSET Persons

-----------------------------------------------------------------------------
\* integer(): the balances and charges the ledger accepts.  Faulty variant: no
\* upper bound.
AnyBalance(points) == points \in Int
IsBalance(points) == points \in Points

\* The line entry() appends.  Faulty variant: the frozen column is not kept.
LineOfAvailable(kind, available, frozen) ==
  [kind |-> kind, available |-> available, frozen |-> 0]
Line(kind, available, frozen) ==
  [kind |-> kind, available |-> available, frozen |-> frozen]

\* entry(): append one ledger line and move the balances with it.  The unique
\* key refuses a second line, integer() a balance outside 0 .. MAX_POINTS.
Post(e, kind, available, frozen) ==
  /\ entries[e].kind = "none"
  /\ IsBalance(account.available + available)
  /\ IsBalance(account.frozen + frozen)
  /\ entries' = [entries EXCEPT ![e] = Line(kind, available, frozen)]
  /\ account' = [account EXCEPT !.available = @ + available, !.frozen = @ + frozen]

\* The price a new request is quoted: the latest version of its capability.
IsCurrent(price) ==
  /\ price \in prices
  /\ \A other \in prices : other.key = price.key => other.version <= price.version

\* How many results a settlement may bill.  Faulty variant: more than the task
\* requested.
AnyCount(task) == 0 .. MaxResults
BillableCounts(task) == 0 .. task.request.results

\* What the results cost.  Faulty variant: at the price of the day.
ChargeOfToday(task, count) ==
  count * (CHOOSE price \in prices : IsCurrent(price) /\ price.key = task.request.price).points
ChargeOf(task, count) == count * task.points

\* What a settlement gives back to the available and takes from the frozen
\* points.  Faulty variants: the charge is given back too; only it is unfrozen.
ReturnedAll(task, charged) == task.reserved
Returned(task, charged) == task.reserved - charged
UnfrozenCharge(task, charged) == charged
Unfrozen(task, charged) == task.reserved

\* settle(): close the task, charge count results and return the rest.
Settle(k, count, digest) ==
  LET task == tasks[k]
      charged == ChargeOf(task, count)
  IN  /\ task.status \notin Final
      /\ count \in BillableCounts(task)
      /\ IsBalance(charged)
      /\ account.status # "none"
      /\ Post(<<"settle", k>>, IF count = 0 THEN "release" ELSE "settle",
              Returned(task, charged), -Unfrozen(task, charged))
      /\ tasks' = [tasks EXCEPT
           ![k].status = IF count = 0 THEN "failed" ELSE "succeeded",
           ![k].charged = charged, ![k].successful = count,
           ![k].result = IF count = 0 THEN NoDigest ELSE digest]

-----------------------------------------------------------------------------
\* Platform: open, disable or re-enable the wallet; the tenant's opt-in flag
\* is set for good in the same transaction.
ConfigureAccount(status) ==
  /\ account' = [account EXCEPT !.status = status, !.optedIn = TRUE]
  /\ UNCHANGED <<prices, tasks, attempts, entries, operators>>

\* Platform: publish a price; (key, version) is unique and no row is changed.
CreatePrice(key, version, points) ==
  /\ \A price \in prices : ~(price.key = key /\ price.version = version)
  /\ prices' = prices \cup {[key |-> key, version |-> version, points |-> points]}
  /\ UNCHANGED <<account, tasks, attempts, entries, operators>>

\* Platform: credit a payment once; its reference is the idempotency key.
Recharge(reference, points) ==
  /\ account.status # "none"
  /\ Post(<<"recharge", reference>>, "recharge", points, 0)
  /\ UNCHANGED <<prices, tasks, attempts, operators>>

\* A member quotes and freezes the points of a new task.
Reserve(k, request) ==
  /\ request.creator \in operators
  /\ tasks[k].status = "none"
  /\ account.status = "active"
  /\ \E price \in prices :
       /\ price.key = request.price
       /\ IsCurrent(price)
       /\ LET required == price.points * request.results
          IN  /\ IsBalance(required)
              /\ required <= account.available
              /\ Post(<<"reserve", k>>, "reserve", -required, required)
              /\ tasks' = [tasks EXCEPT ![k] =
                   [status |-> "reserved", request |-> request,
                    points |-> price.points, reserved |-> required, charged |-> 0,
                    successful |-> 0, result |-> NoDigest]]
  /\ UNCHANGED <<prices, attempts, operators>>

\* A task no provider holds.  Faulty variant: an unknown outcome counts as none.
IsSubmittableOrUnknown(task) == task.status \in {"reserved", "unknown"}
IsSubmittable(task) == task.status = "reserved"

\* The creator marks a submission before the network call; a known attempt
\* key is answered with should_submit: false and changes nothing.
StartAttempt(k, key, provider) ==
  /\ IsSubmittable(tasks[k])
  /\ tasks[k].request.creator \in operators
  /\ account.status = "active"
  /\ \A n \in 1 .. Len(attempts[k]) : attempts[k][n].key # key
  /\ attempts' = [attempts EXCEPT ![k] = Append(@,
       [key |-> key, provider |-> provider, status |-> "submitted",
        receipt |-> NoReceipt, digest |-> NoDigest, conflict |-> FALSE])]
  /\ tasks' = [tasks EXCEPT ![k].status = "running"]
  /\ UNCHANGED <<account, prices, entries, operators>>

-----------------------------------------------------------------------------
\* An attempt whose fate was unknown may be resolved only by a verified stored
\* result or by the receipt already on the row.  Faulty variant: the receipt does
\* not count.
StoredRecovery(attempt, call) ==
  attempt.status = "unknown" /\ call.verified = "stored" /\ call.outcome = "succeeded"
VerifiedRecovery(attempt, call) ==
  /\ attempt.status = "unknown"
  /\ \/ call.verified = "stored" /\ call.outcome = "succeeded"
     \/ /\ call.verified = "receipt"
        /\ call.receipt # NoReceipt
        /\ call.receipt = attempt.receipt

\* The calls recordOutcome acts on; the others are replays or errors.
Accepts(task, attempt, call) ==
  /\ call.receipt = NoReceipt \/ attempt.receipt \in {NoReceipt, call.receipt}
  /\ attempt.status = "submitted" \/ VerifiedRecovery(attempt, call)
  /\ call.outcome = "succeeded" => call.count <= task.request.results

\* A closed bill.  Faulty variant: a refunded task is not taken for closed.
IsCharged(task) == task.status = "succeeded"
IsClosed(task) == task.status \in Final

\* A late outcome that disagrees with the bill already closed.  Faulty variant:
\* only the verdict is compared, not what was delivered.
ConflictingVerdict(task, call) == task.status \in Final /\ task.status # call.outcome
Conflicts(task, call) ==
  /\ task.status \in Final
  /\ \/ task.status # call.outcome
     \/ /\ call.outcome = "succeeded"
        /\ task.successful # call.count \/ task.result # call.digest

\* The attempt row as recordOutcome rewrites it.  The digest of a failure only
\* serves to recognise a replay of the same call and is left out.
Recorded(task, attempt, call) ==
  [attempt EXCEPT !.status = call.outcome,
                  !.digest = IF call.outcome = "succeeded" THEN call.digest ELSE NoDigest,
                  !.receipt = IF call.receipt = NoReceipt THEN @ ELSE call.receipt,
                  !.conflict = Conflicts(task, call)]

\* The server records what the provider did; allowed after the creator lost
\* the permission, since it settles an existing fact.
RecordOutcome(k, n, call) ==
  LET task == tasks[k]
      isFinal == IsClosed(task)
      retry == call.outcome = "failed" /\ call.retryable
  IN  /\ n \in 1 .. Len(attempts[k])
      /\ Accepts(task, attempts[k][n], call)
      /\ attempts' = [attempts EXCEPT ![k][n] = Recorded(task, @, call)]
      /\ \/ /\ isFinal
            /\ UNCHANGED <<account, tasks, entries>>
         \/ /\ ~isFinal /\ call.outcome = "unknown"
            /\ tasks' = [tasks EXCEPT ![k].status = "unknown"]
            /\ UNCHANGED <<account, entries>>
         \/ /\ ~isFinal /\ retry
            /\ tasks' = [tasks EXCEPT ![k].status = "reserved"]
            /\ UNCHANGED <<account, entries>>
         \/ /\ ~isFinal /\ call.outcome # "unknown" /\ ~retry
            /\ Settle(k, IF call.outcome = "succeeded" THEN call.count ELSE 0, call.digest)
      /\ UNCHANGED <<prices, operators>>

\* The provider's job number is stored once, while the attempt is in flight.
RecordReceipt(k, n, receipt) ==
  /\ n \in 1 .. Len(attempts[k])
  /\ attempts[k][n].receipt = NoReceipt
  /\ attempts[k][n].status = "submitted"
  /\ attempts' = [attempts EXCEPT ![k][n].receipt = receipt]
  /\ UNCHANGED <<account, prices, tasks, entries, operators>>

\* The creator cancels a task that no provider holds.
ReleaseUnsubmitted(k) ==
  /\ tasks[k].status = "reserved"
  /\ Settle(k, 0, NoDigest)
  /\ UNCHANGED <<prices, attempts, operators>>

\* Platform: close a task that is stuck, from external evidence.
Reconcile(k, count, digest) ==
  /\ tasks[k].status \in {"unknown", "running"}
  /\ Settle(k, count, digest)
  /\ UNCHANGED <<prices, attempts, operators>>

\* Tenant administration grants and revokes the permission at any time.
SetOperators(people) ==
  /\ operators' = people
  /\ UNCHANGED <<account, prices, tasks, attempts, entries>>

-----------------------------------------------------------------------------
Platform ==
  \/ \E status \in {"active", "disabled"} : ConfigureAccount(status)
  \/ \E key \in PriceKeys, version \in Versions, points \in Amounts :
       CreatePrice(key, version, points)
  \/ \E reference \in References, points \in Amounts : Recharge(reference, points)
  \/ \E k \in Keys, count \in 0 .. MaxResults, digest \in Digests :
       Reconcile(k, count, digest)
  \/ \E people \in SUBSET Persons : SetOperators(people)

Member ==
  \/ \E k \in Keys, request \in Request : Reserve(k, request)
  \/ \E k \in Keys, key \in AttemptKeys, provider \in Providers :
       StartAttempt(k, key, provider)
  \/ \E k \in Keys, n \in AttemptKeys, call \in OutcomeCall : RecordOutcome(k, n, call)
  \/ \E k \in Keys, n \in AttemptKeys, receipt \in Receipts : RecordReceipt(k, n, receipt)
  \/ \E k \in Keys : ReleaseUnsubmitted(k)

Next == Platform \/ Member

Spec == Init /\ [][Next]_vars

-----------------------------------------------------------------------------
\* Every row keeps the shape its table and the input checks give it.
TypeOK ==
  /\ account \in Account
  /\ prices \subseteq Price
  /\ tasks \in [Keys -> Task]
  /\ attempts \in [Keys -> Seq(Attempt)]
  /\ entries \in [EntryKeys -> Entry]
  /\ operators \subseteq Persons

\* Columns the sums below run over.
Held      == [k \in Keys |-> IF tasks[k].status \in Open THEN tasks[k].reserved ELSE 0]
Charged   == [k \in Keys |-> tasks[k].charged]
Recharged == [r \in References |-> entries[<<"recharge", r>>].available]
AvailableDeltas == [e \in EntryKeys |-> entries[e].available]
FrozenDeltas    == [e \in EntryKeys |-> entries[e].frozen]

\* The frozen balance is exactly what the open tasks reserved: no interleaving
\* of settlements, retries, reconciliations and late results leaks a hold or
\* returns one twice.
FrozenIsHeld == account.frozen = Total(Held, Keys)

\* Points are neither created nor lost: what was paid in is free, frozen by an
\* open task or charged to a closed one.
PointsConserved ==
  Total(Recharged, References)
    = account.available + account.frozen + Total(Charged, Keys)

\* audit(): both balances of the wallet are the sums of its ledger lines.
AuditConsistent ==
  /\ account.available = SignedTotal(AvailableDeltas, EntryKeys)
  /\ account.frozen = SignedTotal(FrozenDeltas, EntryKeys)

\* A closed task is billed for the results it delivered at the price it was
\* quoted when reserved, never more than it froze, whatever was published since.
BilledAsQuoted ==
  \A k \in Keys : LET task == tasks[k] IN
    task.status # "none" =>
      /\ \E price \in prices :
           price.key = task.request.price /\ price.points = task.points
      /\ task.reserved = task.points * task.request.results
      /\ task.charged = task.successful * task.points
      /\ task.charged <= task.reserved
      /\ task.charged > 0 <=> task.status = "succeeded"

\* At most one submission of an open task is unresolved, it is the last one,
\* and there is none while the task may be submitted or cancelled: a provider
\* that may still deliver is never raced by a second call or by a refund.
OneUnresolvedAttempt ==
  \A k \in Keys : tasks[k].status \notin Final =>
    \A n \in 1 .. Len(attempts[k]) :
      attempts[k][n].status \in Unresolved <=>
        n = Len(attempts[k]) /\ tasks[k].status \in {"running", "unknown"}

\* What a provider reported after the bill was closed by hand is either what
\* the bill says or is marked billing_conflict for review.
LateResultFlagged ==
  \A k \in Keys : tasks[k].status \in Final =>
    \A n \in 1 .. Len(attempts[k]) : LET attempt == attempts[k][n] IN
      ~attempt.conflict =>
        /\ attempt.status = "succeeded" =>
             tasks[k].status = "succeeded" /\ tasks[k].result = attempt.digest
        /\ attempt.status = "failed" /\ n = Len(attempts[k]) =>
             tasks[k].status = "failed"

\* A closed bill stands: no late result, retry or reconciliation rewrites the
\* task or posts another line for it.
LeavesBills ==
  \A k \in Keys : tasks[k].status \in Final =>
    tasks'[k] = tasks[k] /\ entries'[<<"settle", k>>] = entries[<<"settle", k>>]
BillStands == [][LeavesBills]_vars

\* The ledger keeps the promise of PrepaidHolds.
HoldState(k) ==
  IF tasks[k].status = "none" THEN "absent"
  ELSE IF tasks[k].status \in Open THEN "open" ELSE "closed"

Holds == INSTANCE PrepaidHolds WITH
  Orders <- Keys,
  free <- account.available,
  hold <- [k \in Keys |-> [state |-> HoldState(k), frozen |-> tasks[k].reserved,
                            cost |-> tasks[k].charged]]

\* Each step of the ledger pays in, freezes, closes, or does not touch points.
KeepsHolds == Holds!Spec
=============================================================================
