------------------------- MODULE AiCreditLedger_proofs -------------------------
(***************************************************************************)
(* Safety of the AI points ledger, for any number of tasks, payments,      *)
(* attempts and prices.                                                    *)
(***************************************************************************)
EXTENDS AiCreditLedger, PointSums_proofs, SequenceTheorems

USE DEF IsBalance, Line, BillableCounts, ChargeOf, Returned, Unfrozen, IsSubmittable, IsClosed

\* A task row carries its request, and only such a task has attempts.
RowsLinked ==
  \A k \in Keys :
    /\ tasks[k].status = "none" => tasks[k] = NoTask /\ attempts[k] = << >>
    /\ tasks[k].status # "none" => tasks[k].request \in Request

-----------------------------------------------------------------------------
\* settle() rewrites one row within its type and posts one line.
LEMMA SettleType ==
  ASSUME TypeOK, RowsLinked, NEW k \in Keys, tasks[k].status # "none",
         NEW count \in Nat, NEW digest \in Digests \cup {NoDigest},
         Settle(k, count, digest)
  PROVE  /\ tasks' \in [Keys -> Task]
         /\ account' \in Account
         /\ entries' \in [EntryKeys -> Entry]
<1> DEFINE task == tasks[k]
           charged == count * task.points
           row == [task EXCEPT !.status = IF count = 0 THEN "failed" ELSE "succeeded",
                               !.charged = charged, !.successful = count,
                               !.result = IF count = 0 THEN NoDigest ELSE digest]
<1>1. task \in Task /\ task.request \in Request
  BY DEF TypeOK, RowsLinked
<1>2. charged \in Points /\ count \in 0 .. MaxResults
  BY <1>1, LimitAssumption DEF Settle, Request
<1>3. row \in Task
  BY <1>1, <1>2 DEF Task, Final
<1>4. tasks' = [tasks EXCEPT ![k] = row]
  BY DEF Settle, TypeOK
<1>5. tasks' \in [Keys -> Task]
  BY <1>3, <1>4 DEF TypeOK
<1>6. charged \in Int /\ task.reserved \in Int /\ task.reserved - charged \in Int /\ -task.reserved \in Int
  BY <1>1, <1>2, LimitAssumption DEF Task, Points
<1>7. Post(<<"settle", k>>, IF count = 0 THEN "release" ELSE "settle",
           task.reserved - charged, -task.reserved)
  BY DEF Settle
<1>8. account' \in Account
  BY <1>7 DEF Post, TypeOK, Account
<1>9. entries' \in [EntryKeys -> Entry]
  BY <1>6, <1>7 DEF Post, TypeOK, Entry
<1>10. QED
  BY <1>5, <1>8, <1>9

\* A settled task is still a requested one, and the other rows stay.
LEMMA SettleLinked ==
  ASSUME TypeOK, RowsLinked, NEW k \in Keys, tasks[k].status # "none",
         NEW count \in Nat, NEW digest \in Digests \cup {NoDigest},
         Settle(k, count, digest)
  PROVE  \A j \in Keys :
           /\ tasks'[j].status = "none" => j # k /\ tasks'[j] = tasks[j]
           /\ tasks'[j].status # "none" =>
                tasks[j].status # "none" /\ tasks'[j].request = tasks[j].request
BY DEF Settle, TypeOK, Task

\* Steps keep the types and the links.
LEMMA LinkedStep ==
  ASSUME TypeOK, RowsLinked, [Next]_vars
  PROVE  TypeOK' /\ RowsLinked'
<1>1. ASSUME NEW status \in {"active", "disabled"}, ConfigureAccount(status)
      PROVE  TypeOK' /\ RowsLinked'
  BY <1>1 DEF ConfigureAccount, TypeOK, RowsLinked, Account
<1>2. ASSUME NEW key \in PriceKeys, NEW version \in Versions, NEW points \in Amounts,
             CreatePrice(key, version, points)
      PROVE  TypeOK' /\ RowsLinked'
  BY <1>2 DEF CreatePrice, TypeOK, RowsLinked, Price
<1>3. ASSUME NEW reference \in References, NEW points \in Amounts,
             Recharge(reference, points)
      PROVE  TypeOK' /\ RowsLinked'
  <2>1. points \in Int
    BY LimitAssumption
  <2>2. account' \in Account
    BY <1>3 DEF Recharge, Post, TypeOK, Account
  <2>3. entries' \in [EntryKeys -> Entry]
    <3>1. [kind |-> "recharge", available |-> points, frozen |-> 0] \in Entry
      BY <2>1 DEF Entry
    <3>2. QED
      BY <1>3, <3>1 DEF Recharge, Post, TypeOK
  <2>4. QED
    BY <1>3, <2>2, <2>3 DEF Recharge, TypeOK, RowsLinked
<1>4. ASSUME NEW k \in Keys, NEW count \in 0 .. MaxResults, NEW digest \in Digests,
             Reconcile(k, count, digest)
      PROVE  TypeOK' /\ RowsLinked'
  <2>1. count \in Nat /\ tasks[k].status # "none" /\ Settle(k, count, digest)
    BY <1>4, LimitAssumption DEF Reconcile
  <2>2. QED
    BY <1>4, <2>1, SettleType, SettleLinked DEF Reconcile, TypeOK, RowsLinked
<1>5. ASSUME NEW people \in SUBSET Persons, SetOperators(people)
      PROVE  TypeOK' /\ RowsLinked'
  BY <1>5 DEF SetOperators, TypeOK, RowsLinked
<1>6. ASSUME NEW k \in Keys, NEW request \in Request, Reserve(k, request)
      PROVE  TypeOK' /\ RowsLinked'
  <2>1. PICK price \in prices :
          LET required == price.points * request.results
          IN  /\ required \in Points
              /\ Post(<<"reserve", k>>, "reserve", -required, required)
              /\ tasks' = [tasks EXCEPT ![k] =
                   [status |-> "reserved", request |-> request,
                    points |-> price.points, reserved |-> required, charged |-> 0,
                    successful |-> 0, result |-> NoDigest]]
    BY <1>6 DEF Reserve
  <2> DEFINE required == price.points * request.results
  <2>2. required \in Points /\ required \in Int /\ -required \in Int
    BY <2>1, LimitAssumption DEF Points
  <2>3. price.points \in Points
    <3>1. price.points \in Amounts
      BY DEF TypeOK, Price
    <3>2. Amounts \subseteq Points
      BY LimitAssumption DEF Points
    <3>3. QED
      BY <3>1, <3>2
  <2>4. tasks' \in [Keys -> Task]
    BY <2>1, <2>2, <2>3, LimitAssumption DEF TypeOK, Task, Points, Open
  <2>5. account' \in Account
    BY <2>1 DEF Post, TypeOK, Account
  <2>6. entries' \in [EntryKeys -> Entry]
    BY <2>1, <2>2 DEF Post, TypeOK, Entry
  <2>7. QED
    BY <1>6, <2>1, <2>4, <2>5, <2>6 DEF Reserve, TypeOK, RowsLinked
<1>7. ASSUME NEW k \in Keys, NEW key \in AttemptKeys, NEW provider \in Providers,
             StartAttempt(k, key, provider)
      PROVE  TypeOK' /\ RowsLinked'
  <2>1. tasks' \in [Keys -> Task]
    BY ZenonT(40), <1>7 DEF StartAttempt, TypeOK, Task, Open
  <2>2. attempts' \in [Keys -> Seq(Attempt)]
    <3>1. [key |-> key, provider |-> provider, status |-> "submitted",
           receipt |-> NoReceipt, digest |-> NoDigest, conflict |-> FALSE] \in Attempt
      BY DEF Attempt
    <3>2. QED
      BY <1>7, <3>1 DEF StartAttempt, TypeOK
  <2>3. QED
    BY <1>7, <2>1, <2>2 DEF StartAttempt, TypeOK, RowsLinked, Task
<1>8. ASSUME NEW k \in Keys, NEW n \in AttemptKeys, NEW call \in OutcomeCall,
             RecordOutcome(k, n, call)
      PROVE  TypeOK' /\ RowsLinked'
  <2>1. tasks[k].status # "none"
    BY <1>8 DEF RecordOutcome, RowsLinked
  <2>2. attempts' \in [Keys -> Seq(Attempt)]
    <3>1. attempts[k][n] \in Attempt
      BY <1>8 DEF RecordOutcome, TypeOK
    <3>2. Recorded(tasks[k], attempts[k][n], call) \in Attempt
      BY ZenonT(40), <3>1 DEF Recorded, Attempt, OutcomeCall, Conflicts, Outcomes
    <3>3. attempts' = [attempts EXCEPT ![k] =
            [attempts[k] EXCEPT ![n] = Recorded(tasks[k], attempts[k][n], call)]]
      BY <1>8 DEF RecordOutcome, TypeOK
    <3>4. [attempts[k] EXCEPT ![n] = Recorded(tasks[k], attempts[k][n], call)]
            \in Seq(Attempt)
      BY <1>8, <3>2 DEF RecordOutcome, TypeOK
    <3>5. QED
      BY <3>3, <3>4 DEF TypeOK
  <2>3. CASE UNCHANGED <<account, tasks, entries>>
    BY <1>8, <2>1, <2>2, <2>3 DEF RecordOutcome, TypeOK, RowsLinked
  <2>4. ASSUME NEW status \in {"unknown", "reserved"},
               tasks' = [tasks EXCEPT ![k].status = status],
               UNCHANGED <<account, entries>>
        PROVE  TypeOK' /\ RowsLinked'
    <3>1. tasks' \in [Keys -> Task]
      BY ZenonT(40), <2>4 DEF TypeOK, Task, Open
    <3>2. QED
      BY <1>8, <2>1, <2>2, <2>4, <3>1 DEF RecordOutcome, TypeOK, RowsLinked, Task
  <2>5. ASSUME NEW count \in Nat, Settle(k, count, call.digest)
        PROVE  TypeOK' /\ RowsLinked'
    <3>1. call.digest \in Digests \cup {NoDigest}
      BY DEF OutcomeCall
    <3>2. QED
      BY <1>8, <2>1, <2>2, <2>5, <3>1, SettleType, SettleLinked
         DEF RecordOutcome, TypeOK, RowsLinked
  <2>6. (IF call.outcome = "succeeded" THEN call.count ELSE 0) \in Nat
    BY LimitAssumption DEF OutcomeCall
  <2>7. QED
    BY <1>8, <2>3, <2>4, <2>5, <2>6 DEF RecordOutcome
<1>9. ASSUME NEW k \in Keys, NEW n \in AttemptKeys, NEW receipt \in Receipts,
             RecordReceipt(k, n, receipt)
      PROVE  TypeOK' /\ RowsLinked'
  <2>1. attempts' \in [Keys -> Seq(Attempt)]
    <3>1. attempts[k][n] \in Attempt
      BY <1>9 DEF RecordReceipt, TypeOK
    <3>2. [attempts[k][n] EXCEPT !.receipt = receipt] \in Attempt
      BY <3>1 DEF Attempt
    <3>3. attempts' = [attempts EXCEPT ![k] =
            [attempts[k] EXCEPT ![n] = [attempts[k][n] EXCEPT !.receipt = receipt]]]
      BY <1>9 DEF RecordReceipt, TypeOK
    <3>4. [attempts[k] EXCEPT ![n] = [attempts[k][n] EXCEPT !.receipt = receipt]]
            \in Seq(Attempt)
      BY <1>9, <3>2 DEF RecordReceipt, TypeOK
    <3>5. QED
      BY <3>3, <3>4 DEF TypeOK
  <2>2. QED
    BY <1>9, <2>1 DEF RecordReceipt, TypeOK, RowsLinked
<1>10. ASSUME NEW k \in Keys, ReleaseUnsubmitted(k)
       PROVE  TypeOK' /\ RowsLinked'
  <2>1. tasks[k].status # "none" /\ Settle(k, 0, NoDigest)
    BY <1>10 DEF ReleaseUnsubmitted
  <2>2. QED
    BY <1>10, <2>1, SettleType, SettleLinked DEF ReleaseUnsubmitted, TypeOK, RowsLinked
<1>11. CASE UNCHANGED vars
  BY <1>11 DEF vars, TypeOK, RowsLinked
<1>12. QED
  BY <1>1, <1>2, <1>3, <1>4, <1>5, <1>6, <1>7, <1>8, <1>9, <1>10, <1>11
     DEF Next, Platform, Member

\* Every reachable state is well typed and its rows are linked.
LEMMA LinkedInvariant == Spec => [](TypeOK /\ RowsLinked)
<1>1. Init => TypeOK /\ RowsLinked
  <2> SUFFICES ASSUME Init PROVE TypeOK /\ RowsLinked
    OBVIOUS
  <2>1. NoTask \in Task /\ NoEntry \in Entry
    BY LimitAssumption DEF NoTask, Task, NoEntry, Entry, Points
  <2>2. account \in Account
    BY LimitAssumption DEF Init, Account, Points
  <2>3. QED
    BY <2>1, <2>2 DEF Init, TypeOK, RowsLinked, NoTask
<1>2. TypeOK /\ RowsLinked /\ [Next]_vars => TypeOK' /\ RowsLinked'
  BY LinkedStep
<1>3. QED
  BY <1>1, <1>2, PTL DEF Spec

\* Every row keeps its shape: no balance, hold or charge ever leaves the range
\* 0 .. MAX_POINTS, whatever the order of calls.
THEOREM TypeCorrect == Spec => []TypeOK
BY LinkedInvariant, PTL

-----------------------------------------------------------------------------
\* What a step of the ledger may do to points.
Untouched ==
  /\ UNCHANGED <<account.available, account.frozen, entries>>
  /\ \A k \in Keys :
       /\ tasks'[k].status \in Open <=> tasks[k].status \in Open
       /\ tasks'[k].status \in Final <=> tasks[k].status \in Final
       /\ tasks[k].status \notin Open => tasks'[k] = tasks[k]
       /\ tasks'[k].request = tasks[k].request
       /\ tasks'[k].points = tasks[k].points
       /\ tasks'[k].reserved = tasks[k].reserved
       /\ tasks'[k].charged = tasks[k].charged
       /\ tasks'[k].successful = tasks[k].successful
       /\ tasks'[k].result = tasks[k].result

Pays(reference, points) ==
  /\ Post(<<"recharge", reference>>, "recharge", points, 0)
  /\ UNCHANGED tasks

Freezes(k, request, price) ==
  LET required == price.points * request.results
  IN  /\ tasks[k].status = "none"
      /\ price.key = request.price
      /\ required \in Points /\ required <= account.available
      /\ Post(<<"reserve", k>>, "reserve", -required, required)
      /\ tasks' = [tasks EXCEPT ![k] =
           [status |-> "reserved", request |-> request, points |-> price.points,
            reserved |-> required, charged |-> 0, successful |-> 0,
            result |-> NoDigest]]

Closes(k, count, digest) ==
  /\ tasks[k].status \in Open
  /\ Settle(k, count, digest)

\* Prices are only ever added, and every step is one of the four above.
LEMMA StepCases ==
  ASSUME TypeOK, RowsLinked, [Next]_vars
  PROVE  /\ prices \subseteq prices'
         /\ \/ Untouched
            \/ \E reference \in References, points \in Amounts : Pays(reference, points)
            \/ \E k \in Keys, request \in Request, price \in prices :
                 Freezes(k, request, price)
            \/ \E k \in Keys, count \in Nat, digest \in Digests \cup {NoDigest} :
                 Closes(k, count, digest)
<1> DEFINE Goal == /\ prices \subseteq prices'
                   /\ \/ Untouched
                      \/ \E reference \in References, points \in Amounts :
                           Pays(reference, points)
                      \/ \E k \in Keys, request \in Request, price \in prices :
                           Freezes(k, request, price)
                      \/ \E k \in Keys, count \in Nat, digest \in Digests \cup {NoDigest} :
                           Closes(k, count, digest)
<1> SUFFICES Goal
  OBVIOUS
<1>1. ASSUME NEW status \in {"active", "disabled"}, ConfigureAccount(status) PROVE Goal
  BY <1>1 DEF ConfigureAccount, Untouched, TypeOK, Account
<1>2. ASSUME NEW key \in PriceKeys, NEW version \in Versions, NEW points \in Amounts,
             CreatePrice(key, version, points)
      PROVE  Goal
  BY <1>2 DEF CreatePrice, Untouched
<1>3. ASSUME NEW reference \in References, NEW points \in Amounts,
             Recharge(reference, points)
      PROVE  Goal
  BY <1>3 DEF Recharge, Pays
<1>4. ASSUME NEW k \in Keys, NEW count \in 0 .. MaxResults, NEW digest \in Digests,
             Reconcile(k, count, digest)
      PROVE  Goal
  <2>1. count \in Nat
    BY LimitAssumption
  <2>2. QED
    BY <1>4, <2>1 DEF Reconcile, Closes, Open
<1>5. ASSUME NEW people \in SUBSET Persons, SetOperators(people) PROVE Goal
  BY <1>5 DEF SetOperators, Untouched
<1>6. ASSUME NEW k \in Keys, NEW request \in Request, Reserve(k, request) PROVE Goal
  BY <1>6 DEF Reserve, Freezes
<1>7. ASSUME NEW k \in Keys, NEW key \in AttemptKeys, NEW provider \in Providers,
             StartAttempt(k, key, provider)
      PROVE  Goal
  BY <1>7 DEF StartAttempt, Untouched, TypeOK, Task, Open, Final
<1>8. ASSUME NEW k \in Keys, NEW n \in AttemptKeys, NEW call \in OutcomeCall,
             RecordOutcome(k, n, call)
      PROVE  Goal
  <2>1. tasks[k].status # "none"
    BY <1>8 DEF RecordOutcome, RowsLinked
  <2>2. CASE UNCHANGED <<account, tasks, entries>>
    BY <1>8, <2>2 DEF RecordOutcome, Untouched
  <2>3. ASSUME NEW status \in {"unknown", "reserved"}, tasks[k].status \notin Final,
               tasks' = [tasks EXCEPT ![k].status = status],
               UNCHANGED <<account, entries>>
        PROVE  Goal
    BY <1>8, <2>1, <2>3 DEF RecordOutcome, Untouched, TypeOK, Task, Open, Final
  <2>4. ASSUME NEW count \in Nat, Settle(k, count, call.digest) PROVE Goal
    <3>1. tasks[k].status \in Open
      BY <2>1, <2>4 DEF Settle, TypeOK, Task
    <3>2. call.digest \in Digests \cup {NoDigest}
      BY DEF OutcomeCall
    <3>3. QED
      BY <1>8, <2>4, <3>1, <3>2 DEF RecordOutcome, Closes
  <2>5. (IF call.outcome = "succeeded" THEN call.count ELSE 0) \in Nat
    BY LimitAssumption DEF OutcomeCall
  <2>6. QED
    BY <1>8, <2>2, <2>3, <2>4, <2>5 DEF RecordOutcome
<1>9. ASSUME NEW k \in Keys, NEW n \in AttemptKeys, NEW receipt \in Receipts,
             RecordReceipt(k, n, receipt)
      PROVE  Goal
  BY <1>9 DEF RecordReceipt, Untouched
<1>10. ASSUME NEW k \in Keys, ReleaseUnsubmitted(k) PROVE Goal
  BY <1>10 DEF ReleaseUnsubmitted, Closes, Open
<1>11. CASE UNCHANGED vars
  BY <1>11 DEF vars, Untouched
<1>12. QED
  BY <1>1, <1>2, <1>3, <1>4, <1>5, <1>6, <1>7, <1>8, <1>9, <1>10, <1>11
     DEF Next, Platform, Member

-----------------------------------------------------------------------------
\* Charging for some of the requested results never exceeds charging for all.
LEMMA PartialCharge ==
  ASSUME NEW count \in Nat, NEW results \in Nat, NEW points \in Nat, count <= results
  PROVE  /\ count * points \in Nat
         /\ count * points <= points * results
         /\ points > 0 => (count * points > 0 <=> count # 0)
OBVIOUS

\* Reserving fixes the price of a task, settling charges at most that quote.
LEMMA QuoteStep ==
  ASSUME TypeOK, RowsLinked, BilledAsQuoted, [Next]_vars
  PROVE  BilledAsQuoted'
<1> SUFFICES ASSUME NEW j \in Keys, tasks'[j].status # "none"
             PROVE  /\ \E price \in prices' :
                         /\ price.key = tasks'[j].request.price
                         /\ price.points = tasks'[j].points
                    /\ tasks'[j].reserved = tasks'[j].points * tasks'[j].request.results
                    /\ tasks'[j].charged = tasks'[j].successful * tasks'[j].points
                    /\ tasks'[j].charged <= tasks'[j].reserved
                    /\ tasks'[j].charged > 0 <=> tasks'[j].status = "succeeded"
  BY DEF BilledAsQuoted
<1>1. prices \subseteq prices'
  BY StepCases
<1>2. CASE Untouched
  <2>1. /\ tasks[j].status # "none"
        /\ tasks'[j].status = "succeeded" <=> tasks[j].status = "succeeded"
    BY <1>2 DEF Untouched, Open
  <2>2. /\ \E price \in prices : price.key = tasks[j].request.price
                                /\ price.points = tasks[j].points
        /\ tasks[j].reserved = tasks[j].points * tasks[j].request.results
        /\ tasks[j].charged = tasks[j].successful * tasks[j].points
        /\ tasks[j].charged <= tasks[j].reserved
        /\ tasks[j].charged > 0 <=> tasks[j].status = "succeeded"
    BY <2>1 DEF BilledAsQuoted
  <2>3. /\ tasks'[j].request = tasks[j].request /\ tasks'[j].points = tasks[j].points
        /\ tasks'[j].reserved = tasks[j].reserved /\ tasks'[j].charged = tasks[j].charged
        /\ tasks'[j].successful = tasks[j].successful
    BY <1>2 DEF Untouched
  <2>4. QED
    BY <1>1, <2>1, <2>2, <2>3
<1>3. CASE tasks'[j] = tasks[j]
  BY <1>1, <1>3 DEF BilledAsQuoted
<1>4. ASSUME NEW reference \in References, NEW points \in Amounts, Pays(reference, points)
      PROVE  tasks'[j] = tasks[j]
  BY <1>4 DEF Pays
<1>5. ASSUME NEW request \in Request, NEW price \in prices, Freezes(j, request, price)
      PROVE  /\ tasks'[j].request = request /\ tasks'[j].points = price.points
             /\ price.key = request.price
             /\ tasks'[j].reserved = price.points * request.results
             /\ tasks'[j].charged = 0 /\ tasks'[j].successful = 0
             /\ tasks'[j].status = "reserved"
             /\ price.points \in Nat /\ price.points * request.results \in Nat
  <2>1. price.points \in Amounts
    BY DEF TypeOK, Price
  <2>2. Amounts \subseteq Nat
    BY LimitAssumption
  <2>3. price.points * request.results \in Nat
    BY <1>5, LimitAssumption DEF Freezes, Points
  <2>4. QED
    BY <1>5, <2>1, <2>2, <2>3 DEF Freezes, TypeOK
<1>6. ASSUME NEW count \in Nat, NEW digest \in Digests \cup {NoDigest},
             Closes(j, count, digest)
      PROVE  /\ tasks'[j].request = tasks[j].request
             /\ tasks'[j].points = tasks[j].points
             /\ tasks'[j].reserved = tasks[j].points * tasks[j].request.results
             /\ tasks'[j].charged = count * tasks[j].points
             /\ tasks'[j].successful = count
             /\ count * tasks[j].points <= tasks'[j].reserved
             /\ count * tasks[j].points > 0 <=> tasks'[j].status = "succeeded"
             /\ \E price \in prices :
                   /\ price.key = tasks[j].request.price
                   /\ price.points = tasks[j].points
  <2>1. /\ tasks[j].status \in Open /\ tasks[j].status # "none"
        /\ Settle(j, count, digest)
    BY <1>6 DEF Closes, Open
  <2>2. tasks[j].request.results \in Nat /\ count <= tasks[j].request.results
    BY <2>1, LimitAssumption DEF Settle, RowsLinked, Request
  <2>3. /\ \E price \in prices : price.key = tasks[j].request.price
                                /\ price.points = tasks[j].points
        /\ tasks[j].reserved = tasks[j].points * tasks[j].request.results
    BY <2>1 DEF BilledAsQuoted
  <2>4. tasks[j].points \in Nat /\ tasks[j].points > 0
    <3>1. tasks[j].points \in Amounts
      BY <2>3 DEF TypeOK, Price
    <3>2. \A a \in Amounts : a \in Nat /\ a > 0
      BY LimitAssumption
    <3>3. QED
      BY <3>1, <3>2
  <2>5. /\ count * tasks[j].points <= tasks[j].points * tasks[j].request.results
        /\ count * tasks[j].points > 0 <=> count # 0
    BY <2>2, <2>4, PartialCharge
  <2>6. /\ tasks'[j].request = tasks[j].request /\ tasks'[j].points = tasks[j].points
        /\ tasks'[j].reserved = tasks[j].reserved
        /\ tasks'[j].charged = count * tasks[j].points /\ tasks'[j].successful = count
        /\ tasks'[j].status = IF count = 0 THEN "failed" ELSE "succeeded"
    BY <2>1 DEF Settle, TypeOK, Task
  <2>7. QED
    BY <2>3, <2>5, <2>6
<1>7. CASE \E k \in Keys, request \in Request, price \in prices :
             Freezes(k, request, price)
  <2>1. PICK k \in Keys, request \in Request, price \in prices :
          Freezes(k, request, price)
    BY <1>7
  <2>2. CASE k = j
    BY <1>1, <1>5, <2>1, <2>2
  <2>3. CASE k # j
    BY <1>3, <2>1, <2>3 DEF Freezes
  <2>4. QED
    BY <2>2, <2>3
<1>8. CASE \E k \in Keys, count \in Nat, digest \in Digests \cup {NoDigest} :
             Closes(k, count, digest)
  <2>1. PICK k \in Keys, count \in Nat, digest \in Digests \cup {NoDigest} :
          Closes(k, count, digest)
    BY <1>8
  <2>2. CASE k = j
    BY <1>1, <1>6, <2>1, <2>2
  <2>3. CASE k # j
    <3>1. tasks'[j] = tasks[j]
      BY <2>1, <2>3 DEF Closes, Settle, TypeOK
    <3>2. QED
      BY <1>3, <3>1
  <2>4. QED
    BY <2>2, <2>3
<1>9. QED
  BY <1>2, <1>3, <1>4, <1>7, <1>8, StepCases

LEMMA QuoteInvariant == Spec => []BilledAsQuoted
<1>1. Init => BilledAsQuoted
  BY DEF Init, BilledAsQuoted, NoTask
<1>2. TypeOK /\ RowsLinked /\ BilledAsQuoted /\ [Next]_vars => BilledAsQuoted'
  BY QuoteStep
<1>3. QED
  BY <1>1, <1>2, LinkedInvariant, PTL DEF Spec

-----------------------------------------------------------------------------
\* A line that is not posted counts for nothing; a payment only adds.
LinesSound ==
  /\ \A e \in EntryKeys :
       entries[e].kind = "none" => entries[e].available = 0 /\ entries[e].frozen = 0
  /\ \A r \in References : entries[<<"recharge", r>>].available \in Nat

\* The books of the wallet: the conjuncts hold each other up, since a balance
\* may only be compared with the tasks if every line moves both alike.
BooksInv == LinesSound /\ FrozenIsHeld /\ PointsConserved /\ AuditConsistent

LEMMA EntryKeysFinite == IsFiniteSet(EntryKeys)
<1>1. IsFiniteSet({"recharge"}) /\ IsFiniteSet({"reserve"} \cup {"settle"})
  BY FS_Singleton, FS_Union
<1>2. IsFiniteSet({"recharge"} \X References)
  BY <1>1, RowAssumption, FS_Product
<1>3. IsFiniteSet(({"reserve"} \cup {"settle"}) \X Keys)
  BY <1>1, RowAssumption, FS_Product
<1>4. EntryKeys = ({"recharge"} \X References) \cup (({"reserve"} \cup {"settle"}) \X Keys)
  BY DEF EntryKeys
<1>5. QED
  BY <1>2, <1>3, <1>4, FS_Union

\* Posting a line moves the balances and the sums of the lines alike.
LEMMA PostBooks ==
  ASSUME TypeOK, LinesSound, AuditConsistent, NEW e \in EntryKeys,
         NEW kind \in {"recharge", "reserve", "settle", "release"},
         NEW available \in Int, NEW frozen \in Int,
         Post(e, kind, available, frozen)
  PROVE  /\ AuditConsistent'
         /\ account'.available = account.available + available
         /\ account'.frozen = account.frozen + frozen
         /\ entries' \in [EntryKeys -> Entry]
         /\ entries'[e].available = available
         /\ \A d \in EntryKeys \ {e} : entries'[d] = entries[d]
         /\ \A d \in EntryKeys : entries'[d].kind = "none" =>
              entries'[d].available = 0 /\ entries'[d].frozen = 0
<1>1. /\ account'.available = account.available + available
      /\ account'.frozen = account.frozen + frozen
  BY DEF Post, TypeOK, Account
<1>2. [kind |-> kind, available |-> available, frozen |-> frozen] \in Entry
  BY DEF Entry
<1>3. /\ entries' \in [EntryKeys -> Entry]
      /\ entries'[e].available = available /\ entries'[e].frozen = frozen
      /\ entries'[e].kind # "none"
      /\ \A d \in EntryKeys \ {e} : entries'[d] = entries[d]
  BY <1>2 DEF Post, TypeOK
<1>4. entries[e].available = 0 /\ entries[e].frozen = 0
  BY DEF Post, LinesSound
<1>5. /\ AvailableDeltas \in [EntryKeys -> Int] /\ AvailableDeltas' \in [EntryKeys -> Int]
      /\ FrozenDeltas \in [EntryKeys -> Int] /\ FrozenDeltas' \in [EntryKeys -> Int]
  BY <1>3 DEF AvailableDeltas, FrozenDeltas, TypeOK, Entry
<1>6. /\ \A d \in EntryKeys \ {e} : AvailableDeltas'[d] = AvailableDeltas[d]
      /\ \A d \in EntryKeys \ {e} : FrozenDeltas'[d] = FrozenDeltas[d]
      /\ AvailableDeltas[e] = 0 /\ AvailableDeltas'[e] = available
      /\ FrozenDeltas[e] = 0 /\ FrozenDeltas'[e] = frozen
  BY <1>3, <1>4 DEF AvailableDeltas, FrozenDeltas
<1>7. \A a, b \in [EntryKeys -> Int] :
        (\A d \in EntryKeys \ {e} : b[d] = a[d])
          => /\ SignedTotal(a, EntryKeys) \in Int
             /\ SignedTotal(b, EntryKeys) = SignedTotal(a, EntryKeys) - a[e] + b[e]
  BY EntryKeysFinite, SignedTotalUpdate
<1>8. /\ SignedTotal(AvailableDeltas, EntryKeys) \in Int
      /\ SignedTotal(AvailableDeltas', EntryKeys)
           = SignedTotal(AvailableDeltas, EntryKeys) - 0 + available
  BY <1>5, <1>6, <1>7
<1>9. /\ SignedTotal(FrozenDeltas, EntryKeys) \in Int
      /\ SignedTotal(FrozenDeltas', EntryKeys)
           = SignedTotal(FrozenDeltas, EntryKeys) - 0 + frozen
  BY <1>5, <1>6, <1>7
<1>10. AuditConsistent'
  BY <1>1, <1>8, <1>9 DEF AuditConsistent
<1>11. QED
  BY <1>1, <1>3, <1>10, LinesSound DEF LinesSound

\* How the sums over the tasks move when one row is rewritten.
LEMMA TaskSums ==
  ASSUME TypeOK, TypeOK', NEW k \in Keys,
         \A j \in Keys \ {k} : tasks'[j] = tasks[j]
  PROVE  /\ Total(Held, Keys) \in Nat /\ Total(Charged, Keys) \in Nat
         /\ Total(Held', Keys) = Total(Held, Keys) - Held[k] + Held'[k]
         /\ Total(Charged', Keys) = Total(Charged, Keys) - Charged[k] + Charged'[k]
<1>1. /\ Held \in [Keys -> Nat] /\ Held' \in [Keys -> Nat]
      /\ Charged \in [Keys -> Nat] /\ Charged' \in [Keys -> Nat]
  BY LimitAssumption DEF TypeOK, Held, Charged, Task, Points
<1>2. /\ \A j \in Keys \ {k} : Held'[j] = Held[j]
      /\ \A j \in Keys \ {k} : Charged'[j] = Charged[j]
  BY DEF Held, Charged
<1>3. \A a, b \in [Keys -> Nat] :
        (\A j \in Keys \ {k} : b[j] = a[j])
          => Total(a, Keys) \in Nat /\ Total(b, Keys) = Total(a, Keys) - a[k] + b[k]
  BY RowAssumption, TotalUpdate
<1>4. QED
  BY <1>1, <1>2, <1>3

\* The sum of the payments moves with the payment posted, and no other line
\* is a payment.
LEMMA PaymentSums ==
  ASSUME LinesSound, LinesSound', NEW r \in References,
         \A q \in References \ {r} :
           entries'[<<"recharge", q>>] = entries[<<"recharge", q>>]
  PROVE  /\ Total(Recharged, References) \in Nat
         /\ Total(Recharged', References)
              = Total(Recharged, References) - Recharged[r] + Recharged'[r]
<1>1. Recharged \in [References -> Nat] /\ Recharged' \in [References -> Nat]
  BY DEF LinesSound, Recharged
<1>2. \A q \in References \ {r} : Recharged'[q] = Recharged[q]
  BY DEF Recharged
<1>3. \A a, b \in [References -> Nat] :
        (\A q \in References \ {r} : b[q] = a[q])
          => /\ Total(a, References) \in Nat
             /\ Total(b, References) = Total(a, References) - a[r] + b[r]
  BY RowAssumption, TotalUpdate
<1>4. QED
  BY <1>1, <1>2, <1>3

\* Every step of the ledger keeps the books in balance.
LEMMA BooksStep ==
  ASSUME TypeOK, RowsLinked, BilledAsQuoted, BooksInv, TypeOK', [Next]_vars
  PROVE  BooksInv'
<1> USE DEF BooksInv
<1>1. CASE Untouched
  <2>1. entries' = entries /\ account'.available = account.available
                          /\ account'.frozen = account.frozen
    BY <1>1 DEF Untouched
  <2>2. Held' = Held /\ Charged' = Charged
    BY <1>1 DEF Untouched, Held, Charged
  <2>3. Recharged' = Recharged /\ AvailableDeltas' = AvailableDeltas
                              /\ FrozenDeltas' = FrozenDeltas
    BY <2>1 DEF Recharged, AvailableDeltas, FrozenDeltas
  <2>4. QED
    BY <2>1, <2>2, <2>3
       DEF LinesSound, FrozenIsHeld, PointsConserved, AuditConsistent
<1>2. ASSUME NEW r \in References, NEW points \in Amounts, Pays(r, points)
      PROVE  BooksInv'
  <2> DEFINE e == <<"recharge", r>>
  <2>1. e \in EntryKeys /\ points \in Nat
    BY LimitAssumption DEF EntryKeys
  <2>2. Post(e, "recharge", points, 0) /\ tasks' = tasks
    BY <1>2 DEF Pays
  <2>3. /\ AuditConsistent'
        /\ account'.available = account.available + points
        /\ account'.frozen = account.frozen + 0
        /\ entries'[e].available = points
        /\ \A d \in EntryKeys \ {e} : entries'[d] = entries[d]
        /\ \A d \in EntryKeys : entries'[d].kind = "none" =>
             entries'[d].available = 0 /\ entries'[d].frozen = 0
    BY <2>1, <2>2, PostBooks
  <2>4. LinesSound'
    BY <2>1, <2>3 DEF LinesSound, EntryKeys
  <2>5. Recharged[r] = 0 /\ Recharged'[r] = points
    BY <2>1, <2>2, <2>3 DEF Recharged, LinesSound, Post
  <2>6. /\ Total(Recharged, References) \in Nat
        /\ Total(Recharged', References) = Total(Recharged, References) - 0 + points
    BY <2>3, <2>4, <2>5, PaymentSums DEF EntryKeys
  <2>7. Held' = Held /\ Charged' = Charged
    BY <2>2 DEF Held, Charged
  <2>8. account.available \in Int /\ account.frozen \in Int
    BY LimitAssumption DEF TypeOK, Account, Points
  <2>9. FrozenIsHeld'
    BY <2>3, <2>7, <2>8 DEF FrozenIsHeld
  <2>10. Total(Charged, Keys) \in Int
    <3>1. Charged \in [Keys -> Nat]
      BY LimitAssumption DEF TypeOK, Charged, Task, Points
    <3>2. QED
      BY <3>1, RowAssumption, TotalIsNat
  <2>11. PointsConserved'
    BY <2>1, <2>3, <2>6, <2>7, <2>8, <2>10 DEF PointsConserved
  <2>12. QED
    BY <2>3, <2>4, <2>9, <2>11
<1>3. ASSUME NEW k \in Keys, NEW line \in {"reserve", "settle"},
             NEW kind \in {"reserve", "settle", "release"},
             NEW available \in Int, NEW frozen \in Int,
             Post(<<line, k>>, kind, available, frozen),
             \A j \in Keys \ {k} : tasks'[j] = tasks[j],
             Held'[k] = Held[k] + frozen,
             Charged'[k] = Charged[k] - available - frozen
      PROVE  BooksInv'
  <2> DEFINE e == <<line, k>>
  <2>1. e \in EntryKeys
    BY DEF EntryKeys
  <2>2. /\ AuditConsistent'
        /\ account'.available = account.available + available
        /\ account'.frozen = account.frozen + frozen
        /\ \A d \in EntryKeys \ {e} : entries'[d] = entries[d]
        /\ \A d \in EntryKeys : entries'[d].kind = "none" =>
             entries'[d].available = 0 /\ entries'[d].frozen = 0
    BY <1>3, <2>1, PostBooks
  <2>3. \A r \in References : entries'[<<"recharge", r>>] = entries[<<"recharge", r>>]
    BY <2>2 DEF EntryKeys
  <2>4. LinesSound'
    BY <2>2, <2>3 DEF LinesSound
  <2>5. Recharged' = Recharged
    BY <2>3 DEF Recharged
  <2>6. /\ Total(Held, Keys) \in Nat /\ Total(Charged, Keys) \in Nat
        /\ Total(Held', Keys) = Total(Held, Keys) - Held[k] + Held'[k]
        /\ Total(Charged', Keys) = Total(Charged, Keys) - Charged[k] + Charged'[k]
    BY <1>3, TaskSums
  <2>7. /\ account.available \in Int /\ account.frozen \in Int
        /\ Held[k] \in Int /\ Charged[k] \in Int
    BY LimitAssumption DEF TypeOK, Account, Points, Held, Charged, Task
  <2>8. FrozenIsHeld'
    BY <1>3, <2>2, <2>6, <2>7 DEF FrozenIsHeld
  <2>9. PointsConserved'
    BY <1>3, <2>2, <2>5, <2>6, <2>7 DEF PointsConserved
  <2>10. QED
    BY <2>2, <2>4, <2>8, <2>9
<1>4. ASSUME NEW k \in Keys, NEW request \in Request, NEW price \in prices,
             Freezes(k, request, price)
      PROVE  BooksInv'
  <2> DEFINE required == price.points * request.results
  <2>1. required \in Int /\ -required \in Int
    BY <1>4, LimitAssumption DEF Freezes, Points
  <2>2. Post(<<"reserve", k>>, "reserve", -required, required)
    BY <1>4 DEF Freezes
  <2>3. /\ tasks[k].status = "none" /\ tasks'[k].status = "reserved"
        /\ tasks[k].charged = 0 /\ tasks'[k].charged = 0
        /\ tasks'[k].reserved = required
        /\ \A j \in Keys \ {k} : tasks'[j] = tasks[j]
    BY <1>4 DEF Freezes, TypeOK, RowsLinked, NoTask
  <2> HIDE DEF required
  <2>4. Held'[k] = Held[k] + required
    BY <2>1, <2>3 DEF Held, Open
  <2>5. Charged'[k] = Charged[k] - (-required) - required
    BY <2>1, <2>3 DEF Charged
  <2>6. QED
    BY <1>3, <2>1, <2>2, <2>3, <2>4, <2>5
<1>5. ASSUME NEW k \in Keys, NEW count \in Nat, NEW digest \in Digests \cup {NoDigest},
             Closes(k, count, digest)
      PROVE  BooksInv'
  <2> DEFINE charged == count * tasks[k].points
             reserved == tasks[k].reserved
  <2>1. charged \in Int /\ reserved \in Int /\ -reserved \in Int /\ reserved - charged \in Int
    <3>1. charged \in Points
      BY <1>5 DEF Closes, Settle
    <3>2. reserved \in Points
      BY DEF TypeOK, Task
    <3>3. Points \subseteq Int
      BY LimitAssumption DEF Points
    <3> HIDE DEF charged, reserved
    <3>4. QED
      BY <3>1, <3>2, <3>3
  <2>2. Post(<<"settle", k>>, IF count = 0 THEN "release" ELSE "settle",
             reserved - charged, -reserved)
    BY <1>5 DEF Closes, Settle
  <2>3. /\ tasks[k].status \in Open /\ tasks'[k].status \notin Open
        /\ tasks'[k].charged = charged
        /\ \A j \in Keys \ {k} : tasks'[j] = tasks[j]
    BY <1>5 DEF Closes, Settle, TypeOK, Task, Open
  <2>4. tasks[k].charged = 0
    <3>1. tasks[k].status # "none" /\ tasks[k].status # "succeeded"
      BY <2>3 DEF Open
    <3>2. ~(tasks[k].charged > 0)
      BY <3>1 DEF BilledAsQuoted
    <3>3. QED
      BY <3>2, LimitAssumption DEF TypeOK, Task, Points
  <2> HIDE DEF charged
  <2>5. Held'[k] = Held[k] + (-reserved)
    BY <2>1, <2>3 DEF Held
  <2>6. Charged'[k] = Charged[k] - (reserved - charged) - (-reserved)
    BY <2>1, <2>3, <2>4 DEF Charged
  <2>7. QED
    BY <1>3, <2>1, <2>2, <2>3, <2>5, <2>6
<1>6. QED
  BY <1>1, <1>2, <1>4, <1>5, StepCases

\* The books balance in every reachable state.
LEMMA BooksInvariant == Spec => []BooksInv
<1>1. Init => BooksInv
  <2> SUFFICES ASSUME Init PROVE BooksInv
    OBVIOUS
  <2>1. /\ Held = [k \in Keys |-> 0] /\ Charged = [k \in Keys |-> 0]
        /\ Recharged = [r \in References |-> 0]
        /\ AvailableDeltas = [e \in EntryKeys |-> 0]
        /\ FrozenDeltas = [e \in EntryKeys |-> 0]
    BY DEF Init, NoTask, NoEntry, Held, Charged, Recharged, AvailableDeltas, FrozenDeltas,
           EntryKeys, Open
  <2>2. /\ Total(Held, Keys) = 0 /\ Total(Charged, Keys) = 0
        /\ Total(Recharged, References) = 0
    BY <2>1, TotalZero
  <2>3. /\ SignedTotal(AvailableDeltas, EntryKeys) = 0
        /\ SignedTotal(FrozenDeltas, EntryKeys) = 0
    BY <2>1, SignedTotalZero
  <2>4. account.available = 0 /\ account.frozen = 0
    BY DEF Init
  <2>5. LinesSound
    BY DEF Init, LinesSound, NoEntry, EntryKeys
  <2>6. QED
    BY <2>2, <2>3, <2>4, <2>5
       DEF BooksInv, FrozenIsHeld, PointsConserved, AuditConsistent
<1>2. /\ TypeOK /\ RowsLinked /\ BilledAsQuoted /\ BooksInv /\ TypeOK' /\ [Next]_vars
      => BooksInv'
  BY BooksStep
<1>3. QED
  BY <1>1, <1>2, LinkedInvariant, QuoteInvariant, PTL DEF Spec

\* The books of a wallet that was paid in once, before its first task.
LEMMA FundedBooks ==
  ASSUME TypeOK, account.available = MaxPoints, account.frozen = 0,
         tasks = [k \in Keys |-> NoTask], NEW r \in References,
         entries = [e \in EntryKeys |-> IF e = <<"recharge", r>>
                                        THEN Line("recharge", MaxPoints, 0) ELSE NoEntry]
  PROVE  BooksInv /\ BilledAsQuoted
<1> DEFINE e == <<"recharge", r>>
           none == [d \in EntryKeys |-> 0]
           paid == [d \in EntryKeys |-> IF d = e THEN MaxPoints ELSE 0]
           unpaid == [q \in References |-> 0]
<1>1. e \in EntryKeys /\ MaxPoints \in Nat
  BY LimitAssumption DEF EntryKeys
<1>2. /\ Held = [k \in Keys |-> 0] /\ Charged = [k \in Keys |-> 0]
  BY DEF Held, Charged, NoTask, Open
<1>3. Total(Held, Keys) = 0 /\ Total(Charged, Keys) = 0
  BY <1>2, TotalZero
<1>4. /\ \A d \in EntryKeys : /\ entries[d].frozen = 0
                              /\ entries[d].available = IF d = e THEN MaxPoints ELSE 0
                              /\ entries[d].kind = "none" => d # e
  BY DEF NoEntry
<1> HIDE DEF e
<1>5. ASSUME NEW q \in References
       PROVE  entries[<<"recharge", q>>].available = IF q = r THEN MaxPoints ELSE 0
  <2>1. <<"recharge", q>> \in EntryKeys /\ (<<"recharge", q>> = e <=> q = r)
    BY DEF EntryKeys, e
  <2>2. QED
    BY <1>4, <2>1
<1>6. AvailableDeltas = paid /\ FrozenDeltas = none
  BY <1>4 DEF AvailableDeltas, FrozenDeltas
<1>7. SignedTotal(none, EntryKeys) = 0 /\ SignedTotal(paid, EntryKeys) = MaxPoints
  <2>1. none \in [EntryKeys -> Int] /\ paid \in [EntryKeys -> Int]
    BY <1>1
  <2>2. /\ \A d \in EntryKeys : none[d] = 0
        /\ \A d \in EntryKeys \ {e} : paid[d] = none[d]
        /\ paid[e] = MaxPoints /\ none[e] = 0
    BY <1>1
  <2> HIDE DEF none, paid
  <2>3. SignedTotal(none, EntryKeys) = 0
    BY <2>1, <2>2, SignedTotalZero
  <2>4. SignedTotal(paid, EntryKeys) = SignedTotal(none, EntryKeys) - none[e] + paid[e]
    BY <1>1, <2>1, <2>2, EntryKeysFinite, SignedTotalUpdate
  <2>5. QED
    BY <1>1, <2>2, <2>3, <2>4
<1>8. Total(Recharged, References) = MaxPoints
  <2>1. /\ Recharged \in [References -> Nat] /\ unpaid \in [References -> Nat]
        /\ \A q \in References \ {r} : Recharged[q] = unpaid[q]
        /\ Recharged[r] = MaxPoints /\ unpaid[r] = 0 /\ \A q \in References : unpaid[q] = 0
    BY <1>1, <1>5 DEF Recharged
  <2> HIDE DEF unpaid
  <2>2. Total(unpaid, References) = 0
    BY <2>1, TotalZero
  <2>3. Total(Recharged, References) = Total(unpaid, References) - unpaid[r] + Recharged[r]
    BY <2>1, RowAssumption, TotalUpdate
  <2>4. QED
    BY <1>1, <2>1, <2>2, <2>3
<1>9. LinesSound
  BY <1>1, <1>4, <1>5 DEF LinesSound
<1>10. BilledAsQuoted
  BY DEF BilledAsQuoted, NoTask
<1> HIDE DEF none, paid
<1>11. QED
  BY <1>1, <1>3, <1>6, <1>7, <1>8, <1>9, <1>10
     DEF BooksInv, FrozenIsHeld, PointsConserved, AuditConsistent

\* No interleaving leaks a hold or returns it twice.
THEOREM FrozenPointsAreHeld == Spec => []FrozenIsHeld
BY BooksInvariant, PTL DEF BooksInv

\* Paid-in points are free, frozen or charged.
THEOREM PointsAreConserved == Spec => []PointsConserved
BY BooksInvariant, PTL DEF BooksInv

\* The audit of the wallet against its ledger lines always succeeds.
THEOREM AuditsAreConsistent == Spec => []AuditConsistent
BY BooksInvariant, PTL DEF BooksInv

\* A closed task costs its results at the quoted price.
THEOREM BillsAreAsQuoted == Spec => []BilledAsQuoted
BY QuoteInvariant, PTL

\* A step of the ledger leaves the closed bills alone.
LEMMA BillsLeft ==
  ASSUME TypeOK, RowsLinked, [Next]_vars
  PROVE  LeavesBills
<1> SUFFICES ASSUME NEW j \in Keys, tasks[j].status \in Final
             PROVE  /\ tasks'[j] = tasks[j]
                    /\ entries'[<<"settle", j>>] = entries[<<"settle", j>>]
  BY DEF LeavesBills
<1>1. tasks[j].status \notin Open /\ tasks[j].status # "none"
  BY DEF Open, Final
<1>2. CASE Untouched
  BY <1>1, <1>2 DEF Untouched
<1>3. ASSUME NEW reference \in References, NEW points \in Amounts, Pays(reference, points)
      PROVE  tasks'[j] = tasks[j] /\ entries'[<<"settle", j>>] = entries[<<"settle", j>>]
  BY <1>3 DEF Pays, Post, TypeOK, EntryKeys
<1>4. ASSUME NEW k \in Keys, NEW request \in Request, NEW price \in prices,
             Freezes(k, request, price)
      PROVE  tasks'[j] = tasks[j] /\ entries'[<<"settle", j>>] = entries[<<"settle", j>>]
  BY <1>1, <1>4 DEF Freezes, Post, TypeOK, EntryKeys
<1>5. ASSUME NEW k \in Keys, NEW count \in Nat, NEW digest \in Digests \cup {NoDigest},
             Closes(k, count, digest)
      PROVE  tasks'[j] = tasks[j] /\ entries'[<<"settle", j>>] = entries[<<"settle", j>>]
  <2>1. k # j
    BY <1>1, <1>5 DEF Closes
  <2>2. QED
    BY <1>5, <2>1 DEF Closes, Settle, Post, TypeOK, EntryKeys
<1>6. QED
  BY <1>2, <1>3, <1>4, <1>5, StepCases

-----------------------------------------------------------------------------
\* Nothing rewrites a closed bill: the only steps that touch a task's points
\* or its settlement line need the task not to be closed.
THEOREM ClosedBillsStand == Spec => BillStands
<1>1. TypeOK /\ RowsLinked /\ [Next]_vars => LeavesBills
  BY BillsLeft
<1>2. QED
  BY <1>1, LinkedInvariant, PTL DEF Spec, BillStands

-----------------------------------------------------------------------------
\* The ledger implements the abstract prepaid holds: a recharge pays in, a
\* reservation freezes, a settlement of any origin closes, and every other
\* step leaves the points alone.
THEOREM LedgerKeepsHolds == Spec => KeepsHolds
<1> DEFINE hold == [k \in Keys |-> [state |-> HoldState(k), frozen |-> tasks[k].reserved,
                                   cost |-> tasks[k].charged]]
<1>1. Init => Holds!Init
  <2> SUFFICES ASSUME Init PROVE Holds!Init
    OBVIOUS
  <2>1. \A k \in Keys : /\ HoldState(k) = "absent"
                        /\ tasks[k].reserved = 0 /\ tasks[k].charged = 0
    BY DEF Init, NoTask, HoldState
  <2>2. account.available = 0
    BY DEF Init
  <2>3. QED
    BY <2>1, <2>2 DEF Holds!Init
<1>2. TypeOK /\ RowsLinked /\ BilledAsQuoted /\ [Next]_vars => [Holds!Next]_(Holds!vars)
  <2> SUFFICES ASSUME TypeOK, RowsLinked, BilledAsQuoted, [Next]_vars
               PROVE  Holds!Next \/ UNCHANGED <<account.available, hold>>
    BY DEF Holds!vars
  <2>1. account.available \in Int /\ \A k \in Keys : tasks[k].reserved \in Points
    BY LimitAssumption DEF TypeOK, Account, Task, Points
  <2>2. CASE Untouched
    <3>1. \A k \in Keys : HoldState(k)' = HoldState(k)
      BY <2>2 DEF Untouched, HoldState, Open, Final, TypeOK, Task
    <3>2. hold' = hold
      BY <2>2, <3>1 DEF Untouched
    <3>3. QED
      BY <2>2, <3>2 DEF Untouched
  <2>3. ASSUME NEW reference \in References, NEW points \in Amounts, Pays(reference, points)
        PROVE  Holds!Next
    <3>1. points \in 1 .. MaxPoints
      BY LimitAssumption
    <3>2. account'.available = account.available + points
      BY <2>3 DEF Pays, Post, TypeOK, Account
    <3>3. hold' = hold
      BY <2>3 DEF Pays, HoldState
    <3>4. Holds!Pay(points)
      BY <3>2, <3>3 DEF Holds!Pay
    <3>5. QED
      BY <3>1, <3>4 DEF Holds!Next
  <2>4. ASSUME NEW k \in Keys, NEW request \in Request, NEW price \in prices,
               Freezes(k, request, price)
        PROVE  Holds!Next
    <3> DEFINE required == price.points * request.results
    <3>1. required \in 0 .. MaxPoints
      BY <2>4 DEF Freezes, Points
    <3>2. /\ hold[k].state = "absent" /\ required <= account.available
          /\ account'.available = account.available + (-required)
      BY <2>4 DEF Freezes, Post, HoldState, TypeOK, Account
    <3>3. \A j \in Keys \ {k} : tasks'[j] = tasks[j]
      BY <2>4 DEF Freezes, TypeOK
    <3>4. /\ tasks'[k].status = "reserved" /\ tasks'[k].reserved = required
          /\ tasks'[k].charged = 0
      BY <2>4 DEF Freezes, TypeOK
    <3>5. HoldState(k)' = "open"
      BY <3>4 DEF HoldState, Open
    <3> HIDE DEF required
    <3>6. hold' = [hold EXCEPT ![k] = [state |-> "open", frozen |-> required, cost |-> 0]]
      BY <3>3, <3>4, <3>5 DEF HoldState
    <3>7. Holds!Freeze(k, required)
      BY <2>1, <3>1, <3>2, <3>6 DEF Holds!Freeze
    <3>8. QED
      BY <3>1, <3>7 DEF Holds!Next
  <2>5. ASSUME NEW k \in Keys, NEW count \in Nat, NEW digest \in Digests \cup {NoDigest},
               Closes(k, count, digest)
        PROVE  Holds!Next
    <3> DEFINE charged == count * tasks[k].points
    <3>1. /\ tasks[k].status \in Open /\ charged \in Points
          /\ account'.available = account.available + (tasks[k].reserved - charged)
      BY <2>5 DEF Closes, Settle, Post, TypeOK, Account
    <3>2. charged <= tasks[k].reserved
      <4>1. /\ tasks[k].status # "none" /\ tasks[k].request \in Request
            /\ count <= tasks[k].request.results
        BY <2>5, <3>1 DEF Closes, Settle, RowsLinked, Open
      <4>2. /\ tasks[k].reserved = tasks[k].points * tasks[k].request.results
            /\ tasks[k].request.results \in Nat /\ tasks[k].points \in Nat
        BY <4>1, LimitAssumption DEF BilledAsQuoted, Request, TypeOK, Task, Points
      <4>3. QED
        BY <4>1, <4>2, PartialCharge
    <3>3. \A j \in Keys \ {k} : tasks'[j] = tasks[j]
      BY <2>5 DEF Closes, Settle, TypeOK
    <3>4. /\ tasks'[k].status \in Final /\ tasks'[k].charged = charged
          /\ tasks'[k].reserved = tasks[k].reserved
      BY <2>5 DEF Closes, Settle, TypeOK, Task, Final
    <3>5. HoldState(k) = "open" /\ HoldState(k)' = "closed"
      BY <3>1, <3>4 DEF HoldState, Open, Final
    <3> HIDE DEF charged
    <3>6. hold' = [hold EXCEPT ![k].state = "closed", ![k].cost = charged]
      BY <3>3, <3>4, <3>5 DEF HoldState
    <3>7. PICK cost \in 0 .. MaxPoints : cost = charged
      BY <3>1 DEF Points
    <3>8. Holds!Close(k, cost)
      BY <2>1, <3>1, <3>2, <3>5, <3>6, <3>7, LimitAssumption DEF Holds!Close, Points
    <3>9. QED
      BY <3>8 DEF Holds!Next
  <2>6. QED
    BY <2>2, <2>3, <2>4, <2>5, StepCases
<1>3. QED
  BY <1>1, <1>2, LinkedInvariant, QuoteInvariant, PTL DEF Spec, KeepsHolds, Holds!Spec

-----------------------------------------------------------------------------
\* While a task is open none of its attempts has succeeded: an accepted success
\* closes it in the same transaction.  Without this conjunct the other two are
\* not inductive, since a refund could follow an unnoticed success.
OpenHasNoSuccess ==
  \A k \in Keys : tasks[k].status \notin Final =>
    \A n \in 1 .. Len(attempts[k]) : attempts[k][n].status # "succeeded"

AttemptsInv == OneUnresolvedAttempt /\ OpenHasNoSuccess /\ LateResultFlagged

\* A settlement changes the status, the digest and no attempt of one task.
LEMMA SettleRow ==
  ASSUME TypeOK, NEW k \in Keys, NEW count \in Nat, NEW digest, Settle(k, count, digest)
  PROVE  /\ tasks'[k].status = IF count = 0 THEN "failed" ELSE "succeeded"
         /\ tasks'[k].result = IF count = 0 THEN NoDigest ELSE digest
         /\ \A j \in Keys \ {k} : tasks'[j] = tasks[j]
BY DEF Settle, TypeOK, Task

\* Steps keep the submissions alone and the late results flagged.
LEMMA AttemptsStep ==
  ASSUME TypeOK, RowsLinked, AttemptsInv, TypeOK', [Next]_vars
  PROVE  AttemptsInv'
<1> USE DEF AttemptsInv
<1>1. CASE UNCHANGED <<tasks, attempts>>
  BY <1>1 DEF OneUnresolvedAttempt, OpenHasNoSuccess, LateResultFlagged
<1>2. ASSUME NEW k \in Keys, NEW count \in Nat, NEW digest, Settle(k, count, digest),
             UNCHANGED attempts,
             count # 0 => \A n \in 1 .. Len(attempts[k]) :
                            attempts[k][n].status = "failed" => n # Len(attempts[k])
      PROVE  AttemptsInv'
  <2>1. /\ tasks'[k].status \in Final
        /\ count = 0 => tasks'[k].status = "failed"
        /\ \A j \in Keys \ {k} : tasks'[j] = tasks[j]
    BY <1>2, SettleRow DEF Final
  <2>2. tasks[k].status \notin Final
    BY <1>2 DEF Settle
  <2>3. QED
    BY <1>2, <2>1, <2>2 DEF OneUnresolvedAttempt, OpenHasNoSuccess, LateResultFlagged
<1>3. ASSUME NEW k \in Keys, NEW count \in 0 .. MaxResults, NEW digest \in Digests,
             Reconcile(k, count, digest)
      PROVE  AttemptsInv'
  <2>1. count \in Nat /\ Settle(k, count, digest) /\ UNCHANGED attempts
    BY <1>3, LimitAssumption DEF Reconcile
  <2>2. tasks[k].status \in {"unknown", "running"}
    BY <1>3 DEF Reconcile
  <2>3. \A n \in 1 .. Len(attempts[k]) :
          attempts[k][n].status = "failed" => n # Len(attempts[k])
    BY <2>2 DEF OneUnresolvedAttempt, Unresolved, Final
  <2>4. QED
    BY <1>2, <2>1, <2>3
<1>4. ASSUME NEW k \in Keys, NEW request \in Request, Reserve(k, request)
      PROVE  AttemptsInv'
  <2>1. /\ tasks[k].status = "none" /\ UNCHANGED attempts
        /\ \A j \in Keys \ {k} : tasks'[j] = tasks[j]
    BY <1>4 DEF Reserve, TypeOK
  <2>2. attempts[k] = << >>
    BY <2>1 DEF RowsLinked
  <2>3. QED
    BY <2>1, <2>2 DEF OneUnresolvedAttempt, OpenHasNoSuccess, LateResultFlagged
<1>5. ASSUME NEW k \in Keys, NEW key \in AttemptKeys, NEW provider \in Providers,
             StartAttempt(k, key, provider)
      PROVE  AttemptsInv'
  <2> DEFINE last == Len(attempts[k])
  <2>1. /\ tasks[k].status = "reserved" /\ tasks'[k].status = "running"
        /\ \A j \in Keys \ {k} : tasks'[j] = tasks[j] /\ attempts'[j] = attempts[j]
    BY <1>5 DEF StartAttempt, TypeOK, Task
  <2>2. /\ Len(attempts'[k]) = last + 1 /\ last \in Nat
        /\ attempts'[k][last + 1].status = "submitted"
        /\ \A n \in 1 .. last : attempts'[k][n] = attempts[k][n]
    BY <1>5 DEF StartAttempt, TypeOK
  <2>3. \A n \in 1 .. last : /\ attempts[k][n].status \notin Unresolved
                             /\ attempts[k][n].status # "succeeded"
    BY <2>1 DEF OneUnresolvedAttempt, OpenHasNoSuccess, Final
  <2>4. \A n \in 1 .. Len(attempts'[k]) :
          /\ attempts'[k][n].status \in Unresolved <=> n = Len(attempts'[k])
          /\ attempts'[k][n].status # "succeeded"
    BY SMTT(30), <2>2, <2>3 DEF Unresolved
  <2>5. QED
    BY <2>1, <2>4 DEF OneUnresolvedAttempt, OpenHasNoSuccess, LateResultFlagged, Final
<1>6. ASSUME NEW k \in Keys, NEW n \in AttemptKeys, NEW call \in OutcomeCall,
             RecordOutcome(k, n, call)
      PROVE  AttemptsInv'
  <2> DEFINE attempt == Recorded(tasks[k], attempts[k][n], call)
             last == Len(attempts[k])
  <2>1. /\ n \in 1 .. last /\ Accepts(tasks[k], attempts[k][n], call)
        /\ attempts[k][n] \in Attempt
    BY <1>6 DEF RecordOutcome, TypeOK
  <2>2. attempts[k][n].status \in Unresolved
    BY <2>1 DEF Accepts, VerifiedRecovery, Unresolved
  <2>3. /\ Len(attempts'[k]) = last /\ attempts'[k][n] = attempt
        /\ \A m \in 1 .. last : m # n => attempts'[k][m] = attempts[k][m]
        /\ \A j \in Keys \ {k} : attempts'[j] = attempts[j]
    BY <1>6, <2>1 DEF RecordOutcome, TypeOK
  <2>4. /\ attempt.status = call.outcome
        /\ attempt.conflict = Conflicts(tasks[k], call)
        /\ attempt.digest = IF call.outcome = "succeeded" THEN call.digest ELSE NoDigest
        /\ call.outcome \in Outcomes
    BY <2>1 DEF Recorded, Attempt, OutcomeCall
  <2> HIDE DEF attempt
  <2>5. CASE tasks[k].status \in Final
    <3>1. UNCHANGED tasks
      BY <1>6, <2>5 DEF RecordOutcome
    <3>2. ~attempt.conflict => /\ call.outcome = tasks[k].status
                               /\ call.outcome = "succeeded" =>
                                    tasks[k].result = attempt.digest
      BY <2>4, <2>5 DEF Conflicts
    <3>3. LateResultFlagged'
      BY <2>3, <2>4, <3>1, <3>2 DEF LateResultFlagged
    <3>4. QED
      BY <2>3, <2>5, <3>1, <3>3 DEF OneUnresolvedAttempt, OpenHasNoSuccess
  <2>6. CASE tasks[k].status \notin Final
    <3>1. /\ n = last
          /\ \A m \in 1 .. last : m # n =>
               /\ attempts[k][m].status \notin Unresolved
               /\ attempts[k][m].status # "succeeded"
      BY <2>1, <2>2, <2>6 DEF OneUnresolvedAttempt, OpenHasNoSuccess
    <3>2. ASSUME NEW status \in {"unknown", "reserved"},
                 tasks' = [tasks EXCEPT ![k].status = status],
                 status = "unknown" <=> call.outcome = "unknown",
                 call.outcome # "succeeded"
          PROVE  AttemptsInv'
      <4>1. /\ tasks'[k].status = status
            /\ \A j \in Keys \ {k} : tasks'[j] = tasks[j]
        BY <3>2 DEF TypeOK, Task
      <4>2. \A m \in 1 .. last :
              /\ attempts'[k][m].status \in Unresolved <=>
                   m = last /\ status \in {"running", "unknown"}
              /\ attempts'[k][m].status # "succeeded"
        BY <2>3, <2>4, <3>1, <3>2 DEF Unresolved, Outcomes
      <4>3. OneUnresolvedAttempt'
        BY <2>3, <3>2, <4>1, <4>2 DEF OneUnresolvedAttempt
      <4>4. OpenHasNoSuccess'
        BY <2>3, <4>1, <4>2 DEF OpenHasNoSuccess
      <4>5. LateResultFlagged'
        BY <2>3, <3>2, <4>1 DEF LateResultFlagged, Final
      <4>6. QED
        BY <4>3, <4>4, <4>5
    <3>3. ASSUME call.outcome # "unknown",
                 Settle(k, IF call.outcome = "succeeded" THEN call.count ELSE 0, call.digest)
          PROVE  AttemptsInv'
      <4> DEFINE count == IF call.outcome = "succeeded" THEN call.count ELSE 0
      <4>1. count \in Nat /\ (count = 0 <=> call.outcome # "succeeded")
        BY LimitAssumption DEF OutcomeCall
      <4>2. /\ tasks'[k].status = IF count = 0 THEN "failed" ELSE "succeeded"
            /\ tasks'[k].result = IF count = 0 THEN NoDigest ELSE call.digest
            /\ \A j \in Keys \ {k} : tasks'[j] = tasks[j]
        BY <3>3, <4>1, SettleRow
      <4>3. /\ tasks'[k].status = call.outcome /\ tasks'[k].status \in Final
            /\ call.outcome = "succeeded" => tasks'[k].result = attempt.digest
        BY <2>4, <3>3, <4>1, <4>2 DEF Final, Outcomes
      <4> HIDE DEF count
      <4>4. \A m \in 1 .. last :
              /\ attempts'[k][m].status = "succeeded" =>
                   /\ tasks'[k].status = "succeeded"
                   /\ tasks'[k].result = attempts'[k][m].digest
              /\ attempts'[k][m].status = "failed" /\ m = last =>
                   tasks'[k].status = "failed"
        BY <2>3, <2>4, <3>1, <4>3
      <4>5. QED
        <5>1. OneUnresolvedAttempt'
          BY <2>3, <4>2, <4>3 DEF OneUnresolvedAttempt
        <5>2. OpenHasNoSuccess'
          BY <2>3, <4>2, <4>3 DEF OpenHasNoSuccess
        <5>3. LateResultFlagged'
          BY <2>3, <4>2, <4>4 DEF LateResultFlagged
        <5>4. QED
          BY <5>1, <5>2, <5>3
    <3>4. QED
      BY <1>6, <2>6, <3>2, <3>3 DEF RecordOutcome
  <2>7. QED
    BY <2>5, <2>6
<1>7. ASSUME NEW k \in Keys, NEW n \in AttemptKeys, NEW receipt \in Receipts,
             RecordReceipt(k, n, receipt)
      PROVE  AttemptsInv'
  <2>1. /\ UNCHANGED tasks
        /\ \A j \in Keys : Len(attempts'[j]) = Len(attempts[j])
        /\ \A j \in Keys : \A m \in 1 .. Len(attempts[j]) :
             /\ attempts'[j][m].status = attempts[j][m].status
             /\ attempts'[j][m].conflict = attempts[j][m].conflict
             /\ attempts'[j][m].digest = attempts[j][m].digest
    <3>1. n \in 1 .. Len(attempts[k]) /\ attempts[k][n] \in Attempt
      BY <1>7 DEF RecordReceipt, TypeOK
    <3>2. attempts' = [attempts EXCEPT ![k] =
            [attempts[k] EXCEPT ![n] = [attempts[k][n] EXCEPT !.receipt = receipt]]]
      BY <1>7 DEF RecordReceipt, TypeOK
    <3>3. /\ [attempts[k][n] EXCEPT !.receipt = receipt].status = attempts[k][n].status
          /\ [attempts[k][n] EXCEPT !.receipt = receipt].conflict = attempts[k][n].conflict
          /\ [attempts[k][n] EXCEPT !.receipt = receipt].digest = attempts[k][n].digest
      BY <3>1 DEF Attempt
    <3>4. QED
      BY <1>7, <3>1, <3>2, <3>3 DEF RecordReceipt, TypeOK
  <2>2. QED
    <3>1. OneUnresolvedAttempt'
      BY <2>1 DEF OneUnresolvedAttempt
    <3>2. OpenHasNoSuccess'
      BY <2>1 DEF OpenHasNoSuccess
    <3>3. LateResultFlagged'
      BY <2>1 DEF LateResultFlagged
    <3>4. QED
      BY <3>1, <3>2, <3>3
<1>8. ASSUME NEW k \in Keys, ReleaseUnsubmitted(k)
      PROVE  AttemptsInv'
  <2>1. Settle(k, 0, NoDigest) /\ UNCHANGED attempts
    BY <1>8 DEF ReleaseUnsubmitted
  <2>2. QED
    BY <1>2, <2>1
<1>9. QED
  BY <1>1, <1>3, <1>4, <1>5, <1>6, <1>7, <1>8
     DEF Next, Platform, Member, ConfigureAccount, CreatePrice, Recharge, SetOperators, vars

LEMMA AttemptsInvariant == Spec => []AttemptsInv
<1> USE DEF AttemptsInv
<1>1. Init => AttemptsInv
  BY DEF Init, OneUnresolvedAttempt, OpenHasNoSuccess, LateResultFlagged
<1>2. TypeOK /\ RowsLinked /\ AttemptsInv /\ TypeOK' /\ [Next]_vars => AttemptsInv'
  BY AttemptsStep
<1>3. QED
  BY <1>1, <1>2, LinkedInvariant, PTL DEF Spec

\* A provider that may still deliver is never raced by a second submission or
\* by a refund of the task.
THEOREM UnresolvedIsAlone == Spec => []OneUnresolvedAttempt
BY AttemptsInvariant, PTL DEF AttemptsInv

\* A provider's late answer that contradicts the closed bill is always flagged.
THEOREM LateResultsAreFlagged == Spec => []LateResultFlagged
BY AttemptsInvariant, PTL DEF AttemptsInv
=============================================================================
