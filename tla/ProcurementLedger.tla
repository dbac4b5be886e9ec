--------------------------- MODULE ProcurementLedger ---------------------------
(***************************************************************************)
(* Corrections of stock, purchases and costs.                              *)
(*                                                                         *)
(* A person previews a correction of one product against its snapshot and  *)
(* applies it later under the snapshot's revision.  In between, others     *)
(* apply theirs, orders arrive and ship, and the pages of purchases and of *)
(* deliveries change the same rows: deliveries are received, taken back    *)
(* and deleted, purchases edited, confirmed anew, cancelled and deleted.   *)
(*                                                                         *)
(* The rows of a transaction's first read are what its plan is made from:  *)
(* its plain SELECTs see that state even after it has waited for locks.    *)
(* SerialSpec lets no other change fall between that read and the writes;  *)
(* Spec does.                                                              *)
(***************************************************************************)
EXTENDS PointSums, Sequences, FiniteSetsExt

CONSTANTS
  Products,
  Purchased,      \* those that are bought, the others are made by conversion
  Drafts,         \* corrections in preparation, each with its request key
  Sessions,       \* database transactions
  MaxQuantity,    \* of one correction (for model checking)
  ItemBound,      \* purchases (for model checking)
  TaskBound,      \* cost tasks (for model checking)
  BatchBound,     \* deliveries of a purchase (for model checking)
  EditionBound,   \* changes of the products (for model checking)
  NoDraft, NoSession

ASSUME ProcurementAssumption ==
  /\ Purchased \subseteq Products
  /\ {MaxQuantity, ItemBound, TaskBound, BatchBound, EditionBound} \subseteq Nat

VARIABLES
  rows,      \* the tables, see Rows
  drafts,    \* what each person has in the correction window
  session    \* what each transaction has read

pvars == <<rows, drafts, session>>

Quantities == 1 .. MaxQuantity
Counts     == 0 .. MaxQuantity
Tasks      == 1 .. TaskBound

\* A delivery of a purchase: due, received, void or gone.  Its movements in the
\* stock are what was posted when it came and what corrections took back; audited
\* if its note names a correction, which closes it to the pages.
Batch == [status : {"pending", "approved", "cancelled", "deleted"}, quantity : Nat,
          posted : Nat, taken : Nat, audited : BOOLEAN]
\* A purchase: ordered, counted as received, with its deliveries; valued if its
\* price is known; links are pieces that explain the cost of counted stock.  Of its
\* past: reversed if a page took something of it back, restarted if it was
\* confirmed anew when pieces had come.
Item  == [product : Purchased, actual : Nat, inbound : Nat, valued : BOOLEAN,
          state : {"open", "cancelled", "deleted"}, reversed : BOOLEAN, restarted : BOOLEAN,
          batches : Seq(Batch), links : [Tasks -> Nat]]
Task  == [product : Products, quantity : Nat, resolved : Nat]
\* The revision is a digest of everything a snapshot of the product reads: here,
\* how often that changed.  A plan depends on nothing else, so one that finds its
\* rows changed and changed back is the plan a new preview would make.
Rows  == [stock : [Products -> Int], demand : [Products -> Nat],
          counted : [Products -> BOOLEAN], revision : [Products -> Nat],
          items : Seq(Item), tasks : Seq(Task)]

\* What a person submits.
Body ==
  [type : {"record"}, product : Purchased, quantity : Quantities,
   effect : {"in_transit", "missing_inbound", "already_accounted"}, task : {0} \cup Tasks]
  \cup [type : {"receive_and_count"}, product : Purchased, item : 1 .. ItemBound,
        batch : 1 .. BatchBound, quantity : Quantities, counted : Counts]
  \cup [type : {"stocktake"}, product : Products, counted : Counts, valued : BOOLEAN]
  \cup [type : {"loss"}, product : Products, quantity : Quantities]
  \cup [type : {"convert"}, product : Products, quantity : Quantities,
        target : Products, made : Quantities]
  \cup [type : {"link_stock_cost"}, product : Purchased, item : 1 .. ItemBound,
        task : Tasks, quantity : Quantities]
  \cup [type : {"revise_purchase"}, product : Purchased, item : 1 .. ItemBound,
        quantity : Counts, valued : BOOLEAN, correct : BOOLEAN]

\* With the body: the revisions it was previewed at and the stock it promised, of
\* the products it touches.
Touched(body) == {body.product} \cup (IF body.type = "convert" THEN {body.target} ELSE {})
IsDraft(x) ==
  /\ x.body \in Body
  /\ x \in [body : {x.body}, revision : [Touched(x.body) -> Nat],
            promised : [Touched(x.body) -> Int]]

PInit ==
  /\ rows = [stock |-> [p \in Products |-> 0], demand |-> [p \in Products |-> 0],
             counted |-> [p \in Products |-> FALSE], revision |-> [p \in Products |-> 0],
             items |-> << >>, tasks |-> << >>]
  /\ drafts = [d \in Drafts |-> NoDraft]
  /\ session = [s \in Sessions |-> NoSession]
-----------------------------------------------------------------------------
\* Quantities of a purchase.
With(item, status) == {i \in DOMAIN item.batches : item.batches[i].status = status}
Amount(item, S)    == Total([i \in S |-> item.batches[i].quantity], S)
Received(item)     == Amount(item, With(item, "approved"))
Pending(item)      == Amount(item, With(item, "pending"))
Linked(item)       == Total(item.links, Tasks)
Local(batch)       == batch.posted - batch.taken
Unresolved(task)   == task.quantity - task.resolved

Positive(n) == Max({0, n})

\* The part of an amount that one in a line takes when those before it have
\* taken theirs.  Faulty variant: the rest goes to the first, whatever it holds.
Remainder(amount, before, own) == Positive(amount - before)
Share(amount, before, own)     == Min({own, Positive(amount - before)})

\* planReceiptCorrection(): what was received too much is taken from the newest
\* delivery first, and from the stock if it was posted there.
Removed(item, quantity, i) ==
  LET newer == {j \in With(item, "approved") : j > i} IN
  Share(Positive(Received(item) - quantity), Amount(item, newer), item.batches[i].quantity)

\* What is still to come.  Faulty variant: the orders are compared.
StillOrdered(item, quantity) == Positive(quantity - item.actual)
StillDue(item, quantity)     == Positive(quantity - Received(item))
Kept(item, quantity, i) ==
  LET older == {j \in With(item, "pending") : j < i} IN
  Share(StillDue(item, quantity), Amount(item, older), item.batches[i].quantity)

\* A corrected delivery gives up the pieces removed.
Resized(batch, quantity, removed) ==
  [batch EXCEPT !.quantity = quantity, !.status = IF quantity = 0 THEN "cancelled" ELSE @,
                !.taken = IF Local(batch) = 0 THEN @ ELSE @ + removed, !.audited = TRUE]
Due(quantity, audited) ==
  [status |-> "pending", quantity |-> quantity, posted |-> 0, taken |-> 0, audited |-> audited]

\* revisePurchase(): the deliveries after a correction, and what they count as.
Corrected(item, quantity) ==
  LET cut == [i \in DOMAIN item.batches |->
                LET batch == item.batches[i]  removed == Removed(item, quantity, i) IN
                IF i \in With(item, "approved")
                THEN Resized(batch, batch.quantity - removed, removed)
                ELSE IF i \in With(item, "pending") THEN Resized(batch, Kept(item, quantity, i), 0)
                ELSE batch]
      more == StillDue(item, quantity) - Pending(item)
  IN  IF more > 0 THEN Append(cut, Due(more, TRUE)) ELSE cut

\* Faulty variant: the new quantity, received or not.
AllReceived(item, quantity) == quantity
StillReceived(item, quantity) == Min({quantity, Received(item)})

\* applyInboundRecordUpdate(): of a total, perhaps another than was due, a quantity
\* comes in and the rest stays due; of more than was due nothing does.
ReceivedInto(batches, i, quantity, total, audited) ==
  LET batch == batches[i]
      came == [batches EXCEPT ![i] = [batch EXCEPT !.status = "approved", !.quantity = quantity,
                                        !.posted = @ + quantity, !.audited = audited]]
  IN  IF quantity <= batch.quantity /\ quantity < total
      THEN Append(came, Due(total - quantity, batch.audited)) ELSE came
CameIn(item, i, quantity, total, audited) ==
  [item EXCEPT !.inbound = @ + quantity,
               !.batches = ReceivedInto(@, i, quantity, total, audited)]

-----------------------------------------------------------------------------
\* A purchase that explains costs keeps its pieces and its price.  Faulty
\* variant: only the price is looked at.
KeepsPrice(item, body) == Linked(item) = 0 \/ body.valued
KeepsCosts(item, body) ==
  Linked(item) = 0 \/ (body.quantity >= Linked(item) /\ body.valued)

IsItem(v, body) ==
  /\ body.item \in DOMAIN v.items
  /\ v.items[body.item].product = body.product /\ v.items[body.item].state = "open"
IsOpenTask(v, body) ==
  /\ body.task \in DOMAIN v.tasks /\ v.tasks[body.task].product = body.product
  /\ body.quantity <= Unresolved(v.tasks[body.task])

\* planLedgerAction(): what may be planned on the rows v.
Accepts(v, body) ==
  CASE body.type = "record" ->
         body.task # 0 => body.effect = "already_accounted" /\ IsOpenTask(v, body)
    [] body.type = "receive_and_count" ->
         /\ IsItem(v, body) /\ body.batch \in With(v.items[body.item], "pending")
         /\ body.quantity <= v.items[body.item].batches[body.batch].quantity
    [] body.type = "stocktake" -> body.counted = 0 => ~body.valued
    [] body.type = "loss" -> body.quantity <= v.stock[body.product]
    [] body.type = "convert" ->
         /\ body.target # body.product
         /\ body.quantity <= Positive(v.stock[body.product] - v.demand[body.product])
    [] body.type = "link_stock_cost" ->
         /\ IsItem(v, body) /\ v.items[body.item].valued
         /\ body.quantity <= Received(v.items[body.item]) - Linked(v.items[body.item])
         /\ IsOpenTask(v, body)
    [] body.type = "revise_purchase" ->
         /\ IsItem(v, body)
         /\ KeepsCosts(v.items[body.item], body)
         /\ body.quantity < Received(v.items[body.item]) => body.correct
         /\ \A i \in With(v.items[body.item], "approved") :
              LET batch == v.items[body.item].batches[i] IN
              Removed(v.items[body.item], body.quantity, i) # 0 =>
                Local(batch) \in {0, batch.quantity}

\* What a correction takes back from the stock.
TakenBack(item, quantity) ==
  LET local == {i \in With(item, "approved") : Local(item.batches[i]) # 0} IN
  Total([i \in local |-> Removed(item, quantity, i)], local)

\* What the plan moves in the stock of its product.
Delta(v, body) ==
  CASE body.type = "record" -> IF body.effect = "missing_inbound" THEN body.quantity ELSE 0
    [] body.type \in {"receive_and_count", "stocktake"} -> body.counted - v.stock[body.product]
    [] body.type \in {"loss", "convert"} -> - body.quantity
    [] body.type = "link_stock_cost" -> 0
    [] body.type = "revise_purchase" -> - TakenBack(v.items[body.item], body.quantity)

Moved(v, body) ==
  [p \in Touched(body) |-> IF p = body.product THEN Delta(v, body) ELSE body.made]

\* A count opens a cost task for what no purchase explains.
ToCost(v, body) ==
  IF body.valued THEN 0
  ELSE IF v.counted[body.product] THEN Min({body.counted, Positive(Delta(v, body))})
  ELSE body.counted

Purchase(body) ==
  LET due == body.effect = "in_transit" IN
  [product |-> body.product, actual |-> body.quantity,
   inbound |-> IF due THEN 0 ELSE body.quantity, valued |-> TRUE,
   state |-> "open", reversed |-> FALSE, restarted |-> FALSE,
   batches |-> <<[Due(body.quantity, TRUE) EXCEPT
                    !.status = IF due THEN "pending" ELSE "approved",
                    !.posted = IF body.effect = "missing_inbound" THEN body.quantity ELSE 0]>>,
   links |-> [t \in Tasks |-> IF t = body.task THEN body.quantity ELSE 0]]

\* The purchases and the cost tasks after the plan made on v is written to r.
Items(r, v, body) ==
  CASE body.type = "record" -> Append(r.items, Purchase(body))
    [] body.type = "receive_and_count" ->
         [r.items EXCEPT ![body.item] =
            CameIn(@, body.batch, body.quantity, @.batches[body.batch].quantity, TRUE)]
    [] body.type = "link_stock_cost" ->
         [r.items EXCEPT ![body.item].links[body.task] = @ + body.quantity]
    [] body.type = "revise_purchase" ->
         LET item == v.items[body.item] IN
         [r.items EXCEPT ![body.item] =
            [@ EXCEPT !.actual = body.quantity, !.inbound = StillReceived(item, body.quantity),
                      !.valued = body.valued, !.batches = Corrected(item, body.quantity)]]
    [] OTHER -> r.items

CostTasks(r, v, body) ==
  IF body.type = "stocktake" /\ ToCost(v, body) > 0
  THEN Append(r.tasks, [product |-> body.product, quantity |-> ToCost(v, body), resolved |-> 0])
  ELSE IF body.type \in {"record", "link_stock_cost"} /\ body.task # 0
  THEN [r.tasks EXCEPT ![body.task].resolved = @ + body.quantity]
  ELSE r.tasks

Bumped(r, S) == [p \in Products |-> IF p \in S THEN r.revision[p] + 1 ELSE r.revision[p]]

\* The rows r after the plan made on v is written.
Written(r, v, body) ==
  [stock    |-> [p \in Products |-> IF p \in Touched(body) THEN r.stock[p] + Moved(v, body)[p]
                                   ELSE r.stock[p]],
   demand   |-> r.demand,
   counted  |-> [r.counted EXCEPT ![body.product] =
                   @ \/ body.type \in {"receive_and_count", "stocktake"}],
   revision |-> Bumped(r, Touched(body)),
   items    |-> Items(r, v, body),
   tasks    |-> CostTasks(r, v, body)]

\* There is room for a change of the products S (for model checking), beside the
\* corrections in preparation, and for the rows it leads to.
Prepared == {d \in Drafts : drafts[d] # NoDraft}
Room ==
  EditionBound - Total(rows.revision, Products)
    - Total([d \in Prepared |-> Cardinality(Touched(drafts[d].body))], Prepared)
HasRoom(S) == Cardinality(S) <= Room
IsBounded(r) ==
  /\ Len(r.items) <= ItemBound /\ Len(r.tasks) <= TaskBound
  /\ \A i \in DOMAIN r.items : Len(r.items[i].batches) <= BatchBound

-----------------------------------------------------------------------------
\* preview(): the person sees what the correction would do.
Preview(d, body) ==
  /\ drafts[d] = NoDraft
  /\ HasRoom(Touched(body))
  /\ Accepts(rows, body)
  /\ drafts' = [drafts EXCEPT ![d] =
       [body |-> body,
        revision |-> [p \in Touched(body) |-> rows.revision[p]],
        promised |-> [p \in Touched(body) |-> rows.stock[p] + Moved(rows, body)[p]]]]
  /\ UNCHANGED <<rows, session>>

\* The plan is made only on what the person saw, of both products of a
\* conversion.  Faulty variant: the other product is not compared.
IsCurrentHere(v, draft) == draft.revision[draft.body.product] = v.revision[draft.body.product]
IsCurrent(v, draft) == \A p \in Touched(draft.body) : draft.revision[p] = v.revision[p]

\* apply(), with the snapshot v: what no longer fits is refused, and the person
\* starts anew.  A repeated request is answered from the saved result.
Carries(d, v) ==
  /\ IF IsCurrent(v, drafts[d]) /\ Accepts(v, drafts[d].body)
     THEN rows' = Written(rows, v, drafts[d].body) /\ IsBounded(rows')
     ELSE UNCHANGED rows
  /\ drafts' = [drafts EXCEPT ![d] = NoDraft]

Apply(d) ==
  /\ drafts[d] # NoDraft
  /\ Carries(d, rows)
  /\ UNCHANGED session

\* Somebody else's correction, previewed and applied with nothing in between.
Correct(body) ==
  /\ HasRoom(Touched(body))
  /\ Accepts(rows, body)
  /\ rows' = Written(rows, rows, body) /\ IsBounded(rows')
  /\ UNCHANGED <<drafts, session>>

\* The first read of the transaction: whose enterprise it is.
Begin(s, d) ==
  /\ session[s] = NoSession /\ drafts[d] # NoDraft
  /\ session' = [session EXCEPT ![s] = [owner |-> d, draft |-> drafts[d], view |-> rows]]
  /\ UNCHANGED <<rows, drafts>>

\* The rows are locked, the snapshot is read, the plan made and written.  Only
\* the request and the delivery to receive are read anew.
IsFresh(v, body) ==
  body.type = "receive_and_count" =>
    rows.items[body.item].batches[body.batch] = v.items[body.item].batches[body.batch]
Commit(s) ==
  /\ session[s] # NoSession
  /\ LET d == session[s].owner  v == session[s].view IN
     IF drafts[d] = session[s].draft /\ (IsCurrent(v, drafts[d]) => IsFresh(v, drafts[d].body))
     THEN Carries(d, v)
     ELSE UNCHANGED <<rows, drafts>>
  /\ session' = [session EXCEPT ![s] = NoSession]

-----------------------------------------------------------------------------
\* Orders arrive and are shipped from the stock.
Order(p) ==
  /\ HasRoom({p})
  /\ rows' = [rows EXCEPT !.demand[p] = @ + 1, !.revision[p] = @ + 1]
  /\ UNCHANGED <<drafts, session>>
Ship(p) ==
  /\ rows.demand[p] > 0 /\ HasRoom({p})
  /\ rows' = [rows EXCEPT !.demand[p] = @ - 1, !.stock[p] = @ - 1, !.revision[p] = @ + 1]
  /\ UNCHANGED <<drafts, session>>

-----------------------------------------------------------------------------
\* The pages of deliveries and of purchases change a purchase that is not deleted,
\* and the stock of its product.
Edit(n, item, moved) ==
  LET p == item.product IN
  /\ HasRoom({p}) /\ rows.items[n].state # "deleted"
  /\ rows' = [rows EXCEPT !.items[n] = item, !.stock[p] = @ + moved, !.revision[p] = @ + 1]
  /\ IsBounded(rows')
  /\ UNCHANGED <<drafts, session>>

\* Whoever edits a note may drop the correction it names.
MayName(audited) == {audited, FALSE}

\* A delivery is received, perhaps more than was due or of another total.
Receive(n, i, quantity, total) ==
  LET item == rows.items[n] IN
  /\ i \in With(item, "pending")
  /\ \E audited \in MayName(item.batches[i].audited) :
       Edit(n, CameIn(item, i, quantity, total, audited), quantity)

\* A delivery gets another status.  Its movement is posted, set to its quantity, or
\* deleted with what was counted as received.  One that was corrected to nothing and
\* is received anew has two movements; posted is their total.
Came(batch, status)  == IF status = "approved" THEN batch.quantity ELSE 0
Posted(batch, status) ==
  IF status = "approved"
  THEN batch.quantity + IF batch.status = "approved" THEN 0 ELSE batch.posted
  ELSE IF batch.status = "approved" THEN 0 ELSE batch.posted
Restate(n, i, status, audited) ==
  LET item == rows.items[n]  batch == item.batches[i] IN
  /\ batch.status # "deleted" /\ ~(batch.status = "approved" /\ batch.audited)
  /\ Edit(n, [item EXCEPT
         !.inbound = Positive(@ + Came(batch, status) - Came(batch, batch.status)),
         !.reversed = @ \/ (batch.status = "approved" /\ status # "approved"),
         !.batches[i] = [batch EXCEPT !.status = status, !.audited = audited,
                                      !.posted = Posted(batch, status)]],
       Posted(batch, status) - batch.posted)
SetStatus(n, i, status) ==
  \E audited \in MayName(rows.items[n].batches[i].audited) : Restate(n, i, status, audited)
DeleteReceipt(n, i) == Restate(n, i, "deleted", rows.items[n].batches[i].audited)

\* A purchase is edited: its price, and one delivery that is due, which is now the
\* whole of what was ordered.
UpdatePurchase(n, valued) ==
  LET item == rows.items[n]
      edited == [item EXCEPT !.valued = valued, !.reversed = @ \/ (Linked(item) > 0 /\ ~valued)]
  IN  \/ With(item, "pending") = {} /\ Edit(n, edited, 0)
      \/ \E i \in With(item, "pending") : \E audited \in MayName(item.batches[i].audited) :
           Edit(n, [edited EXCEPT !.batches[i] = [@ EXCEPT !.quantity = item.actual,
                                                           !.audited = audited]], 0)

\* A purchase counts as ordered while nothing came of it, and may after it was
\* confirmed anew.  It may be confirmed then: all of it is due, in the delivery
\* written last, or all of it is there already and counted in the stock.
IsOrdered(item) == item.inbound = 0 \/ item.actual = 0 \/ item.restarted
Latest(batches) ==
  {i \in DOMAIN batches :
     /\ batches[i].status # "deleted"
     /\ \A j \in DOMAIN batches : j > i => batches[j].status = "deleted"}
Put(batches, status, quantity, audited) ==
  IF Latest(batches) = {} THEN Append(batches, [Due(quantity, audited) EXCEPT !.status = status])
  ELSE [i \in DOMAIN batches |->
          IF i \in Latest(batches)
          THEN [batches[i] EXCEPT !.status = status, !.quantity = quantity, !.audited = audited]
          ELSE batches[i]]
Confirm(n, quantity, valued, audited) ==
  LET item == rows.items[n]
      fresh == Latest(item.batches) = {}
      confirmed == [item EXCEPT !.actual = quantity, !.valued = valued,
                                !.reversed = @ \/ (Linked(item) > 0 /\ ~valued),
                                !.restarted = @ \/ item.inbound > 0]
  IN  /\ item.state = "open" /\ IsOrdered(item)
      /\ \/ Edit(n, [confirmed EXCEPT !.batches =
                       IF fresh THEN Put(@, "pending", quantity, audited)
                       ELSE IF quantity > item.inbound
                       THEN Put(@, "pending", quantity - item.inbound, audited) ELSE @], 0)
         \/ /\ quantity <= rows.stock[item.product]
            /\ Edit(n, [confirmed EXCEPT !.inbound = quantity,
                                         !.batches = Put(@, "approved", quantity, audited)], 0)

\* A purchase is cancelled; its deliveries still come in.
CancelPurchase(n) == Edit(n, [rows.items[n] EXCEPT !.state = "cancelled"], 0)

\* A purchase is deleted, with what its deliveries posted.  What is left of them
\* belongs to no purchase.
DeletePurchase(n) ==
  LET item == rows.items[n]
      came == With(item, "approved")
  IN  /\ \A i \in came : ~item.batches[i].audited
      /\ Edit(n, [item EXCEPT !.state = "deleted"],
              - Total([i \in came |-> item.batches[i].posted], came))

OnDeliveries ==
  \E n \in DOMAIN rows.items : \E i \in DOMAIN rows.items[n].batches :
    \/ \E quantity, total \in Quantities : Receive(n, i, quantity, total)
    \/ \E status \in {"pending", "approved", "cancelled"} : SetStatus(n, i, status)
    \/ DeleteReceipt(n, i)
OnPurchases ==
  \E n \in DOMAIN rows.items :
    \/ \E valued \in BOOLEAN :
         \/ UpdatePurchase(n, valued)
         \/ \E quantity \in Quantities, audited \in BOOLEAN : Confirm(n, quantity, valued, audited)
    \/ CancelPurchase(n) \/ DeletePurchase(n)

Trade == (\E p \in Products : Order(p) \/ Ship(p)) \/ OnDeliveries \/ OnPurchases

Prepare  == \E d \in Drafts, body \in Body : Preview(d, body)
Somebody == \E body \in Body : Correct(body)

SerialNext ==
  \/ Trade
  \/ Room > 0 /\ (Prepare \/ Somebody)
  \/ \E d \in Drafts : Apply(d)
SerialSpec == PInit /\ [][SerialNext]_pvars

Next ==
  \/ Trade
  \/ Room > 0 /\ Prepare
  \/ \E s \in Sessions : Commit(s) \/ \E d \in Drafts : Begin(s, d)
Spec == PInit /\ [][Next]_pvars

-----------------------------------------------------------------------------
\* Rows and windows keep their shape; no quantity falls below zero.
PTypeOK ==
  /\ rows \in Rows
  /\ DOMAIN drafts = Drafts /\ \A d \in Drafts : drafts[d] # NoDraft => IsDraft(drafts[d])
  /\ DOMAIN session = Sessions
  /\ \A s \in Sessions : session[s] # NoSession =>
       session[s].owner \in Drafts /\ IsDraft(session[s].draft) /\ session[s].view \in Rows

\* A correction does to the stock of every product it touches what its preview
\* promised, whatever happened between: the revisions see to that.
AppliedAsPreviewed ==
  [][\A d \in Drafts : drafts[d] # NoDraft /\ drafts'[d] = NoDraft /\ rows' # rows =>
       \A p \in Touched(drafts[d].body) : rows'.stock[p] = drafts[d].promised[p]]_pvars

\* What a purchase counts as received is what its deliveries brought, through
\* recording, receipts in part and in excess, revisions, receipts taken back and
\* deleted and edits, in any order; unless it was restarted or is gone.
ReceiptsAreCounted ==
  \A n \in DOMAIN rows.items :
    LET item == rows.items[n] IN
    item.state # "deleted" /\ ~item.restarted => item.inbound = Received(item)

\* Whatever the pages left of a purchase, a revision makes what came and what is
\* due add up to the quantity it was given.
RevisionsAddUp ==
  [][\A d \in Drafts : drafts[d] # NoDraft /\ drafts'[d] = NoDraft /\ rows' # rows
                        /\ drafts[d].body.type = "revise_purchase" =>
       LET body == drafts[d].body  item == rows'.items[body.item] IN
       item.actual = body.quantity /\ Received(item) + Pending(item) = body.quantity]_pvars

\* Pieces that explain the cost of counted stock were received, have a price and
\* explain one task each, after any corrections, unless a page took something of
\* their purchase back; no task is explained twice.
CostsAreCovered ==
  /\ \A n \in DOMAIN rows.items :
       LET item == rows.items[n] IN
       Linked(item) > 0 /\ item.state # "deleted" /\ ~item.reversed /\ ~item.restarted =>
         Linked(item) <= Received(item) /\ item.valued
  /\ \A t \in DOMAIN rows.tasks :
       /\ rows.tasks[t].resolved =
            Total([n \in DOMAIN rows.items |-> rows.items[n].links[t]], DOMAIN rows.items)
       /\ rows.tasks[t].resolved <= rows.tasks[t].quantity
=============================================================================
