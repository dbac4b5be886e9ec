------------------------ MODULE ProcurementLedger_proofs ------------------------
(***************************************************************************)
(* For any products, persons and quantities, as long as transactions see   *)
(* the latest rows: what a purchase counts as received is what came,       *)
(* revisions add up, linked costs stay covered and a correction does what  *)
(* its preview promised.                                                   *)
(*                                                                         *)
(* The first part is about one purchase: what a line of deliveries gives   *)
(* up or keeps adds up to the amount shared out, shown from its first      *)
(* delivery that breaks this.  The second carries that through the rows,   *)
(* for corrections and for the pages.  The third follows the promise of a  *)
(* draft.                                                                  *)
(***************************************************************************)
EXTENDS ProcurementLedger, PointSums_proofs

\* The larger of a number and zero, and the smaller of two numbers.
LEMMA PositivePart ==
  ASSUME NEW n \in Int
  PROVE  Positive(n) \in Nat /\ Positive(n) = IF n > 0 THEN n ELSE 0
<1>1. PICK m \in {0, n} : \A y \in {0, n} : m >= y
  OBVIOUS
<1>2. Max({0, n}) \in {0, n} /\ \A y \in {0, n} : Max({0, n}) >= y
  BY <1>1, Zenon DEF Max
<1>3. QED
  BY <1>2 DEF Positive

LEMMA SmallerOfTwo ==
  ASSUME NEW a \in Int, NEW b \in Int
  PROVE  Min({a, b}) = IF a <= b THEN a ELSE b
<1>1. PICK m \in {a, b} : \A y \in {a, b} : m <= y
  OBVIOUS
<1>2. Min({a, b}) \in {a, b} /\ \A y \in {a, b} : Min({a, b}) <= y
  BY <1>1, Zenon DEF Min
<1>3. QED
  BY <1>2

LEMMA ShareOfOne ==
  ASSUME NEW amount \in Nat, NEW before \in Nat, NEW own \in Nat
  PROVE  /\ Share(amount, before, own) \in 0 .. own
         /\ amount <= before => Share(amount, before, own) = 0
         /\ before < amount /\ amount <= before + own => Share(amount, before, own) = amount - before
         /\ before + own < amount => Share(amount, before, own) = own
<1>1. Positive(amount - before) = IF amount - before > 0 THEN amount - before ELSE 0
  BY PositivePart
<1>2. Share(amount, before, own) = IF own <= Positive(amount - before) THEN own ELSE Positive(amount - before)
  BY <1>1, SmallerOfTwo DEF Share
<1>3. QED
  BY <1>1, <1>2

\* The elements of S stand in a line by their rank, each behind those before it.
InLine(S, n, rank, before) ==
  /\ rank \in [S -> 0 .. n] /\ \A i, j \in S : rank[i] = rank[j] => i = j
  /\ before \in [S -> SUBSET S] /\ \A i, j \in S : j \in before[i] <=> rank[j] < rank[i]

\* Each gives of the amount what those before it could not.
SharesTheAmount(S, n, rank, before, own, amount, share) ==
  /\ IsFiniteSet(S) /\ n \in Nat /\ InLine(S, n, rank, before)
  /\ own \in [S -> Nat] /\ amount \in Nat /\ share \in [S -> Nat]
  /\ \A i \in S : share[i] = Share(amount, Total(own, before[i]), own[i])

\* Together they give the amount, or all they have.  Else there is a shortest
\* beginning of the line for which it fails.
LEMMA SharesAddUp ==
  ASSUME NEW S, NEW n, NEW rank, NEW before, NEW own, NEW amount, NEW share,
         SharesTheAmount(S, n, rank, before, own, amount, share)
  PROVE  Total(share, S) = IF Total(own, S) <= amount THEN Total(own, S) ELSE amount
<1>0. /\ IsFiniteSet(S) /\ n \in Nat /\ InLine(S, n, rank, before)
      /\ own \in [S -> Nat] /\ amount \in Nat /\ share \in [S -> Nat]
      /\ \A i \in S : share[i] = Share(amount, Total(own, before[i]), own[i])
  BY DEF SharesTheAmount
<1> DEFINE First(k) == {j \in S : rank[j] < k}
           Wrong(k) == Total(share, First(k))
                         # IF Total(own, First(k)) <= amount THEN Total(own, First(k)) ELSE amount
           wrong == {k \in Nat : Wrong(k)}
<1>1. First(n + 1) = S
  BY <1>0 DEF InLine
<1>2. SUFFICES ASSUME Wrong(n + 1)
               PROVE  FALSE
  <2> HIDE DEF First
  <2>1. QED
    BY <1>0, <1>1
<1>3. PICK k \in wrong : \A l \in wrong : k <= l
  <2> HIDE DEF wrong
  <2>1. wrong \in SUBSET Nat
    BY <1>0 DEF wrong
  <2>2. n + 1 \in wrong
    BY <1>0, <1>2 DEF wrong
  <2>3. QED
    BY <1>0, <2>1, <2>2, LeastNatural
<1>4. k # 0
  <2>1. First(0) = {}
    BY <1>0 DEF InLine
  <2>2. ~Wrong(0)
    <3> HIDE DEF First
    <3>1. QED
      BY <1>0, <2>1, TotalOfNone
  <2>3. QED
    BY <1>0, <1>3, <2>2
<1>5. k \in Nat /\ k - 1 \in Nat /\ Wrong(k) /\ ~Wrong(k - 1)
  <2> HIDE DEF Wrong
  <2>1. k \in Nat /\ Wrong(k) /\ k - 1 \in Nat
    BY <1>0, <1>3, <1>4
  <2>2. Wrong(k - 1) => k <= k - 1
    BY <1>0, <1>3, <2>1
  <2>3. QED
    BY <1>0, <2>1, <2>2
<1>6. CASE \A i \in S : rank[i] # k - 1
  <2>1. First(k) = First(k - 1)
    BY <1>0, <1>5, <1>6 DEF InLine
  <2>2. QED
    BY <1>0, <1>5, <2>1
<1>7. CASE \E i \in S : rank[i] = k - 1
  <2>1. PICK i \in S : rank[i] = k - 1
    BY <1>0, <1>7
  <2>2. First(k) = First(k - 1) \cup {i} /\ i \in S \ First(k - 1)
    BY <1>0, <1>5, <2>1 DEF InLine
  <2>3. First(k - 1) \in SUBSET S /\ IsFiniteSet(First(k - 1))
    BY <1>0, FS_Subset
  <2>4. share[i] = Share(amount, Total(own, First(k - 1)), own[i])
    <3>1. before[i] = First(k - 1)
      BY <1>0, <1>5, <2>1 DEF InLine
    <3>2. QED
      BY <1>0, <3>1
  <2>5. /\ Total(own, First(k - 1)) \in Nat /\ Total(share, First(k - 1)) \in Nat
        /\ Total(own, First(k)) = Total(own, First(k - 1)) + own[i]
        /\ Total(share, First(k)) = Total(share, First(k - 1)) + share[i]
    <3> HIDE DEF First
    <3>1. \A f \in [S -> Nat] : /\ Total(f, First(k - 1)) \in Nat
                                /\ Total(f, First(k - 1) \cup {i}) = Total(f, First(k - 1)) + f[i]
      BY <1>0, <2>2, <2>3, TotalAdds
    <3>2. QED
      BY <1>0, <2>2, <3>1
  <2>6. own[i] \in Nat
    BY <1>0
  <2> HIDE DEF First
  <2>7. PICK b \in Nat, s \in Nat : b = Total(own, First(k - 1)) /\ s = Total(share, First(k - 1))
    BY <1>0, <2>5
  <2>8. /\ share[i] \in 0 .. own[i]
        /\ amount <= b => share[i] = 0
        /\ b < amount /\ amount <= b + own[i] => share[i] = amount - b
        /\ b + own[i] < amount => share[i] = own[i]
    <3>1. share[i] = Share(amount, b, own[i])
      BY <1>0, <2>4, <2>7
    <3>2. PICK o \in Nat : o = own[i]
      BY <1>0, <2>6
    <3>3. /\ Share(amount, b, o) \in 0 .. o
          /\ amount <= b => Share(amount, b, o) = 0
          /\ b < amount /\ amount <= b + o => Share(amount, b, o) = amount - b
          /\ b + o < amount => Share(amount, b, o) = o
      BY <1>0, ShareOfOne
    <3>4. QED
      BY <1>0, <3>1, <3>2, <3>3
  <2>9. s = IF b <= amount THEN b ELSE amount
    BY <1>0, <1>5, <2>7
  <2>10. s + share[i] = IF b + own[i] <= amount THEN b + own[i] ELSE amount
    BY <1>0, <2>6, <2>8, <2>9
  <2>11. ~Wrong(k)
    BY <1>0, <2>5, <2>7, <2>10
  <2>12. QED
    BY <1>0, <1>5, <2>11
<1>8. QED
  BY <1>0, <1>6, <1>7
-----------------------------------------------------------------------------
\* The deliveries of a status as a column, and its sum.
Holds(x, status)  == IF x.status = status THEN x.quantity ELSE 0
Column(b, status) == [i \in DOMAIN b |-> Holds(b[i], status)]
Sum(b, status)    == Total(Column(b, status), DOMAIN b)

LEMMA ColumnsAreNatural ==
  ASSUME NEW b \in Seq(Batch)
  PROVE  \A status : Column(b, status) \in [DOMAIN b -> Nat]
<1>1. \A i \in DOMAIN b : b[i] \in Batch
  OBVIOUS
<1>2. \A x \in Batch : \A status : Holds(x, status) \in Nat
  BY DEF Holds, Batch
<1>3. QED
  BY <1>1, <1>2 DEF Column

LEMMA SumsAreNatural ==
  ASSUME NEW b \in Seq(Batch), NEW status
  PROVE  Sum(b, status) \in Nat
<1>1. IsFiniteSet(DOMAIN b)
  BY FS_Interval
<1>2. QED
  BY <1>1, ColumnsAreNatural, TotalIsNat DEF Sum

LEMMA ChangedDeliveries ==
  ASSUME NEW b \in Seq(Batch), NEW i \in DOMAIN b, NEW x \in Batch
  PROVE  [b EXCEPT ![i] = x] \in Seq(Batch)
OBVIOUS

\* What a purchase received and what is due are such sums.
LEMMA AmountsAreSums ==
  ASSUME NEW item, item.batches \in Seq(Batch)
  PROVE  /\ \A status : /\ Amount(item, With(item, status)) = Sum(item.batches, status)
                        /\ Column(item.batches, status) \in [DOMAIN item.batches -> Nat]
                        /\ Sum(item.batches, status) \in Nat
         /\ IsFiniteSet(DOMAIN item.batches)
         /\ Received(item) = Sum(item.batches, "approved")
         /\ Pending(item) = Sum(item.batches, "pending")
<1> DEFINE D == DOMAIN item.batches
<1>1. D = 1 .. Len(item.batches) /\ Len(item.batches) \in Nat
  OBVIOUS
<1>2. IsFiniteSet(D)
  BY <1>1, FS_Interval
<1>3. ASSUME NEW status
      PROVE  /\ Amount(item, With(item, status)) = Sum(item.batches, status)
             /\ Column(item.batches, status) \in [D -> Nat]
             /\ Sum(item.batches, status) \in Nat
  <2> DEFINE c == Column(item.batches, status)
             S == With(item, status)
             f == [i \in S |-> item.batches[i].quantity]
  <2>1. c \in [D -> Nat]
    BY ColumnsAreNatural
  <2>2. S \in SUBSET D /\ (\A i \in S : c[i] = f[i]) /\ (\A i \in D \ S : c[i] = 0)
    BY DEF With, Column, Holds
  <2>3. Total(c, D) = Total(f, S)
    <3> HIDE DEF c, S, f, D
    <3>1. QED
      BY <2>2, TotalOver, ZenonT(60)
  <2>4. Total(c, D) \in Nat
    BY <1>2, <2>1, TotalIsNat
  <2>5. QED
    BY <2>1, <2>3, <2>4 DEF Amount, Sum
<1>4. QED
  BY <1>2, <1>3 DEF Received, Pending

\* Another delivery adds to the sum of its status; a changed one moves the sums by
\* what it was and is.
LEMMA SumOfAppended ==
  ASSUME NEW b \in Seq(Batch), NEW x \in Batch, NEW status
  PROVE  Sum(Append(b, x), status) = Sum(b, status) + Holds(x, status)
<1> DEFINE D == DOMAIN b
           n == Len(b) + 1
           c == Column(b, status)
           e == Column(Append(b, x), status)
<1>1. D = 1 .. Len(b) /\ Len(b) \in Nat /\ DOMAIN Append(b, x) = D \cup {n} /\ n \notin D
  OBVIOUS
<1>2. IsFiniteSet(D)
  BY <1>1, FS_Interval
<1>3. e \in [D \cup {n} -> Nat]
  <2>1. Append(b, x) \in Seq(Batch)
    OBVIOUS
  <2>2. QED
    BY <1>1, <2>1, ColumnsAreNatural
<1>4. (\A i \in D : e[i] = c[i]) /\ e[n] = Holds(x, status)
  <2>1. (\A i \in D : Append(b, x)[i] = b[i]) /\ Append(b, x)[n] = x
    OBVIOUS
  <2>2. QED
    BY <1>1, <2>1 DEF Column
<1> HIDE DEF D, n, c, e
<1>5. Total(e, D \cup {n}) = Total(e, D) + e[n]
  <2>1. D \in SUBSET (D \cup {n}) /\ n \in (D \cup {n}) \ D
    BY <1>1
  <2>2. QED
    BY <1>2, <1>3, <2>1, TotalAdds
<1>6. Total(e, D) = Total(c, D)
  BY <1>4, TotalOver
<1>7. QED
  BY <1>1, <1>4, <1>5, <1>6 DEF Sum, c, e, D

LEMMA SumOfChanged ==
  ASSUME NEW b \in Seq(Batch), NEW i \in DOMAIN b, NEW x \in Batch, NEW status
  PROVE  Sum([b EXCEPT ![i] = x], status) = Sum(b, status) - Holds(b[i], status) + Holds(x, status)
<1> DEFINE D == DOMAIN b
           c == Column(b, status)
           e == Column([b EXCEPT ![i] = x], status)
<1>1. DOMAIN [b EXCEPT ![i] = x] = D /\ D = 1 .. Len(b) /\ Len(b) \in Nat
  OBVIOUS
<1>2. IsFiniteSet(D)
  BY <1>1, FS_Interval
<1>3. c \in [D -> Nat] /\ e \in [D -> Nat]
  <2>1. [b EXCEPT ![i] = x] \in Seq(Batch)
    OBVIOUS
  <2>2. QED
    BY <1>1, <2>1, ColumnsAreNatural
<1>4. (\A j \in D \ {i} : e[j] = c[j]) /\ e[i] = Holds(x, status) /\ c[i] = Holds(b[i], status)
  BY DEF Column
<1> HIDE DEF D, c, e
<1>5. Total(e, D) = Total(c, D) - c[i] + e[i]
  BY <1>2, <1>3, <1>4, TotalUpdate DEF D
<1>6. QED
  BY <1>1, <1>4, <1>5 DEF Sum, c, e, D
-----------------------------------------------------------------------------
\* The amount of some of the deliveries is a part of a column's sum.
LEMMA AmountOfColumn ==
  ASSUME NEW item, NEW S, IsFiniteSet(S), NEW own \in [S -> Nat],
         \A i \in S : own[i] = item.batches[i].quantity, NEW T \in SUBSET S
  PROVE  Amount(item, T) = Total(own, T) /\ Amount(item, T) \in Nat
<1> DEFINE f == [i \in T |-> item.batches[i].quantity]
<1>1. \A i \in T : own[i] = f[i]
  OBVIOUS
<1>2. IsFiniteSet(T)
  BY FS_Subset
<1> HIDE DEF f
<1>3. Total(own, T) \in Nat
  BY <1>2, TotalOfPart
<1>4. Total(own, T) = Total(f, T)
  BY <1>1, TotalOver
<1>5. QED
  BY <1>3, <1>4 DEF Amount, f

LEMMA DeliveredQuantities ==
  ASSUME NEW item, item.batches \in Seq(Batch), NEW S \in SUBSET DOMAIN item.batches
  PROVE  /\ IsFiniteSet(S)
         /\ \E own \in [S -> Nat] : \A i \in S : own[i] = item.batches[i].quantity
<1>1. IsFiniteSet(S)
  BY AmountsAreSums, FS_Subset
<1>2. \A i \in S : item.batches[i].quantity \in Nat
  <2>1. \A i \in S : item.batches[i] \in Batch
    OBVIOUS
  <2>2. QED
    BY <2>1 DEF Batch
<1>3. [i \in S |-> item.batches[i].quantity] \in [S -> Nat]
  BY <1>2
<1>4. QED
  BY <1>1, <1>3

LEMMA DeliveriesAsColumn ==
  ASSUME NEW item, item.batches \in Seq(Batch), NEW S \in SUBSET DOMAIN item.batches
  PROVE  /\ \E own \in [S -> Nat] : /\ \A i \in S : own[i] = item.batches[i].quantity
                                   /\ \A T \in SUBSET S : Amount(item, T) = Total(own, T)
         /\ Amount(item, S) \in Nat
<1>1. IsFiniteSet(S)
  BY DeliveredQuantities
<1>2. PICK own \in [S -> Nat] : \A i \in S : own[i] = item.batches[i].quantity
  BY DeliveredQuantities
<1>3. ASSUME NEW T \in SUBSET S
      PROVE  Amount(item, T) = Total(own, T) /\ Amount(item, T) \in Nat
  BY <1>1, <1>2, AmountOfColumn
<1>4. QED
  BY <1>2, <1>3

\* Deliveries of a purchase in a line share an amount.
LEMMA DeliveriesShare ==
  ASSUME NEW item, item.batches \in Seq(Batch), NEW S \in SUBSET DOMAIN item.batches,
         NEW amount \in Nat, NEW n \in Nat, NEW rank, NEW before, InLine(S, n, rank, before),
         NEW share \in [S -> Nat],
         \A i \in S : share[i] = Share(amount, Amount(item, before[i]), item.batches[i].quantity)
  PROVE  Total(share, S) = IF Amount(item, S) <= amount THEN Amount(item, S) ELSE amount
<1>1. IsFiniteSet(S)
  BY DeliveredQuantities
<1>2. PICK own \in [S -> Nat] : /\ \A i \in S : own[i] = item.batches[i].quantity
                                /\ \A T \in SUBSET S : Amount(item, T) = Total(own, T)
  BY DeliveriesAsColumn
<1>3. \A i \in S : before[i] \in SUBSET S
  BY DEF InLine
<1>4. \A i \in S : share[i] = Share(amount, Total(own, before[i]), own[i])
  <2>1. TAKE i \in S
  <2>2. PICK T \in SUBSET S : T = before[i]
    BY <1>3
  <2>3. Amount(item, T) = Total(own, T) /\ own[i] = item.batches[i].quantity
    BY <1>2
  <2>4. QED
    BY <2>2, <2>3
<1>5. Total(share, S) = IF Total(own, S) <= amount THEN Total(own, S) ELSE amount
  <2>1. SharesTheAmount(S, n, rank, before, own, amount, share)
    BY <1>1, <1>4 DEF SharesTheAmount
  <2>2. QED
    BY <2>1, SharesAddUp
<1>6. Amount(item, S) = Total(own, S)
  BY <1>2
<1>7. QED
  BY <1>5, <1>6

\* Nobody takes more than he holds.
LEMMA SharesOfDeliveries ==
  ASSUME NEW item, item.batches \in Seq(Batch), NEW S \in SUBSET DOMAIN item.batches,
         NEW amount \in Nat, NEW i \in DOMAIN item.batches
  PROVE  /\ item.batches[i].quantity \in Nat
         /\ Share(amount, Amount(item, S), item.batches[i].quantity)
              \in 0 .. item.batches[i].quantity
<1>1. item.batches[i].quantity \in Nat
  <2>1. item.batches[i] \in Batch
    OBVIOUS
  <2>2. QED
    BY <2>1 DEF Batch
<1>2. PICK o \in Nat, b \in Nat : o = item.batches[i].quantity /\ b = Amount(item, S)
  BY <1>1, DeliveriesAsColumn
<1>3. Share(amount, b, o) \in 0 .. o
  BY ShareOfOne
<1>4. QED
  BY <1>2, <1>3

\* Less than was received: the newest deliveries give up what was too much.
LEMMA RemovedAddUp ==
  ASSUME NEW item, item.batches \in Seq(Batch), NEW quantity \in Nat
  PROVE  LET S == With(item, "approved")  received == Received(item) IN
         /\ \A i \in S : /\ item.batches[i].quantity \in Nat
                         /\ Removed(item, quantity, i) \in 0 .. item.batches[i].quantity
         /\ S \in SUBSET DOMAIN item.batches /\ IsFiniteSet(S) /\ received \in Nat
         /\ Total([i \in S |-> item.batches[i].quantity - Removed(item, quantity, i)], S)
              = IF received <= quantity THEN received ELSE quantity
<1> DEFINE S == With(item, "approved")
           n == Len(item.batches)
           rank == [i \in S |-> n - i]
           excess == Positive(Received(item) - quantity)
           own == [i \in S |-> item.batches[i].quantity]
           before == [i \in S |-> {j \in With(item, "approved") : j > i}]
           removed == [i \in S |-> Removed(item, quantity, i)]
           left == [i \in S |-> item.batches[i].quantity - Removed(item, quantity, i)]
<1>1. /\ S \in SUBSET DOMAIN item.batches /\ DOMAIN item.batches = 1 .. n /\ n \in Nat
      /\ Received(item) \in Nat /\ Received(item) = Amount(item, S)
  <2>1. DOMAIN item.batches = 1 .. n /\ n \in Nat
    OBVIOUS
  <2>2. S \in SUBSET DOMAIN item.batches
    BY DEF With
  <2>3. QED
    BY <2>1, <2>2, AmountsAreSums DEF Received
<1>2. excess \in Nat /\ excess = IF Received(item) > quantity THEN Received(item) - quantity ELSE 0
  BY <1>1, PositivePart, SMTT(40)
<1>3. rank \in [S -> 0 .. n] /\ \A i, j \in S : rank[i] = rank[j] => i = j
  BY <1>1
<1>4. \A i \in S : /\ before[i] \in SUBSET S /\ \A j \in S : j \in before[i] <=> rank[j] < rank[i]
                   /\ removed[i] = Share(excess, Amount(item, before[i]), item.batches[i].quantity)
  <2>1. TAKE i \in S
  <2>2. before[i] = {j \in With(item, "approved") : j > i} /\ before[i] \in SUBSET S
    OBVIOUS
  <2>3. \A j \in S : j \in before[i] <=> rank[j] < rank[i]
    BY <1>1
  <2> HIDE DEF before
  <2>4. removed[i] = Share(excess, Amount(item, before[i]), item.batches[i].quantity)
    BY <2>2 DEF Removed
  <2>5. QED
    BY <2>2, <2>3, <2>4
<1>5. before \in [S -> SUBSET S]
  OBVIOUS
<1>6. removed = [i \in S |-> removed[i]]
  OBVIOUS
<1>7. \A i \in S : item.batches[i].quantity \in Nat /\ removed[i] \in 0 .. item.batches[i].quantity
  <2> HIDE DEF S, rank, excess, removed, n, before
  <2>1. TAKE i \in S
  <2>2. i \in DOMAIN item.batches /\ before[i] \in SUBSET DOMAIN item.batches
    BY <1>1, <1>4
  <2>3. /\ item.batches[i].quantity \in Nat
        /\ Share(excess, Amount(item, before[i]), item.batches[i].quantity)
             \in 0 .. item.batches[i].quantity
    BY <1>2, <2>2, SharesOfDeliveries
  <2>4. QED
    BY <1>4, <2>3
<1>8. IsFiniteSet(S) /\ removed \in [S -> Nat]
  <2> HIDE DEF S, rank, excess, removed, n, before
  <2>1. IsFiniteSet(S)
    BY <1>1, DeliveredQuantities
  <2>2. \A i \in S : removed[i] \in Nat
    BY <1>7
  <2>3. QED
    BY <1>6, <2>1, <2>2
<1>9. Total(removed, S) = IF Amount(item, S) <= excess THEN Amount(item, S) ELSE excess
  <2> HIDE DEF S, rank, excess, removed, n, before
  <2>1. InLine(S, n, rank, before)
    BY <1>3, <1>4, <1>5 DEF InLine
  <2>2. \A i \in S : removed[i] = Share(excess, Amount(item, before[i]), item.batches[i].quantity)
    BY <1>4
  <2>3. QED
    BY <1>1, <1>2, <1>8, <2>1, <2>2, DeliveriesShare, SMTT(40)
<1>10. own \in [S -> Nat] /\ left \in [S -> Nat] /\ \A i \in S : own[i] = removed[i] + left[i]
  BY <1>7
<1>11. Total(own, S) = Total(removed, S) + Total(left, S) /\ Total(left, S) \in Nat
  <2> HIDE DEF S, own, removed, left
  <2>1. QED
    BY <1>8, <1>10, TotalOfSum, TotalIsNat
<1>12. Total(own, S) = Received(item)
  BY DEF Received, Amount
<1>13. Total(left, S) = IF Received(item) <= quantity THEN Received(item) ELSE quantity
  <2> HIDE DEF S, own, removed, left
  <2>1. QED
    BY <1>1, <1>2, <1>9, <1>11, <1>12
<1>14. QED
  BY <1>1, <1>7, <1>8, <1>13

\* What is still due stays due in the oldest deliveries.
LEMMA KeptAddUp ==
  ASSUME NEW item, item.batches \in Seq(Batch), NEW quantity \in Nat
  PROVE  LET S == With(item, "pending")  due == StillDue(item, quantity) IN
         /\ \A i \in S : /\ item.batches[i].quantity \in Nat
                         /\ Kept(item, quantity, i) \in 0 .. item.batches[i].quantity
         /\ S \in SUBSET DOMAIN item.batches /\ IsFiniteSet(S)
         /\ Pending(item) \in Nat /\ due \in Nat
         /\ Total([i \in S |-> Kept(item, quantity, i)], S)
              = IF Pending(item) <= due THEN Pending(item) ELSE due
<1> DEFINE S == With(item, "pending")
           n == Len(item.batches)
           rank == [i \in S |-> i]
           due == StillDue(item, quantity)
           before == [i \in S |-> {j \in With(item, "pending") : j < i}]
           kept == [i \in S |-> Kept(item, quantity, i)]
<1>1. /\ S \in SUBSET DOMAIN item.batches /\ DOMAIN item.batches = 1 .. n /\ n \in Nat
      /\ Received(item) \in Nat /\ Pending(item) \in Nat /\ Pending(item) = Amount(item, S)
  <2>1. DOMAIN item.batches = 1 .. n /\ n \in Nat
    OBVIOUS
  <2>2. S \in SUBSET DOMAIN item.batches
    BY DEF With
  <2>3. QED
    BY <2>1, <2>2, AmountsAreSums DEF Pending
<1>2. due \in Nat
  BY <1>1, PositivePart DEF StillDue
<1>3. rank \in [S -> 0 .. n] /\ \A i, j \in S : rank[i] = rank[j] => i = j
  BY <1>1
<1>4. \A i \in S : /\ before[i] \in SUBSET S /\ \A j \in S : j \in before[i] <=> rank[j] < rank[i]
                   /\ kept[i] = Share(due, Amount(item, before[i]), item.batches[i].quantity)
  <2>1. TAKE i \in S
  <2>2. before[i] = {j \in With(item, "pending") : j < i} /\ before[i] \in SUBSET S
    OBVIOUS
  <2>3. \A j \in S : j \in before[i] <=> rank[j] < rank[i]
    BY <1>1
  <2> HIDE DEF before
  <2>4. kept[i] = Share(due, Amount(item, before[i]), item.batches[i].quantity)
    BY <2>2 DEF Kept
  <2>5. QED
    BY <2>2, <2>3, <2>4
<1>5. before \in [S -> SUBSET S]
  OBVIOUS
<1>6. kept = [i \in S |-> kept[i]]
  OBVIOUS
<1>7. \A i \in S : item.batches[i].quantity \in Nat /\ kept[i] \in 0 .. item.batches[i].quantity
  <2> HIDE DEF S, rank, due, kept, n, before
  <2>1. TAKE i \in S
  <2>2. i \in DOMAIN item.batches /\ before[i] \in SUBSET DOMAIN item.batches
    BY <1>1, <1>4
  <2>3. /\ item.batches[i].quantity \in Nat
        /\ Share(due, Amount(item, before[i]), item.batches[i].quantity)
             \in 0 .. item.batches[i].quantity
    BY <1>2, <2>2, SharesOfDeliveries
  <2>4. QED
    BY <1>4, <2>3
<1>8. IsFiniteSet(S) /\ kept \in [S -> Nat]
  <2> HIDE DEF S, rank, due, kept, n, before
  <2>1. IsFiniteSet(S)
    BY <1>1, DeliveredQuantities
  <2>2. \A i \in S : kept[i] \in Nat
    BY <1>7
  <2>3. QED
    BY <1>6, <2>1, <2>2
<1>9. Total(kept, S) = IF Amount(item, S) <= due THEN Amount(item, S) ELSE due
  <2> HIDE DEF S, rank, due, kept, n, before
  <2>1. InLine(S, n, rank, before)
    BY <1>3, <1>4, <1>5 DEF InLine
  <2>2. \A i \in S : kept[i] = Share(due, Amount(item, before[i]), item.batches[i].quantity)
    BY <1>4
  <2>3. QED
    BY <1>1, <1>2, <1>8, <2>1, <2>2, DeliveriesShare
<1>10. QED
  BY <1>1, <1>2, <1>7, <1>8, <1>9
-----------------------------------------------------------------------------
\* After a correction the deliveries make up the new quantity, as far as it can
\* be: what was received beyond it is given up, what is missing is due.
LEMMA ResizedDelivery ==
  ASSUME NEW b \in Batch, NEW quantity \in Nat, NEW removed \in Nat
  PROVE  /\ Resized(b, quantity, removed) \in Batch
         /\ Resized(b, quantity, removed).quantity = quantity
         /\ Resized(b, quantity, removed).status
              = IF quantity = 0 THEN "cancelled" ELSE b.status
<1> DEFINE r == Resized(b, quantity, removed)
<1>1. PICK taken : taken = IF Local(b) = 0 THEN b.taken ELSE b.taken + removed
  OBVIOUS
<1>2. PICK status : status = IF quantity = 0 THEN "cancelled" ELSE b.status
  OBVIOUS
<1>3. PICK yes \in BOOLEAN : yes = TRUE
  OBVIOUS
<1>4. r = [b EXCEPT !.quantity = quantity, !.status = status, !.taken = taken, !.audited = yes]
  BY <1>1, <1>2, <1>3 DEF Resized
<1>5. taken \in Nat
  BY <1>1 DEF Batch
<1>6. status \in {"pending", "approved", "cancelled", "deleted"}
  BY <1>2 DEF Batch
<1>7. QED
  BY <1>2, <1>4, <1>5, <1>6 DEF Batch

LEMMA DueDelivery ==
  ASSUME NEW quantity \in Nat, NEW audited \in BOOLEAN
  PROVE  /\ Due(quantity, audited) \in Batch
         /\ Holds(Due(quantity, audited), "approved") = 0
         /\ Holds(Due(quantity, audited), "pending") = quantity
BY DEF Due, Batch, Holds

LEMMA CutDeliveries ==
  ASSUME NEW item, item.batches \in Seq(Batch), NEW quantity \in Nat,
         NEW cut, cut = [i \in DOMAIN item.batches |->
                IF i \in With(item, "approved")
                THEN Resized(item.batches[i], item.batches[i].quantity - Removed(item, quantity, i),
                             Removed(item, quantity, i))
                ELSE IF i \in With(item, "pending")
                THEN Resized(item.batches[i], Kept(item, quantity, i), 0)
                ELSE item.batches[i]]
  PROVE  /\ cut \in Seq(Batch)
         /\ Sum(cut, "approved") = IF Received(item) <= quantity THEN Received(item) ELSE quantity
         /\ Sum(cut, "pending") = IF Pending(item) <= StillDue(item, quantity)
                                  THEN Pending(item) ELSE StillDue(item, quantity)
<1> DEFINE A == With(item, "approved")
           P == With(item, "pending")
           D == DOMAIN item.batches
           gone == [i \in A |-> Removed(item, quantity, i)]
           left == [i \in A |-> item.batches[i].quantity - Removed(item, quantity, i)]
           kept == [i \in P |-> Kept(item, quantity, i)]
<1>1. /\ \A i \in A : left[i] \in Nat /\ gone[i] \in Nat
      /\ Total(left, A) = IF Received(item) <= quantity THEN Received(item) ELSE quantity
  BY RemovedAddUp
<1>2. /\ \A i \in P : kept[i] \in Nat
      /\ Total(kept, P) = IF Pending(item) <= StillDue(item, quantity)
                          THEN Pending(item) ELSE StillDue(item, quantity)
  BY KeptAddUp
<1>3. /\ A \in SUBSET D /\ P \in SUBSET D /\ D = 1 .. Len(item.batches) /\ Len(item.batches) \in Nat
      /\ \A i \in D : /\ item.batches[i] \in Batch
                      /\ i \in A <=> item.batches[i].status = "approved"
                      /\ i \in P <=> item.batches[i].status = "pending"
  BY DEF With
<1>4. /\ DOMAIN cut = D /\ cut = [i \in D |-> cut[i]]
      /\ \A i \in A : cut[i] = Resized(item.batches[i], left[i], gone[i])
      /\ \A i \in P \ A : cut[i] = Resized(item.batches[i], kept[i], 0)
      /\ \A i \in D \ (A \cup P) : cut[i] = item.batches[i]
  BY <1>3
<1> HIDE DEF left, kept, gone
<1>5. \A i \in D : /\ cut[i] \in Batch
                   /\ Holds(cut[i], "approved") = IF i \in A THEN left[i] ELSE 0
                   /\ Holds(cut[i], "pending") = IF i \in P THEN kept[i] ELSE 0
  <2>1. TAKE i \in D
  <2>2. PICK b \in Batch : b = item.batches[i]
    BY <1>3
  <2>3. ASSUME NEW q \in Nat, NEW d \in Nat, cut[i] = Resized(b, q, d)
        PROVE  /\ cut[i] \in Batch /\ cut[i].quantity = q
               /\ cut[i].status = IF q = 0 THEN "cancelled" ELSE b.status
    <3>1. Resized(b, q, d) \in Batch
      BY ResizedDelivery
    <3>2. Resized(b, q, d).quantity = q
      BY ResizedDelivery
    <3>3. Resized(b, q, d).status = IF q = 0 THEN "cancelled" ELSE b.status
      BY ResizedDelivery
    <3>4. QED
      BY <2>3, <3>1, <3>2, <3>3
  <2>4. CASE i \in A
    <3>1. PICK q \in Nat, d \in Nat : q = left[i] /\ d = gone[i]
      BY <1>1, <2>4
    <3>2. b.status = "approved" /\ i \notin P
      BY <1>3, <2>2, <2>4
    <3>3. cut[i] = Resized(b, q, d)
      BY <1>4, <2>2, <2>4, <3>1
    <3>4. /\ cut[i] \in Batch /\ cut[i].quantity = q
          /\ cut[i].status = IF q = 0 THEN "cancelled" ELSE "approved"
      BY <2>3, <3>2, <3>3
    <3>5. QED
      BY <2>4, <3>1, <3>2, <3>4 DEF Holds
  <2>5. CASE i \in P
    <3>1. PICK q \in Nat : q = kept[i]
      BY <1>2, <2>5
    <3>2. b.status = "pending" /\ i \notin A
      BY <1>3, <2>2, <2>5
    <3>3. /\ cut[i] \in Batch /\ cut[i].quantity = q
          /\ cut[i].status = IF q = 0 THEN "cancelled" ELSE "pending"
      BY <1>4, <2>2, <2>3, <2>5, <3>1, <3>2
    <3>4. QED
      BY <2>5, <3>1, <3>2, <3>3 DEF Holds
  <2>6. CASE i \notin A /\ i \notin P
    BY <1>3, <1>4, <2>6 DEF Holds
  <2>7. QED
    BY <2>4, <2>5, <2>6
<1>6. cut \in Seq(Batch)
  <2>1. cut \in [D -> Batch]
    BY <1>4, <1>5
  <2>2. PICK n \in Nat : D = 1 .. n
    BY <1>3
  <2> HIDE DEF D
  <2>3. QED
    BY <2>1, <2>2
<1>7. Sum(cut, "approved") = Total(left, A)
  <2> DEFINE c == Column(cut, "approved")
  <2>1. (\A i \in A : c[i] = left[i]) /\ \A i \in D \ A : c[i] = 0
    BY <1>3, <1>4, <1>5 DEF Column
  <2>2. A \in SUBSET D
    BY <1>3
  <2> HIDE DEF c, D, A
  <2>3. Total(c, D) = Total(left, A)
    BY <2>1, <2>2, TotalOver, ZenonT(60)
  <2>4. QED
    BY <1>4, <2>3 DEF Sum, c
<1>8. Sum(cut, "pending") = Total(kept, P)
  <2> DEFINE c == Column(cut, "pending")
  <2>1. (\A i \in P : c[i] = kept[i]) /\ \A i \in D \ P : c[i] = 0
    BY <1>3, <1>4, <1>5 DEF Column
  <2>2. P \in SUBSET D
    BY <1>3
  <2> HIDE DEF c, D, P
  <2>3. Total(c, D) = Total(kept, P)
    BY <2>1, <2>2, TotalOver, ZenonT(60)
  <2>4. QED
    BY <1>4, <2>3 DEF Sum, c
<1>9. QED
  BY <1>1, <1>2, <1>6, <1>7, <1>8

LEMMA CorrectedDeliveries ==
  ASSUME NEW item, item.batches \in Seq(Batch), NEW quantity \in Nat
  PROVE  LET b == Corrected(item, quantity) IN
         /\ b \in Seq(Batch)
         /\ Sum(b, "approved") = IF Received(item) <= quantity THEN Received(item) ELSE quantity
         /\ Sum(b, "approved") + Sum(b, "pending") = quantity
<1>1. PICK cut : cut = [i \in DOMAIN item.batches |->
                IF i \in With(item, "approved")
                THEN Resized(item.batches[i], item.batches[i].quantity - Removed(item, quantity, i),
                             Removed(item, quantity, i))
                ELSE IF i \in With(item, "pending")
                THEN Resized(item.batches[i], Kept(item, quantity, i), 0)
                ELSE item.batches[i]]
  OBVIOUS
<1>2. /\ cut \in Seq(Batch)
      /\ Sum(cut, "approved") = IF Received(item) <= quantity THEN Received(item) ELSE quantity
      /\ Sum(cut, "pending") = IF Pending(item) <= StillDue(item, quantity)
                               THEN Pending(item) ELSE StillDue(item, quantity)
  BY <1>1, CutDeliveries
<1>3. PICK more : more = StillDue(item, quantity) - Pending(item)
  OBVIOUS
<1>4. PICK x : x = Due(more, TRUE)
  OBVIOUS
<1>5. Corrected(item, quantity) = IF more > 0 THEN Append(cut, x) ELSE cut
  BY <1>1, <1>3, <1>4 DEF Corrected
<1>6. /\ Received(item) \in Nat /\ Pending(item) \in Nat
      /\ StillDue(item, quantity) \in Nat
      /\ StillDue(item, quantity) = IF quantity > Received(item) THEN quantity - Received(item) ELSE 0
  <2>1. Received(item) \in Nat /\ Pending(item) \in Nat
    BY AmountsAreSums
  <2>2. PICK n \in Int : n = quantity - Received(item)
    BY <2>1
  <2>3. Positive(n) \in Nat /\ Positive(n) = IF n > 0 THEN n ELSE 0
    BY PositivePart
  <2>4. QED
    BY <2>1, <2>2, <2>3 DEF StillDue
<1>7. CASE more > 0
  <2>1. x \in Batch /\ Holds(x, "approved") = 0 /\ Holds(x, "pending") = more
    <3>1. PICK yes \in BOOLEAN : yes = TRUE
      OBVIOUS
    <3>2. more \in Nat /\ x = Due(more, yes)
      BY <1>3, <1>4, <1>6, <1>7, <3>1
    <3>3. QED
      BY <3>2, DueDelivery
  <2>2. /\ Sum(Append(cut, x), "approved") = Sum(cut, "approved") + 0
        /\ Sum(Append(cut, x), "pending") = Sum(cut, "pending") + more
    BY <1>2, <2>1, SumOfAppended
  <2>3. Append(cut, x) \in Seq(Batch)
    BY <1>2, <2>1
  <2>4. QED
    BY <1>2, <1>3, <1>5, <1>6, <1>7, <2>2, <2>3
<1>8. CASE ~(more > 0)
  BY <1>2, <1>3, <1>5, <1>6, <1>8
<1>9. QED
  BY <1>7, <1>8

-----------------------------------------------------------------------------
\* A purchase that counts what came, whose linked pieces were received and have a
\* price; each unless its past excuses it.
IsCounted(item) == item.state # "deleted" /\ ~item.restarted
IsPriced(item)  == Linked(item) > 0 /\ IsCounted(item) /\ ~item.reversed
IsSound(item) ==
  /\ item \in Item
  /\ IsCounted(item) => item.inbound = Sum(item.batches, "approved")
  /\ IsPriced(item) => Linked(item) <= Sum(item.batches, "approved") /\ item.valued

\* Of the same product and with the same links; as much of it, come or due, as is given.
Keeps(x, item)       == x.links = item.links /\ x.product = item.product
AddsUpTo(x, quantity) == x.actual = quantity /\ Received(x) + Pending(x) = quantity

\* What is used of a purchase's fields.
LEMMA ItemFields ==
  ASSUME NEW item \in Item
  PROVE  /\ item.product \in Purchased /\ item.actual \in Nat /\ item.inbound \in Nat
         /\ item.valued \in BOOLEAN /\ item.reversed \in BOOLEAN /\ item.restarted \in BOOLEAN
         /\ item.batches \in Seq(Batch) /\ item.links \in [Tasks -> Nat]
         /\ \A status : Sum(item.batches, status) \in Nat
         /\ Received(item) = Sum(item.batches, "approved")
         /\ Pending(item) = Sum(item.batches, "pending")
         /\ Linked(item) \in Nat /\ IsFiniteSet(Tasks) /\ Tasks \in SUBSET Nat
<1>1. /\ item.product \in Purchased /\ item.actual \in Nat /\ item.inbound \in Nat
      /\ item.valued \in BOOLEAN /\ item.reversed \in BOOLEAN /\ item.restarted \in BOOLEAN
      /\ item.batches \in Seq(Batch) /\ item.links \in [Tasks -> Nat]
  BY DEF Item
<1>2. /\ \A status : Sum(item.batches, status) \in Nat
      /\ Received(item) = Sum(item.batches, "approved")
      /\ Pending(item) = Sum(item.batches, "pending")
  BY <1>1, AmountsAreSums
<1>3. IsFiniteSet(Tasks) /\ Tasks \in SUBSET Nat
  <2>1. TaskBound \in Nat
    BY ProcurementAssumption
  <2>2. QED
    BY <2>1, FS_Interval DEF Tasks
<1>4. Linked(item) \in Nat
  BY <1>1, <1>3, TotalIsNat DEF Linked
<1>5. QED
  BY <1>1, <1>2, <1>3, <1>4

\* What comes in of a delivery that was due adds to what was received.
LEMMA ReceivedDeliveries ==
  ASSUME NEW b \in Seq(Batch), NEW i \in DOMAIN b, b[i].status = "pending",
         NEW quantity \in Nat, NEW total \in Nat, NEW audited \in BOOLEAN
  PROVE  /\ ReceivedInto(b, i, quantity, total, audited) \in Seq(Batch)
         /\ Sum(ReceivedInto(b, i, quantity, total, audited), "approved")
              = Sum(b, "approved") + quantity
<1>1. PICK old : old = b[i] /\ old \in Batch /\ old.status = "pending" /\ old.audited \in BOOLEAN
  <2>1. b[i] \in Batch
    OBVIOUS
  <2>2. b[i].audited \in BOOLEAN
    BY <2>1 DEF Batch
  <2>3. QED
    BY <2>1, <2>2
<1>2. PICK x : x = [old EXCEPT !.status = "approved", !.quantity = quantity,
                               !.posted = @ + quantity, !.audited = audited]
  OBVIOUS
<1>3. PICK y : y = Due(total - quantity, old.audited)
  OBVIOUS
<1>4. PICK came : came = [b EXCEPT ![i] = x]
  OBVIOUS
<1>5. PICK e : e = ReceivedInto(b, i, quantity, total, audited)
  OBVIOUS
<1>6. e = (IF quantity <= old.quantity /\ quantity < total THEN Append(came, y) ELSE came)
  BY <1>1, <1>2, <1>3, <1>4, <1>5 DEF ReceivedInto
<1>7. x \in Batch /\ Holds(x, "approved") = quantity /\ Holds(old, "approved") = 0
  <2>1. PICK posted \in Nat : posted = old.posted + quantity
    BY <1>1 DEF Batch
  <2>2. x = [old EXCEPT !.status = "approved", !.quantity = quantity, !.posted = posted,
                        !.audited = audited]
    BY <1>2, <2>1
  <2>3. QED
    BY <1>1, <2>2 DEF Batch, Holds
<1>8. came \in Seq(Batch) /\ Sum(b, "approved") \in Nat
  BY <1>4, <1>7, SumsAreNatural
<1>9. Sum(came, "approved") = Sum(b, "approved") + quantity
  <2>1. Sum(came, "approved") = Sum(b, "approved") - Holds(b[i], "approved") + Holds(x, "approved")
    BY <1>4, <1>7, SumOfChanged
  <2>2. QED
    BY <1>1, <1>7, <1>8, <2>1
<1>10. CASE quantity < total
  <2>1. y \in Batch /\ Holds(y, "approved") = 0
    <3>1. PICK rest \in Nat : rest = total - quantity
      BY <1>10
    <3>2. QED
      BY <1>1, <1>3, <3>1, DueDelivery
  <2>2. Sum(Append(came, y), "approved") = Sum(came, "approved") + 0 /\ Append(came, y) \in Seq(Batch)
    BY <1>8, <2>1, SumOfAppended
  <2>3. QED
    BY <1>5, <1>6, <1>8, <1>9, <2>2
<1>11. CASE ~(quantity < total)
  BY <1>5, <1>6, <1>8, <1>9, <1>11
<1>12. QED
  BY <1>10, <1>11

LEMMA ReceivedIsSound ==
  ASSUME NEW item, IsSound(item), NEW i \in With(item, "pending"), NEW quantity \in Nat,
         NEW total \in Nat, NEW audited \in BOOLEAN,
         NEW x, x = CameIn(item, i, quantity, total, audited)
  PROVE  IsSound(x) /\ Keeps(x, item)
<1>1. item \in Item /\ item.batches \in Seq(Batch) /\ item.inbound \in Nat
  BY ItemFields DEF IsSound
<1>2. i \in DOMAIN item.batches /\ item.batches[i].status = "pending"
  BY DEF With
<1>3. PICK b : b = ReceivedInto(item.batches, i, quantity, total, audited)
  OBVIOUS
<1>4. b \in Seq(Batch) /\ Sum(b, "approved") = Sum(item.batches, "approved") + quantity
  BY <1>1, <1>2, <1>3, ReceivedDeliveries
<1>5. PICK came \in Nat : came = item.inbound + quantity
  BY <1>1
<1>6. x = [item EXCEPT !.inbound = came, !.batches = b]
  BY <1>3, <1>5 DEF CameIn
<1>7. /\ x \in Item /\ x.inbound = came /\ x.batches = b /\ x.links = item.links
      /\ x.product = item.product /\ x.state = item.state /\ x.valued = item.valued
      /\ x.reversed = item.reversed /\ x.restarted = item.restarted
  BY <1>1, <1>4, <1>6 DEF Item
<1>8. Linked(x) = Linked(item) /\ Linked(item) \in Nat /\ Sum(item.batches, "approved") \in Nat
  BY <1>1, <1>7, ItemFields DEF Linked
<1>9. IsCounted(x) = IsCounted(item) /\ IsPriced(x) = IsPriced(item)
  BY <1>7, <1>8 DEF IsCounted, IsPriced
<1>10. QED
  BY <1>4, <1>5, <1>7, <1>8, <1>9 DEF IsSound, Keeps

LEMMA RevisedIsSound ==
  ASSUME NEW item, IsSound(item), NEW quantity \in Nat, NEW valued \in BOOLEAN,
         Linked(item) = 0 \/ (quantity >= Linked(item) /\ valued),
         NEW x, x = [item EXCEPT !.actual = quantity, !.inbound = StillReceived(item, quantity),
                                 !.valued = valued, !.batches = Corrected(item, quantity)]
  PROVE  IsSound(x) /\ Keeps(x, item) /\ AddsUpTo(x, quantity)
<1>1. /\ item \in Item /\ item.batches \in Seq(Batch) /\ Received(item) \in Nat
      /\ Received(item) = Sum(item.batches, "approved")
  BY ItemFields DEF IsSound
<1>2. PICK b : b = Corrected(item, quantity)
  OBVIOUS
<1>3. /\ b \in Seq(Batch)
      /\ Sum(b, "approved") = IF Received(item) <= quantity THEN Received(item) ELSE quantity
      /\ Sum(b, "approved") + Sum(b, "pending") = quantity
  BY <1>1, <1>2, CorrectedDeliveries
<1>4. PICK inbound : inbound = StillReceived(item, quantity)
  OBVIOUS
<1>5. inbound \in Nat /\ inbound = IF Received(item) <= quantity THEN Received(item) ELSE quantity
  <2>1. PICK r \in Nat : r = Received(item)
    BY <1>1
  <2>2. Min({quantity, r}) = IF quantity <= r THEN quantity ELSE r
    BY SmallerOfTwo
  <2>3. QED
    BY <1>4, <2>1, <2>2 DEF StillReceived
<1>6. x = [item EXCEPT !.actual = quantity, !.inbound = inbound, !.valued = valued, !.batches = b]
  BY <1>2, <1>4
<1>7. /\ x \in Item /\ x.actual = quantity /\ x.inbound = inbound /\ x.valued = valued
      /\ x.batches = b /\ x.links = item.links /\ x.product = item.product
      /\ x.state = item.state /\ x.reversed = item.reversed /\ x.restarted = item.restarted
  BY <1>1, <1>3, <1>5, <1>6 DEF Item
<1>8. Linked(x) = Linked(item) /\ Linked(item) \in Nat
  BY <1>1, <1>7, ItemFields DEF Linked
<1>9. IsPriced(x) = IsPriced(item)
  BY <1>7, <1>8 DEF IsCounted, IsPriced
<1>10. IsSound(x)
  BY <1>1, <1>3, <1>5, <1>7, <1>8, <1>9 DEF IsSound, IsPriced
<1>11. Received(x) + Pending(x) = quantity
  BY <1>3, <1>7, ItemFields
<1>12. QED
  BY <1>7, <1>10, <1>11 DEF Keeps, AddsUpTo

\* Pieces linked to a task add to those of the purchase.
LEMMA LinkedPieces ==
  ASSUME NEW f \in [Tasks -> Nat], NEW t \in Tasks, NEW quantity \in Nat
  PROVE  /\ [f EXCEPT ![t] = @ + quantity] \in [Tasks -> Nat]
         /\ Total([f EXCEPT ![t] = @ + quantity], Tasks) = Total(f, Tasks) + quantity
<1>1. IsFiniteSet(Tasks)
  <2>1. TaskBound \in Nat
    BY ProcurementAssumption
  <2>2. QED
    BY <2>1, FS_Interval DEF Tasks
<1>2. PICK g : g = [f EXCEPT ![t] = @ + quantity]
  OBVIOUS
<1>3. g \in [Tasks -> Nat] /\ g[t] = f[t] + quantity /\ \A s \in Tasks \ {t} : g[s] = f[s]
  BY <1>2
<1>4. Total(f, Tasks) \in Nat /\ Total(g, Tasks) = Total(f, Tasks) - f[t] + g[t]
  BY <1>1, <1>3, TotalUpdate
<1>5. f[t] \in Nat
  OBVIOUS
<1>6. QED
  BY <1>2, <1>3, <1>4, <1>5

LEMMA LinkedIsSound ==
  ASSUME NEW item, IsSound(item), item.valued, NEW t \in Tasks, NEW quantity \in Nat,
         quantity <= Received(item) - Linked(item),
         NEW x, x = [item EXCEPT !.links = [item.links EXCEPT ![t] = @ + quantity]]
  PROVE  /\ IsSound(x) /\ x.links = [item.links EXCEPT ![t] = @ + quantity]
         /\ x.product = item.product
<1>1. /\ item \in Item /\ item.links \in [Tasks -> Nat] /\ Linked(item) \in Nat
      /\ Received(item) = Sum(item.batches, "approved") /\ Received(item) \in Nat
  BY ItemFields DEF IsSound
<1>2. PICK links \in [Tasks -> Nat] :
        /\ links = [item.links EXCEPT ![t] = @ + quantity]
        /\ Total(links, Tasks) = Total(item.links, Tasks) + quantity
  <2>1. PICK f \in [Tasks -> Nat] : f = item.links
    BY <1>1
  <2>2. /\ [f EXCEPT ![t] = @ + quantity] \in [Tasks -> Nat]
        /\ Total([f EXCEPT ![t] = @ + quantity], Tasks) = Total(f, Tasks) + quantity
    BY LinkedPieces
  <2>3. QED
    BY <2>1, <2>2
<1>3. x = [item EXCEPT !.links = links]
  BY <1>2
<1>4. /\ x \in Item /\ x.links = links /\ x.batches = item.batches /\ x.inbound = item.inbound
      /\ x.product = item.product /\ x.valued = item.valued /\ x.state = item.state
      /\ x.reversed = item.reversed /\ x.restarted = item.restarted
  BY <1>1, <1>3 DEF Item
<1>5. Linked(x) = Linked(item) + quantity
  BY <1>2, <1>4 DEF Linked
<1>6. IsCounted(x) = IsCounted(item)
  BY <1>4 DEF IsCounted
<1>7. QED
  BY <1>1, <1>2, <1>4, <1>5, <1>6 DEF IsSound

\* A purchase as it is recorded.
LEMMA PurchaseIsSound ==
  ASSUME NEW body \in Body, body.type = "record",
         body.task # 0 => body.effect = "already_accounted"
  PROVE  /\ IsSound(Purchase(body)) /\ body.task \in {0} \cup Tasks /\ body.quantity \in Nat
         /\ Purchase(body).links = [t \in Tasks |-> IF t = body.task THEN body.quantity ELSE 0]
<1>1. /\ body.product \in Purchased /\ body.quantity \in Nat /\ body.task \in {0} \cup Tasks
      /\ body.effect \in {"in_transit", "missing_inbound", "already_accounted"}
  BY DEF Body, Quantities
<1>2. PICK x : x = [Due(body.quantity, TRUE) EXCEPT
                      !.status = IF body.effect = "in_transit" THEN "pending" ELSE "approved",
                      !.posted = IF body.effect = "missing_inbound" THEN body.quantity ELSE 0]
  OBVIOUS
<1>3. PICK links : links = [t \in Tasks |-> IF t = body.task THEN body.quantity ELSE 0]
  OBVIOUS
<1>4. PICK inbound : inbound = IF body.effect = "in_transit" THEN 0 ELSE body.quantity
  OBVIOUS
<1>5. PICK item : /\ item = Purchase(body)
                  /\ item = [product |-> body.product, actual |-> body.quantity,
                             inbound |-> inbound, valued |-> TRUE, state |-> "open",
                             reversed |-> FALSE, restarted |-> FALSE,
                             batches |-> <<x>>, links |-> links]
  BY <1>2, <1>3, <1>4 DEF Purchase
<1>6. links \in [Tasks -> Nat]
  BY <1>1, <1>3
<1>7. x \in Batch /\ Holds(x, "approved") = inbound /\ inbound \in Nat
  <2>1. PICK status \in {"pending", "approved"} :
          status = IF body.effect = "in_transit" THEN "pending" ELSE "approved"
    OBVIOUS
  <2>2. PICK posted \in Nat : posted = IF body.effect = "missing_inbound" THEN body.quantity ELSE 0
    BY <1>1
  <2>3. PICK yes \in BOOLEAN : yes = TRUE
    OBVIOUS
  <2>4. x = [status |-> status, quantity |-> body.quantity, posted |-> posted, taken |-> 0,
             audited |-> yes]
    BY <1>2, <2>1, <2>2, <2>3 DEF Due
  <2>5. QED
    BY <1>1, <1>4, <2>1, <2>4 DEF Batch, Holds
<1>8. item \in Item
  <2>1. PICK yes \in BOOLEAN, no \in BOOLEAN : yes = TRUE /\ no = FALSE
    OBVIOUS
  <2>2. PICK b : b = <<x>>
    OBVIOUS
  <2>5. b \in Seq(Batch)
    <3>1. x \in Batch
      BY <1>7
    <3>2. QED
      BY <2>2, <3>1
  <2>3. item = [product |-> body.product, actual |-> body.quantity, inbound |-> inbound,
                valued |-> yes, state |-> "open", reversed |-> no, restarted |-> no,
                batches |-> b, links |-> links]
    BY <1>5, <2>1, <2>2
  <2>4. QED
    BY <1>1, <1>6, <1>7, <2>3, <2>5 DEF Item
<1>9. Sum(item.batches, "approved") = inbound
  <2>1. << >> \in Seq(Batch) /\ <<x>> = Append(<< >>, x)
    OBVIOUS
  <2>2. Sum(<< >>, "approved") = 0
    BY TotalOfNone DEF Sum
  <2>3. Sum(<<x>>, "approved") = Sum(<< >>, "approved") + Holds(x, "approved")
    BY <1>7, <2>1, SumOfAppended
  <2>4. QED
    BY <1>5, <1>7, <2>2, <2>3
<1>10. Linked(item) = Total(links, Tasks)
  BY <1>5 DEF Linked
<1>11. CASE body.task = 0
  <2>1. \A t \in Tasks : links[t] = 0
    BY <1>3, <1>11 DEF Tasks
  <2>2. Linked(item) = 0
    BY <1>6, <1>10, <2>1, TotalZero
  <2>3. QED
    BY <1>1, <1>3, <1>5, <1>8, <1>9, <2>2 DEF IsSound, IsPriced
<1>12. CASE body.task # 0
  <2>1. PICK zero \in [Tasks -> Nat] : zero = [t \in Tasks |-> 0]
    OBVIOUS
  <2>2. body.task \in Tasks /\ body.effect = "already_accounted"
    BY <1>1, <1>12
  <2>3. links = [zero EXCEPT ![body.task] = @ + body.quantity]
    BY <1>1, <1>3, <2>1, <2>2
  <2>4. Total(zero, Tasks) = 0
    BY <2>1, TotalZero
  <2>5. Linked(item) = body.quantity
    <3>1. PICK t \in Tasks, q \in Nat : t = body.task /\ q = body.quantity
      BY <1>1, <2>2
    <3>2. Total([zero EXCEPT ![t] = @ + q], Tasks) = Total(zero, Tasks) + q
      BY LinkedPieces
    <3>3. QED
      BY <1>10, <2>3, <2>4, <3>1, <3>2
  <2>6. QED
    BY <1>1, <1>3, <1>4, <1>5, <1>8, <1>9, <2>2, <2>5 DEF IsSound
<1>13. QED
  BY <1>11, <1>12
-----------------------------------------------------------------------------
\* The pieces of all purchases that explain a task.
Links(items, t) == Total([n \in DOMAIN items |-> items[n].links[t]], DOMAIN items)

LEMMA LinkColumn ==
  ASSUME NEW items \in Seq(Item), NEW t \in Tasks
  PROVE  /\ [n \in DOMAIN items |-> items[n].links[t]] \in [DOMAIN items -> Nat]
         /\ DOMAIN items = 1 .. Len(items) /\ Len(items) \in Nat
         /\ IsFiniteSet(DOMAIN items) /\ Links(items, t) \in Nat
<1>1. \A n \in DOMAIN items : items[n] \in Item
  OBVIOUS
<1>2. \A n \in DOMAIN items : items[n].links[t] \in Nat
  BY <1>1, ItemFields
<1>3. DOMAIN items = 1 .. Len(items) /\ Len(items) \in Nat
  OBVIOUS
<1>4. IsFiniteSet(DOMAIN items)
  BY <1>3, FS_Interval
<1>5. PICK f : f = [n \in DOMAIN items |-> items[n].links[t]]
  OBVIOUS
<1>6. f \in [DOMAIN items -> Nat]
  BY <1>2, <1>5
<1>7. Total(f, DOMAIN items) \in Nat
  BY <1>4, <1>6, TotalIsNat
<1>8. QED
  BY <1>3, <1>4, <1>5, <1>6, <1>7 DEF Links

LEMMA LinksOfAppended ==
  ASSUME NEW items \in Seq(Item), NEW x \in Item, NEW t \in Tasks
  PROVE  /\ Links(Append(items, x), t) = Links(items, t) + x.links[t]
         /\ Links(items, t) \in Nat /\ x.links[t] \in Nat
<1>1. PICK f : f = [n \in DOMAIN items |-> items[n].links[t]]
  OBVIOUS
<1>2. PICK N : N = DOMAIN items
  OBVIOUS
<1>3. PICK last \in Nat : last = Len(items) + 1 /\ last \notin N /\ N = 1 .. Len(items)
  BY <1>2
<1>4. PICK j \in Seq(Item) : j = Append(items, x)
  <2>1. Append(items, x) \in Seq(Item)
    OBVIOUS
  <2>2. QED
    BY <2>1
<1>5. DOMAIN j = N \cup {last} /\ j[last] = x /\ \A n \in N : j[n] = items[n]
  BY <1>2, <1>3, <1>4
<1>6. PICK g : g = [n \in DOMAIN j |-> j[n].links[t]]
  OBVIOUS
<1>7. g \in [N \cup {last} -> Nat] /\ IsFiniteSet(N) /\ Links(items, t) \in Nat
  BY <1>2, <1>5, <1>6, LinkColumn
<1>8. g[last] = x.links[t] /\ \A n \in N : g[n] = f[n]
  BY <1>1, <1>2, <1>5, <1>6
<1>9. Total(g, N) = Total(f, N)
  BY <1>8, TotalOver
<1>10. Total(g, N \cup {last}) = Total(g, N) + g[last]
  <2>1. N \in SUBSET (N \cup {last}) /\ last \in (N \cup {last}) \ N
    BY <1>3
  <2>2. QED
    BY <1>7, <2>1, TotalAdds
<1>11. x.links[t] \in Nat
  BY <1>3, <1>7, <1>8
<1>12. QED
  BY <1>1, <1>2, <1>4, <1>5, <1>6, <1>7, <1>8, <1>9, <1>10, <1>11 DEF Links

LEMMA LinksOfReplaced ==
  ASSUME NEW items \in Seq(Item), NEW n \in DOMAIN items, NEW x \in Item, NEW t \in Tasks
  PROVE  /\ Links([items EXCEPT ![n] = x], t) = Links(items, t) - items[n].links[t] + x.links[t]
         /\ Links(items, t) \in Nat /\ x.links[t] \in Nat /\ items[n].links[t] \in Nat
<1>1. PICK f : f = [m \in DOMAIN items |-> items[m].links[t]]
  OBVIOUS
<1>2. PICK j \in Seq(Item) : j = [items EXCEPT ![n] = x]
  <2>1. [items EXCEPT ![n] = x] \in Seq(Item)
    OBVIOUS
  <2>2. QED
    BY <2>1
<1>3. PICK N : N = DOMAIN items
  OBVIOUS
<1>4. DOMAIN j = N /\ n \in N /\ j[n] = x /\ \A m \in N \ {n} : j[m] = items[m]
  BY <1>2, <1>3
<1>5. PICK g : g = [m \in DOMAIN j |-> j[m].links[t]]
  OBVIOUS
<1>6. f \in [N -> Nat] /\ g \in [N -> Nat] /\ IsFiniteSet(N) /\ Links(items, t) \in Nat
  BY <1>1, <1>3, <1>4, <1>5, LinkColumn
<1>7. f[n] = items[n].links[t] /\ g[n] = x.links[t] /\ \A m \in N \ {n} : g[m] = f[m]
  BY <1>1, <1>3, <1>4, <1>5
<1>8. Total(g, N) = Total(f, N) - f[n] + g[n]
  <2>1. \A m \in N \ {n} : g[m] = f[m]
    BY <1>7
  <2>2. f \in [N -> Nat] /\ g \in [N -> Nat] /\ IsFiniteSet(N) /\ n \in N
    BY <1>4, <1>6
  <2>3. QED
    BY <2>1, <2>2, TotalUpdate, ZenonT(60)
<1>9. f[n] \in Nat /\ g[n] \in Nat
  BY <1>4, <1>6
<1>10. QED
  BY <1>1, <1>2, <1>3, <1>4, <1>5, <1>6, <1>7, <1>8, <1>9 DEF Links

\* Purchases that add up, tasks explained by their pieces and by no more than are
\* needed, and nothing linked to a task that does not exist yet.
IsCovered(items, tasks) ==
  /\ items \in Seq(Item) /\ \A n \in DOMAIN items : IsSound(items[n])
  /\ tasks \in Seq(Task) /\ Len(tasks) <= TaskBound
  /\ \A t \in DOMAIN tasks :
       tasks[t].resolved = Links(items, t) /\ tasks[t].resolved <= tasks[t].quantity
  /\ \A n \in DOMAIN items, t \in Tasks : t \notin DOMAIN tasks => items[n].links[t] = 0

\* Pieces that are linked to a task are added to what it has resolved.
Resolved(tasks, t, quantity) ==
  IF t = 0 THEN tasks ELSE [tasks EXCEPT ![t].resolved = @ + quantity]

LEMMA TasksStayCovered ==
  ASSUME NEW items, NEW tasks, IsCovered(items, tasks),
         NEW j \in Seq(Item), \A n \in DOMAIN j : IsSound(j[n]),
         NEW t \in {0} \cup DOMAIN tasks, NEW quantity \in Nat,
         t # 0 => quantity <= Unresolved(tasks[t]),
         \A s \in Tasks : Links(j, s) = Links(items, s) + IF s = t THEN quantity ELSE 0,
         \A n \in DOMAIN j, s \in Tasks : s \notin DOMAIN tasks => j[n].links[s] = 0
  PROVE  IsCovered(j, Resolved(tasks, t, quantity))
<1>1. /\ tasks \in Seq(Task) /\ Len(tasks) <= TaskBound /\ items \in Seq(Item)
      /\ \A s \in DOMAIN tasks :
           tasks[s].resolved = Links(items, s) /\ tasks[s].resolved <= tasks[s].quantity
  BY DEF IsCovered
<1>2. /\ DOMAIN tasks = 1 .. Len(tasks) /\ Len(tasks) \in Nat /\ DOMAIN tasks \in SUBSET Tasks
      /\ 0 \notin DOMAIN tasks
  <2>1. TaskBound \in Nat
    BY ProcurementAssumption
  <2>2. QED
    BY <1>1, <2>1 DEF Tasks
<1>3. \A s \in DOMAIN tasks : /\ tasks[s] \in Task /\ tasks[s].quantity \in Nat
                              /\ tasks[s].resolved \in Nat /\ tasks[s].product \in Products
  <2>1. \A s \in DOMAIN tasks : tasks[s] \in Task
    BY <1>1
  <2>2. QED
    BY <2>1 DEF Task
<1>4. CASE t = 0
  <2>1. \A s \in DOMAIN tasks : Links(j, s) = Links(items, s)
    <3>1. TAKE s \in DOMAIN tasks
    <3>2. Links(j, s) = Links(items, s) + 0 /\ Links(items, s) \in Nat
      BY <1>1, <1>2, <1>3, <1>4
    <3>3. QED
      BY <3>2
  <2>2. QED
    BY <1>1, <1>4, <2>1 DEF IsCovered, Resolved
<1>5. CASE t # 0
  <2>1. t \in DOMAIN tasks /\ quantity <= tasks[t].quantity - tasks[t].resolved
    BY <1>5 DEF Unresolved
  <2>2. PICK task : task = [tasks[t] EXCEPT !.resolved = @ + quantity]
    OBVIOUS
  <2>3. /\ task \in Task /\ task.quantity = tasks[t].quantity
        /\ task.resolved = tasks[t].resolved + quantity
    BY <1>3, <2>1, <2>2 DEF Task
  <2>4. PICK k : k = [tasks EXCEPT ![t] = task]
    OBVIOUS
  <2>5. Resolved(tasks, t, quantity) = k
    BY <1>5, <2>2, <2>4 DEF Resolved
  <2>6. /\ k \in Seq(Task) /\ Len(k) = Len(tasks) /\ DOMAIN k = DOMAIN tasks /\ k[t] = task
        /\ \A s \in DOMAIN tasks \ {t} : k[s] = tasks[s]
    BY <1>1, <2>1, <2>3, <2>4
  <2>7. ASSUME NEW s \in DOMAIN k
        PROVE  k[s].resolved = Links(j, s) /\ k[s].resolved <= k[s].quantity
    <3>1. s \in Tasks /\ s \in DOMAIN tasks /\ Links(items, s) = tasks[s].resolved
      BY <1>1, <1>2, <2>6
    <3>2. Links(j, s) = Links(items, s) + IF s = t THEN quantity ELSE 0
      BY <3>1
    <3>3. tasks[s].resolved \in Nat /\ tasks[s].quantity \in Nat
          /\ tasks[s].resolved <= tasks[s].quantity
      BY <1>1, <1>3, <3>1
    <3>4. CASE s = t
      BY <2>1, <2>3, <2>6, <3>1, <3>2, <3>3, <3>4
    <3>5. CASE s # t
      BY <2>6, <3>1, <3>2, <3>3, <3>5
    <3>6. QED
      BY <3>4, <3>5
  <2>8. QED
    BY <1>1, <2>5, <2>6, <2>7 DEF IsCovered
<1>6. QED
  BY <1>4, <1>5

LEMMA ReplacedStaysCovered ==
  ASSUME NEW items, NEW tasks, IsCovered(items, tasks), NEW n \in DOMAIN items,
         NEW x, IsSound(x), NEW t \in {0} \cup DOMAIN tasks, NEW quantity \in Nat,
         t # 0 => quantity <= Unresolved(tasks[t]),
         \A s \in Tasks : x.links[s] = items[n].links[s] + IF s = t THEN quantity ELSE 0
  PROVE  IsCovered([items EXCEPT ![n] = x], Resolved(tasks, t, quantity))
<1>1. /\ items \in Seq(Item) /\ x \in Item /\ \A m \in DOMAIN items : IsSound(items[m])
      /\ \A m \in DOMAIN items, s \in Tasks : s \notin DOMAIN tasks => items[m].links[s] = 0
  BY DEF IsCovered, IsSound
<1>2. PICK j : j = [items EXCEPT ![n] = x]
  OBVIOUS
<1>3. /\ j \in Seq(Item) /\ DOMAIN j = DOMAIN items /\ j[n] = x
      /\ \A m \in DOMAIN items \ {n} : j[m] = items[m]
  BY <1>1, <1>2
<1>4. \A m \in DOMAIN j : IsSound(j[m])
  BY <1>1, <1>3
<1>5. \A s \in Tasks : Links(j, s) = Links(items, s) + IF s = t THEN quantity ELSE 0
  <2>1. TAKE s \in Tasks
  <2>2. /\ Links(j, s) = Links(items, s) - items[n].links[s] + x.links[s]
        /\ Links(items, s) \in Nat /\ x.links[s] \in Nat /\ items[n].links[s] \in Nat
    BY <1>1, <1>2, LinksOfReplaced
  <2>3. x.links[s] = items[n].links[s] + IF s = t THEN quantity ELSE 0
    OBVIOUS
  <2>4. QED
    BY <2>2, <2>3
<1>6. \A m \in DOMAIN j, s \in Tasks : s \notin DOMAIN tasks => j[m].links[s] = 0
  <2>1. \A s \in Tasks : s \notin DOMAIN tasks => x.links[s] = 0
    <3>1. 0 \notin Tasks
      BY DEF Tasks
    <3>2. QED
      BY <1>1, <3>1
  <2>2. QED
    BY <1>1, <1>3, <2>1
<1>7. QED
  BY <1>2, <1>3, <1>4, <1>5, <1>6, TasksStayCovered

LEMMA AppendedStaysCovered ==
  ASSUME NEW items, NEW tasks, IsCovered(items, tasks), NEW x, IsSound(x),
         NEW t \in {0} \cup DOMAIN tasks, NEW quantity \in Nat,
         t # 0 => quantity <= Unresolved(tasks[t]),
         \A s \in Tasks : x.links[s] = IF s = t THEN quantity ELSE 0
  PROVE  IsCovered(Append(items, x), Resolved(tasks, t, quantity))
<1>1. /\ items \in Seq(Item) /\ x \in Item /\ \A m \in DOMAIN items : IsSound(items[m])
      /\ \A m \in DOMAIN items, s \in Tasks : s \notin DOMAIN tasks => items[m].links[s] = 0
  BY DEF IsCovered, IsSound
<1>2. PICK j : j = Append(items, x)
  OBVIOUS
<1>3. /\ j \in Seq(Item) /\ \A m \in DOMAIN j : j[m] = x \/ (m \in DOMAIN items /\ j[m] = items[m])
  BY <1>1, <1>2
<1>4. \A m \in DOMAIN j : IsSound(j[m])
  BY <1>1, <1>3
<1>5. \A s \in Tasks : Links(j, s) = Links(items, s) + IF s = t THEN quantity ELSE 0
  <2>1. TAKE s \in Tasks
  <2>2. Links(j, s) = Links(items, s) + x.links[s]
    BY <1>1, <1>2, LinksOfAppended
  <2>3. QED
    BY <2>2
<1>6. \A m \in DOMAIN j, s \in Tasks : s \notin DOMAIN tasks => j[m].links[s] = 0
  <2>1. \A s \in Tasks : s \notin DOMAIN tasks => x.links[s] = 0
    <3>1. 0 \notin Tasks
      BY DEF Tasks
    <3>2. QED
      BY <3>1
  <2>2. QED
    BY <1>1, <1>3, <2>1
<1>7. QED
  BY <1>2, <1>3, <1>4, <1>5, <1>6, TasksStayCovered

\* A count opens a task that nothing explains yet.
LEMMA OpenedStaysCovered ==
  ASSUME NEW items, NEW tasks, IsCovered(items, tasks), NEW task \in Task, task.resolved = 0,
         Len(tasks) + 1 <= TaskBound
  PROVE  IsCovered(items, Append(tasks, task))
<1>1. /\ tasks \in Seq(Task) /\ items \in Seq(Item)
      /\ \A s \in DOMAIN tasks :
           tasks[s].resolved = Links(items, s) /\ tasks[s].resolved <= tasks[s].quantity
      /\ \A n \in DOMAIN items, t \in Tasks : t \notin DOMAIN tasks => items[n].links[t] = 0
  BY DEF IsCovered
<1>2. PICK k : k = Append(tasks, task)
  OBVIOUS
<1>3. PICK last \in Nat : last = Len(tasks) + 1
  BY <1>1
<1>4. /\ k \in Seq(Task) /\ Len(k) = last /\ DOMAIN k = DOMAIN tasks \cup {last}
      /\ k[last] = task /\ last \notin DOMAIN tasks /\ \A s \in DOMAIN tasks : k[s] = tasks[s]
  BY <1>1, <1>2, <1>3
<1>5. last \in Tasks
  <2>1. TaskBound \in Nat /\ Len(tasks) \in Nat
    BY <1>1, ProcurementAssumption
  <2>2. QED
    BY <1>3, <2>1 DEF Tasks
<1>6. Links(items, last) = 0
  <2>1. PICK f : f = [n \in DOMAIN items |-> items[n].links[last]]
    OBVIOUS
  <2>2. f \in [DOMAIN items -> Nat]
    BY <1>1, <1>5, <2>1, LinkColumn
  <2>3. \A n \in DOMAIN items : f[n] = 0
    BY <1>1, <1>4, <1>5, <2>1
  <2>4. Total(f, DOMAIN items) = 0
    BY <2>2, <2>3, TotalZero
  <2>5. QED
    BY <2>1, <2>4 DEF Links
<1>7. task.quantity \in Nat
  BY DEF Task
<1>8. \A s \in DOMAIN k : k[s].resolved = Links(items, s) /\ k[s].resolved <= k[s].quantity
  BY <1>1, <1>4, <1>6, <1>7
<1>9. QED
  BY <1>1, <1>2, <1>3, <1>4, <1>8 DEF IsCovered
-----------------------------------------------------------------------------
\* The rows are of their kind, and purchases and tasks are covered.
RowsInv(r) == r \in Rows /\ IsCovered(r.items, r.tasks)

LEMMA RowsFields ==
  ASSUME NEW r, RowsInv(r)
  PROVE  /\ r.stock \in [Products -> Int] /\ r.demand \in [Products -> Nat]
         /\ r.counted \in [Products -> BOOLEAN] /\ r.revision \in [Products -> Nat]
         /\ r.items \in Seq(Item) /\ r.tasks \in Seq(Task)
         /\ \A n \in DOMAIN r.items : r.items[n] \in Item /\ IsSound(r.items[n])
         /\ \A t \in DOMAIN r.tasks : r.tasks[t] \in Task /\ t \in Tasks /\ t # 0
<1>1. /\ r.stock \in [Products -> Int] /\ r.demand \in [Products -> Nat]
      /\ r.counted \in [Products -> BOOLEAN] /\ r.revision \in [Products -> Nat]
      /\ r.items \in Seq(Item) /\ r.tasks \in Seq(Task)
  BY DEF RowsInv, Rows
<1>2. \A n \in DOMAIN r.items : r.items[n] \in Item /\ IsSound(r.items[n])
  BY <1>1 DEF RowsInv, IsCovered
<1>3. Len(r.tasks) <= TaskBound /\ TaskBound \in Nat
  BY ProcurementAssumption DEF RowsInv, IsCovered
<1>4. \A t \in DOMAIN r.tasks : r.tasks[t] \in Task /\ t \in Tasks /\ t # 0
  BY <1>1, <1>3 DEF Tasks
<1>5. QED
  BY <1>1, <1>2, <1>4

\* What a body touches are products.
LEMMA TouchedAreProducts ==
  ASSUME NEW body \in Body
  PROVE  /\ body.product \in Touched(body) /\ Touched(body) \subseteq Products
         /\ body.type \in {"record", "receive_and_count", "stocktake", "loss", "convert",
                           "link_stock_cost", "revise_purchase"}
<1>1. body.product \in Products
  BY ProcurementAssumption DEF Body
<1>2. body.type = "convert" => body.target \in Products
  BY DEF Body
<1>3. body.type \in {"record", "receive_and_count", "stocktake", "loss", "convert",
                     "link_stock_cost", "revise_purchase"}
  BY DEF Body
<1>4. QED
  BY <1>1, <1>2, <1>3 DEF Touched

\* What is taken back from the stock is a number of pieces.
LEMMA TakenBackIsNat ==
  ASSUME NEW item \in Item, NEW quantity \in Nat
  PROVE  TakenBack(item, quantity) \in Nat
<1>1. PICK A : A = With(item, "approved")
  OBVIOUS
<1>2. IsFiniteSet(A) /\ \A i \in A : Removed(item, quantity, i) \in Nat
  <2>1. item.batches \in Seq(Batch)
    BY ItemFields
  <2>2. /\ IsFiniteSet(A)
        /\ \A i \in A : /\ item.batches[i].quantity \in Nat
                        /\ Removed(item, quantity, i) \in 0 .. item.batches[i].quantity
    BY <1>1, <2>1, RemovedAddUp
  <2>3. QED
    BY <2>2
<1>3. PICK S \in SUBSET A : S = {i \in With(item, "approved") : Local(item.batches[i]) # 0}
  BY <1>1
<1>4. PICK f : f = [i \in S |-> Removed(item, quantity, i)]
  OBVIOUS
<1>5. IsFiniteSet(S) /\ f \in [S -> Nat]
  BY <1>2, <1>4, FS_Subset
<1>6. Total(f, S) \in Nat
  BY <1>5, TotalIsNat
<1>7. QED
  BY <1>3, <1>4, <1>6 DEF TakenBack

\* What a plan moves are pieces, of the products it touches.
LEMMA MovedIsInt ==
  ASSUME NEW r, RowsInv(r), NEW body \in Body, Accepts(r, body)
  PROVE  /\ Delta(r, body) \in Int /\ Moved(r, body) \in [Touched(body) -> Int]
         /\ \A p \in Touched(body) : r.revision[p] \in Nat /\ r.stock[p] + Moved(r, body)[p] \in Int
<1>1. /\ body.product \in Touched(body) /\ Touched(body) \subseteq Products
      /\ body.type \in {"record", "receive_and_count", "stocktake", "loss", "convert",
                        "link_stock_cost", "revise_purchase"}
  BY TouchedAreProducts
<1>2. r.stock \in [Products -> Int] /\ r.revision \in [Products -> Nat]
  BY RowsFields
<1>3. r.stock[body.product] \in Int
  BY <1>1, <1>2
<1>4. Delta(r, body) \in Int
  <2>1. CASE body.type = "record"
    <3>1. body.quantity \in Nat
      BY <2>1 DEF Body, Quantities
    <3>2. QED
      BY <2>1, <3>1 DEF Delta
  <2>2. CASE body.type \in {"receive_and_count", "stocktake"}
    <3>1. body.counted \in Nat
      BY <2>2 DEF Body, Counts
    <3>2. QED
      BY <1>3, <2>2, <3>1 DEF Delta
  <2>3. CASE body.type \in {"loss", "convert"}
    <3>1. body.quantity \in Nat
      BY <2>3 DEF Body, Quantities
    <3>2. QED
      BY <2>3, <3>1 DEF Delta
  <2>4. CASE body.type = "link_stock_cost"
    BY <2>4 DEF Delta
  <2>5. CASE body.type = "revise_purchase"
    <3>1. body.quantity \in Nat
      BY <2>5 DEF Body, Counts
    <3>2. body.item \in DOMAIN r.items
      BY <2>5 DEF Accepts, IsItem
    <3>3. r.items[body.item] \in Item
      BY <3>2, RowsFields
    <3>4. TakenBack(r.items[body.item], body.quantity) \in Nat
      BY <3>1, <3>3, TakenBackIsNat
    <3>5. QED
      BY <2>5, <3>4 DEF Delta
  <2>6. QED
    BY <1>1, <2>1, <2>2, <2>3, <2>4, <2>5
<1>5. \A p \in Touched(body) : p # body.product => body.made \in Int
  BY DEF Touched, Body, Quantities
<1>6. Moved(r, body) \in [Touched(body) -> Int]
  <2> HIDE DEF Delta
  <2>1. QED
    BY <1>4, <1>5 DEF Moved
<1>7. QED
  BY <1>1, <1>2, <1>4, <1>6

\* Each kind of correction keeps purchases and tasks covered.
LEMMA RecordCovers ==
  ASSUME NEW r, RowsInv(r), NEW body \in Body, body.type = "record", Accepts(r, body)
  PROVE  IsCovered(Items(r, r, body), CostTasks(r, r, body))
<1>1. body.task # 0 => body.effect = "already_accounted" /\ IsOpenTask(r, body)
  BY DEF Accepts
<1>2. /\ IsSound(Purchase(body)) /\ body.quantity \in Nat /\ body.task \in {0} \cup Tasks
      /\ Purchase(body).links = [t \in Tasks |-> IF t = body.task THEN body.quantity ELSE 0]
  BY <1>1, PurchaseIsSound
<1>3. PICK t, q : t = body.task /\ q = body.quantity /\ q \in Nat
  BY <1>2
<1>4. t \in {0} \cup DOMAIN r.tasks /\ (t # 0 => q <= Unresolved(r.tasks[t]))
  BY <1>1, <1>2, <1>3 DEF IsOpenTask
<1>5. \A s \in Tasks : Purchase(body).links[s] = IF s = t THEN q ELSE 0
  BY <1>2, <1>3
<1>6. IsCovered(Append(r.items, Purchase(body)), Resolved(r.tasks, t, q))
  <2>1. IsCovered(r.items, r.tasks) /\ IsSound(Purchase(body)) /\ q \in Nat
    BY <1>2, <1>3 DEF RowsInv
  <2>2. t \in {0} \cup DOMAIN r.tasks /\ (t # 0 => q <= Unresolved(r.tasks[t]))
    BY <1>4
  <2>3. QED
    BY <1>5, <2>1, <2>2, AppendedStaysCovered
<1>7. Items(r, r, body) = Append(r.items, Purchase(body))
  BY DEF Items
<1>8. CostTasks(r, r, body) = Resolved(r.tasks, t, q)
  BY <1>3 DEF CostTasks, Resolved
<1>9. QED
  BY <1>6, <1>7, <1>8

\* So does every change of a purchase that leaves it sound and its links alone.
LEMMA EditCovers ==
  ASSUME NEW r, RowsInv(r), NEW n \in DOMAIN r.items, NEW x, IsSound(x),
         x.links = r.items[n].links
  PROVE  IsCovered([r.items EXCEPT ![n] = x], r.tasks)
<1>1. r.items[n].links \in [Tasks -> Nat]
  BY RowsFields, ItemFields
<1>2. \A s \in Tasks : x.links[s] = r.items[n].links[s] + IF s = 0 THEN 0 ELSE 0
  BY <1>1
<1>3. IsCovered([r.items EXCEPT ![n] = x], Resolved(r.tasks, 0, 0))
  BY <1>2, ReplacedStaysCovered DEF RowsInv
<1>4. QED
  BY <1>3 DEF Resolved

LEMMA ReceiveAndCountCovers ==
  ASSUME NEW r, RowsInv(r), NEW body \in Body, body.type = "receive_and_count",
         Accepts(r, body)
  PROVE  IsCovered(Items(r, r, body), CostTasks(r, r, body))
<1>1. PICK n, i, q : n = body.item /\ i = body.batch /\ q = body.quantity /\ q \in Nat
  BY DEF Body, Quantities
<1>2. n \in DOMAIN r.items /\ i \in With(r.items[n], "pending")
  BY <1>1 DEF Accepts, IsItem
<1>3. PICK item : item = r.items[n]
  OBVIOUS
<1>4. IsSound(item) /\ item.batches \in Seq(Batch) /\ i \in DOMAIN item.batches
  BY <1>2, <1>3, RowsFields, ItemFields DEF With
<1>5. PICK total \in Nat : total = item.batches[i].quantity
  <2>1. item.batches[i] \in Batch
    BY <1>4
  <2>2. item.batches[i].quantity \in Nat
    BY <2>1 DEF Batch
  <2>3. QED
    BY <2>2
<1>6. PICK yes \in BOOLEAN : yes = TRUE
  OBVIOUS
<1>7. PICK x : x = CameIn(item, i, q, total, yes)
  OBVIOUS
<1>8. IsSound(x) /\ x.links = item.links
  <2>1. i \in With(item, "pending") /\ q \in Nat
    BY <1>1, <1>2, <1>3
  <2>2. IsSound(x) /\ Keeps(x, item)
    BY <1>4, <1>7, <2>1, ReceivedIsSound
  <2>3. QED
    BY <2>2 DEF Keeps
<1>9. IsCovered([r.items EXCEPT ![n] = x], r.tasks)
  BY <1>2, <1>3, <1>8, EditCovers
<1>10. Items(r, r, body) = [r.items EXCEPT ![n] = x]
  BY <1>1, <1>3, <1>5, <1>6, <1>7 DEF Items
<1>11. CostTasks(r, r, body) = r.tasks
  BY DEF CostTasks
<1>12. QED
  BY <1>9, <1>10, <1>11

LEMMA LinkCovers ==
  ASSUME NEW r, RowsInv(r), NEW body \in Body, body.type = "link_stock_cost", Accepts(r, body)
  PROVE  IsCovered(Items(r, r, body), CostTasks(r, r, body))
<1>1. PICK n, t, q : /\ n = body.item /\ t = body.task /\ q = body.quantity
                     /\ t \in Tasks /\ q \in Nat
  BY DEF Body, Quantities
<1>2. /\ n \in DOMAIN r.items /\ r.items[n].valued
      /\ q <= Received(r.items[n]) - Linked(r.items[n])
      /\ t \in DOMAIN r.tasks /\ q <= Unresolved(r.tasks[t])
  BY <1>1 DEF Accepts, IsItem, IsOpenTask
<1>3. PICK item : item = r.items[n]
  OBVIOUS
<1>4. item \in Item /\ IsSound(item) /\ item.links \in [Tasks -> Nat] /\ t # 0
  BY <1>2, <1>3, RowsFields, ItemFields
<1>5. PICK links : links = [item.links EXCEPT ![t] = @ + q]
  OBVIOUS
<1>6. PICK x : x = [item EXCEPT !.links = links]
  OBVIOUS
<1>7. IsSound(x) /\ x.links = links
  <2>1. item.valued /\ q <= Received(item) - Linked(item) /\ q \in Nat /\ t \in Tasks
    BY <1>1, <1>2, <1>3
  <2>2. x = [item EXCEPT !.links = [item.links EXCEPT ![t] = @ + q]]
    BY <1>5, <1>6
  <2>3. QED
    BY <1>4, <1>5, <2>1, <2>2, LinkedIsSound
<1>8. \A s \in Tasks : links[s] = item.links[s] + IF s = t THEN q ELSE 0
  <2>1. PICK f \in [Tasks -> Nat] : f = item.links
    BY <1>4
  <2>2. links = [f EXCEPT ![t] = @ + q] /\ q \in Nat
    BY <1>1, <1>5, <2>1
  <2>3. QED
    BY <2>1, <2>2
<1>9. \A s \in Tasks : x.links[s] = item.links[s] + IF s = t THEN q ELSE 0
  BY <1>7, <1>8
<1>10. IsCovered([r.items EXCEPT ![n] = x], Resolved(r.tasks, t, q))
  <2>1. /\ t \in {0} \cup DOMAIN r.tasks /\ q <= Unresolved(r.tasks[t]) /\ q \in Nat
        /\ n \in DOMAIN r.items
    BY <1>1, <1>2
  <2>2. \A s \in Tasks : x.links[s] = r.items[n].links[s] + IF s = t THEN q ELSE 0
    BY <1>3, <1>9
  <2>3. IsCovered(r.items, r.tasks)
    BY DEF RowsInv
  <2>4. QED
    BY <1>7, <2>1, <2>2, <2>3, ReplacedStaysCovered
<1>11. Items(r, r, body) = [r.items EXCEPT ![n] = x]
  BY <1>1, <1>3, <1>5, <1>6 DEF Items
<1>12. CostTasks(r, r, body) = Resolved(r.tasks, t, q)
  BY <1>1, <1>4 DEF CostTasks, Resolved
<1>13. QED
  BY <1>10, <1>11, <1>12

LEMMA RevisionCovers ==
  ASSUME NEW r, RowsInv(r), NEW body \in Body, body.type = "revise_purchase", Accepts(r, body)
  PROVE  /\ IsCovered(Items(r, r, body), CostTasks(r, r, body))
         /\ AddsUpTo(Items(r, r, body)[body.item], body.quantity)
<1>1. PICK n, q, v : n = body.item /\ q = body.quantity /\ v = body.valued
  OBVIOUS
<1>2. q \in Nat /\ v \in BOOLEAN
  BY <1>1 DEF Body, Counts
<1>3. PICK item : item = r.items[n]
  OBVIOUS
<1>4. n \in DOMAIN r.items /\ (Linked(item) = 0 \/ (q >= Linked(item) /\ v))
  BY <1>1, <1>3 DEF Accepts, IsItem, KeepsCosts
<1>5. IsSound(item)
  BY <1>3, <1>4, RowsFields
<1>6. PICK x : x = [item EXCEPT !.actual = q, !.inbound = StillReceived(item, q), !.valued = v,
                                !.batches = Corrected(item, q)]
  OBVIOUS
<1>7. IsSound(x) /\ Keeps(x, item) /\ AddsUpTo(x, q)
  <2>1. Linked(item) = 0 \/ (q >= Linked(item) /\ v)
    BY <1>4
  <2>2. QED
    BY <1>2, <1>5, <1>6, <2>1, RevisedIsSound
<1>8. IsCovered([r.items EXCEPT ![n] = x], r.tasks)
  BY <1>3, <1>4, <1>7, EditCovers DEF Keeps
<1>9. Items(r, r, body) = [r.items EXCEPT ![n] = x]
  BY <1>1, <1>3, <1>6 DEF Items
<1>10. CostTasks(r, r, body) = r.tasks
  BY DEF CostTasks
<1>11. Items(r, r, body)[body.item] = x
  BY <1>1, <1>4, <1>9
<1>12. QED
  BY <1>1, <1>7, <1>8, <1>9, <1>10, <1>11

LEMMA CountCovers ==
  ASSUME NEW r, RowsInv(r), NEW body \in Body, body.type = "stocktake", Accepts(r, body),
         Len(CostTasks(r, r, body)) <= TaskBound
  PROVE  IsCovered(Items(r, r, body), CostTasks(r, r, body))
<1>1. /\ body.product \in Products /\ body.counted \in Nat /\ body.valued \in BOOLEAN
  BY DEF Body, Counts
<1>2. ToCost(r, body) \in Nat
  <2>1. PICK m \in Int : m = Delta(r, body)
    BY MovedIsInt
  <2>2. Positive(m) \in Nat
    BY PositivePart
  <2>3. Min({body.counted, Positive(m)}) \in Nat
    BY <1>1, <2>2, SmallerOfTwo
  <2>4. QED
    BY <1>1, <2>1, <2>3 DEF ToCost
<1>3. Items(r, r, body) = r.items
  BY DEF Items
<1>4. CASE ToCost(r, body) > 0
  <2>1. PICK task : task = [product |-> body.product, quantity |-> ToCost(r, body), resolved |-> 0]
    OBVIOUS
  <2>2. task \in Task /\ task.resolved = 0
    BY <1>1, <1>2, <2>1 DEF Task
  <2>3. CostTasks(r, r, body) = Append(r.tasks, task)
    BY <1>4, <2>1 DEF CostTasks
  <2>4. Len(r.tasks) + 1 <= TaskBound
    <3>1. r.tasks \in Seq(Task)
      BY RowsFields
    <3>2. QED
      BY <2>2, <2>3, <3>1
  <2>5. QED
    BY <1>3, <2>2, <2>3, <2>4, OpenedStaysCovered DEF RowsInv
<1>5. CASE ~(ToCost(r, body) > 0)
  <2>1. CostTasks(r, r, body) = r.tasks
    BY <1>5 DEF CostTasks
  <2>2. QED
    BY <1>3, <2>1 DEF RowsInv
<1>6. QED
  BY <1>4, <1>5

LEMMA CorrectionKeepsRows ==
  ASSUME NEW r, RowsInv(r), NEW body \in Body, Accepts(r, body),
         NEW q, q = Written(r, r, body), Len(q.tasks) <= TaskBound
  PROVE  RowsInv(q)
<1>1. /\ body.product \in Touched(body) /\ Touched(body) \subseteq Products
      /\ body.type \in {"record", "receive_and_count", "stocktake", "loss", "convert",
                        "link_stock_cost", "revise_purchase"}
  BY TouchedAreProducts
<1>2. PICK items, tasks : items = Items(r, r, body) /\ tasks = CostTasks(r, r, body)
  OBVIOUS
<1>3. PICK stock : stock = [p \in Products |-> IF p \in Touched(body)
                               THEN r.stock[p] + Moved(r, body)[p] ELSE r.stock[p]]
  OBVIOUS
<1>4. PICK counted : counted = [r.counted EXCEPT ![body.product] =
                                  @ \/ body.type \in {"receive_and_count", "stocktake"}]
  OBVIOUS
<1>5. q = [stock |-> stock, demand |-> r.demand, counted |-> counted,
           revision |-> Bumped(r, Touched(body)), items |-> items, tasks |-> tasks]
  BY <1>2, <1>3, <1>4 DEF Written
<1>6. stock \in [Products -> Int]
  BY <1>1, <1>3, MovedIsInt, RowsFields
<1>7. counted \in [Products -> BOOLEAN]
  <2>1. PICK b \in BOOLEAN : b = (r.counted[body.product]
                                    \/ body.type \in {"receive_and_count", "stocktake"})
    OBVIOUS
  <2>2. counted = [r.counted EXCEPT ![body.product] = b]
    BY <1>4, <2>1
  <2>3. QED
    BY <2>2, RowsFields
<1>8. Bumped(r, Touched(body)) \in [Products -> Nat]
  BY RowsFields DEF Bumped
<1>9. IsCovered(items, tasks)
  <2>1. CASE body.type = "record"
    BY <1>2, <2>1, RecordCovers
  <2>2. CASE body.type = "receive_and_count"
    BY <1>2, <2>2, ReceiveAndCountCovers
  <2>3. CASE body.type = "link_stock_cost"
    BY <1>2, <2>3, LinkCovers
  <2>4. CASE body.type = "revise_purchase"
    BY <1>2, <2>4, RevisionCovers
  <2>5. CASE body.type = "stocktake"
    <3>1. q.tasks = tasks
      BY <1>5
    <3>2. QED
      BY <1>2, <2>5, <3>1, CountCovers
  <2>6. CASE body.type \in {"loss", "convert"}
    <3>1. items = r.items /\ tasks = r.tasks
      BY <1>2, <2>6 DEF Items, CostTasks
    <3>2. QED
      BY <3>1 DEF RowsInv
  <2>7. QED
    BY <1>1, <2>1, <2>2, <2>3, <2>4, <2>5, <2>6
<1>10. items \in Seq(Item) /\ tasks \in Seq(Task) /\ r.demand \in [Products -> Nat]
  BY <1>9, RowsFields DEF IsCovered
<1>11. q \in Rows /\ q.items = items /\ q.tasks = tasks
  BY <1>5, <1>6, <1>7, <1>8, <1>10 DEF Rows
<1>12. QED
  BY <1>9, <1>11 DEF RowsInv
-----------------------------------------------------------------------------
\* Orders and shipments keep the rows of their kind and covered.
LEMMA OrderKeepsRows ==
  ASSUME RowsInv(rows), NEW p \in Products, Order(p) \/ Ship(p)
  PROVE  RowsInv(rows')
<1>1. /\ rows.stock \in [Products -> Int] /\ rows.demand \in [Products -> Nat]
      /\ rows.counted \in [Products -> BOOLEAN] /\ rows.revision \in [Products -> Nat]
      /\ rows.items \in Seq(Item) /\ rows.tasks \in Seq(Task)
  BY RowsFields
<1>2. PICK stock, demand, revision :
        /\ rows' = [stock |-> stock, demand |-> demand, counted |-> rows.counted,
                    revision |-> revision, items |-> rows.items, tasks |-> rows.tasks]
        /\ revision = [rows.revision EXCEPT ![p] = @ + 1]
        /\ \/ stock = rows.stock /\ demand = [rows.demand EXCEPT ![p] = @ + 1]
           \/ /\ rows.demand[p] > 0
              /\ stock = [rows.stock EXCEPT ![p] = @ - 1]
              /\ demand = [rows.demand EXCEPT ![p] = @ - 1]
  BY DEF Order, Ship, RowsInv, Rows
<1>3. stock \in [Products -> Int] /\ demand \in [Products -> Nat] /\ revision \in [Products -> Nat]
  <2>1. rows.demand[p] \in Nat /\ rows.stock[p] \in Int /\ rows.revision[p] \in Nat
    BY <1>1
  <2>2. revision \in [Products -> Nat]
    BY <1>1, <1>2, <2>1
  <2>3. CASE stock = rows.stock /\ demand = [rows.demand EXCEPT ![p] = @ + 1]
    <3>1. demand \in [Products -> Nat]
      BY <1>1, <2>1, <2>3
    <3>2. QED
      BY <1>1, <2>2, <2>3, <3>1
  <2>4. CASE /\ rows.demand[p] > 0
             /\ stock = [rows.stock EXCEPT ![p] = @ - 1]
             /\ demand = [rows.demand EXCEPT ![p] = @ - 1]
    <3>1. rows.demand[p] - 1 \in Nat /\ rows.stock[p] - 1 \in Int
      BY <2>1, <2>4
    <3>2. demand \in [Products -> Nat]
      BY <1>1, <2>4, <3>1
    <3>3. stock \in [Products -> Int]
      BY <1>1, <2>4, <3>1
    <3>4. QED
      BY <2>2, <3>2, <3>3
  <2>5. QED
    BY <1>2, <2>3, <2>4
<1>4. rows' \in Rows /\ rows'.items = rows.items /\ rows'.tasks = rows.tasks
  BY <1>1, <1>2, <1>3 DEF Rows
<1>5. QED
  BY <1>4 DEF RowsInv

\* A step from the rows r to the rows q changes the products S and nothing of
\* the others.
Changes(r, q, S) ==
  /\ \A p \in Products : q.revision[p] >= r.revision[p]
  /\ \A p \in S : q.revision[p] > r.revision[p]
  /\ \A p \in Products \ S : q.stock[p] = r.stock[p]
  /\ \A n \in DOMAIN r.items :
       /\ n \in DOMAIN q.items /\ q.items[n].product = r.items[n].product
       /\ r.items[n].product \notin S => q.items[n] = r.items[n]

\* What a page does to a purchase keeps its product and its links, and leaves it
\* sound.
Edited(n, x, moved) ==
  /\ n \in DOMAIN rows.items /\ Edit(n, x, moved)
  /\ IsSound(x) /\ Keeps(x, rows.items[n]) /\ moved \in Int

LEMMA EditedRows ==
  ASSUME RowsInv(rows), NEW n, NEW x, NEW moved, Edited(n, x, moved)
  PROVE  /\ RowsInv(rows') /\ drafts' = drafts /\ session' = session
         /\ x.product \in Products /\ Changes(rows, rows', {x.product})
<1>1. /\ rows.stock \in [Products -> Int] /\ rows.demand \in [Products -> Nat]
      /\ rows.counted \in [Products -> BOOLEAN] /\ rows.revision \in [Products -> Nat]
      /\ rows.items \in Seq(Item) /\ rows.tasks \in Seq(Task) /\ rows.items[n] \in Item
  BY RowsFields DEF Edited
<1>2. PICK p \in Products : p = x.product
  BY <1>1, ItemFields, ProcurementAssumption DEF Edited, Keeps
<1>3. PICK items : items = [rows.items EXCEPT ![n] = x]
  OBVIOUS
<1>4. PICK stock, revision :
        /\ rows' = [stock |-> stock, demand |-> rows.demand, counted |-> rows.counted,
                    revision |-> revision, items |-> items, tasks |-> rows.tasks]
        /\ revision = [rows.revision EXCEPT ![p] = @ + 1]
        /\ stock = [rows.stock EXCEPT ![p] = @ + moved]
  BY <1>2, <1>3 DEF Edited, Edit, RowsInv, Rows
<1>5. stock \in [Products -> Int] /\ revision \in [Products -> Nat]
  <2>1. rows.stock[p] + moved \in Int /\ rows.revision[p] + 1 \in Nat
    BY <1>1, <1>2 DEF Edited
  <2>2. stock \in [Products -> Int]
    BY <1>1, <1>2, <1>4, <2>1
  <2>3. revision \in [Products -> Nat]
    BY <1>1, <1>2, <1>4, <2>1
  <2>4. QED
    BY <2>2, <2>3
<1>6. IsCovered(items, rows.tasks)
  <2>1. n \in DOMAIN rows.items /\ IsSound(x) /\ x.links = rows.items[n].links
    BY DEF Edited, Keeps
  <2>2. QED
    BY <1>3, <2>1, EditCovers
<1>7. items \in Seq(Item)
  BY <1>6 DEF IsCovered
<1>8. rows' \in Rows /\ rows'.items = items /\ rows'.tasks = rows.tasks
  BY <1>1, <1>4, <1>5, <1>7 DEF Rows
<1>9. RowsInv(rows')
  BY <1>6, <1>8 DEF RowsInv
<1>10. drafts' = drafts /\ session' = session /\ x.product = rows.items[n].product
  BY DEF Edited, Edit, Keeps
<1>11. Changes(rows, rows', {p})
  <2>1. rows'.stock = stock /\ rows'.revision = revision
    BY <1>4
  <2>2. \A q \in Products \ {p} : stock[q] = rows.stock[q]
    BY <1>1, <1>4
  <2>3. (\A q \in Products : revision[q] >= rows.revision[q]) /\ revision[p] > rows.revision[p]
    BY <1>1, <1>2, <1>4
  <2>4. \A m \in DOMAIN rows.items :
          /\ m \in DOMAIN items /\ items[m].product = rows.items[m].product
          /\ rows.items[m].product \notin {p} => items[m] = rows.items[m]
    BY <1>1, <1>2, <1>3, <1>10 DEF Edited
  <2>5. QED
    BY <1>8, <2>1, <2>2, <2>3, <2>4 DEF Changes
<1>12. QED
  BY <1>2, <1>9, <1>10, <1>11

\* A delivery comes in.
LEMMA ReceiveEdits ==
  ASSUME RowsInv(rows), NEW n \in DOMAIN rows.items, NEW i,
         NEW quantity \in Quantities, NEW total \in Quantities, Receive(n, i, quantity, total)
  PROVE  \E x, moved : Edited(n, x, moved)
<1>1. PICK item : item = rows.items[n]
  OBVIOUS
<1>2. IsSound(item) /\ item.batches \in Seq(Batch)
  BY <1>1, RowsFields, ItemFields
<1>3. i \in With(item, "pending") /\ i \in DOMAIN item.batches
  BY <1>1 DEF Receive, With
<1>4. PICK audited \in MayName(item.batches[i].audited) :
        Edit(n, CameIn(item, i, quantity, total, audited), quantity)
  BY <1>1 DEF Receive
<1>5. audited \in BOOLEAN /\ quantity \in Nat /\ total \in Nat
  <2>1. item.batches[i] \in Batch
    BY <1>2, <1>3
  <2>2. item.batches[i].audited \in BOOLEAN
    BY <2>1 DEF Batch
  <2>3. quantity \in Nat /\ total \in Nat
    BY DEF Quantities
  <2>4. QED
    BY <2>2, <2>3 DEF MayName
<1>6. PICK x : x = CameIn(item, i, quantity, total, audited)
  OBVIOUS
<1>7. IsSound(x) /\ Keeps(x, item)
  BY <1>2, <1>3, <1>5, <1>6, ReceivedIsSound
<1>8. QED
  BY <1>1, <1>4, <1>5, <1>6, <1>7 DEF Edited

\* A delivery of another status counts what it brought, and no more.
Restated(item, i, b, status, audited) ==
  [item EXCEPT
     !.inbound = Positive(item.inbound + Came(b, status) - Came(b, b.status)),
     !.reversed = item.reversed \/ (b.status = "approved" /\ status # "approved"),
     !.batches[i] = [b EXCEPT !.status = status, !.audited = audited,
                              !.posted = Posted(b, status)]]

LEMMA RestatedIsSound ==
  ASSUME NEW item, IsSound(item), NEW i \in DOMAIN item.batches,
         NEW status \in {"pending", "approved", "cancelled", "deleted"},
         NEW audited \in BOOLEAN, NEW b, b = item.batches[i],
         NEW x, x = Restated(item, i, b, status, audited)
  PROVE  IsSound(x) /\ Keeps(x, item)
<1>1. /\ item \in Item /\ item.batches \in Seq(Batch) /\ item.inbound \in Nat
      /\ Sum(item.batches, "approved") \in Nat /\ Linked(item) \in Nat
  BY ItemFields DEF IsSound
<1>2. b \in Batch /\ b.quantity \in Nat /\ b.posted \in Nat
  <2>1. b \in Batch
    BY <1>1
  <2>2. QED
    BY <2>1 DEF Batch
<1>3. PICK posted \in Nat : posted = Posted(b, status)
  BY <1>2 DEF Posted
<1>4. PICK old \in Nat, new \in Nat : old = Came(b, b.status) /\ new = Came(b, status)
  BY <1>2 DEF Came
<1>5. PICK y : y = [b EXCEPT !.status = status, !.audited = audited, !.posted = posted]
  OBVIOUS
<1>6. y \in Batch /\ Holds(y, "approved") = new /\ Holds(b, "approved") = old
  BY <1>2, <1>4, <1>5 DEF Batch, Holds, Came
<1>7. PICK batches : batches = [item.batches EXCEPT ![i] = y]
  OBVIOUS
<1>8. batches \in Seq(Batch) /\ Sum(batches, "approved") \in Nat
  <2>1. batches \in Seq(Batch)
    BY <1>1, <1>6, <1>7, ChangedDeliveries
  <2>2. QED
    BY <2>1, SumsAreNatural
<1>9. Sum(batches, "approved") = Sum(item.batches, "approved") - old + new
  <2>1. Sum(batches, "approved")
          = Sum(item.batches, "approved") - Holds(item.batches[i], "approved") + Holds(y, "approved")
    BY <1>1, <1>6, <1>7, SumOfChanged
  <2>2. QED
    BY <1>6, <2>1
<1>10. PICK inbound : inbound = Positive(item.inbound + Came(b, status) - Came(b, b.status))
  OBVIOUS
<1>11. /\ inbound \in Nat
       /\ inbound = IF item.inbound + new - old > 0 THEN item.inbound + new - old ELSE 0
  <2>1. PICK m \in Int : m = item.inbound + new - old
    BY <1>1
  <2>2. Positive(m) \in Nat /\ Positive(m) = IF m > 0 THEN m ELSE 0
    BY PositivePart
  <2>3. QED
    BY <1>4, <1>10, <2>1, <2>2
<1>12. PICK reversed \in BOOLEAN :
         reversed = (item.reversed \/ (b.status = "approved" /\ status # "approved"))
  OBVIOUS
<1>13. x = [item EXCEPT !.inbound = inbound, !.reversed = reversed, !.batches = batches]
  BY <1>3, <1>5, <1>7, <1>10, <1>12 DEF Restated
<1>14. /\ x \in Item /\ x.inbound = inbound /\ x.batches = batches /\ x.links = item.links
       /\ x.product = item.product /\ x.state = item.state /\ x.valued = item.valued
       /\ x.reversed = reversed /\ x.restarted = item.restarted
  BY <1>1, <1>8, <1>11, <1>13 DEF Item
<1>15. Linked(x) = Linked(item)
  BY <1>14 DEF Linked
<1>16. IsCounted(x) = IsCounted(item)
  BY <1>14 DEF IsCounted
<1>17. ~reversed => ~item.reversed /\ new >= old
  <2>1. ~reversed => ~item.reversed /\ ~(b.status = "approved" /\ status # "approved")
    BY <1>12
  <2>2. CASE status = "approved"
    BY <1>2, <1>4, <2>1, <2>2 DEF Came
  <2>3. CASE status # "approved"
    BY <1>2, <1>4, <2>1, <2>3 DEF Came
  <2>4. QED
    BY <2>2, <2>3
<1>18. IsPriced(x) => IsPriced(item) /\ new >= old
  BY <1>14, <1>15, <1>16, <1>17 DEF IsPriced
<1>19. IsCounted(x) => x.inbound = Sum(x.batches, "approved")
  <2>1. IsCounted(x) => item.inbound = Sum(item.batches, "approved")
    BY <1>16 DEF IsSound
  <2>2. item.inbound = Sum(item.batches, "approved") => inbound = Sum(batches, "approved")
    BY <1>1, <1>8, <1>9, <1>11
  <2>3. QED
    BY <1>14, <2>1, <2>2
<1>20. IsPriced(x) => Linked(x) <= Sum(x.batches, "approved") /\ x.valued
  <2>1. IsPriced(x) => Linked(item) <= Sum(item.batches, "approved") /\ item.valued /\ new >= old
    BY <1>18 DEF IsSound
  <2>2. new >= old => Sum(batches, "approved") >= Sum(item.batches, "approved")
    BY <1>1, <1>4, <1>8, <1>9
  <2>3. QED
    BY <1>1, <1>8, <1>14, <1>15, <2>1, <2>2
<1>21. QED
  BY <1>14, <1>19, <1>20 DEF IsSound, Keeps

LEMMA RestateEdits ==
  ASSUME RowsInv(rows), NEW n \in DOMAIN rows.items, NEW i \in DOMAIN rows.items[n].batches,
         NEW status \in {"pending", "approved", "cancelled", "deleted"},
         NEW audited \in BOOLEAN, Restate(n, i, status, audited)
  PROVE  \E x, moved : Edited(n, x, moved)
<1>1. PICK item : item = rows.items[n]
  OBVIOUS
<1>2. PICK b : b = item.batches[i]
  OBVIOUS
<1>3. PICK x : x = Restated(item, i, b, status, audited)
  OBVIOUS
<1>4. Edit(n, x, Posted(b, status) - b.posted)
  BY <1>1, <1>2, <1>3 DEF Restate, Restated
<1>5. IsSound(item) /\ i \in DOMAIN item.batches
  BY <1>1, RowsFields
<1>6. IsSound(x) /\ Keeps(x, item)
  BY <1>2, <1>3, <1>5, RestatedIsSound
<1>7. PICK moved \in Int : moved = Posted(b, status) - b.posted
  <2>1. item.batches \in Seq(Batch)
    BY <1>5, ItemFields DEF IsSound
  <2>2. b \in Batch
    BY <1>2, <1>5, <2>1
  <2>3. Posted(b, status) - b.posted \in Int
    BY <2>2 DEF Batch, Posted
  <2>4. QED
    BY <2>3
<1>8. QED
  BY <1>1, <1>4, <1>6, <1>7 DEF Edited

\* An edited purchase has received what it had; if its links lose their price, it
\* is marked.
LEMMA RevaluedIsSound ==
  ASSUME NEW item, IsSound(item), NEW valued \in BOOLEAN, NEW b \in Seq(Batch),
         Sum(b, "approved") = Sum(item.batches, "approved"),
         NEW x, x = [item EXCEPT
           !.valued = valued, !.reversed = item.reversed \/ (Linked(item) > 0 /\ ~valued),
           !.batches = b]
  PROVE  IsSound(x) /\ Keeps(x, item)
<1>1. item \in Item /\ Linked(item) \in Nat
  BY ItemFields DEF IsSound
<1>2. PICK reversed \in BOOLEAN : reversed = (item.reversed \/ (Linked(item) > 0 /\ ~valued))
  OBVIOUS
<1>3. x = [item EXCEPT !.valued = valued, !.reversed = reversed, !.batches = b]
  BY <1>2
<1>4. /\ x \in Item /\ x.inbound = item.inbound /\ x.batches = b /\ x.links = item.links
      /\ x.product = item.product /\ x.state = item.state /\ x.valued = valued
      /\ x.reversed = reversed /\ x.restarted = item.restarted
  BY <1>1, <1>3 DEF Item
<1>5. Linked(x) = Linked(item)
  BY <1>4 DEF Linked
<1>6. IsCounted(x) = IsCounted(item)
  BY <1>4 DEF IsCounted
<1>7. IsPriced(x) => IsPriced(item) /\ valued
  BY <1>2, <1>4, <1>5, <1>6 DEF IsPriced
<1>8. QED
  BY <1>4, <1>5, <1>6, <1>7 DEF IsSound, Keeps

LEMMA UpdateEdits ==
  ASSUME RowsInv(rows), NEW n \in DOMAIN rows.items, NEW valued \in BOOLEAN,
         UpdatePurchase(n, valued)
  PROVE  \E x, moved : Edited(n, x, moved)
<1>1. PICK item : item = rows.items[n]
  OBVIOUS
<1>2. IsSound(item) /\ item \in Item /\ item.batches \in Seq(Batch) /\ item.actual \in Nat
  BY <1>1, RowsFields, ItemFields
<1>3. PICK edited : edited = [item EXCEPT
        !.valued = valued, !.reversed = item.reversed \/ (Linked(item) > 0 /\ ~valued)]
  OBVIOUS
<1>4. CASE Edit(n, edited, 0)
  <2>1. edited = [item EXCEPT
          !.valued = valued, !.reversed = item.reversed \/ (Linked(item) > 0 /\ ~valued),
          !.batches = item.batches]
    BY <1>2, <1>3 DEF Item
  <2>2. IsSound(edited) /\ Keeps(edited, item)
    BY <1>2, <2>1, RevaluedIsSound
  <2>3. QED
    BY <1>1, <1>4, <2>2 DEF Edited
<1>5. CASE \E i \in With(item, "pending") : \E audited \in MayName(item.batches[i].audited) :
             Edit(n, [edited EXCEPT !.batches[i] = [@ EXCEPT !.quantity = item.actual,
                                                             !.audited = audited]], 0)
  <2>1. PICK i \in With(item, "pending"), audited \in BOOLEAN :
          Edit(n, [edited EXCEPT !.batches[i] = [@ EXCEPT !.quantity = item.actual,
                                                          !.audited = audited]], 0)
    <3>1. \A i \in With(item, "pending") : item.batches[i] \in Batch
      BY <1>2 DEF With
    <3>2. \A i \in With(item, "pending") : MayName(item.batches[i].audited) \subseteq BOOLEAN
      BY <3>1 DEF MayName, Batch
    <3>3. QED
      BY <1>5, <3>2
  <2>2. i \in DOMAIN item.batches /\ item.batches[i] \in Batch /\ item.batches[i].status = "pending"
    BY <1>2 DEF With
  <2>3. PICK y : y = [item.batches[i] EXCEPT !.quantity = item.actual, !.audited = audited]
    OBVIOUS
  <2>4. y \in Batch /\ Holds(y, "approved") = 0 /\ Holds(item.batches[i], "approved") = 0
    BY <1>2, <2>2, <2>3 DEF Batch, Holds
  <2>5. PICK b : b = [item.batches EXCEPT ![i] = y]
    OBVIOUS
  <2>6. b \in Seq(Batch)
    BY <1>2, <2>2, <2>4, <2>5, ChangedDeliveries
  <2>7. Sum(b, "approved") = Sum(item.batches, "approved")
    <3>1. Sum(b, "approved")
            = Sum(item.batches, "approved") - Holds(item.batches[i], "approved") + Holds(y, "approved")
      BY <1>2, <2>2, <2>4, <2>5, SumOfChanged
    <3>2. Sum(item.batches, "approved") \in Nat
      BY <1>2, ItemFields
    <3>3. QED
      BY <2>4, <3>1, <3>2
  <2>8. PICK x : x = [item EXCEPT
          !.valued = valued, !.reversed = item.reversed \/ (Linked(item) > 0 /\ ~valued),
          !.batches = b]
    OBVIOUS
  <2>9. IsSound(x) /\ Keeps(x, item)
    BY <1>2, <2>6, <2>7, <2>8, RevaluedIsSound
  <2>10. [edited EXCEPT !.batches[i] = [@ EXCEPT !.quantity = item.actual, !.audited = audited]] = x
    <3>1. edited.batches = item.batches
      BY <1>2, <1>3 DEF Item
    <3>2. [edited EXCEPT !.batches = b] = x
      BY <1>2, <1>3, <2>8 DEF Item
    <3>3. QED
      BY <2>3, <2>5, <3>1, <3>2
  <2>11. QED
    BY <1>1, <2>1, <2>9, <2>10 DEF Edited
<1>6. QED
  BY <1>1, <1>3, <1>4, <1>5 DEF UpdatePurchase

\* Written anew where nothing came, the latest delivery is all that was received.
LEMMA PutDeliveries ==
  ASSUME NEW b \in Seq(Batch), NEW status \in {"pending", "approved"},
         NEW quantity \in Nat, NEW audited \in BOOLEAN
  PROVE  /\ Put(b, status, quantity, audited) \in Seq(Batch)
         /\ Sum(b, "approved") = 0 =>
              Sum(Put(b, status, quantity, audited), "approved")
                = IF status = "approved" THEN quantity ELSE 0
<1>1. PICK came : came = IF status = "approved" THEN quantity ELSE 0
  OBVIOUS
<1>2. CASE Latest(b) = {}
  <2>1. PICK x : x = [Due(quantity, audited) EXCEPT !.status = status]
    OBVIOUS
  <2>2. x \in Batch /\ Holds(x, "approved") = came
    BY <1>1, <2>1 DEF Due, Batch, Holds
  <2>3. Put(b, status, quantity, audited) = Append(b, x)
    BY <1>2, <2>1 DEF Put
  <2>4. Append(b, x) \in Seq(Batch)
    BY <2>2
  <2>5. Sum(Append(b, x), "approved") = Sum(b, "approved") + Holds(x, "approved")
    BY <2>2, SumOfAppended
  <2>6. came \in Nat
    BY <1>1
  <2>7. QED
    BY <1>1, <2>2, <2>3, <2>4, <2>5, <2>6
<1>3. CASE Latest(b) # {}
  <2>1. PICK i \in DOMAIN b : Latest(b) = {i}
    <3>1. PICK i \in Latest(b) : TRUE
      BY <1>3
    <3>2. DOMAIN b \in SUBSET Nat
      OBVIOUS
    <3>3. \A j \in Latest(b) : j = i
      BY <3>1, <3>2 DEF Latest
    <3>4. i \in DOMAIN b
      BY <3>1 DEF Latest
    <3>5. QED
      BY <3>1, <3>3, <3>4
  <2>2. PICK y : y = [b[i] EXCEPT !.status = status, !.quantity = quantity, !.audited = audited]
    OBVIOUS
  <2>3. b[i] \in Batch
    OBVIOUS
  <2>4. y \in Batch /\ Holds(y, "approved") = came /\ Holds(b[i], "approved") \in Nat
    BY <1>1, <2>2, <2>3 DEF Batch, Holds
  <2>5. Put(b, status, quantity, audited) = [b EXCEPT ![i] = y]
    BY <2>1, <2>2 DEF Put
  <2>6. [b EXCEPT ![i] = y] \in Seq(Batch)
    BY <2>4, ChangedDeliveries
  <2>7. Sum([b EXCEPT ![i] = y], "approved")
          = Sum(b, "approved") - Holds(b[i], "approved") + Holds(y, "approved")
    BY <2>4, SumOfChanged
  <2>8. Sum(b, "approved") = 0 => Holds(b[i], "approved") = 0
    <3>1. PICK none \in Batch : Holds(none, "approved") = 0
      BY DueDelivery
    <3>2. PICK c \in Seq(Batch) : c = [b EXCEPT ![i] = none]
      BY ChangedDeliveries
    <3>3. Sum([b EXCEPT ![i] = none], "approved")
            = Sum(b, "approved") - Holds(b[i], "approved") + Holds(none, "approved")
      BY SumOfChanged
    <3>4. Sum(c, "approved") \in Nat
      BY SumsAreNatural
    <3>5. Sum(b, "approved") \in Nat
      BY SumsAreNatural
    <3>6. QED
      BY <2>4, <3>1, <3>2, <3>3, <3>4, <3>5
  <2>9. came \in Nat
    BY <1>1
  <2>10. QED
    BY <1>1, <2>4, <2>5, <2>6, <2>7, <2>8, <2>9
<1>4. QED
  BY <1>2, <1>3

\* A purchase confirmed anew; where nothing had come, what comes is counted.
Confirmed(item, quantity, valued, inbound, b) ==
  [item EXCEPT !.actual = quantity, !.valued = valued,
               !.reversed = item.reversed \/ (Linked(item) > 0 /\ ~valued),
               !.restarted = item.restarted \/ item.inbound > 0,
               !.inbound = inbound, !.batches = b]
Restarts(item, b, inbound) ==
  item.inbound = 0 /\ Sum(item.batches, "approved") = 0 => Sum(b, "approved") = inbound

LEMMA ConfirmedIsSound ==
  ASSUME NEW item, IsSound(item), item.state = "open", NEW quantity \in Nat,
         NEW valued \in BOOLEAN, NEW inbound \in Nat, NEW b \in Seq(Batch),
         Restarts(item, b, inbound), NEW x, x = Confirmed(item, quantity, valued, inbound, b)
  PROVE  IsSound(x) /\ Keeps(x, item)
<1>1. item \in Item /\ Linked(item) \in Nat /\ item.inbound \in Nat
  BY ItemFields DEF IsSound
<1>2. PICK reversed \in BOOLEAN : reversed = (item.reversed \/ (Linked(item) > 0 /\ ~valued))
  OBVIOUS
<1>3. PICK restarted \in BOOLEAN : restarted = (item.restarted \/ item.inbound > 0)
  OBVIOUS
<1>4. x = [item EXCEPT !.actual = quantity, !.valued = valued, !.reversed = reversed,
                       !.restarted = restarted, !.inbound = inbound, !.batches = b]
  BY <1>2, <1>3 DEF Confirmed
<1>5. /\ x \in Item /\ x.inbound = inbound /\ x.batches = b /\ x.links = item.links
      /\ x.product = item.product /\ x.state = item.state /\ x.valued = valued
      /\ x.reversed = reversed /\ x.restarted = restarted
  BY <1>1, <1>4 DEF Item
<1>6. Linked(x) = Linked(item)
  BY <1>5 DEF Linked
<1>7. ~restarted => ~item.restarted /\ item.inbound = 0
  <2>1. ~restarted => ~item.restarted /\ ~(item.inbound > 0)
    BY <1>3
  <2>2. ~(item.inbound > 0) => item.inbound = 0
    BY <1>1
  <2>3. QED
    BY <2>1, <2>2
<1>8. IsCounted(x) => IsCounted(item) /\ item.inbound = 0
  BY <1>5, <1>7 DEF IsCounted
<1>9. IsCounted(x) => x.inbound = Sum(x.batches, "approved")
  BY <1>5, <1>8 DEF IsSound, Restarts
<1>10. ~reversed => ~item.reversed
  BY <1>2
<1>11. ~IsPriced(x)
  <2>1. IsPriced(x) => IsPriced(item) /\ item.inbound = 0 /\ IsCounted(item)
    BY <1>5, <1>6, <1>8, <1>10 DEF IsPriced
  <2>2. IsPriced(item) /\ item.inbound = 0 /\ IsCounted(item) => Linked(item) <= 0
    BY DEF IsSound
  <2>3. QED
    BY <1>1, <2>1, <2>2 DEF IsPriced
<1>12. QED
  BY <1>5, <1>9, <1>11 DEF IsSound, Keeps

LEMMA ConfirmEdits ==
  ASSUME RowsInv(rows), NEW n \in DOMAIN rows.items, NEW quantity \in Quantities,
         NEW valued \in BOOLEAN, NEW audited \in BOOLEAN, Confirm(n, quantity, valued, audited)
  PROVE  \E x, moved : Edited(n, x, moved)
<1>1. PICK item : item = rows.items[n]
  OBVIOUS
<1>2. /\ IsSound(item) /\ item \in Item /\ item.batches \in Seq(Batch) /\ item.inbound \in Nat
      /\ quantity \in Nat
  BY <1>1, RowsFields, ItemFields DEF Quantities
<1>3. PICK confirmed : confirmed = [item EXCEPT
        !.actual = quantity, !.valued = valued,
        !.reversed = item.reversed \/ (Linked(item) > 0 /\ ~valued),
        !.restarted = item.restarted \/ item.inbound > 0]
  OBVIOUS
<1>4. item.state = "open" /\ confirmed.batches = item.batches
  BY <1>1, <1>2, <1>3 DEF Confirm, Item
<1>5. ASSUME NEW b \in Seq(Batch), NEW inbound \in Nat, Restarts(item, b, inbound),
             Edit(n, [confirmed EXCEPT !.inbound = inbound, !.batches = b], 0)
      PROVE  \E x, moved : Edited(n, x, moved)
  <2>1. PICK x : x = Confirmed(item, quantity, valued, inbound, b)
    OBVIOUS
  <2>2. IsSound(x)
    BY <1>2, <1>4, <1>5, <2>1, ConfirmedIsSound
  <2>3. Keeps(x, item)
    BY <1>2, <1>4, <1>5, <2>1, ConfirmedIsSound
  <2>4. x = [confirmed EXCEPT !.inbound = inbound, !.batches = b]
    BY <1>2, <1>3, <2>1 DEF Item, Confirmed
  <2>5. QED
    BY <1>1, <1>5, <2>2, <2>3, <2>4 DEF Edited
<1>6. CASE Edit(n, [confirmed EXCEPT !.inbound = quantity,
                                     !.batches = Put(@, "approved", quantity, audited)], 0)
  <2>1. PICK b : b = Put(item.batches, "approved", quantity, audited)
    OBVIOUS
  <2>2. b \in Seq(Batch) /\ (Sum(item.batches, "approved") = 0 => Sum(b, "approved") = quantity)
    BY <1>2, <2>1, PutDeliveries
  <2>3. Edit(n, [confirmed EXCEPT !.inbound = quantity, !.batches = b], 0)
    BY <1>4, <1>6, <2>1
  <2>4. QED
    BY <1>2, <1>5, <2>2, <2>3 DEF Restarts
<1>7. ASSUME NEW b, Edit(n, [confirmed EXCEPT !.batches = b], 0),
             \/ b = item.batches
             \/ \E q \in Nat : b = Put(item.batches, "pending", q, audited)
      PROVE  \E x, moved : Edited(n, x, moved)
  <2>1. b \in Seq(Batch) /\ (Sum(item.batches, "approved") = 0 => Sum(b, "approved") = 0)
    BY <1>2, <1>7, PutDeliveries
  <2>2. [confirmed EXCEPT !.batches = b] = [confirmed EXCEPT !.inbound = item.inbound, !.batches = b]
    BY <1>2, <1>3 DEF Item
  <2>3. QED
    BY <1>2, <1>5, <1>7, <2>1, <2>2 DEF Restarts
<1>8. CASE Edit(n, [confirmed EXCEPT !.batches =
                      IF Latest(item.batches) = {} THEN Put(@, "pending", quantity, audited)
                      ELSE IF quantity > item.inbound
                      THEN Put(@, "pending", quantity - item.inbound, audited) ELSE @], 0)
  <2>1. PICK b : b = IF Latest(item.batches) = {} THEN Put(item.batches, "pending", quantity, audited)
                     ELSE IF quantity > item.inbound
                     THEN Put(item.batches, "pending", quantity - item.inbound, audited)
                     ELSE item.batches
    OBVIOUS
  <2>2. Edit(n, [confirmed EXCEPT !.batches = b], 0)
    BY <1>4, <1>8, <2>1
  <2>3. \/ b = item.batches
        \/ \E q \in Nat : b = Put(item.batches, "pending", q, audited)
    <3>1. quantity > item.inbound => quantity - item.inbound \in Nat
      BY <1>2
    <3>2. QED
      BY <1>2, <2>1, <3>1
  <2>4. QED
    BY <1>7, <2>2, <2>3
<1>9. QED
  BY <1>1, <1>3, <1>6, <1>8 DEF Confirm

\* A purchase that is cancelled or deleted keeps what is said of it.
LEMMA EndedIsSound ==
  ASSUME NEW item, IsSound(item), NEW state \in {"cancelled", "deleted"},
         item.state # "deleted", NEW x, x = [item EXCEPT !.state = state]
  PROVE  IsSound(x) /\ Keeps(x, item)
<1>1. item \in Item
  BY DEF IsSound
<1>2. /\ x \in Item /\ x.inbound = item.inbound /\ x.batches = item.batches
      /\ x.links = item.links /\ x.product = item.product /\ x.state = state
      /\ x.valued = item.valued /\ x.reversed = item.reversed /\ x.restarted = item.restarted
  BY <1>1 DEF Item
<1>3. Linked(x) = Linked(item)
  BY <1>2 DEF Linked
<1>4. (IsCounted(x) => IsCounted(item)) /\ (IsPriced(x) => IsPriced(item))
  BY <1>2, <1>3 DEF IsCounted, IsPriced
<1>5. QED
  BY <1>2, <1>3, <1>4 DEF IsSound, Keeps

LEMMA EndEdits ==
  ASSUME RowsInv(rows), NEW n \in DOMAIN rows.items, CancelPurchase(n) \/ DeletePurchase(n)
  PROVE  \E x, moved : Edited(n, x, moved)
<1>1. PICK item : item = rows.items[n]
  OBVIOUS
<1>2. IsSound(item) /\ item.batches \in Seq(Batch)
  BY <1>1, RowsFields, ItemFields
<1>3. PICK came : came = With(item, "approved")
  OBVIOUS
<1>4. PICK posted : posted = Total([i \in came |-> item.batches[i].posted], came)
  OBVIOUS
<1>5. posted \in Nat
  <2>1. came \in SUBSET DOMAIN item.batches
    BY <1>3 DEF With
  <2>2. IsFiniteSet(came)
    BY <1>2, <2>1, DeliveredQuantities
  <2>3. \A i \in came : item.batches[i].posted \in Nat
    <3>1. \A i \in came : item.batches[i] \in Batch
      BY <1>2, <2>1
    <3>2. QED
      BY <3>1 DEF Batch
  <2>4. [i \in came |-> item.batches[i].posted] \in [came -> Nat]
    BY <2>3
  <2>5. QED
    BY <1>4, <2>2, <2>4, TotalIsNat
<1>6. PICK state \in {"cancelled", "deleted"}, moved \in Int :
        Edit(n, [item EXCEPT !.state = state], moved)
  <2>1. CASE CancelPurchase(n)
    BY <1>1, <2>1 DEF CancelPurchase
  <2>2. CASE DeletePurchase(n)
    <3>1. Edit(n, [item EXCEPT !.state = "deleted"], - posted)
      BY <1>1, <1>3, <1>4, <2>2 DEF DeletePurchase
    <3>2. - posted \in Int
      BY <1>5
    <3>3. QED
      BY <3>1, <3>2
  <2>3. QED
    BY <2>1, <2>2
<1>7. PICK x : x = [item EXCEPT !.state = state]
  OBVIOUS
<1>8. item.state # "deleted"
  BY <1>1, <1>6 DEF Edit
<1>9. IsSound(x) /\ Keeps(x, item)
  BY <1>2, <1>7, <1>8, EndedIsSound
<1>10. QED
  BY <1>1, <1>6, <1>7, <1>9 DEF Edited

\* Everything the pages do is such an edit.
LEMMA PagesEdit ==
  ASSUME RowsInv(rows), OnDeliveries \/ OnPurchases
  PROVE  \E n, x, moved : Edited(n, x, moved)
<1>1. CASE OnDeliveries
  <2>0. PICK n \in DOMAIN rows.items : \E i \in DOMAIN rows.items[n].batches :
          \/ \E quantity, total \in Quantities : Receive(n, i, quantity, total)
          \/ \E status \in {"pending", "approved", "cancelled"} : SetStatus(n, i, status)
          \/ DeleteReceipt(n, i)
    BY <1>1 DEF OnDeliveries
  <2>1. PICK i \in DOMAIN rows.items[n].batches :
          \/ \E quantity, total \in Quantities : Receive(n, i, quantity, total)
          \/ \E status \in {"pending", "approved", "cancelled"} : SetStatus(n, i, status)
          \/ DeleteReceipt(n, i)
    BY <2>0
  <2>2. rows.items[n].batches[i].audited \in BOOLEAN
    <3>1. rows.items[n].batches \in Seq(Batch)
      BY RowsFields, ItemFields
    <3>2. rows.items[n].batches[i] \in Batch
      BY <3>1
    <3>3. QED
      BY <3>2 DEF Batch
  <2>3. CASE \E quantity, total \in Quantities : Receive(n, i, quantity, total)
    BY <2>3, ReceiveEdits
  <2>4. CASE \E status \in {"pending", "approved", "cancelled"} : SetStatus(n, i, status)
    <3>1. PICK status \in {"pending", "approved", "cancelled"} : SetStatus(n, i, status)
      BY <2>4
    <3>2. PICK audited \in MayName(rows.items[n].batches[i].audited) : Restate(n, i, status, audited)
      BY <3>1 DEF SetStatus
    <3>3. audited \in BOOLEAN
      BY <2>2, <3>2 DEF MayName
    <3>4. QED
      BY <3>2, <3>3, RestateEdits
  <2>5. CASE DeleteReceipt(n, i)
    BY <2>2, <2>5, RestateEdits DEF DeleteReceipt
  <2>6. QED
    BY <2>1, <2>3, <2>4, <2>5
<1>2. CASE OnPurchases
  <2>1. PICK n \in DOMAIN rows.items :
          \/ \E valued \in BOOLEAN :
               \/ UpdatePurchase(n, valued)
               \/ \E quantity \in Quantities, audited \in BOOLEAN :
                    Confirm(n, quantity, valued, audited)
          \/ CancelPurchase(n) \/ DeletePurchase(n)
    BY <1>2 DEF OnPurchases
  <2>2. QED
    BY <2>1, UpdateEdits, ConfirmEdits, EndEdits
<1>3. QED
  BY <1>1, <1>2
-----------------------------------------------------------------------------
\* The rows are sound, the windows hold drafts and nobody's transaction is under
\* way between two steps.
PInv ==
  /\ RowsInv(rows)
  /\ drafts = [d \in Drafts |-> drafts[d]]
  /\ \A d \in Drafts : drafts[d] # NoDraft => IsDraft(drafts[d])
  /\ session = [s \in Sessions |-> NoSession]

LEMMA PurchasesStep ==
  ASSUME PInv, [SerialNext]_pvars
  PROVE  PInv'
<1> USE DEF PInv
<1>1. CASE UNCHANGED pvars
  BY <1>1 DEF pvars, RowsInv
<1>2. ASSUME RowsInv(rows'), session' = session,
             drafts' = drafts \/ \E d \in Drafts : drafts' = [drafts EXCEPT ![d] = NoDraft]
      PROVE  PInv'
  <2>1. \A d \in Drafts : drafts'[d] # NoDraft => drafts'[d] = drafts[d]
    BY <1>2
  <2>2. drafts' = [d \in Drafts |-> drafts'[d]]
    BY <1>2
  <2>3. \A d \in Drafts : drafts'[d] # NoDraft => IsDraft(drafts'[d])
    BY <2>1
  <2>4. QED
    BY <1>2, <2>2, <2>3
<1>3. ASSUME NEW p \in Products, Order(p) \/ Ship(p)
      PROVE  PInv'
  <2>1. drafts' = drafts /\ session' = session
    BY <1>3 DEF Order, Ship
  <2>2. QED
    BY <1>2, <1>3, <2>1, OrderKeepsRows
<1>4. CASE OnDeliveries \/ OnPurchases
  <2>1. PICK n, x, moved : Edited(n, x, moved)
    BY <1>4, PagesEdit
  <2>2. RowsInv(rows') /\ drafts' = drafts /\ session' = session
    BY <2>1, EditedRows
  <2>3. QED
    BY <1>2, <2>2
<1>5. ASSUME NEW d \in Drafts, NEW body \in Body, Preview(d, body)
      PROVE  PInv'
  <2>1. PICK x : x = [body |-> body,
                      revision |-> [p \in Touched(body) |-> rows.revision[p]],
                      promised |-> [p \in Touched(body) |-> rows.stock[p] + Moved(rows, body)[p]]]
    OBVIOUS
  <2>2. /\ rows' = rows /\ session' = session /\ drafts' = [drafts EXCEPT ![d] = x]
        /\ Accepts(rows, body)
    BY <1>5, <2>1 DEF Preview
  <2>3. /\ [p \in Touched(body) |-> rows.revision[p]] \in [Touched(body) -> Nat]
        /\ [p \in Touched(body) |-> rows.stock[p] + Moved(rows, body)[p]] \in [Touched(body) -> Int]
    BY <2>2, MovedIsInt
  <2>4. IsDraft(x)
    BY <2>1, <2>3 DEF IsDraft
  <2>5. QED
    BY <2>2, <2>4 DEF RowsInv
<1>6. ASSUME NEW body \in Body, Correct(body)
      PROVE  PInv'
  <2>1. /\ rows' = Written(rows, rows, body) /\ IsBounded(rows') /\ Accepts(rows, body)
        /\ drafts' = drafts /\ session' = session
    BY <1>6 DEF Correct
  <2>2. QED
    BY <1>2, <2>1, CorrectionKeepsRows DEF IsBounded
<1>7. ASSUME NEW d \in Drafts, Apply(d)
      PROVE  PInv'
  <2>1. drafts' = [drafts EXCEPT ![d] = NoDraft] /\ session' = session /\ drafts[d] # NoDraft
    BY <1>7 DEF Apply, Carries
  <2>2. CASE rows' = rows
    BY <1>2, <2>1, <2>2 DEF RowsInv
  <2>3. CASE /\ Accepts(rows, drafts[d].body) /\ IsBounded(rows')
             /\ rows' = Written(rows, rows, drafts[d].body)
    <3>1. PICK body \in Body : body = drafts[d].body
      BY <2>1 DEF IsDraft
    <3>2. QED
      BY <1>2, <2>1, <2>3, <3>1, CorrectionKeepsRows DEF IsBounded
  <2>4. QED
    BY <1>7, <2>2, <2>3 DEF Apply, Carries
<1>8. QED
  BY <1>1, <1>3, <1>4, <1>5, <1>6, <1>7 DEF SerialNext, Prepare, Somebody, Trade

LEMMA PurchasesInvariant == SerialSpec => []PInv
<1>1. PInit => PInv
  <2> SUFFICES ASSUME PInit
               PROVE  PInv
    OBVIOUS
  <2>1. /\ rows = [stock |-> [p \in Products |-> 0], demand |-> [p \in Products |-> 0],
                   counted |-> [p \in Products |-> FALSE], revision |-> [p \in Products |-> 0],
                   items |-> << >>, tasks |-> << >>]
        /\ drafts = [d \in Drafts |-> NoDraft] /\ session = [s \in Sessions |-> NoSession]
    BY DEF PInit
  <2>2. << >> \in Seq(Item) /\ << >> \in Seq(Task) /\ Len(<< >>) = 0 /\ DOMAIN << >> = {}
    OBVIOUS
  <2>3. PICK counted \in [Products -> BOOLEAN] : counted = [p \in Products |-> FALSE]
    OBVIOUS
  <2>4. IsCovered(<< >>, << >>)
    BY <2>2, ProcurementAssumption DEF IsCovered
  <2>5. RowsInv(rows)
    BY <2>1, <2>2, <2>3, <2>4 DEF RowsInv, Rows
  <2>6. QED
    BY <2>1, <2>5 DEF PInv
<1>2. QED
  BY <1>1, PurchasesStep, PTL DEF SerialSpec

\* Rows and windows keep their shape and no quantity falls below zero, with any
\* products, persons and quantities: the variables of the ledger have their types.
THEOREM ProcurementTypeCorrect == SerialSpec => []PTypeOK
<1>1. PInv => PTypeOK
  BY DEF PInv, PTypeOK, RowsInv
<1>2. QED
  BY <1>1, PurchasesInvariant, PTL

\* What a purchase counts as received is what its deliveries brought, unless it was
\* restarted or is gone: receipts, revisions and the pages, of any quantities.
THEOREM ReceiptsStayCounted == SerialSpec => []ReceiptsAreCounted
<1>1. PInv => ReceiptsAreCounted
  <2> SUFFICES ASSUME PInv, NEW n \in DOMAIN rows.items, NEW item, item = rows.items[n],
                      item.state # "deleted" /\ ~item.restarted
               PROVE  item.inbound = Received(item)
    BY DEF ReceiptsAreCounted
  <2>1. IsSound(item) /\ item \in Item
    BY RowsFields DEF PInv
  <2>2. Received(item) = Sum(item.batches, "approved")
    BY <2>1, ItemFields
  <2>3. QED
    BY <2>1, <2>2 DEF IsSound, IsCounted
<1>2. QED
  BY <1>1, PurchasesInvariant, PTL

\* Pieces that explain the cost of counted stock were received and have a price,
\* unless a page took something of their purchase back, and no task is explained
\* twice, whatever is corrected and edited afterwards.
THEOREM CostsStayCovered == SerialSpec => []CostsAreCovered
<1>1. PInv => CostsAreCovered
  <2> SUFFICES ASSUME PInv
               PROVE  CostsAreCovered
    OBVIOUS
  <2>1. \A n \in DOMAIN rows.items :
          LET item == rows.items[n] IN
          Linked(item) > 0 /\ item.state # "deleted" /\ ~item.reversed /\ ~item.restarted =>
            Linked(item) <= Received(item) /\ item.valued
    <3>1. TAKE n \in DOMAIN rows.items
    <3>2. IsSound(rows.items[n]) /\ rows.items[n] \in Item
      BY RowsFields DEF PInv
    <3>3. Received(rows.items[n]) = Sum(rows.items[n].batches, "approved")
      BY <3>2, ItemFields
    <3>4. QED
      BY <3>2, <3>3 DEF IsSound, IsPriced, IsCounted
  <2>2. \A t \in DOMAIN rows.tasks : /\ rows.tasks[t].resolved = Links(rows.items, t)
                                     /\ rows.tasks[t].resolved <= rows.tasks[t].quantity
    BY DEF PInv, RowsInv, IsCovered
  <2>3. QED
    BY <2>1, <2>2 DEF CostsAreCovered, Links
<1>2. QED
  BY <1>1, PurchasesInvariant, PTL

\* Only applying a draft takes it out of its window and changes rows.
LEMMA OnlyApplies ==
  ASSUME PInv, [SerialNext]_pvars, NEW d \in Drafts, drafts[d] # NoDraft,
         drafts'[d] = NoDraft, rows' # rows
  PROVE  /\ drafts[d].body \in Body /\ IsCurrent(rows, drafts[d])
         /\ Accepts(rows, drafts[d].body) /\ rows' = Written(rows, rows, drafts[d].body)
<1>1. ~Trade
  <2>1. \A p \in Products : ~(Order(p) \/ Ship(p))
    BY DEF Order, Ship
  <2>2. ~(OnDeliveries \/ OnPurchases)
    BY PagesEdit, EditedRows DEF PInv
  <2>3. QED
    BY <2>1, <2>2 DEF Trade
<1>2. \A c \in Drafts, b \in Body : ~Preview(c, b)
  BY DEF Preview
<1>3. \A b \in Body : ~Correct(b)
  BY DEF Correct
<1>4. \A c \in Drafts \ {d} : ~Apply(c)
  BY DEF PInv, Apply, Carries
<1>5. Apply(d)
  BY <1>1, <1>2, <1>3, <1>4 DEF SerialNext, Prepare, Somebody, pvars
<1>6. drafts[d].body \in Body
  BY DEF PInv, IsDraft
<1>7. QED
  BY <1>5, <1>6 DEF Apply, Carries

\* Whatever the pages left of a purchase, a revision to any quantity makes what came
\* and what is due add up to it.
THEOREM RevisionsKeepAddingUp == SerialSpec => RevisionsAddUp
<1>1. ASSUME PInv, [SerialNext]_pvars
      PROVE  [\A d \in Drafts : drafts[d] # NoDraft /\ drafts'[d] = NoDraft /\ rows' # rows
                                /\ drafts[d].body.type = "revise_purchase" =>
               LET body == drafts[d].body  item == rows'.items[body.item] IN
               item.actual = body.quantity /\ Received(item) + Pending(item) = body.quantity]_pvars
  <2> SUFFICES ASSUME NEW d \in Drafts, drafts[d] # NoDraft, drafts'[d] = NoDraft, rows' # rows,
                      drafts[d].body.type = "revise_purchase"
               PROVE  AddsUpTo(rows'.items[drafts[d].body.item], drafts[d].body.quantity)
    BY DEF AddsUpTo
  <2>1. PICK body \in Body : body = drafts[d].body
    BY <1>1, OnlyApplies
  <2>2. Accepts(rows, body) /\ rows' = Written(rows, rows, body)
    BY <1>1, <2>1, OnlyApplies
  <2>3. AddsUpTo(Items(rows, rows, body)[body.item], body.quantity)
    BY <1>1, <2>1, <2>2, RevisionCovers DEF PInv
  <2>4. rows'.items = Items(rows, rows, body)
    BY <2>2 DEF Written
  <2>5. QED
    BY <2>1, <2>3, <2>4
<1>2. QED
  BY <1>1, PurchasesInvariant, PTL DEF SerialSpec, RevisionsAddUp
-----------------------------------------------------------------------------
\* A draft knows no revision to come, a purchase it corrects exists, and while its
\* revisions are the current ones, its promise is what its plan would do.
Honest(r, x) ==
  /\ x.body \in Body
  /\ \A p \in Touched(x.body) : x.revision[p] \in Nat /\ x.revision[p] <= r.revision[p]
  /\ x.body.type = "revise_purchase" =>
       x.body.item \in DOMAIN r.items /\ r.items[x.body.item].product = x.body.product
  /\ IsCurrent(r, x) => \A p \in Touched(x.body) :
       x.promised[p] = r.stock[p] + Moved(r, x.body)[p]

AllHonest == \A d \in Drafts : drafts[d] # NoDraft => Honest(rows, drafts[d])

\* Changes of other products leave a plan alone; changes of its own make its
\* draft stale.
LEMMA StaysHonest ==
  ASSUME NEW r, NEW q, NEW S, RowsInv(r), RowsInv(q), Changes(r, q, S),
         NEW x, Honest(r, x)
  PROVE  Honest(q, x)
<1>0. PICK body \in Body : body = x.body
  BY DEF Honest
<1>1. /\ body.product \in Touched(body) /\ Touched(body) \subseteq Products
      /\ body.type \in {"record", "receive_and_count", "stocktake", "loss", "convert",
                        "link_stock_cost", "revise_purchase"}
  BY TouchedAreProducts
<1>2. \A p \in Touched(body) : /\ x.revision[p] \in Nat /\ x.revision[p] <= r.revision[p]
                               /\ r.revision[p] \in Nat /\ q.revision[p] \in Nat
                               /\ r.revision[p] <= q.revision[p]
  <2>1. r.revision \in [Products -> Nat] /\ q.revision \in [Products -> Nat]
    BY RowsFields
  <2>2. QED
    BY <1>0, <1>1, <2>1 DEF Honest, Changes
<1>3. \A p \in Touched(body) : x.revision[p] <= q.revision[p]
  BY <1>2
<1>4. body.type = "revise_purchase" =>
        body.item \in DOMAIN q.items /\ q.items[body.item].product = body.product
  BY <1>0 DEF Honest, Changes
<1>5. ASSUME IsCurrent(q, x)
      PROVE  \A p \in Touched(body) : x.promised[p] = q.stock[p] + Moved(q, body)[p]
  <2>1. \A p \in Touched(body) : x.revision[p] = r.revision[p] /\ p \notin S
    BY <1>0, <1>2, <1>5 DEF IsCurrent, Changes
  <2>2. \A p \in Touched(body) : q.stock[p] = r.stock[p]
    BY <1>1, <2>1 DEF Changes
  <2>3. body.type = "revise_purchase" => q.items[body.item] = r.items[body.item]
    BY <1>0, <1>1, <2>1 DEF Honest, Changes
  <2>4. Delta(q, body) = Delta(r, body)
    BY <1>1, <2>2, <2>3 DEF Delta
  <2>5. Moved(q, body) = Moved(r, body)
    BY <2>4 DEF Moved
  <2>6. IsCurrent(r, x)
    BY <1>0, <2>1 DEF IsCurrent
  <2>7. QED
    BY <1>0, <2>2, <2>5, <2>6 DEF Honest
<1>6. QED
  BY <1>0, <1>2, <1>3, <1>4, <1>5 DEF Honest

\* A correction changes the products it touches.
LEMMA CorrectionChanges ==
  ASSUME NEW r, RowsInv(r), NEW body \in Body, Accepts(r, body),
         NEW q, q = Written(r, r, body)
  PROVE  Changes(r, q, Touched(body))
<1>1. /\ body.product \in Touched(body) /\ Touched(body) \subseteq Products
      /\ body.type \in {"record", "receive_and_count", "stocktake", "loss", "convert",
                        "link_stock_cost", "revise_purchase"}
  BY TouchedAreProducts
<1>2. /\ r.revision \in [Products -> Nat] /\ r.items \in Seq(Item)
      /\ \A n \in DOMAIN r.items : r.items[n] \in Item
  BY RowsFields
<1>3. /\ q.stock = [p \in Products |-> IF p \in Touched(body) THEN r.stock[p] + Moved(r, body)[p]
                                      ELSE r.stock[p]]
      /\ q.revision = Bumped(r, Touched(body)) /\ q.items = Items(r, r, body)
  BY DEF Written
<1>4. /\ \A p \in Products : q.revision[p] >= r.revision[p]
      /\ \A p \in Touched(body) : q.revision[p] > r.revision[p]
  BY <1>1, <1>2, <1>3 DEF Bumped
<1>5. \A p \in Products \ Touched(body) : q.stock[p] = r.stock[p]
  BY <1>3
<1>6. ASSUME NEW n \in DOMAIN r.items, NEW x, x.product = r.items[n].product,
             r.items[n].product \in Touched(body), q.items = [r.items EXCEPT ![n] = x]
      PROVE  \A m \in DOMAIN r.items :
               /\ m \in DOMAIN q.items /\ q.items[m].product = r.items[m].product
               /\ r.items[m].product \notin Touched(body) => q.items[m] = r.items[m]
  BY <1>2, <1>6
<1>7. \A n \in DOMAIN r.items :
        /\ n \in DOMAIN q.items /\ q.items[n].product = r.items[n].product
        /\ r.items[n].product \notin Touched(body) => q.items[n] = r.items[n]
  <2>1. CASE body.type = "record"
    <3>1. PICK x : x = Purchase(body) /\ q.items = Append(r.items, x)
      BY <1>3, <2>1 DEF Items
    <3>2. IsSound(x)
      BY <2>1, <3>1, PurchaseIsSound DEF Accepts
    <3>3. \A n \in DOMAIN r.items : n \in DOMAIN q.items /\ q.items[n] = r.items[n]
      BY <1>2, <3>1, <3>2 DEF IsSound
    <3>4. QED
      BY <3>3
  <2>2. CASE body.type \in {"receive_and_count", "link_stock_cost", "revise_purchase"}
    <3>1. PICK n : n = body.item /\ n \in DOMAIN r.items /\ r.items[n].product = body.product
      BY <2>2 DEF Accepts, IsItem
    <3>2. PICK item \in Item : item = r.items[n]
      BY <1>2, <3>1
    <3>3. PICK x : q.items = [r.items EXCEPT ![n] = x] /\ x.product = item.product
      <4>1. CASE body.type = "receive_and_count"
        <5>1. PICK b, came : /\ b = ReceivedInto(item.batches, body.batch, body.quantity,
                                       item.batches[body.batch].quantity, TRUE)
                             /\ came = item.inbound + body.quantity
          OBVIOUS
        <5>2. PICK x : x = [item EXCEPT !.inbound = came, !.batches = b]
          OBVIOUS
        <5>3. q.items = [r.items EXCEPT ![n] = x]
          BY <1>3, <3>1, <3>2, <4>1, <5>1, <5>2 DEF Items, CameIn
        <5>4. x.product = item.product
          BY <5>2 DEF Item
        <5>5. QED
          BY <5>3, <5>4
      <4>2. CASE body.type = "link_stock_cost"
        <5>1. PICK links : links = [item.links EXCEPT ![body.task] = @ + body.quantity]
          OBVIOUS
        <5>2. PICK x : x = [item EXCEPT !.links = links]
          OBVIOUS
        <5>3. q.items = [r.items EXCEPT ![n] = x]
          BY <1>3, <3>1, <3>2, <4>2, <5>1, <5>2 DEF Items
        <5>4. x.product = item.product
          BY <5>2 DEF Item
        <5>5. QED
          BY <5>3, <5>4
      <4>3. CASE body.type = "revise_purchase"
        <5>1. PICK b, came : /\ b = Corrected(item, body.quantity)
                             /\ came = StillReceived(item, body.quantity)
          OBVIOUS
        <5>2. PICK x : x = [item EXCEPT !.actual = body.quantity, !.inbound = came,
                                        !.valued = body.valued, !.batches = b]
          OBVIOUS
        <5>3. q.items = [r.items EXCEPT ![n] = x]
          BY <1>3, <3>1, <3>2, <4>3, <5>1, <5>2 DEF Items
        <5>4. x.product = item.product
          BY <5>2 DEF Item
        <5>5. QED
          BY <5>3, <5>4
      <4>4. QED
        BY <2>2, <4>1, <4>2, <4>3
    <3>4. QED
      BY <1>1, <1>6, <3>1, <3>2, <3>3
  <2>3. CASE body.type \in {"stocktake", "loss", "convert"}
    BY <1>3, <2>3 DEF Items
  <2>4. QED
    BY <1>1, <2>1, <2>2, <2>3
<1>8. QED
  BY <1>4, <1>5, <1>7 DEF Changes

\* Orders, shipments and the pages change their product.
LEMMA TradeChanges ==
  ASSUME RowsInv(rows), Trade
  PROVE  /\ RowsInv(rows') /\ drafts' = drafts
         /\ \E S \in SUBSET Products : Changes(rows, rows', S)
<1>1. /\ rows.revision \in [Products -> Nat] /\ rows.stock \in [Products -> Int]
      /\ rows.items \in Seq(Item)
  BY RowsFields
<1>2. CASE \E p \in Products : Order(p) \/ Ship(p)
  <2>1. PICK p \in Products : Order(p) \/ Ship(p)
    BY <1>2
  <2>2. /\ drafts' = drafts /\ rows'.items = rows.items
        /\ rows'.revision = [rows.revision EXCEPT ![p] = @ + 1]
        /\ \/ rows'.stock = rows.stock
           \/ rows'.stock = [rows.stock EXCEPT ![p] = @ - 1]
    BY <2>1 DEF Order, Ship, RowsInv, Rows
  <2>3. Changes(rows, rows', {p})
    <3>1. \A q \in Products \ {p} : rows'.stock[q] = rows.stock[q]
      BY <1>1, <2>2
    <3>2. (\A q \in Products : rows'.revision[q] >= rows.revision[q])
            /\ rows'.revision[p] > rows.revision[p]
      BY <1>1, <2>2
    <3>3. QED
      BY <2>2, <3>1, <3>2 DEF Changes
  <2>4. QED
    BY <2>1, <2>2, <2>3, OrderKeepsRows
<1>3. CASE OnDeliveries \/ OnPurchases
  <2>1. PICK n, x, moved : Edited(n, x, moved)
    BY <1>3, PagesEdit
  <2>2. RowsInv(rows') /\ drafts' = drafts
    BY <2>1, EditedRows
  <2>3. x.product \in Products /\ Changes(rows, rows', {x.product})
    BY <2>1, EditedRows
  <2>4. QED
    BY <2>2, <2>3
<1>4. QED
  BY <1>2, <1>3 DEF Trade

\* Every step changes some products, and a draft that is left alone stays honest.
LEMMA HonestStep ==
  ASSUME PInv, PInv', AllHonest, [SerialNext]_pvars
  PROVE  AllHonest'
<1> USE DEF PInv, AllHonest
<1>1. CASE UNCHANGED pvars
  BY <1>1 DEF pvars
<1>2. ASSUME NEW d \in Drafts, NEW body \in Body, Preview(d, body)
      PROVE  AllHonest'
  <2>1. PICK x : x = [body |-> body,
                      revision |-> [p \in Touched(body) |-> rows.revision[p]],
                      promised |-> [p \in Touched(body) |-> rows.stock[p] + Moved(rows, body)[p]]]
    OBVIOUS
  <2>2. rows' = rows /\ drafts' = [drafts EXCEPT ![d] = x] /\ Accepts(rows, body)
    BY <1>2, <2>1 DEF Preview
  <2>3. \A p \in Touched(body) : rows.revision[p] \in Nat
    BY <2>2, MovedIsInt
  <2>4. body.type = "revise_purchase" =>
          body.item \in DOMAIN rows.items /\ rows.items[body.item].product = body.product
    BY <2>2 DEF Accepts, IsItem
  <2>5. Honest(rows, x)
    BY <2>1, <2>3, <2>4 DEF Honest
  <2>6. QED
    BY <2>2, <2>5
<1>3. ASSUME NEW S, Changes(rows, rows', S),
             drafts' = drafts \/ \E d \in Drafts : drafts' = [drafts EXCEPT ![d] = NoDraft]
      PROVE  AllHonest'
  <2>1. \A d \in Drafts : drafts'[d] # NoDraft => drafts'[d] = drafts[d]
    BY <1>3
  <2>2. \A d \in Drafts : drafts'[d] # NoDraft => Honest(rows', drafts'[d])
    BY <1>3, <2>1, StaysHonest
  <2>3. QED
    BY <2>2
<1>4. CASE Trade
  BY <1>3, <1>4, TradeChanges
<1>5. ASSUME NEW body \in Body, Correct(body)
      PROVE  AllHonest'
  <2>1. rows' = Written(rows, rows, body) /\ drafts' = drafts /\ Accepts(rows, body)
    BY <1>5 DEF Correct
  <2>2. QED
    BY <1>3, <2>1, CorrectionChanges
<1>6. ASSUME NEW d \in Drafts, Apply(d)
      PROVE  AllHonest'
  <2>1. drafts' = [drafts EXCEPT ![d] = NoDraft] /\ drafts[d] # NoDraft
    BY <1>6 DEF Apply, Carries
  <2>2. CASE rows' = rows
    <3>1. Changes(rows, rows', {})
      <4>1. rows.revision \in [Products -> Nat]
        BY RowsFields
      <4>2. QED
        BY <2>2, <4>1 DEF Changes
    <3>2. QED
      BY <1>3, <2>1, <3>1
  <2>3. CASE Accepts(rows, drafts[d].body) /\ rows' = Written(rows, rows, drafts[d].body)
    <3>1. PICK body \in Body : body = drafts[d].body
      BY <2>1 DEF IsDraft
    <3>2. QED
      BY <1>3, <2>1, <2>3, <3>1, CorrectionChanges
  <2>4. QED
    BY <1>6, <2>2, <2>3 DEF Apply, Carries
<1>7. QED
  BY <1>1, <1>2, <1>4, <1>5, <1>6 DEF SerialNext, Prepare, Somebody

LEMMA DraftsStayHonest == SerialSpec => [](PInv /\ AllHonest)
<1>1. PInit => AllHonest
  BY DEF PInit, AllHonest
<1>2. QED
  BY <1>1, HonestStep, PurchasesInvariant, PTL DEF SerialSpec

\* A correction does to the stock what its preview promised, for any number of
\* people, products and changes between.
THEOREM CorrectionsKeepTheirPromise == SerialSpec => AppliedAsPreviewed
<1>1. ASSUME PInv /\ AllHonest, [SerialNext]_pvars
      PROVE  [\A d \in Drafts : drafts[d] # NoDraft /\ drafts'[d] = NoDraft /\ rows' # rows =>
                \A p \in Touched(drafts[d].body) : rows'.stock[p] = drafts[d].promised[p]]_pvars
  <2> SUFFICES ASSUME NEW d \in Drafts, drafts[d] # NoDraft, drafts'[d] = NoDraft, rows' # rows,
                      NEW p \in Touched(drafts[d].body)
               PROVE  rows'.stock[p] = drafts[d].promised[p]
    OBVIOUS
  <2>1. PICK body \in Body : body = drafts[d].body
    BY <1>1, OnlyApplies
  <2>2. IsCurrent(rows, drafts[d]) /\ rows' = Written(rows, rows, body)
    BY <1>1, <2>1, OnlyApplies
  <2>3. drafts[d].promised[p] = rows.stock[p] + Moved(rows, body)[p]
    BY <1>1, <2>1, <2>2 DEF AllHonest, Honest
  <2>4. p \in Products
    BY <2>1, TouchedAreProducts
  <2>5. rows'.stock[p] = rows.stock[p] + Moved(rows, body)[p]
    BY <2>1, <2>2, <2>4 DEF Written
  <2>6. QED
    BY <2>3, <2>5
<1>2. QED
  BY <1>1, DraftsStayHonest, PTL DEF SerialSpec, AppliedAsPreviewed
=============================================================================
