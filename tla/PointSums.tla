------------------------------ MODULE PointSums ------------------------------
(***************************************************************************)
(* Sums of points, or pieces, over a finite set of rows.                   *)
(*                                                                         *)
(* SQL writes SUM(column); here a sum of naturals is the number of its     *)
(* units: row x contributes the f[x] pairs <<x, 1>> .. <<x, f[x]>>.  The   *)
(* definition needs no recursion, so the facts the proofs about the points *)
(* and the purchases rest on follow from the library's theorems about      *)
(* Cardinality (PointSums_proofs).                                         *)
(***************************************************************************)
EXTENDS Integers, FiniteSets

\* The units row x holds, and those of all the rows of S.
UnitsOf(f, x) == {x} \X (1 .. f[x])
Units(f, S)   == UNION {UnitsOf(f, x) : x \in S}

\* SUM of a column of naturals.
Total(f, S) == Cardinality(Units(f, S))

\* SUM of a signed column: what came in less what went out.
Credit(f) == [x \in DOMAIN f |-> IF f[x] > 0 THEN f[x] ELSE 0]
Debit(f)  == [x \in DOMAIN f |-> IF f[x] < 0 THEN -f[x] ELSE 0]
SignedTotal(f, S) == Total(Credit(f), S) - Total(Debit(f), S)
=============================================================================
