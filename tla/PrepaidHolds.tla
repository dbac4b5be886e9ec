----------------------------- MODULE PrepaidHolds -----------------------------
(***************************************************************************)
(* What the AI points promise an enterprise, whatever tasks, attempts,     *)
(* receipts and ledger lines the implementation keeps: points are paid in, *)
(* an order freezes some of the free ones, and is closed once, for at most *)
(* what it froze; the rest is free again.                                  *)
(***************************************************************************)
EXTENDS Integers

CONSTANTS Orders, MaxPoints

VARIABLES
  free,   \* points the enterprise can still spend
  hold    \* per order: how far it got, what it froze and what it cost

vars == <<free, hold>>

Init ==
  /\ free = 0
  /\ hold = [o \in Orders |-> [state |-> "absent", frozen |-> 0, cost |-> 0]]

Pay(points) ==
  /\ free' = free + points
  /\ UNCHANGED hold

Freeze(o, points) ==
  /\ hold[o].state = "absent"
  /\ points <= free
  /\ free' = free - points
  /\ hold' = [hold EXCEPT ![o] = [state |-> "open", frozen |-> points, cost |-> 0]]

Close(o, cost) ==
  /\ hold[o].state = "open"
  /\ cost <= hold[o].frozen
  /\ free' = free + hold[o].frozen - cost
  /\ hold' = [hold EXCEPT ![o].state = "closed", ![o].cost = cost]

Next ==
  \/ \E points \in 1 .. MaxPoints : Pay(points)
  \/ \E o \in Orders, points \in 0 .. MaxPoints : Freeze(o, points)
  \/ \E o \in Orders, cost \in 0 .. MaxPoints : Close(o, cost)

Spec == Init /\ [][Next]_vars
=============================================================================
