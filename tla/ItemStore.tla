----------------------------- MODULE ItemStore -----------------------------
(* What an order without a transaction (ORDER_TX_MODE=none) promises, with   *)
(* one store behind it: the stock of an order is taken at most once, a 201   *)
(* has its stock, a 409 was short of it, and only an order that ends in a    *)
(* 500 may take stock for nothing, or take it later.  Once, the operator     *)
(* replaces the stock by another.                                            *)
EXTENDS Naturals

CONSTANTS Order, Qty, InitStock

VARIABLES
  stock,
  order,          \* "spent": a 500 whose stock is gone all the same
  moved           \* the stock was replaced

vars == <<stock, order, moved>>

TypeOK ==
  /\ stock \in Nat
  /\ order \in [Order -> {"new", "taken", "created", "refused", "failed", "spent"}]
  /\ moved \in BOOLEAN

Init == stock = InitStock /\ order = [o \in Order |-> "new"] /\ moved = FALSE

Become(o, s) == order' = [order EXCEPT ![o] = s] /\ UNCHANGED moved

Take(o) ==
  /\ order[o] \in {"new", "failed"} /\ stock >= Qty[o]
  /\ stock' = stock - Qty[o]
  /\ Become(o, IF order[o] = "new" THEN "taken" ELSE "spent")

\* The stock is taken and the answer is a 500 at once.
Spend(o) ==
  /\ order[o] = "new" /\ stock >= Qty[o]
  /\ stock' = stock - Qty[o]
  /\ Become(o, "spent")

Refuse(o) ==
  /\ order[o] = "new" /\ stock < Qty[o]
  /\ Become(o, "refused") /\ UNCHANGED stock

Create(o) == order[o] = "taken" /\ Become(o, "created") /\ UNCHANGED stock

\* One order ends in a 500, or all that a dying process had under way.
Fail(os) ==
  /\ \A o \in os : order[o] \in {"new", "taken"}
  /\ order' = [o \in Order |-> IF o \notin os THEN order[o]
                               ELSE IF order[o] = "taken" THEN "spent" ELSE "failed"]
  /\ UNCHANGED <<stock, moved>>

Replace ==
  /\ ~moved /\ moved' = TRUE
  /\ stock' \in Nat
  /\ UNCHANGED order

Next ==
  \/ \E o \in Order : Take(o) \/ Spend(o) \/ Refuse(o) \/ Create(o)
  \/ \E os \in SUBSET Order : Fail(os)
  \/ Replace

Spec == Init /\ [][Next]_vars

\* The orders that were supplied, for a 201 or for nothing.
Supplied == {o \in Order : order[o] \in {"taken", "created", "spent"}}
=============================================================================
