----------------------------- MODULE SagaStore -----------------------------
(***************************************************************************)
(* What an order by the orchestrated saga promises, with one store behind  *)
(* it and nothing of logs, calls and pollers: its stock is taken at most   *)
(* once and given back at most once, a 201 has its stock and keeps it, a   *)
(* 409 was short of it and never gets it, and only an order that ends in a *)
(* 500 may hold stock for nothing, until it is given back.                 *)
(* Saga.tla implements this module, if no handler takes longer than the    *)
(* poller's threshold (Saga!RefinesStore).                                 *)
(***************************************************************************)
EXTENDS Naturals

CONSTANTS Order, Qty, InitStock

VARIABLES
  stock,
  order           \* "spent": a 500, or nothing, and the stock is taken;
                  \* "returned": a 500, and it has been given back

vars == <<stock, order>>

Init == stock = InitStock /\ order = [o \in Order |-> "new"]

Become(o, s) == order' = [order EXCEPT ![o] = s]

\* A reserve may land after its handler has died.
Take(o) ==
  /\ order[o] \in {"new", "failed"} /\ stock >= Qty[o]
  /\ stock' = stock - Qty[o]
  /\ Become(o, IF order[o] = "new" THEN "taken" ELSE "spent")

FallShort(o) ==
  /\ order[o] = "new" /\ stock < Qty[o]
  /\ Become(o, "short") /\ UNCHANGED stock

Create(o) == order[o] = "taken" /\ Become(o, "created") /\ UNCHANGED stock

Refuse(o) == order[o] = "short" /\ Become(o, "refused") /\ UNCHANGED stock

GiveBack(o) ==
  /\ order[o] \in {"taken", "spent"}
  /\ stock' = stock + Qty[o]
  /\ Become(o, "returned")

\* One order ends in a 500, or all that a dying process had under way.
Fail(os) ==
  /\ \A o \in os : order[o] \in {"new", "short", "taken"}
  /\ order' = [o \in Order |-> IF o \notin os THEN order[o]
                               ELSE IF order[o] = "taken" THEN "spent" ELSE "failed"]
  /\ UNCHANGED stock

Next ==
  \/ \E o \in Order : Take(o) \/ FallShort(o) \/ Create(o) \/ Refuse(o) \/ GiveBack(o)
  \/ \E os \in SUBSET Order : Fail(os)

Spec == Init /\ [][Next]_vars
=============================================================================
