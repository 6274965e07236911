----------------------------- MODULE OrderDesk -----------------------------
(***************************************************************************)
(* What the two asynchronous order modes promise, as one desk that never   *)
(* repeats itself: an order is placed once, the stock answers it once, and *)
(* an order that was placed "pending" is told that answer once.            *)
(* Messaging.tla, with its pollers, retries, duplicates and crashes,       *)
(* implements this module (Messaging!RefinesDesk).                         *)
(***************************************************************************)
EXTENDS Integers

CONSTANTS
  Order,
  Qty,                      \* the quantity each order takes
  InitStock

VARIABLES
  status,                   \* orders.status
  verdict,                  \* what the stock answered
  stock

vars == <<status, verdict, stock>>

Init ==
  /\ status = [m \in Order |-> "none"]
  /\ verdict = [m \in Order |-> "none"]
  /\ stock = InitStock

\* An outbox order is confirmed from the start: its stock is taken later.
Place(m) ==
  /\ status[m] = "none"
  /\ status' \in {[status EXCEPT ![m] = s] : s \in {"confirmed", "pending"}}
  /\ UNCHANGED <<verdict, stock>>

\* The stock of an order already confirmed is taken, however little is left.
Apply(m) ==
  /\ status[m] = "confirmed" /\ verdict[m] = "none"
  /\ verdict' = [verdict EXCEPT ![m] = "applied"]
  /\ stock' = stock - Qty[m]
  /\ UNCHANGED status

Reserve(m) ==
  /\ status[m] = "pending" /\ verdict[m] = "none" /\ stock >= Qty[m]
  /\ verdict' = [verdict EXCEPT ![m] = "reserved"]
  /\ stock' = stock - Qty[m]
  /\ UNCHANGED status

Reject(m) ==
  /\ status[m] = "pending" /\ verdict[m] = "none" /\ stock < Qty[m]
  /\ verdict' = [verdict EXCEPT ![m] = "rejected"]
  /\ UNCHANGED <<status, stock>>

Tell(m) ==
  /\ status[m] = "pending" /\ verdict[m] # "none"
  /\ status' = [status EXCEPT ![m] = IF verdict[m] = "reserved" THEN "confirmed" ELSE "cancelled"]
  /\ UNCHANGED <<verdict, stock>>

Next == \E m \in Order : Place(m) \/ Apply(m) \/ Reserve(m) \/ Reject(m) \/ Tell(m)

Spec == Init /\ [][Next]_vars

\* The orders whose stock was taken.
Supplied == {m \in Order : verdict[m] \in {"applied", "reserved"}}
=============================================================================
