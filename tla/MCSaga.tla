------------------------------- MODULE MCSaga -------------------------------
(* Small instances of Saga: orders that compete for one stock.              *)
EXTENDS Saga

CONSTANT g1

MCQty == [g \in Gid |-> IF g = g1 THEN 2 ELSE 1]

\* Not so: a saga that is compensated holds no stock.  Its reserve may land behind
\* the release of the poller (MCSagaLate.cfg shows it).
NothingKept == \A g \in Gid : log[g] = "compensated" => reservation[g] # "held"
=============================================================================
