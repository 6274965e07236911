----------------------------- MODULE MCTwoPhase -----------------------------
(* Small instances of TwoPhase: two orders that compete for one item, bought *)
(* in quantities that one stock cannot serve both of, or can.                *)
EXTENDS TwoPhase

CONSTANTS g1, g2, Stock

MCItemOf == [g \in Gid |-> CHOOSE i \in Item : TRUE]
MCQty == [g \in Gid |-> IF g = g1 THEN 2 ELSE 1]
MCInitStock == [i \in Item |-> Stock]
=============================================================================
