------------------------------- MODULE Units -------------------------------
(***************************************************************************)
(* The quantity that a set of orders has in all: every order o contributes *)
(* q[o] units of its own, and the total counts them.  Counting, where a    *)
(* sum would be recursive, keeps the invariants that use it within reach   *)
(* of a proof.                                                             *)
(***************************************************************************)
EXTENDS Integers, FiniteSets

UnitsOf(q, S) == UNION {{o} \X (1..q[o]) : o \in S}

Total(q, S) == Cardinality(UnitsOf(q, S))
=============================================================================
