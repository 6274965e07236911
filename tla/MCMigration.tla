---------------------------- MODULE MCMigration ----------------------------
(* Small instances of Migration: orders that one stock cannot serve all of.  *)
EXTENDS Migration, TLC

CONSTANT o1

MCQty == [o \in Order |-> IF o = o1 THEN 2 ELSE 1]
=============================================================================
