---------------------------- MODULE MCMessaging ----------------------------
(* Small instances of Messaging: orders whose quantities the stock serves in *)
(* some combinations and not in others.                                      *)
EXTENDS Messaging, TLC

MCQty == [m \in Order |-> IF m = 1 THEN 2 ELSE 1]

\* The executions of a poller are interchangeable (safety runs only).
MCSymmetry == Permutations(Run)
=============================================================================
