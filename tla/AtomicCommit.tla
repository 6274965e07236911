---------------------------- MODULE AtomicCommit ----------------------------
(***************************************************************************)
(* What the two-phase commit of an order promises, with nothing of how it  *)
(* keeps the promise: an order is one transaction in the items database    *)
(* and one in the orders database, and the two never end differently.      *)
(* TwoPhase.tla is the protocol of the code; it implements this module     *)
(* when a single coordinator process runs (TwoPhase!Refines).              *)
(***************************************************************************)
CONSTANT Gid                \* the global transaction identifiers, one per order

VARIABLES
  itemsTx,                  \* state of the items-db transaction of each gid
  ordersTx                  \* state of the orders-db transaction of each gid

vars == <<itemsTx, ordersTx>>

TxState == {"working", "prepared", "committed", "aborted"}

Init ==
  /\ itemsTx  = [g \in Gid |-> "working"]
  /\ ordersTx = [g \in Gid |-> "working"]

\* A database that has promised can no longer refuse to commit.
Promised(tx, g) == tx[g] \in {"prepared", "committed"}

PrepareItems(g) ==
  /\ itemsTx[g] = "working"
  /\ itemsTx' = [itemsTx EXCEPT ![g] = "prepared"]
  /\ UNCHANGED ordersTx

PrepareOrders(g) ==
  /\ ordersTx[g] = "working"
  /\ ordersTx' = [ordersTx EXCEPT ![g] = "prepared"]
  /\ UNCHANGED itemsTx

\* One side commits only once both have promised.
CommitItems(g) ==
  /\ itemsTx[g] = "prepared" /\ Promised(ordersTx, g)
  /\ itemsTx' = [itemsTx EXCEPT ![g] = "committed"]
  /\ UNCHANGED ordersTx

CommitOrders(g) ==
  /\ ordersTx[g] = "prepared" /\ Promised(itemsTx, g)
  /\ ordersTx' = [ordersTx EXCEPT ![g] = "committed"]
  /\ UNCHANGED itemsTx

\* One side aborts only while the other has not committed.
AbortItems(g) ==
  /\ itemsTx[g] \in {"working", "prepared"} /\ ordersTx[g] # "committed"
  /\ itemsTx' = [itemsTx EXCEPT ![g] = "aborted"]
  /\ UNCHANGED ordersTx

AbortOrders(g) ==
  /\ ordersTx[g] \in {"working", "prepared"} /\ itemsTx[g] # "committed"
  /\ ordersTx' = [ordersTx EXCEPT ![g] = "aborted"]
  /\ UNCHANGED itemsTx

Next == \E g \in Gid :
  \/ PrepareItems(g) \/ PrepareOrders(g)
  \/ CommitItems(g)  \/ CommitOrders(g)
  \/ AbortItems(g)   \/ AbortOrders(g)

Spec == Init /\ [][Next]_vars

=============================================================================
