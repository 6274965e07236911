---------------------------- MODULE WriteBuffer ----------------------------
(***************************************************************************)
(* What the write-behind queue promises, with nothing of streams, groups   *)
(* and consumers: a write that was answered 202 is kept until it has a row,*)
(* a refused one may have been kept all the same (its XADD ran and failed),*)
(* and a row is inserted, once or again, only for a write that is kept.    *)
(* WriteBehind.tla implements this module, if no batch takes a consumer    *)
(* longer than the idle time of XAUTOCLAIM (WriteBehind!RefinesBuffer).    *)
(***************************************************************************)
EXTENDS Naturals

CONSTANT Entry

VARIABLES
  req,            \* what the client of a write has been told
  kept,           \* writes the buffer holds
  rows            \* INSERTs of each write: none, one, or (2) more

vars == <<req, kept, rows>>

Init ==
  /\ req = [e \in Entry |-> "new"]
  /\ kept = {}
  /\ rows = [e \in Entry |-> 0]

Tell(e, s) == req[e] = "new" /\ req' = [req EXCEPT ![e] = s]

Accept(e) == Tell(e, "accepted") /\ kept' = kept \union {e} /\ UNCHANGED rows

Refuse(e) == Tell(e, "refused") /\ kept' \in {kept, kept \union {e}} /\ UNCHANGED rows

Insert(es) ==
  /\ es \subseteq kept
  /\ rows' = [e \in Entry |-> IF e \notin es THEN rows[e] ELSE IF rows[e] = 0 THEN 1 ELSE 2]
  /\ UNCHANGED <<req, kept>>

Leave(es) ==
  /\ \A e \in es : rows[e] > 0
  /\ kept' = kept \ es
  /\ UNCHANGED <<req, rows>>

Next ==
  \/ \E e \in Entry : Accept(e) \/ Refuse(e)
  \/ \E es \in SUBSET Entry : Insert(es) \/ Leave(es)

Spec == Init /\ [][Next]_vars
=============================================================================
