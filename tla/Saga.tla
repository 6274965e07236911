-------------------------------- MODULE Saga --------------------------------
(***************************************************************************)
(* ORDER_TX_MODE=saga, SAGA_STYLE=orchestration: the order handler writes  *)
(* a saga_log row, reserves stock at items-service, inserts the order and  *)
(* marks the row 'completed'; a poller takes rows that stay 'reserved' for *)
(* more than 3 s for orphans, releases their stock and marks them          *)
(* 'compensated'.                                                          *)
(*                                                                         *)
(* The 3 s are the flag old: Age may set it at any time, or, if Timely,    *)
(* only when the handler is gone, which is what the poller takes for       *)
(* granted.  The calls of a handler that gave up or died may be under way  *)
(* for longer than that, in both cases: a reserve that waits for the row   *)
(* of its item lands behind the release of the poller, which found nothing *)
(* to release.  The history variable overtaken remembers these sagas.      *)
(***************************************************************************)
EXTENDS Integers, FiniteSets, Units

CONSTANTS
  Gid,            \* sagas, one per order
  Qty,            \* quantity each order buys of the one item there is
  InitStock,
  Run,            \* executions of the poller that may overlap
  Timely,         \* no handler takes 3 s from insertSagaLog to its end
  Faults          \* what the environment may do

ASSUME SagaAssumption ==
  /\ Qty \in [Gid -> Nat \ {0}]
  /\ InitStock \in Nat
  /\ Timely \in BOOLEAN
  /\ Faults \subseteq {"net",     \* a call fails, or its answer is lost or late
                       "db",      \* an orders-db query fails
                       "demo",    \* FAULT_POINT=after-first-write
                       "kill"}    \* the orders process dies and starts again

VARIABLES
  pc,             \* where the handler of an order is
  log,            \* saga_log.state
  old,            \* updated_at is more than 3 s ago
  order,          \* gids whose order row is inserted
  reservation,    \* the row of reservations
  stock,          \* items.stock
  overtaken,      \* gids whose release was answered ok with nothing reserved yet
  calls,          \* HTTP calls items-service has not finished
  batch,          \* what an execution of the poller has left to compensate
  task            \* how far it is with a saga

handlers == <<pc, order>>
logs     == <<log, old>>
shelf    == <<reservation, stock, overtaken>>
items    == <<shelf, calls>>
poller   == <<batch, task>>
vars     == <<handlers, logs, items, poller>>

Ended == {"done", "refused", "failed", "crashed"}
Call  == [op : {"reserve", "release"}, gid : Gid, by : {"handler", "poller"}]

TypeOK ==
  /\ pc \in [Gid -> {"new", "sendReserve", "reserve", "insert", "complete",
                     "release", "undo", "refuse"} \union Ended]
  /\ log \in [Gid -> {"none", "reserved", "compensating", "compensated", "completed"}]
  /\ old \in [Gid -> BOOLEAN]
  /\ order \subseteq Gid
  /\ reservation \in [Gid -> {"none", "held", "released"}]
  /\ stock \in Int
  /\ overtaken \subseteq Gid
  /\ calls \subseteq Call
  /\ batch \in [Run -> SUBSET Gid]
  /\ task \in [Gid -> {"none", "await", "mark"}]

Init ==
  /\ pc = [g \in Gid |-> "new"]
  /\ log = [g \in Gid |-> "none"]
  /\ old = [g \in Gid |-> FALSE]
  /\ order = {}
  /\ reservation = [g \in Gid |-> "none"]
  /\ stock = InitStock
  /\ overtaken = {}
  /\ calls = {}
  /\ batch = [t \in Run |-> {}]
  /\ task = [g \in Gid |-> "none"]

Goto(g, l) == pc' = [pc EXCEPT ![g] = l]
CallOf(op, g, by) == [op |-> op, gid |-> g, by |-> by]
Send(op, g, by) == calls' = calls \union {CallOf(op, g, by)}

\* updateSagaLogState: unconditional, and updated_at = now().
Log(db, g, s) == [db EXCEPT ![g] = s]
SetLog(g, s) == log' = Log(log, g, s) /\ old' = [old EXCEPT ![g] = FALSE]

\* An UPDATE whose error reaches the caller has run or has not.
MayLog(g, s) == SetLog(g, s) \/ UNCHANGED logs

-----------------------------------------------------------------------------
(* Mistakes this code could have made; no action uses them.                *)

\* A reserve that is not answered in time is taken for one that was refused: 409.
TimeoutRefuses(g) ==
  /\ "net" \in Faults
  /\ \/ pc[g] = "reserve" /\ Goto(g, "refuse")
     \/ pc[g] = "release" /\ Goto(g, "undo")
  /\ UNCHANGED <<order, logs, items, poller>>

\* Release gives the stock back without a look at the released flag.
ReleaseTwice(r) ==
  /\ r.op = "release" /\ reservation[r.gid] # "none"
  /\ reservation' = [reservation EXCEPT ![r.gid] = "released"]
  /\ stock' = stock + Qty[r.gid]
  /\ calls' = calls \ {r}
  /\ UNCHANGED overtaken

\* Stuck without the threshold.
Fresh == {g \in Gid : log[g] = "reserved"}

\* Stuck looks for another state than insertSagaLog writes.
NeverStuck == {g \in Gid : log[g] = "pending" /\ old[g]}

\* PollerFails marks the saga compensated all the same.
MarkDespiteFailure(t, g) ==
  /\ g \in batch[t] /\ "net" \in Faults /\ task[g] = "await"
  /\ SetLog(g, "compensated")
  /\ batch' = [batch EXCEPT ![t] = @ \ {g}]
  /\ task' = [task EXCEPT ![g] = "none"]
  /\ UNCHANGED <<handlers, items>>

-----------------------------------------------------------------------------
(* The order handler: createOrderSaga.                                     *)

InsertSagaLog(g) ==
  /\ pc[g] = "new"
  /\ \/ SetLog(g, "reserved") /\ Goto(g, "sendReserve")
     \/ "db" \in Faults /\ MayLog(g, "reserved") /\ Goto(g, "failed")
  /\ UNCHANGED <<order, items, poller>>

SendReserve(g) ==
  /\ pc[g] = "sendReserve"
  /\ Send("reserve", g, "handler")
  /\ Goto(g, "reserve")
  /\ UNCHANGED <<order, logs, shelf, poller>>

\* FAULT_POINT=after-first-write: stock reserved, no order.
FaultPoint(g) ==
  /\ "demo" \in Faults /\ pc[g] = "insert"
  /\ Goto(g, "failed")
  /\ UNCHANGED <<order, logs, items, poller>>

InsertOrder(g) ==
  /\ pc[g] = "insert"
  /\ order' = order \union {g}
  /\ Goto(g, "complete")
  /\ UNCHANGED <<logs, items, poller>>

\* The INSERT throws, having run or not: inline compensation.
InsertOrderFails(g) ==
  /\ "db" \in Faults /\ pc[g] = "insert"
  /\ order' \in {order, order \union {g}}
  /\ Send("release", g, "handler")
  /\ Goto(g, "release")
  /\ UNCHANGED <<logs, shelf, poller>>

\* The row becomes 'compensated', after the inline release whatever its answer
\* ("best effort"), or because nothing was reserved; then 500, or 409.
MarkCompensated(g) ==
  /\ pc[g] \in {"undo", "refuse"}
  /\ SetLog(g, "compensated")
  /\ Goto(g, IF pc[g] = "undo" THEN "failed" ELSE "refused")
  /\ UNCHANGED <<order, items, poller>>

\* The row becomes 'completed', whatever it was; 201.
Complete(g) ==
  /\ pc[g] = "complete"
  /\ SetLog(g, "completed")
  /\ Goto(g, "done")
  /\ UNCHANGED <<order, items, poller>>

\* One of these updates throws: 500.
UpdateFails(g) ==
  /\ "db" \in Faults
  /\ \/ pc[g] \in {"undo", "refuse"} /\ MayLog(g, "compensated")
     \/ pc[g] = "complete" /\ MayLog(g, "completed")
  /\ Goto(g, "failed")
  /\ UNCHANGED <<order, items, poller>>

\* A fetch of the handler fails or is given up after 5 s; its call stays.  A
\* failed reserve is a 500, a failed inline release is ignored.
HandlerTimeout(g) ==
  /\ "net" \in Faults
  /\ \/ pc[g] = "reserve" /\ Goto(g, "failed")
     \/ pc[g] = "release" /\ Goto(g, "undo")
  /\ UNCHANGED <<order, logs, items, poller>>

-----------------------------------------------------------------------------
(* items-service: reserve and release, each one items-db transaction.      *)

\* A reservation that exists, released or not, is answered ok.
Reserve(r) ==
  /\ r.op = "reserve"
  /\ \/ /\ reservation[r.gid] = "none" /\ stock >= Qty[r.gid]
        /\ reservation' = [reservation EXCEPT ![r.gid] = "held"]
        /\ stock' = stock - Qty[r.gid]
     \/ /\ reservation[r.gid] # "none" \/ stock < Qty[r.gid]
        /\ UNCHANGED <<reservation, stock>>
  /\ calls' = calls \ {r}
  /\ UNCHANGED overtaken

\* A reservation that is not held is left alone and answered ok: also one that
\* does not exist yet.
Release(r) ==
  /\ r.op = "release"
  /\ \/ /\ reservation[r.gid] = "held"
        /\ reservation' = [reservation EXCEPT ![r.gid] = "released"]
        /\ stock' = stock + Qty[r.gid]
        /\ UNCHANGED overtaken
     \/ /\ reservation[r.gid] # "held"
        /\ overtaken' = IF reservation[r.gid] = "none" THEN overtaken \union {r.gid} ELSE overtaken
        /\ UNCHANGED <<reservation, stock>>
  /\ calls' = calls \ {r}

\* The answer reaches the handler if it still waits for it.
HandlerHears(r) ==
  /\ r.by = "handler"
  /\ \/ pc[r.gid] = "reserve" /\ Goto(r.gid, IF reservation'[r.gid] = "none" THEN "refuse" ELSE "insert")
     \/ pc[r.gid] = "release" /\ Goto(r.gid, "undo")
  /\ UNCHANGED <<order, logs, poller>>

\* The answer reaches the poller.
PollerHears(r) ==
  /\ r.by = "poller" /\ task[r.gid] = "await"
  /\ task' = [task EXCEPT ![r.gid] = "mark"]
  /\ UNCHANGED <<handlers, logs, batch>>

NobodyHears(r) ==
  /\ \/ "net" \in Faults
     \/ r.by = "handler" /\ pc[r.gid] \notin {"reserve", "release"}
     \/ r.by = "poller" /\ task[r.gid] # "await"
  /\ UNCHANGED <<handlers, logs, poller>>

ItemsStep(r) ==
  /\ Reserve(r) \/ Release(r)
  /\ HandlerHears(r) \/ PollerHears(r) \/ NobodyHears(r)

LoseCall(r) ==
  /\ "net" \in Faults
  /\ calls' = calls \ {r}
  /\ UNCHANGED <<handlers, logs, shelf, poller>>

-----------------------------------------------------------------------------
(* The recovery poller.                                                    *)

\* updated_at alone decides, whatever calls of the handler are under way.
Age(g) ==
  /\ log[g] = "reserved" /\ ~old[g]
  /\ Timely => pc[g] \in Ended
  /\ old' = [old EXCEPT ![g] = TRUE]
  /\ UNCHANGED <<handlers, log, items, poller>>

Stuck == {g \in Gid : log[g] = "reserved" /\ old[g]}

\* One UPDATE .. RETURNING; if it throws, it has run or not.
ClaimStuckSagaLogs(t) ==
  /\ batch[t] = {} /\ Stuck # {}
  /\ LET claimed == Stuck IN
       /\ log' = [g \in Gid |-> IF g \in claimed THEN "compensating" ELSE log[g]]
       /\ old' = [g \in Gid |-> old[g] /\ g \notin claimed]
       /\ \/ batch' = [batch EXCEPT ![t] = claimed]
          \/ "db" \in Faults /\ UNCHANGED batch
  /\ UNCHANGED <<handlers, items, task>>

\* The batch is worked off one saga at a time.
PollerRelease(t, g) ==
  /\ g \in batch[t] /\ \A h \in batch[t] : task[h] = "none"
  /\ Send("release", g, "poller")
  /\ task' = [task EXCEPT ![g] = "await"]
  /\ UNCHANGED <<handlers, logs, shelf, batch>>

Leave(t, g) ==
  /\ batch' = [batch EXCEPT ![t] = @ \ {g}]
  /\ task' = [task EXCEPT ![g] = "none"]
  /\ UNCHANGED <<handlers, items>>

PollerMark(t, g) ==
  /\ g \in batch[t] /\ task[g] = "mark"
  /\ SetLog(g, "compensated")
  /\ Leave(t, g)

\* The catch around one saga: its row stays 'compensating'.
PollerFails(t, g) ==
  /\ g \in batch[t]
  /\ \/ "net" \in Faults /\ task[g] = "await" /\ UNCHANGED logs
     \/ "db" \in Faults /\ task[g] = "mark" /\ MayLog(g, "compensated")
  /\ Leave(t, g)

\* The orders process dies and starts again; its calls are under way.
Crash ==
  /\ "kill" \in Faults
  /\ pc' = [g \in Gid |-> IF pc[g] \in Ended \union {"new"} THEN pc[g] ELSE "crashed"]
  /\ batch' = [t \in Run |-> {}]
  /\ task' = [g \in Gid |-> "none"]
  /\ UNCHANGED <<order, logs, items>>

-----------------------------------------------------------------------------
HandlerStep(g) ==
  \/ SendReserve(g) \/ FaultPoint(g) \/ InsertOrder(g) \/ InsertOrderFails(g)
  \/ MarkCompensated(g) \/ Complete(g) \/ UpdateFails(g) \/ HandlerTimeout(g)

PollerStep(t) ==
  \/ ClaimStuckSagaLogs(t)
  \/ \E g \in Gid : PollerRelease(t, g) \/ PollerMark(t, g) \/ PollerFails(t, g)

Next ==
  \/ \E g \in Gid : InsertSagaLog(g) \/ HandlerStep(g) \/ Age(g)
  \/ \E r \in calls : ItemsStep(r) \/ LoseCall(r)
  \/ \E t \in Run : PollerStep(t)
  \/ Crash

Spec == Init /\ [][Next]_vars

\* Promises run to completion, items-service answers, time passes, and the
\* interval of the poller keeps firing.
Fairness ==
  /\ \A g \in Gid : WF_vars(HandlerStep(g)) /\ WF_vars(Age(g))
  /\ WF_vars(\E r \in calls : ItemsStep(r))
  /\ \A t \in Run : WF_vars(PollerStep(t))

FairSpec == Spec /\ Fairness

-----------------------------------------------------------------------------
(* What the saga is for.                                                   *)

\* A 201 is given only for an order whose row is there and whose stock is
\* reserved, and compensation never takes the stock of such an order away.
CreatedStands ==
  \A g \in Gid : pc[g] = "done" => g \in order /\ reservation[g] = "held"

\* No stock is created or lost: what is missing from the item is held by
\* reservations, each taken and given back at most once, and they never hold
\* more than there was.
Held == {g \in Gid : reservation[g] = "held"}
StockAccounted == stock >= 0 /\ stock + Total(Qty, Held) = InitStock

\* Where an order stands, to its client and to the stock.  What the program keeps
\* of it is spread over the handler, the reservation and calls under way; all of
\* these together are one order that is supplied or compensated.
Gone == {"failed", "crashed"}
Shown(g) ==
  IF reservation[g] = "released" THEN "returned"
  ELSE IF pc[g] = "done" THEN "created"
  ELSE IF reservation[g] = "held" THEN (IF pc[g] \in Gone THEN "spent" ELSE "taken")
  ELSE IF pc[g] = "refuse" THEN "short"
  ELSE IF pc[g] = "refused" THEN "refused"
  ELSE IF pc[g] \in Gone THEN "failed" ELSE "new"
Store == INSTANCE SagaStore WITH Order <- Gid, order <- [g \in Gid |-> Shown(g)]
RefinesStore == Store!Spec

\* A saga the poller marks compensated has its stock back, and none of a compensated
\* saga is taken later, unless its release overtook its reserve: the claim has
\* no way to see a reserve that is still under way, and /internal/release keeps
\* nothing of a release that comes first.  (The inline compensation of the
\* handler may lose its release: "best effort".)
CompensatedReleased ==
  [][\A g \in Gid :
       /\ log[g] = "compensating" /\ log'[g] = "compensated" => reservation[g] # "held" \/ g \in overtaken
       /\ log[g] = "compensated" => reservation'[g] \in {reservation[g], "released"} \/ g \in overtaken]_vars

\* No row stays 'reserved': its handler or the poller takes it further.
NoneStaysReserved == \A g \in Gid : log[g] = "reserved" ~> log[g] # "reserved"
=============================================================================
