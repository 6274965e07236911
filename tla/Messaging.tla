----------------------------- MODULE Messaging -----------------------------
(***************************************************************************)
(* ORDER_TX_MODE=outbox and SAGA_STYLE=choreography.  Both write the order *)
(* and a message in one orders-db transaction; a setInterval poller claims *)
(* the undelivered rows, POSTs each to the receiver and marks it           *)
(* delivered; the receiver deduplicates on processed_messages.             *)
(*                                                                         *)
(* Three channels share this machinery:                                    *)
(*   "outbox"   orders-db outbox        -> items-service: take the stock   *)
(*   "created"  orders-db choreo_outbox -> items-service: OrderCreated     *)
(*   "stock"    items-db choreo_outbox  -> orders: StockReserved/Rejected  *)
(* A poller's callback is async and setInterval does not wait for it, so   *)
(* executions of it overlap: Run is the set of executions at one time.     *)
(***************************************************************************)
EXTENDS Integers, FiniteSets, Units

CONSTANTS
  Order,          \* orders, numbered as their rows are claimed
  Qty,            \* quantity of each order; all buy the same item
  InitStock,
  Run,            \* executions of one poller that may overlap
  Limit,          \* rows a poller claims at a time (50 in the code)
  Faults          \* what the environment may do

ASSUME MessagingAssumption ==
  /\ Order \subseteq Nat
  /\ Qty \in [Order -> Nat \ {0}]
  /\ InitStock \in Nat
  /\ Limit \in Nat \ {0}
  /\ Faults \subseteq {"net",               \* a call fails, or its answer is lost or late
                       "db",                \* the UPDATE that marks a row fails
                       "demo",              \* FAULT_POINT=after-deliver-before-mark
                       "kill"}              \* a process dies with its pollers

Channel == {"outbox", "created", "stock"}

VARIABLES
  mode,           \* how orders is deployed: "outbox", or "choreography"
  status,         \* orders.status
  row,            \* the outbox rows: absent, undelivered, delivered
  seen,           \* processed_messages of the receiver, by channel
  verdict,        \* event_type of the reply row; "applied" for an outbox order
  stock,          \* items.stock
  run,            \* executions of the pollers
  calls           \* POSTs the receiver has not finished

vars == <<mode, status, row, seen, verdict, stock, run, calls>>

Idle == [todo |-> {}, at |-> "idle"]
Call == [ch : Channel, run : Run, msg : Order]
Execution == [todo : SUBSET Order, at : {"idle", "next", "await", "mark"}]

RowType == [Channel -> [Order -> {"absent", "undelivered", "delivered"}]]
RunType == [Channel -> [Run -> Execution]]

TypeOK ==
  /\ mode \in {"outbox", "choreography"}
  /\ status \in [Order -> {"none", "pending", "confirmed", "cancelled"}]
  /\ row \in RowType
  /\ seen \in [Channel -> SUBSET Order]
  /\ verdict \in [Order -> {"none", "applied", "reserved", "rejected"}]
  /\ stock \in Int
  /\ run \in RunType
  /\ calls \subseteq Call

Init ==
  /\ mode \in {"outbox", "choreography"}
  /\ status = [m \in Order |-> "none"]
  /\ row = [ch \in Channel |-> [m \in Order |-> "absent"]]
  /\ seen = [ch \in Channel |-> {}]
  /\ verdict = [m \in Order |-> "none"]
  /\ stock = InitStock
  /\ run = [ch \in Channel |-> [t \in Run |-> Idle]]
  /\ calls = {}

\* An execution of a poller goes through its batch in claim order: m is next.
At(ch, t, m, l) ==
  /\ run[ch][t].at = l
  /\ m \in run[ch][t].todo /\ \A n \in run[ch][t].todo : m <= n

Step(ch, t, l) == run' = [run EXCEPT ![ch][t].at = l]

\* On to the next row of the batch, whatever happened to this one.
Advance(ch, t, m) ==
  run' = [run EXCEPT ![ch][t] =
    IF @.todo = {m} THEN Idle ELSE [todo |-> @.todo \ {m}, at |-> "next"]]

\* The answer of a POST, as the execution that made it sees it: heard, or not.
Awaited(c) == At(c.ch, c.run, c.msg, "await")
Heard(c)   == Awaited(c) /\ Step(c.ch, c.run, "mark")
Unheard(c) == ("net" \in Faults \/ ~Awaited(c)) /\ UNCHANGED run

-----------------------------------------------------------------------------
(* Mistakes this code could have made; no action uses them.                *)

\* ApplyDecrement without processed_messages.
ApplyAgain(c) ==
  /\ c.ch = "outbox"
  /\ seen' = [seen EXCEPT !["outbox"] = @ \union {c.msg}]
  /\ verdict' = [verdict EXCEPT ![c.msg] = "applied"]
  /\ stock' = stock - Qty[c.msg]
  /\ UNCHANGED <<mode, status, row>>

\* HandleOrderCreated takes the stock without looking at what is left.
ReserveUnguarded(c) ==
  /\ c.ch = "created" /\ c.msg \notin seen["created"]
  /\ seen' = [seen EXCEPT !["created"] = @ \union {c.msg}]
  /\ verdict' = [verdict EXCEPT ![c.msg] = "reserved"]
  /\ stock' = stock - Qty[c.msg]
  /\ row' = [row EXCEPT !["stock"][c.msg] = "undelivered"]
  /\ UNCHANGED <<mode, status>>

\* ApplyOrderEvent confirms whatever the event says.
AlwaysConfirm(c) ==
  /\ c.ch = "stock"
  /\ status' = [status EXCEPT ![c.msg] = "confirmed"]
  /\ seen' = [seen EXCEPT !["stock"] = @ \union {c.msg}]
  /\ UNCHANGED <<mode, row, verdict, stock>>

\* Deliver marks the row before the receiver has answered.
MarkFirst(ch, t, m) ==
  /\ At(ch, t, m, "next")
  /\ calls' = calls \union {[ch |-> ch, run |-> t, msg |-> m]}
  /\ row' = [row EXCEPT ![ch][m] = "delivered"]
  /\ Advance(ch, t, m)
  /\ UNCHANGED <<mode, status, seen, verdict, stock>>

\* DeliverFails gives the row up instead of leaving it for the next poll.
GiveUp(ch, t, m) ==
  /\ At(ch, t, m, "await") /\ "net" \in Faults
  /\ row' = [row EXCEPT ![ch][m] = "delivered"]
  /\ Advance(ch, t, m)
  /\ UNCHANGED <<mode, status, seen, verdict, stock, calls>>

-----------------------------------------------------------------------------
(* Placing an order: the order row and its message in one transaction.     *)

InsertOrderWithOutbox(m) ==
  /\ mode = "outbox" /\ status[m] = "none"
  /\ status' = [status EXCEPT ![m] = "confirmed"]
  /\ row' = [row EXCEPT !["outbox"][m] = "undelivered"]
  /\ UNCHANGED <<mode, seen, verdict, stock, run, calls>>

InsertPendingOrderWithEvent(m) ==
  /\ mode = "choreography" /\ status[m] = "none"
  /\ status' = [status EXCEPT ![m] = "pending"]
  /\ row' = [row EXCEPT !["created"][m] = "undelivered"]
  /\ UNCHANGED <<mode, seen, verdict, stock, run, calls>>

-----------------------------------------------------------------------------
(* The pollers.                                                            *)

Undelivered(ch) == {m \in Order : row[ch][m] = "undelivered"}

\* The first Limit undelivered rows, in claim order.
Claimable(ch) == {m \in Undelivered(ch) : Cardinality({n \in Undelivered(ch) : n < m}) < Limit}

Claim(ch, t) ==
  /\ run[ch][t] = Idle /\ Claimable(ch) # {}
  /\ run' = [run EXCEPT ![ch][t] = [todo |-> Claimable(ch), at |-> "next"]]
  /\ UNCHANGED <<mode, status, row, seen, verdict, stock, calls>>

Deliver(ch, t, m) ==
  /\ At(ch, t, m, "next")
  /\ calls' = calls \union {[ch |-> ch, run |-> t, msg |-> m]}
  /\ Step(ch, t, "await")
  /\ UNCHANGED <<mode, status, row, seen, verdict, stock>>

\* The catch around one delivery: timeout or error; the row stays undelivered.
DeliverFails(ch, t, m) ==
  /\ At(ch, t, m, "await")
  /\ \/ "net" \in Faults
     \/ [ch |-> ch, run |-> t, msg |-> m] \notin calls
  /\ Advance(ch, t, m)
  /\ UNCHANGED <<mode, status, row, seen, verdict, stock, calls>>

MarkDelivered(ch, t, m) ==
  /\ At(ch, t, m, "mark")
  /\ row' = [row EXCEPT ![ch][m] = "delivered"]
  /\ Advance(ch, t, m)
  /\ UNCHANGED <<mode, status, seen, verdict, stock, calls>>

MarkFails(ch, t, m) ==
  /\ At(ch, t, m, "mark") /\ ("db" \in Faults \/ ("demo" \in Faults /\ ch = "outbox"))
  /\ Advance(ch, t, m)
  /\ UNCHANGED <<mode, status, row, seen, verdict, stock, calls>>

Poll(ch, t) ==
  \/ Claim(ch, t)
  \/ \E m \in Order : \/ Deliver(ch, t, m) \/ DeliverFails(ch, t, m)
                      \/ MarkDelivered(ch, t, m) \/ MarkFails(ch, t, m)

OutboxPoller(t)       == Poll("outbox", t)
ChoreoOrdersPoller(t) == Poll("created", t)
ChoreoItemsPoller(t)  == Poll("stock", t)

\* The process that runs the pollers of these channels dies and starts again.
Restart(chs) ==
  /\ "kill" \in Faults
  /\ run' = [ch \in Channel |-> IF ch \in chs THEN [t \in Run |-> Idle] ELSE run[ch]]
  /\ UNCHANGED <<mode, status, row, seen, verdict, stock, calls>>

-----------------------------------------------------------------------------
(* The receivers: one local transaction each, deduplicated on the msg_id.  *)

\* applyDecrementIdempotent: no look at the stock that is left.
ApplyDecrement(c) ==
  /\ c.ch = "outbox" /\ c.msg \notin seen["outbox"]
  /\ seen' = [seen EXCEPT !["outbox"] = @ \union {c.msg}]
  /\ verdict' = [verdict EXCEPT ![c.msg] = "applied"]
  /\ stock' = stock - Qty[c.msg]
  /\ UNCHANGED <<mode, status, row>>

\* handleOrderCreatedIdempotent: the verdict and its reply row together.
HandleOrderCreated(c) ==
  /\ c.ch = "created" /\ c.msg \notin seen["created"]
  /\ seen' = [seen EXCEPT !["created"] = @ \union {c.msg}]
  /\ \/ /\ stock >= Qty[c.msg]
        /\ verdict' = [verdict EXCEPT ![c.msg] = "reserved"]
        /\ stock' = stock - Qty[c.msg]
     \/ /\ stock < Qty[c.msg]
        /\ verdict' = [verdict EXCEPT ![c.msg] = "rejected"]
        /\ UNCHANGED stock
  /\ row' = [row EXCEPT !["stock"][c.msg] = "undelivered"]
  /\ UNCHANGED <<mode, status>>

\* applyOrderEventIdempotent: only a pending order changes.
ApplyOrderEvent(c) ==
  /\ c.ch = "stock" /\ c.msg \notin seen["stock"]
  /\ seen' = [seen EXCEPT !["stock"] = @ \union {c.msg}]
  /\ status' = [status EXCEPT ![c.msg] =
       IF @ # "pending" THEN @ ELSE IF verdict[c.msg] = "reserved" THEN "confirmed" ELSE "cancelled"]
  /\ UNCHANGED <<mode, row, verdict, stock>>

\* A redelivery finds its msg_id in processed_messages and changes nothing.
Duplicate(c) == c.msg \in seen[c.ch] /\ UNCHANGED <<mode, status, row, seen, verdict, stock>>

Receive(c) ==
  /\ calls' = calls \ {c}
  /\ (ApplyDecrement(c) \/ HandleOrderCreated(c) \/ ApplyOrderEvent(c) \/ Duplicate(c))

ReceiveHeard(c)   == Receive(c) /\ Heard(c)
ReceiveUnheard(c) == Receive(c) /\ Unheard(c)

LoseCall(c) ==
  /\ "net" \in Faults
  /\ calls' = calls \ {c}
  /\ UNCHANGED <<mode, status, row, seen, verdict, stock, run>>

-----------------------------------------------------------------------------
Next ==
  \/ \E m \in Order : InsertOrderWithOutbox(m) \/ InsertPendingOrderWithEvent(m)
  \/ \E t \in Run : OutboxPoller(t) \/ ChoreoOrdersPoller(t) \/ ChoreoItemsPoller(t)
  \/ \E c \in calls : ReceiveHeard(c) \/ ReceiveUnheard(c) \/ LoseCall(c)
  \/ Restart({"outbox", "created"}) \/ Restart({"stock"})

Spec == Init /\ [][Next]_vars

\* The intervals keep firing, and of all that is tried again and again some
\* gets through: not every execution is killed before its first POST, not every
\* POST fails, not every mark fails.  Nothing is assumed of any single row.
Fairness ==
  /\ \A ch \in Channel, t \in Run : WF_vars(Poll(ch, t))
  /\ SF_vars(\E ch \in Channel, t \in Run, m \in Order : Deliver(ch, t, m))
  /\ SF_vars(\E c \in calls : ReceiveHeard(c))
  /\ SF_vars(\E ch \in Channel, t \in Run, m \in Order : MarkDelivered(ch, t, m))

FairSpec == Spec /\ Fairness

-----------------------------------------------------------------------------
(* What the machinery is for.                                              *)

\* A row is marked delivered only once its receiver has processed it: nothing
\* is dropped between the two databases (at-least-once delivery).
DeliveredIsProcessed ==
  \A ch \in Channel, m \in Order : row[ch][m] = "delivered" => m \in seen[ch]

\* A choreographed order is confirmed only if its stock was reserved, and
\* cancelled only if it was rejected, whatever was delivered twice or late.
VerdictAgreement ==
  mode = "choreography" => \A m \in Order :
    /\ status[m] = "confirmed" => verdict[m] = "reserved"
    /\ status[m] = "cancelled" => verdict[m] = "rejected"

\* Choreography never sells what is not there.  (Outbox mode does: the decrement
\* of an order that was confirmed before it takes the stock below zero.)
ReservedWithinStock == mode = "choreography" => stock >= 0

-----------------------------------------------------------------------------
(* Why this holds: an inductive invariant.                                 *)

\* A row that is claimed or under way exists, and an answer that was heard is
\* of a message its receiver has processed.
PollersKnow ==
  /\ \A c \in calls : row[c.ch][c.msg] # "absent"
  /\ \A ch \in Channel, t \in Run : \A m \in run[ch][t].todo :
       /\ row[ch][m] # "absent"
       /\ At(ch, t, m, "mark") => m \in seen[ch]

\* Each row is written by the step it stands for, in the mode that has it.
RowsMatch == \A m \in Order :
  /\ row["outbox"][m] # "absent" => mode = "outbox" /\ status[m] = "confirmed"
  /\ row["created"][m] # "absent" => mode = "choreography" /\ status[m] # "none"
  /\ row["stock"][m] # "absent" => m \in seen["created"]

\* A verdict is reached with the entry in processed_messages, and only then.
VerdictsMatch == \A m \in Order :
  /\ m \in seen["outbox"] => row["outbox"][m] # "absent" /\ verdict[m] = "applied"
  /\ m \in seen["created"] => row["created"][m] # "absent" /\ verdict[m] \in {"reserved", "rejected"}
  /\ verdict[m] # "none" => m \in seen["outbox"] \union seen["created"]

\* What the pollers, the rows and the inboxes of the two databases know of each
\* other, in every interleaving of deliveries, marks and restarts.
IndInv ==
  /\ DeliveredIsProcessed /\ VerdictAgreement /\ ReservedWithinStock
  /\ PollersKnow /\ RowsMatch /\ VerdictsMatch

-----------------------------------------------------------------------------
\* Every order gets its stock, or its verdict, in the end, and is told of it:
\* the two databases converge (at-least-once delivery, idempotent receivers).
OrderSettles == \A m \in Order :
  status[m] # "none" ~> verdict[m] # "none" /\ status[m] \in {"confirmed", "cancelled"}

\* Seen without rows, pollers and calls, it is the order desk: each order's
\* stock is taken at most once, and its verdict reached and told at most once.
Desk == INSTANCE OrderDesk
RefinesDesk == Desk!Spec

\* However often a message is delivered, each order takes its quantity once: that
\* is all that is missing from the stock, and choreographed orders never take
\* more than there was.
StockConserved == ReservedWithinStock /\ stock + Total(Qty, Desk!Supplied) = InitStock
=============================================================================
