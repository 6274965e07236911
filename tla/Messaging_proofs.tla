-------------------------- MODULE Messaging_proofs --------------------------
(***************************************************************************)
(* Proofs about Messaging, for any orders, quantities, stock, number of    *)
(* overlapping executions, batch size and faults.                          *)
(***************************************************************************)
EXTENDS Messaging, Units_proofs, TLAPS

-----------------------------------------------------------------------------
(* How one entry of a nested function changes, and what stays.             *)

LEMMA MoveTo ==
  ASSUME NEW x \in [todo : SUBSET Order, at : {"idle", "next", "await", "mark"}],
         NEW l \in {"idle", "next", "await", "mark"}
  PROVE  [x EXCEPT !.at = l] = [todo |-> x.todo, at |-> l]
OBVIOUS

LEMMA StepRun ==
  ASSUME run \in RunType, NEW ch \in Channel, NEW t \in Run, NEW l \in {"idle", "next", "await", "mark"}, Step(ch, t, l)
  PROVE  /\ run' \in RunType
         /\ run'[ch][t] = [todo |-> run[ch][t].todo, at |-> l]
         /\ \A d \in Channel, u \in Run : <<d, u>> # <<ch, t>> => run'[d][u] = run[d][u]
<1> DEFINE r == [todo |-> run[ch][t].todo, at |-> l]
<1>1. run[ch][t] \in Execution
  BY DEF RunType
<1>2. r \in Execution
  BY <1>1 DEF Execution
<1> DEFINE e == [run[ch][t] EXCEPT !.at = l]
<1>3. e = r
  BY <1>1, MoveTo DEF Execution
<1>4. run' = [run EXCEPT ![ch][t] = e]
  BY Zenon DEF Step
<1> HIDE DEF e
<1>5. run' = [run EXCEPT ![ch][t] = r]
  BY <1>3, <1>4
<1> HIDE DEF r
<1>6. run' \in RunType /\ run'[ch][t] = r
      /\ \A d \in Channel, u \in Run : <<d, u>> # <<ch, t>> => run'[d][u] = run[d][u]
  BY <1>2, <1>5 DEF RunType
<1> QED BY <1>6 DEF r

LEMMA AdvanceRun ==
  ASSUME run \in RunType, NEW ch \in Channel, NEW t \in Run, NEW m \in Order, Advance(ch, t, m)
  PROVE  /\ run' \in RunType
         /\ run'[ch][t].todo \subseteq run[ch][t].todo
         /\ run'[ch][t].at \in {"idle", "next"}
         /\ \A d \in Channel, u \in Run : <<d, u>> # <<ch, t>> => run'[d][u] = run[d][u]
<1> DEFINE r == IF run[ch][t].todo = {m} THEN Idle
                ELSE [todo |-> run[ch][t].todo \ {m}, at |-> "next"]
<1>1. run[ch][t] \in Execution
  BY DEF RunType
<1>2. r \in Execution /\ r.todo \subseteq run[ch][t].todo /\ r.at \in {"idle", "next"}
  BY <1>1 DEF Execution, Idle
<1>3. run' = [run EXCEPT ![ch][t] = r]
  BY Zenon DEF Advance
<1> HIDE DEF r
<1>4. run' \in RunType /\ run'[ch][t] = r
      /\ \A d \in Channel, u \in Run : <<d, u>> # <<ch, t>> => run'[d][u] = run[d][u]
  BY <1>2, <1>3 DEF RunType
<1> QED BY <1>2, <1>4

LEMMA SetRow ==
  ASSUME row \in RowType, NEW ch \in Channel, NEW m \in Order,
         NEW s \in {"absent", "undelivered", "delivered"},
         row' = [row EXCEPT ![ch][m] = s]
  PROVE  /\ row' \in RowType
         /\ row'[ch][m] = s
         /\ \A d \in Channel, n \in Order : <<d, n>> # <<ch, m>> => row'[d][n] = row[d][n]
BY DEF RowType

LEMMA SetSeen ==
  ASSUME seen \in [Channel -> SUBSET Order], NEW ch \in Channel, NEW m \in Order,
         seen' = [seen EXCEPT ![ch] = @ \union {m}]
  PROVE  /\ seen' \in [Channel -> SUBSET Order]
         /\ seen'[ch] = seen[ch] \union {m}
         /\ \A d \in Channel : d # ch => seen'[d] = seen[d]
OBVIOUS

-----------------------------------------------------------------------------
(* Type correctness.                                                       *)

LEMMA TypeInit == Init => TypeOK
<1> SUFFICES ASSUME Init PROVE TypeOK
  OBVIOUS
<1>1. run \in RunType
  BY DEF Init, RunType, Execution, Idle
<1>2. row \in RowType /\ seen \in [Channel -> SUBSET Order]
  BY DEF Init, RowType
<1> QED BY <1>1, <1>2, MessagingAssumption DEF Init, TypeOK

LEMMA TypePoll ==
  ASSUME TypeOK, NEW ch \in Channel, NEW t \in Run, Poll(ch, t)
  PROVE  TypeOK'
<1> run \in RunType
  BY DEF TypeOK
<1>1. CASE Claim(ch, t)
  <2> DEFINE r == [todo |-> Claimable(ch), at |-> "next"]
  <2>1. r \in Execution
    BY DEF Claimable, Undelivered, Execution
  <2>2. run' = [run EXCEPT ![ch][t] = r]
    BY <1>1 DEF Claim
  <2> HIDE DEF r
  <2>3. run' \in RunType
    BY <2>1, <2>2 DEF RunType
  <2> QED BY <1>1, <2>3 DEF Claim, TypeOK
<1> SUFFICES ASSUME NEW m \in Order,
                    \/ Deliver(ch, t, m) \/ DeliverFails(ch, t, m)
                    \/ MarkDelivered(ch, t, m) \/ MarkFails(ch, t, m)
             PROVE  TypeOK'
  BY <1>1 DEF Poll
<1>2. CASE Deliver(ch, t, m)
  <2>1. run' \in RunType
    BY <1>2, StepRun DEF Deliver
  <2>2. calls' \subseteq Call
    BY <1>2 DEF Deliver, Call, TypeOK
  <2> QED BY <1>2, <2>1, <2>2 DEF Deliver, TypeOK
<1>3. CASE DeliverFails(ch, t, m)
  <2>1. run' \in RunType
    BY <1>3, AdvanceRun DEF DeliverFails
  <2> QED BY <1>3, <2>1 DEF DeliverFails, TypeOK
<1>4. CASE MarkDelivered(ch, t, m)
  <2>1. run' \in RunType
    BY <1>4, AdvanceRun DEF MarkDelivered
  <2>2. row' \in RowType
    BY <1>4, SetRow DEF MarkDelivered, TypeOK
  <2> QED BY <1>4, <2>1, <2>2 DEF MarkDelivered, TypeOK
<1>5. CASE MarkFails(ch, t, m)
  <2>1. run' \in RunType
    BY <1>5, AdvanceRun DEF MarkFails
  <2> QED BY <1>5, <2>1 DEF MarkFails, TypeOK
<1> QED BY <1>2, <1>3, <1>4, <1>5

LEMMA TypeReceive ==
  ASSUME TypeOK, NEW c \in calls, Receive(c), Heard(c) \/ Unheard(c)
  PROVE  TypeOK'
<1>1. c \in Call /\ c.ch \in Channel /\ c.run \in Run /\ c.msg \in Order
  BY DEF Call, TypeOK
<1>2. calls' \subseteq Call
  BY DEF Receive, TypeOK
<1>3. run' \in RunType
  <2>1. run \in RunType
    BY DEF TypeOK
  <2>2. CASE Heard(c)
    BY <1>1, <2>1, <2>2, StepRun DEF Heard
  <2>3. CASE Unheard(c)
    BY <2>1, <2>3 DEF Unheard
  <2> QED BY <2>2, <2>3
<1>4. Qty[c.msg] \in Nat
  BY <1>1, MessagingAssumption
<1>5. CASE ApplyDecrement(c)
  <2>1. seen' \in [Channel -> SUBSET Order]
    BY <1>1, <1>5, SetSeen DEF ApplyDecrement, Channel, TypeOK
  <2>2. verdict' \in [Order -> {"none", "applied", "reserved", "rejected"}] /\ stock' \in Int
    BY <1>1, <1>4, <1>5 DEF ApplyDecrement, TypeOK
  <2> QED BY <1>2, <1>3, <1>5, <2>1, <2>2 DEF ApplyDecrement, TypeOK
<1>6. CASE HandleOrderCreated(c)
  <2>1. seen' \in [Channel -> SUBSET Order]
    BY <1>1, <1>6, SetSeen DEF HandleOrderCreated, Channel, TypeOK
  <2>2. verdict' \in [Order -> {"none", "applied", "reserved", "rejected"}] /\ stock' \in Int
    BY <1>1, <1>4, <1>6 DEF HandleOrderCreated, TypeOK
  <2>3. row' \in RowType
    BY <1>1, <1>6, SetRow DEF HandleOrderCreated, Channel, TypeOK
  <2> QED BY <1>2, <1>3, <1>6, <2>1, <2>2, <2>3 DEF HandleOrderCreated, TypeOK
<1>7. CASE ApplyOrderEvent(c)
  <2>1. seen' \in [Channel -> SUBSET Order]
    BY <1>1, <1>7, SetSeen DEF ApplyOrderEvent, Channel, TypeOK
  <2>2. status' \in [Order -> {"none", "pending", "confirmed", "cancelled"}]
    BY <1>1, <1>7 DEF ApplyOrderEvent, TypeOK
  <2> QED BY <1>2, <1>3, <1>7, <2>1, <2>2 DEF ApplyOrderEvent, TypeOK
<1>8. CASE Duplicate(c)
  BY <1>2, <1>3, <1>8 DEF Duplicate, TypeOK
<1> QED BY <1>5, <1>6, <1>7, <1>8 DEF Receive

LEMMA TypeNext == TypeOK /\ [Next]_vars => TypeOK'
<1> SUFFICES ASSUME TypeOK, [Next]_vars PROVE TypeOK'
  OBVIOUS
<1>1. ASSUME NEW m \in Order, InsertOrderWithOutbox(m) PROVE TypeOK'
  <2>1. row' \in RowType
    BY <1>1, SetRow DEF InsertOrderWithOutbox, Channel, TypeOK
  <2>2. status' \in [Order -> {"none", "pending", "confirmed", "cancelled"}]
    BY <1>1 DEF InsertOrderWithOutbox, TypeOK
  <2> QED BY <1>1, <2>1, <2>2 DEF InsertOrderWithOutbox, TypeOK
<1>2. ASSUME NEW m \in Order, InsertPendingOrderWithEvent(m) PROVE TypeOK'
  <2>1. row' \in RowType
    BY <1>2, SetRow DEF InsertPendingOrderWithEvent, Channel, TypeOK
  <2>2. status' \in [Order -> {"none", "pending", "confirmed", "cancelled"}]
    BY <1>2 DEF InsertPendingOrderWithEvent, TypeOK
  <2> QED BY <1>2, <2>1, <2>2 DEF InsertPendingOrderWithEvent, TypeOK
<1>3. CASE \E t \in Run : OutboxPoller(t) \/ ChoreoOrdersPoller(t) \/ ChoreoItemsPoller(t)
  BY <1>3, TypePoll DEF OutboxPoller, ChoreoOrdersPoller, ChoreoItemsPoller, Channel
<1>4. CASE \E c \in calls : ReceiveHeard(c) \/ ReceiveUnheard(c)
  BY <1>4, TypeReceive DEF ReceiveHeard, ReceiveUnheard
<1>5. CASE \E c \in calls : LoseCall(c)
  BY <1>5 DEF LoseCall, TypeOK
<1>6. ASSUME NEW chs, Restart(chs) PROVE TypeOK'
  <2>1. run' \in RunType
    BY <1>6 DEF Restart, RunType, Execution, Idle, TypeOK
  <2> QED BY <1>6, <2>1 DEF Restart, TypeOK
<1>7. CASE UNCHANGED vars
  BY <1>7 DEF vars, TypeOK
<1> QED BY <1>1, <1>2, <1>3, <1>4, <1>5, <1>6, <1>7 DEF Next

\* Type correctness, for every value of the constants (Messaging!TypeOK).
THEOREM TypeCorrect == Spec => []TypeOK
<1> QED BY TypeInit, TypeNext, PTL DEF Spec

-----------------------------------------------------------------------------
(* The inductive invariant.  The ledger is its part without the pollers.   *)

Ledger ==
  DeliveredIsProcessed /\ VerdictAgreement /\ ReservedWithinStock /\ RowsMatch /\ VerdictsMatch

Tables == <<mode, status, row, seen, verdict, stock>>

\* No row disappears and no inbox entry is forgotten.
Grows ==
  /\ \A d \in Channel, n \in Order : row[d][n] # "absent" => row'[d][n] # "absent"
  /\ \A d \in Channel : seen[d] \subseteq seen'[d]

LEMMA SameTables ==
  ASSUME IndInv, UNCHANGED Tables
  PROVE  Ledger' /\ Grows
BY DEF IndInv, Tables, Ledger, Grows, DeliveredIsProcessed, VerdictAgreement,
       ReservedWithinStock, RowsMatch, VerdictsMatch

\* The pollers still know what they need if every new call is of a row that
\* exists, and every execution that changed holds rows that exist and, if it is
\* about to mark one, one that is processed.
LEMMA PollersKeep ==
  ASSUME TypeOK, PollersKnow, Grows,
         \A c \in calls' : c \in calls \/ (c \in Call /\ row[c.ch][c.msg] # "absent"),
         \A d \in Channel, u \in Run :
           \/ run'[d][u] = run[d][u]
           \/ \A n \in run'[d][u].todo :
                /\ row[d][n] # "absent" /\ n \in Order
                /\ At(d, u, n, "mark")' => n \in seen'[d]
  PROVE  PollersKnow'
<1>1. ASSUME NEW c \in calls' PROVE row'[c.ch][c.msg] # "absent"
  <2>1. c \in Call /\ row[c.ch][c.msg] # "absent"
    BY <1>1 DEF TypeOK, PollersKnow
  <2> QED BY <2>1 DEF Grows, Call
<1>2. ASSUME NEW d \in Channel, NEW u \in Run, NEW n \in run'[d][u].todo
      PROVE  row'[d][n] # "absent" /\ (At(d, u, n, "mark")' => n \in seen'[d])
  <2>1. CASE run'[d][u] = run[d][u]
    <3>1. n \in run[d][u].todo /\ n \in Order
      BY <1>2, <2>1 DEF TypeOK, RunType, Execution
    <3>2. row[d][n] # "absent" /\ (At(d, u, n, "mark") => n \in seen[d])
      BY <3>1 DEF PollersKnow
    <3>3. At(d, u, n, "mark")' => At(d, u, n, "mark")
      BY <2>1 DEF At
    <3> QED BY <3>1, <3>2, <3>3 DEF Grows
  <2>2. CASE run'[d][u] # run[d][u]
    BY <1>2, <2>2 DEF Grows
  <2> QED BY <2>1, <2>2
<1> QED BY <1>1, <1>2 DEF PollersKnow

LEMMA InvInit == Init => IndInv
BY MessagingAssumption DEF Init, IndInv, DeliveredIsProcessed, VerdictAgreement,
   ReservedWithinStock, PollersKnow, RowsMatch, VerdictsMatch, Channel, Idle

LEMMA InvInsertOutbox ==
  ASSUME TypeOK, IndInv, NEW m \in Order, InsertOrderWithOutbox(m)
  PROVE  IndInv'
<1>1. /\ row'["outbox"][m] = "undelivered"
      /\ \A d \in Channel, n \in Order : <<d, n>> # <<"outbox", m>> => row'[d][n] = row[d][n]
  BY SetRow DEF TypeOK, InsertOrderWithOutbox, Channel
<1>2. status'[m] = "confirmed" /\ \A n \in Order : n # m => status'[n] = status[n]
  BY DEF TypeOK, InsertOrderWithOutbox
<1>3. Ledger' /\ Grows
  BY <1>1, <1>2 DEF InsertOrderWithOutbox, TypeOK, IndInv, Ledger, Grows, DeliveredIsProcessed,
     VerdictAgreement, ReservedWithinStock, RowsMatch, VerdictsMatch, Channel
<1>4. PollersKnow'
  BY <1>3, PollersKeep DEF InsertOrderWithOutbox, IndInv
<1> QED BY <1>3, <1>4 DEF Ledger, IndInv

LEMMA InvInsertPending ==
  ASSUME TypeOK, IndInv, NEW m \in Order, InsertPendingOrderWithEvent(m)
  PROVE  IndInv'
<1>1. /\ row'["created"][m] = "undelivered"
      /\ \A d \in Channel, n \in Order : <<d, n>> # <<"created", m>> => row'[d][n] = row[d][n]
  BY SetRow DEF TypeOK, InsertPendingOrderWithEvent, Channel
<1>2. status'[m] = "pending" /\ \A n \in Order : n # m => status'[n] = status[n]
  BY DEF TypeOK, InsertPendingOrderWithEvent
<1>3. Ledger' /\ Grows
  BY <1>1, <1>2 DEF InsertPendingOrderWithEvent, TypeOK, IndInv, Ledger, Grows, DeliveredIsProcessed,
     VerdictAgreement, ReservedWithinStock, RowsMatch, VerdictsMatch, Channel
<1>4. PollersKnow'
  BY <1>3, PollersKeep DEF InsertPendingOrderWithEvent, IndInv
<1> QED BY <1>3, <1>4 DEF Ledger, IndInv

LEMMA InvPoll ==
  ASSUME TypeOK, IndInv, NEW ch \in Channel, NEW t \in Run, Poll(ch, t)
  PROVE  IndInv'
<1> run \in RunType /\ PollersKnow
  BY DEF TypeOK, IndInv
<1> SUFFICES Ledger' /\ PollersKnow'
  BY DEF Ledger, IndInv
<1>1. CASE Claim(ch, t)
  <2> DEFINE r == [todo |-> Claimable(ch), at |-> "next"]
  <2>1. r \in Execution
    BY DEF Claimable, Undelivered, Execution
  <2>2. run' = [run EXCEPT ![ch][t] = r]
    BY <1>1 DEF Claim
  <2>3. \A n \in r.todo : row[ch][n] # "absent" /\ n \in Order
    BY DEF Claimable, Undelivered
  <2>4. r.at # "mark"
    OBVIOUS
  <2> HIDE DEF r
  <2>5. /\ run'[ch][t] = r
        /\ \A d \in Channel, u \in Run : <<d, u>> # <<ch, t>> => run'[d][u] = run[d][u]
    BY <2>1, <2>2 DEF RunType
  <2>6. Ledger' /\ Grows
    BY <1>1, SameTables DEF Claim, Tables
  <2>7. PollersKnow'
    BY <1>1, <2>3, <2>4, <2>5, <2>6, PollersKeep DEF Claim, At
  <2> QED BY <2>6, <2>7
<1> SUFFICES ASSUME NEW m \in Order,
                    \/ Deliver(ch, t, m) \/ DeliverFails(ch, t, m)
                    \/ MarkDelivered(ch, t, m) \/ MarkFails(ch, t, m)
             PROVE  Ledger' /\ PollersKnow'
  BY <1>1 DEF Poll
<1>2. \A n \in run[ch][t].todo : row[ch][n] # "absent" /\ n \in Order
  BY DEF PollersKnow, RunType, Execution
<1>3. ASSUME Grows, Advance(ch, t, m), calls' = calls PROVE PollersKnow'
  <2>1. /\ run'[ch][t].todo \subseteq run[ch][t].todo
        /\ run'[ch][t].at # "mark"
        /\ \A d \in Channel, u \in Run : <<d, u>> # <<ch, t>> => run'[d][u] = run[d][u]
    BY <1>3, AdvanceRun
  <2> QED BY <1>2, <1>3, <2>1, PollersKeep DEF At
<1>4. CASE Deliver(ch, t, m)
  <2>1. /\ run'[ch][t] = [todo |-> run[ch][t].todo, at |-> "await"]
        /\ \A d \in Channel, u \in Run : <<d, u>> # <<ch, t>> => run'[d][u] = run[d][u]
    BY <1>4, StepRun DEF Deliver
  <2>2. run'[ch][t].todo = run[ch][t].todo /\ run'[ch][t].at # "mark"
    BY <2>1
  <2>3. Ledger' /\ Grows
    BY <1>4, SameTables DEF Deliver, Tables
  <2>4. \A c \in calls' : c \in calls \/ (c \in Call /\ row[c.ch][c.msg] # "absent")
    BY <1>2, <1>4 DEF Deliver, At, Call
  <2>5. PollersKnow'
    BY <1>2, <2>1, <2>2, <2>3, <2>4, PollersKeep DEF At
  <2> QED BY <2>3, <2>5
<1>5. CASE DeliverFails(ch, t, m)
  <2>1. Ledger' /\ Grows
    BY <1>5, SameTables DEF DeliverFails, Tables
  <2> QED BY <1>3, <1>5, <2>1 DEF DeliverFails
<1>6. CASE MarkDelivered(ch, t, m)
  <2>1. m \in seen[ch] /\ row[ch][m] # "absent"
    BY <1>6 DEF MarkDelivered, At, PollersKnow
  <2>2. /\ row'[ch][m] = "delivered"
        /\ \A d \in Channel, n \in Order : <<d, n>> # <<ch, m>> => row'[d][n] = row[d][n]
    BY <1>6 DEF MarkDelivered, TypeOK, RowType
  <2>3. \A d \in Channel, n \in Order : row'[d][n] # "absent" <=> row[d][n] # "absent"
    BY <2>1, <2>2
  <2>4. Ledger' /\ Grows
    BY <1>6, <2>1, <2>2, <2>3 DEF MarkDelivered, IndInv, Ledger, Grows, DeliveredIsProcessed,
       VerdictAgreement, ReservedWithinStock, RowsMatch, VerdictsMatch, Channel
  <2> QED BY <1>3, <1>6, <2>4 DEF MarkDelivered
<1>7. CASE MarkFails(ch, t, m)
  <2>1. Ledger' /\ Grows
    BY <1>7, SameTables DEF MarkFails, Tables
  <2> QED BY <1>3, <1>7, <2>1 DEF MarkFails
<1> QED BY <1>4, <1>5, <1>6, <1>7

\* What a receiver's transaction does to the tables.
LEMMA ReceiveLedger ==
  ASSUME TypeOK, IndInv, NEW c \in calls, Receive(c)
  PROVE  Ledger' /\ Grows /\ c.msg \in seen'[c.ch]
<1>1. c \in Call /\ c.ch \in Channel /\ c.msg \in Order /\ row[c.ch][c.msg] # "absent"
  BY DEF TypeOK, Call, IndInv, PollersKnow
<1>2. Qty[c.msg] \in Nat /\ stock \in Int
  BY <1>1, MessagingAssumption DEF TypeOK
<1>3. CASE ApplyDecrement(c)
  <2>1. /\ seen'["outbox"] = seen["outbox"] \union {c.msg}
        /\ \A d \in Channel : d # "outbox" => seen'[d] = seen[d]
    BY <1>1, <1>3, SetSeen DEF ApplyDecrement, TypeOK, Channel
  <2>2. /\ verdict'[c.msg] = "applied"
        /\ \A n \in Order : n # c.msg => verdict'[n] = verdict[n]
    BY <1>1, <1>3 DEF ApplyDecrement, TypeOK
  <2>3. mode = "outbox" /\ row["outbox"][c.msg] # "absent" /\ row["created"][c.msg] = "absent"
    BY <1>1, <1>3 DEF ApplyDecrement, IndInv, RowsMatch
  <2> QED BY <1>1, <1>3, <2>1, <2>2, <2>3 DEF ApplyDecrement, IndInv, Ledger, Grows,
             DeliveredIsProcessed, VerdictAgreement, ReservedWithinStock, RowsMatch, VerdictsMatch, Channel
<1>4. CASE HandleOrderCreated(c)
  <2>1. /\ seen'["created"] = seen["created"] \union {c.msg}
        /\ \A d \in Channel : d # "created" => seen'[d] = seen[d]
    BY <1>1, <1>4, SetSeen DEF HandleOrderCreated, TypeOK, Channel
  <2>2. /\ row'["stock"][c.msg] = "undelivered"
        /\ \A d \in Channel, n \in Order : <<d, n>> # <<"stock", c.msg>> => row'[d][n] = row[d][n]
    BY <1>1, <1>4, SetRow DEF HandleOrderCreated, TypeOK, Channel
  <2>3. /\ verdict'[c.msg] \in {"reserved", "rejected"}
        /\ \A n \in Order : n # c.msg => verdict'[n] = verdict[n]
        /\ stock >= 0 => stock' >= 0
    BY <1>1, <1>2, <1>4 DEF HandleOrderCreated, TypeOK
  <2>4. mode = "choreography" /\ row["created"][c.msg] # "absent" /\ row["outbox"][c.msg] = "absent"
    BY <1>1, <1>4 DEF HandleOrderCreated, IndInv, RowsMatch
  <2>5. verdict[c.msg] = "none"
    BY <1>1, <1>4, <2>4 DEF HandleOrderCreated, IndInv, VerdictsMatch
  <2>6. VerdictAgreement'
    BY <1>4, <2>3, <2>5 DEF HandleOrderCreated, IndInv, VerdictAgreement
  <2>7. VerdictsMatch' /\ Grows
    BY <1>1, <2>1, <2>2, <2>3, <2>4 DEF IndInv, VerdictsMatch, Grows, Channel
  <2>8. RowsMatch'
    BY <1>1, <1>4, <2>1, <2>2 DEF HandleOrderCreated, IndInv, RowsMatch, Channel
  <2>9. DeliveredIsProcessed' /\ ReservedWithinStock'
    BY <1>1, <1>4, <2>1, <2>2, <2>3 DEF HandleOrderCreated, IndInv, DeliveredIsProcessed, ReservedWithinStock, Channel
  <2> QED BY <1>4, <2>1, <2>6, <2>7, <2>8, <2>9 DEF HandleOrderCreated, Ledger
<1>5. CASE ApplyOrderEvent(c)
  <2>1. /\ seen'["stock"] = seen["stock"] \union {c.msg}
        /\ \A d \in Channel : d # "stock" => seen'[d] = seen[d]
    BY <1>1, <1>5, SetSeen DEF ApplyOrderEvent, TypeOK, Channel
  <2>2. /\ status'[c.msg] = IF status[c.msg] # "pending" THEN status[c.msg]
                            ELSE IF verdict[c.msg] = "reserved" THEN "confirmed" ELSE "cancelled"
        /\ \A n \in Order : n # c.msg => status'[n] = status[n]
    BY <1>1, <1>5 DEF ApplyOrderEvent, TypeOK
  <2>3. mode = "choreography" /\ verdict[c.msg] \in {"reserved", "rejected"}
        /\ status[c.msg] # "none" /\ row["outbox"][c.msg] = "absent"
    BY <1>1, <1>5 DEF ApplyOrderEvent, IndInv, RowsMatch, VerdictsMatch
  <2>4. VerdictAgreement' /\ RowsMatch'
    BY <1>1, <1>5, <2>1, <2>2, <2>3 DEF ApplyOrderEvent, IndInv, VerdictAgreement, RowsMatch, Channel
  <2>5. Grows /\ VerdictsMatch' /\ DeliveredIsProcessed' /\ ReservedWithinStock'
    BY <1>1, <1>5, <2>1 DEF ApplyOrderEvent, IndInv, Grows, VerdictsMatch, DeliveredIsProcessed,
       ReservedWithinStock, Channel
  <2> QED BY <1>5, <2>1, <2>4, <2>5 DEF ApplyOrderEvent, Ledger
<1>6. CASE Duplicate(c)
  BY <1>6, SameTables DEF Duplicate, Tables
<1> QED BY <1>3, <1>4, <1>5, <1>6 DEF Receive

LEMMA InvReceive ==
  ASSUME TypeOK, IndInv, NEW c \in calls, Receive(c), Heard(c) \/ Unheard(c)
  PROVE  IndInv'
<1> run \in RunType /\ PollersKnow
  BY DEF TypeOK, IndInv
<1>1. Ledger' /\ Grows /\ c.msg \in seen'[c.ch]
  BY ReceiveLedger
<1>2. \A d \in calls' : d \in calls
  BY DEF Receive
<1>3. c \in Call /\ c.ch \in Channel /\ c.run \in Run /\ c.msg \in Order
  BY DEF TypeOK, Call
<1>4. CASE Heard(c)
  <2>1. /\ run'[c.ch][c.run] = [todo |-> run[c.ch][c.run].todo, at |-> "mark"]
        /\ \A d \in Channel, u \in Run : <<d, u>> # <<c.ch, c.run>> => run'[d][u] = run[d][u]
    BY <1>3, <1>4, StepRun DEF Heard
  <2>2. run'[c.ch][c.run].todo = run[c.ch][c.run].todo
    BY <2>1
  <2>3. run[c.ch][c.run].todo \subseteq Order
    BY <1>3 DEF RunType, Execution
  \* The execution is at the first row of its batch, and that is the call's.
  <2>4. \A n \in run'[c.ch][c.run].todo :
          /\ row[c.ch][n] # "absent" /\ n \in Order
          /\ At(c.ch, c.run, n, "mark")' => n \in seen'[c.ch]
    <3> SUFFICES ASSUME NEW n \in run[c.ch][c.run].todo
                 PROVE  /\ row[c.ch][n] # "absent" /\ n \in Order
                        /\ At(c.ch, c.run, n, "mark")' => n = c.msg
      BY <1>1, <2>2
    <3>1. row[c.ch][n] # "absent" /\ n \in Order
      BY <1>3, <2>3 DEF PollersKnow
    <3>2. c.msg \in run[c.ch][c.run].todo /\ c.msg <= n
      BY <1>4 DEF Heard, Awaited, At
    <3>3. At(c.ch, c.run, n, "mark")' => n <= c.msg
      BY <2>2, <3>2 DEF At
    <3>4. \A a, b \in Order : a <= b /\ b <= a => a = b
      BY MessagingAssumption
    <3>5. n <= c.msg => n = c.msg
      BY <1>3, <3>1, <3>2, <3>4, Zenon
    <3> QED BY <3>1, <3>3, <3>5
  <2> QED BY <1>1, <1>2, <2>1, <2>4, PollersKeep DEF Ledger, IndInv
<1>5. CASE Unheard(c)
  BY <1>1, <1>2, <1>5, PollersKeep DEF Unheard, Ledger, IndInv
<1> QED BY <1>4, <1>5

LEMMA InvLoseCall ==
  ASSUME TypeOK, IndInv, NEW c \in calls, LoseCall(c)
  PROVE  IndInv'
<1>1. Ledger' /\ Grows
  BY SameTables DEF LoseCall, Tables
<1> QED BY <1>1, PollersKeep DEF LoseCall, Ledger, IndInv

LEMMA InvRestart ==
  ASSUME TypeOK, IndInv, NEW chs, Restart(chs)
  PROVE  IndInv'
<1>1. Ledger' /\ Grows
  BY SameTables DEF Restart, Tables
<1>2. \A d \in Channel, u \in Run : run'[d][u] = run[d][u] \/ run'[d][u].todo = {}
  BY DEF Restart, Idle
<1> QED BY <1>1, <1>2, PollersKeep DEF Restart, Ledger, IndInv

LEMMA InvNext == TypeOK /\ IndInv /\ [Next]_vars => IndInv'
<1> SUFFICES ASSUME TypeOK, IndInv, [Next]_vars PROVE IndInv'
  OBVIOUS
<1>1. CASE \E m \in Order : InsertOrderWithOutbox(m) \/ InsertPendingOrderWithEvent(m)
  BY <1>1, InvInsertOutbox, InvInsertPending
<1>2. CASE \E t \in Run : OutboxPoller(t) \/ ChoreoOrdersPoller(t) \/ ChoreoItemsPoller(t)
  BY <1>2, InvPoll DEF OutboxPoller, ChoreoOrdersPoller, ChoreoItemsPoller, Channel
<1>3. CASE \E c \in calls : ReceiveHeard(c) \/ ReceiveUnheard(c)
  BY <1>3, InvReceive DEF ReceiveHeard, ReceiveUnheard
<1>4. CASE \E c \in calls : LoseCall(c)
  BY <1>4, InvLoseCall
<1>5. CASE Restart({"outbox", "created"}) \/ Restart({"stock"})
  BY <1>5, InvRestart
<1>6. CASE UNCHANGED vars
  <2>1. Ledger' /\ Grows
    BY <1>6, SameTables DEF vars, Tables
  <2> QED BY <1>6, <2>1, PollersKeep DEF vars, Ledger, IndInv
<1> QED BY <1>1, <1>2, <1>3, <1>4, <1>5, <1>6 DEF Next

\* What pollers, rows and inboxes know of each other holds in every interleaving
\* of deliveries, marks, lost answers and restarts (Messaging!IndInv).
THEOREM IndInvHolds == Spec => []IndInv
<1>1. Init => TypeOK /\ IndInv
  BY TypeInit, InvInit
<1>2. TypeOK /\ IndInv /\ [Next]_vars => (TypeOK /\ IndInv)'
  BY TypeNext, InvNext
<1> QED BY <1>1, <1>2, PTL DEF Spec

\* At-least-once: no row is marked delivered that its receiver has not processed,
\* however executions of the pollers overlap (Messaging!DeliveredIsProcessed).
THEOREM DeliveredIsProcessedHolds == Spec => []DeliveredIsProcessed
<1>1. IndInv => DeliveredIsProcessed
  BY DEF IndInv
<1> QED BY <1>1, IndInvHolds, PTL

\* A choreographed order carries the verdict that was reached on its stock, with
\* whatever duplicates and delays (Messaging!VerdictAgreement).
THEOREM VerdictAgreementHolds == Spec => []VerdictAgreement
<1>1. IndInv => VerdictAgreement
  BY DEF IndInv
<1> QED BY <1>1, IndInvHolds, PTL

\* Choreography never reserves stock it does not have (Messaging!ReservedWithinStock).
THEOREM ReservedWithinStockHolds == Spec => []ReservedWithinStock
<1>1. IndInv => ReservedWithinStock
  BY DEF IndInv
<1> QED BY <1>1, IndInvHolds, PTL

-----------------------------------------------------------------------------
(* Messaging implements OrderDesk.                                         *)

LEMMA DeskReceive ==
  ASSUME TypeOK, IndInv, NEW c \in calls, Receive(c)
  PROVE  [Desk!Next]_(Desk!vars)
<1>1. c \in Call /\ c.ch \in Channel /\ c.msg \in Order /\ row[c.ch][c.msg] # "absent"
  BY DEF TypeOK, Call, IndInv, PollersKnow
<1>2. /\ mode \in {"outbox", "choreography"}
      /\ status[c.msg] \in {"none", "pending", "confirmed", "cancelled"}
      /\ verdict[c.msg] \in {"none", "applied", "reserved", "rejected"}
  BY <1>1 DEF TypeOK
\* The first delivery of an outbox order takes its stock.
<1>3. CASE ApplyDecrement(c)
  <2>1. row["outbox"][c.msg] # "absent" /\ mode = "outbox" /\ status[c.msg] = "confirmed"
    BY <1>1, <1>3 DEF ApplyDecrement, IndInv, RowsMatch
  <2>2. row["created"][c.msg] = "absent"
    BY <1>1, <2>1 DEF IndInv, RowsMatch
  <2>3. verdict[c.msg] = "none"
    BY <1>1, <1>3, <2>2 DEF ApplyDecrement, IndInv, VerdictsMatch
  <2>4. Desk!Apply(c.msg)
    BY <1>3, <2>1, <2>3 DEF ApplyDecrement, Desk!Apply
  <2> QED BY <1>1, <2>4 DEF Desk!Next
\* The first delivery of OrderCreated decides.
<1>4. CASE HandleOrderCreated(c)
  <2>1. /\ mode = "choreography" /\ status[c.msg] # "none"
        /\ row["outbox"][c.msg] = "absent"
    BY <1>1, <1>4 DEF HandleOrderCreated, IndInv, RowsMatch
  <2>2. verdict[c.msg] = "none"
    BY <1>1, <1>4, <2>1 DEF HandleOrderCreated, IndInv, VerdictsMatch
  <2>3. status[c.msg] = "pending"
    BY <1>1, <1>2, <2>1, <2>2 DEF IndInv, VerdictAgreement
  <2>4. Desk!Reserve(c.msg) \/ Desk!Reject(c.msg)
    BY <1>4, <2>2, <2>3 DEF HandleOrderCreated, Desk!Reserve, Desk!Reject
  <2> QED BY <1>1, <2>4 DEF Desk!Next
\* The first delivery of the reply tells a pending order; any other keeps its status.
<1>5. CASE ApplyOrderEvent(c)
  <2>1. verdict[c.msg] # "none"
    BY <1>1, <1>5 DEF ApplyOrderEvent, IndInv, RowsMatch, VerdictsMatch
  <2>2. CASE status[c.msg] = "pending"
    <3>1. status' = [status EXCEPT ![c.msg] =
                       IF verdict[c.msg] = "reserved" THEN "confirmed" ELSE "cancelled"]
      BY <1>1, <1>5, <2>2 DEF ApplyOrderEvent, TypeOK
    <3>2. Desk!Tell(c.msg)
      BY <1>5, <2>1, <2>2, <3>1 DEF ApplyOrderEvent, Desk!Tell
    <3> QED BY <1>1, <3>2 DEF Desk!Next
  <2>3. CASE status[c.msg] # "pending"
    <3>1. status' = status
      BY <1>1, <1>5, <2>3 DEF ApplyOrderEvent, TypeOK
    <3> QED BY <1>5, <3>1 DEF ApplyOrderEvent, Desk!vars
  <2> QED BY <2>2, <2>3
<1>6. CASE Duplicate(c)
  BY <1>6 DEF Duplicate, Desk!vars
<1> QED BY <1>3, <1>4, <1>5, <1>6 DEF Receive

LEMMA DeskPoll ==
  ASSUME NEW ch \in Channel, NEW t \in Run, Poll(ch, t)
  PROVE  UNCHANGED Desk!vars
BY DEF Poll, Claim, Deliver, DeliverFails, MarkDelivered, MarkFails, Desk!vars

LEMMA DeskNext == TypeOK /\ IndInv /\ [Next]_vars => [Desk!Next]_(Desk!vars)
<1> SUFFICES ASSUME TypeOK, IndInv, [Next]_vars PROVE [Desk!Next]_(Desk!vars)
  OBVIOUS
<1>1. ASSUME NEW m \in Order, InsertOrderWithOutbox(m) \/ InsertPendingOrderWithEvent(m)
      PROVE  Desk!Next
  BY <1>1 DEF InsertOrderWithOutbox, InsertPendingOrderWithEvent, Desk!Next, Desk!Place
<1>2. CASE \E t \in Run : OutboxPoller(t) \/ ChoreoOrdersPoller(t) \/ ChoreoItemsPoller(t)
  BY <1>2, DeskPoll DEF OutboxPoller, ChoreoOrdersPoller, ChoreoItemsPoller, Channel
<1>3. CASE \E c \in calls : ReceiveHeard(c) \/ ReceiveUnheard(c)
  BY <1>3, DeskReceive DEF ReceiveHeard, ReceiveUnheard
<1>4. CASE \E c \in calls : LoseCall(c)
  BY <1>4 DEF LoseCall, Desk!vars
<1>5. CASE Restart({"outbox", "created"}) \/ Restart({"stock"})
  BY <1>5 DEF Restart, Desk!vars
<1>6. CASE UNCHANGED vars
  BY <1>6 DEF vars, Desk!vars
<1> QED BY <1>1, <1>2, <1>3, <1>4, <1>5, <1>6 DEF Next

\* Under retries, duplicates, late answers and crashes, each order's stock is taken
\* at most once and its verdict reached and told at most once (Messaging!RefinesDesk).
THEOREM RefinesDeskHolds == Spec => RefinesDesk
<1>1. Init => Desk!Init
  BY DEF Init, Desk!Init
<1> QED BY <1>1, TypeCorrect, IndInvHolds, DeskNext, PTL DEF Spec, RefinesDesk, Desk!Spec

-----------------------------------------------------------------------------
(* Stock.                                                                  *)

Balance ==
  /\ IsFiniteSet(UnitsOf(Qty, Desk!Supplied))
  /\ stock + Total(Qty, Desk!Supplied) = InitStock

LEMMA BalanceInit == Init => Balance
<1> SUFFICES ASSUME Init PROVE Balance
  OBVIOUS
<1>1. Desk!Supplied = {} /\ stock = InitStock /\ InitStock \in Nat
  BY MessagingAssumption DEF Init, Desk!Supplied
<1> QED BY <1>1, TotalEmpty DEF Balance

\* It is a property of the desk, and so of all that implements it.
LEMMA BalanceNext ==
  ASSUME TypeOK, Balance, [Desk!Next]_(Desk!vars)
  PROVE  Balance'
<1>1. /\ IsFiniteSet(UnitsOf(Qty, Desk!Supplied)) /\ Total(Qty, Desk!Supplied) \in Nat
      /\ stock \in Int /\ InitStock \in Nat /\ stock + Total(Qty, Desk!Supplied) = InitStock
  BY MessagingAssumption, TotalNat DEF Balance, TypeOK
<1>2. ASSUME Desk!Supplied' = Desk!Supplied, stock' = stock PROVE Balance'
  BY <1>2 DEF Balance
<1>3. ASSUME NEW m \in Order, Desk!Apply(m) \/ Desk!Reserve(m) PROVE Balance'
  <2>1. m \notin Desk!Supplied /\ stock' = stock - Qty[m] /\ Qty[m] \in Nat
    BY <1>3, MessagingAssumption DEF Desk!Apply, Desk!Reserve, Desk!Supplied
  <2>2. Desk!Supplied' = Desk!Supplied \union {m}
    BY <1>3 DEF Desk!Apply, Desk!Reserve, Desk!Supplied, TypeOK
  <2>3. /\ IsFiniteSet(UnitsOf(Qty, Desk!Supplied'))
        /\ Total(Qty, Desk!Supplied') = Total(Qty, Desk!Supplied) + Qty[m]
    BY <1>1, <2>1, <2>2, TotalAdd
  <2>4. stock' + Total(Qty, Desk!Supplied') = InitStock
    BY <1>1, <2>1, <2>3
  <2> QED BY <2>3, <2>4 DEF Balance
<1>4. ASSUME NEW m \in Order, Desk!Place(m) \/ Desk!Reject(m) \/ Desk!Tell(m) PROVE Balance'
  <2>1. Desk!Supplied' = Desk!Supplied
    BY <1>4 DEF Desk!Place, Desk!Reject, Desk!Tell, Desk!Supplied, TypeOK
  <2> QED BY <1>2, <1>4, <2>1 DEF Desk!Place, Desk!Reject, Desk!Tell
<1>5. CASE UNCHANGED Desk!vars
  <2>1. Desk!Supplied' = Desk!Supplied
    BY <1>5 DEF Desk!vars, Desk!Supplied
  <2> QED BY <1>2, <1>5, <2>1 DEF Desk!vars
<1> QED BY <1>3, <1>4, <1>5 DEF Desk!Next

\* Whatever is delivered twice, late or never heard of: each order takes its
\* quantity at most once, and choreography never sells more than there is.
THEOREM StockConservedHolds == Spec => []StockConserved
<1>1. TypeOK /\ IndInv /\ Balance /\ [Next]_vars => Balance'
  BY DeskNext, BalanceNext
<1>2. Balance /\ IndInv => StockConserved
  BY DEF Balance, IndInv, StockConserved
<1> QED BY <1>1, <1>2, BalanceInit, TypeCorrect, IndInvHolds, PTL DEF Spec
=============================================================================
