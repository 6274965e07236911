---------------------------- MODULE Saga_proofs ----------------------------
(***************************************************************************)
(* Proofs about Saga, for any sagas, quantities, stock, overlapping         *)
(* executions of the poller and faults.                                     *)
(***************************************************************************)
EXTENDS Saga, Units_proofs, TLAPS

-----------------------------------------------------------------------------
(* Type correctness.                                                       *)

PC == {"new", "sendReserve", "reserve", "insert", "complete", "release", "undo", "refuse"} \union Ended

LEMMA GotoType ==
  ASSUME TypeOK, NEW g \in Gid, NEW l \in PC, Goto(g, l)
  PROVE  pc' \in [Gid -> PC] /\ pc'[g] = l /\ \A h \in Gid : h # g => pc'[h] = pc[h]
BY DEF Goto, TypeOK, PC

LEMMA SetLogType ==
  ASSUME TypeOK, NEW g \in Gid,
         NEW s \in {"none", "reserved", "compensating", "compensated", "completed"}, SetLog(g, s)
  PROVE  /\ log' \in [Gid -> {"none", "reserved", "compensating", "compensated", "completed"}]
         /\ old' \in [Gid -> BOOLEAN]
         /\ log'[g] = s /\ ~old'[g]
         /\ \A h \in Gid : h # g => log'[h] = log[h] /\ old'[h] = old[h]
BY DEF SetLog, Log, TypeOK

LEMMA TypeInit == Init => TypeOK
BY SagaAssumption DEF Init, TypeOK

LEMMA TypeHandler ==
  ASSUME TypeOK, NEW g \in Gid, InsertSagaLog(g) \/ HandlerStep(g)
  PROVE  TypeOK'
<1>1. pc' \in [Gid -> PC]
  BY GotoType DEF InsertSagaLog, HandlerStep, SendReserve, FaultPoint, InsertOrder, InsertOrderFails,
                  MarkCompensated, Complete, UpdateFails, HandlerTimeout, PC, Ended
<1>2. /\ log' \in [Gid -> {"none", "reserved", "compensating", "compensated", "completed"}]
      /\ old' \in [Gid -> BOOLEAN]
  <2>1. \/ UNCHANGED logs
        \/ SetLog(g, "reserved") \/ SetLog(g, "compensated") \/ SetLog(g, "completed")
    BY DEF InsertSagaLog, HandlerStep, SendReserve, FaultPoint, InsertOrder, InsertOrderFails,
           MarkCompensated, Complete, UpdateFails, HandlerTimeout, MayLog
  <2> QED BY <2>1, SetLogType DEF logs, TypeOK
<1>3. calls' \subseteq Call
  <2>1. UNCHANGED calls \/ Send("reserve", g, "handler") \/ Send("release", g, "handler")
    BY DEF InsertSagaLog, HandlerStep, SendReserve, FaultPoint, InsertOrder, InsertOrderFails,
           MarkCompensated, Complete, UpdateFails, HandlerTimeout, items
  <2>2. CallOf("reserve", g, "handler") \in Call /\ CallOf("release", g, "handler") \in Call
    BY DEF CallOf, Call
  <2> QED BY <2>1, <2>2 DEF Send, TypeOK
<1>4. order' \subseteq Gid
  BY DEF InsertSagaLog, HandlerStep, SendReserve, FaultPoint, InsertOrder, InsertOrderFails,
         MarkCompensated, Complete, UpdateFails, HandlerTimeout, TypeOK
<1>5. UNCHANGED <<reservation, stock, overtaken, batch, task>>
  BY DEF InsertSagaLog, HandlerStep, SendReserve, FaultPoint, InsertOrder, InsertOrderFails,
         MarkCompensated, Complete, UpdateFails, HandlerTimeout, items, shelf, poller
<1> QED BY <1>1, <1>2, <1>3, <1>4, <1>5 DEF TypeOK, PC

\* What items-service does to a reservation.
LEMMA ItemsFacts ==
  ASSUME TypeOK, NEW r \in calls, ItemsStep(r)
  PROVE  /\ r.gid \in Gid /\ calls' = calls \ {r}
         /\ reservation' \in [Gid -> {"none", "held", "released"}] /\ stock' \in Int
         /\ overtaken \subseteq overtaken' /\ overtaken' \subseteq Gid
         /\ \A h \in Gid : h # r.gid => reservation'[h] = reservation[h]
         /\ r.op = "reserve" => reservation'[r.gid] \in {reservation[r.gid], "held"}
         /\ r.op = "reserve" /\ reservation[r.gid] # "none" => reservation'[r.gid] = reservation[r.gid]
         /\ r.op = "release" => /\ reservation'[r.gid] # "held"
                                /\ reservation'[r.gid] \in {reservation[r.gid], "released"}
                                /\ reservation'[r.gid] = "released" \/ r.gid \in overtaken'
<1>1. r.gid \in Gid /\ r.op \in {"reserve", "release"} /\ reservation[r.gid] \in {"none", "held", "released"}
  BY DEF TypeOK, Call
<1>2. Qty[r.gid] \in Nat
  BY <1>1, SagaAssumption
<1>3. CASE Reserve(r)
  BY <1>1, <1>2, <1>3 DEF Reserve, TypeOK
<1>4. CASE Release(r)
  <2>1. reservation[r.gid] = "held" \/ reservation[r.gid] = "none" \/ reservation[r.gid] = "released"
    BY <1>1
  <2>2. CASE reservation[r.gid] = "held"
    BY <1>1, <1>2, <1>4, <2>2 DEF Release, TypeOK
  <2>3. CASE reservation[r.gid] # "held"
    BY <1>1, <1>4, <2>1, <2>3 DEF Release, TypeOK
  <2> QED BY <2>2, <2>3
<1> QED BY <1>3, <1>4 DEF ItemsStep

LEMMA TypeItems ==
  ASSUME TypeOK, NEW r \in calls, ItemsStep(r)
  PROVE  TypeOK'
<1>1. /\ r.gid \in Gid /\ calls' = calls \ {r}
      /\ reservation' \in [Gid -> {"none", "held", "released"}] /\ stock' \in Int /\ overtaken' \subseteq Gid
  BY ItemsFacts
<1>2. UNCHANGED <<order, logs, batch>>
  BY DEF ItemsStep, HandlerHears, PollerHears, NobodyHears, handlers, poller
<1>3. pc' \in [Gid -> PC]
  BY <1>1, GotoType DEF ItemsStep, HandlerHears, PollerHears, NobodyHears, handlers, TypeOK, PC
<1>4. task' \in [Gid -> {"none", "await", "mark"}]
  BY <1>1 DEF ItemsStep, HandlerHears, PollerHears, NobodyHears, poller, TypeOK
<1> QED BY <1>1, <1>2, <1>3, <1>4 DEF TypeOK, logs, PC

LEMMA TypePoller ==
  ASSUME TypeOK, NEW t \in Run, PollerStep(t)
  PROVE  TypeOK'
<1>1. CASE ClaimStuckSagaLogs(t)
  <2>1. Stuck \in SUBSET Gid
    BY DEF Stuck
  <2>2. /\ log' = [g \in Gid |-> IF g \in Stuck THEN "compensating" ELSE log[g]]
        /\ old' = [g \in Gid |-> old[g] /\ g \notin Stuck]
        /\ batch' = [batch EXCEPT ![t] = Stuck] \/ batch' = batch
        /\ UNCHANGED <<handlers, items, task>>
    BY <1>1, Zenon DEF ClaimStuckSagaLogs
  <2>3. old' \in [Gid -> BOOLEAN]
    BY <2>2, Zenon
  <2>4. log' \in [Gid -> {"none", "reserved", "compensating", "compensated", "completed"}]
    BY <2>2 DEF TypeOK
  <2>5. batch' \in [Run -> SUBSET Gid]
    BY <2>1, <2>2 DEF TypeOK
  <2> QED BY <2>2, <2>3, <2>4, <2>5 DEF TypeOK, handlers, items, shelf
<1>2. ASSUME NEW g \in Gid, PollerRelease(t, g) PROVE TypeOK'
  <2>1. CallOf("release", g, "poller") \in Call
    BY DEF CallOf, Call
  <2> QED BY <1>2, <2>1 DEF PollerRelease, Send, TypeOK, handlers, logs, shelf
<1>3. ASSUME NEW g \in Gid, PollerMark(t, g) \/ PollerFails(t, g) PROVE TypeOK'
  <2>1. SetLog(g, "compensated") \/ UNCHANGED logs
    BY <1>3 DEF PollerMark, PollerFails, MayLog
  <2>2. Leave(t, g)
    BY <1>3 DEF PollerMark, PollerFails
  <2>3. /\ log' \in [Gid -> {"none", "reserved", "compensating", "compensated", "completed"}]
        /\ old' \in [Gid -> BOOLEAN]
    BY <2>1, SetLogType DEF logs, TypeOK
  <2> QED BY <2>2, <2>3 DEF Leave, TypeOK, handlers, items, shelf
<1> QED BY <1>1, <1>2, <1>3 DEF PollerStep

LEMMA TypeNext == TypeOK /\ [Next]_vars => TypeOK'
<1> SUFFICES ASSUME TypeOK, [Next]_vars PROVE TypeOK'
  OBVIOUS
<1>1. CASE UNCHANGED vars
  BY <1>1 DEF vars, handlers, logs, items, shelf, poller, TypeOK
<1>2. ASSUME NEW g \in Gid, Age(g) PROVE TypeOK'
  BY <1>2 DEF Age, TypeOK, handlers, items, shelf, poller
<1>3. ASSUME NEW r \in calls, LoseCall(r) PROVE TypeOK'
  BY <1>3 DEF LoseCall, TypeOK, handlers, logs, shelf, poller
<1>4. CASE Crash
  BY <1>4 DEF Crash, TypeOK, Ended, logs, items, shelf
<1> QED BY <1>1, <1>2, <1>3, <1>4, TypeHandler, TypeItems, TypePoller DEF Next

\* Type correctness.
THEOREM TypeCorrect == Spec => []TypeOK
BY TypeInit, TypeNext, PTL DEF Spec

-----------------------------------------------------------------------------
(* The inductive invariant, when the poller's threshold is long enough.    *)

Active == {"sendReserve", "reserve", "insert", "complete", "release", "undo", "refuse"}

\* While a handler runs nobody else works on its saga, and its stock is where it
\* takes it to be.
HandlerKnows ==
  \A g \in Gid :
    /\ pc[g] = "new" => log[g] = "none" /\ reservation[g] = "none"
    /\ pc[g] \in Active => log[g] = "reserved" /\ ~old[g]
    /\ pc[g] = "sendReserve" => reservation[g] = "none"
    /\ pc[g] = "reserve" => reservation[g] \in {"none", "held"}
    /\ pc[g] \in {"insert", "complete", "done"} => reservation[g] = "held"
    /\ pc[g] \in {"complete", "done"} => g \in order
    /\ pc[g] = "done" => log[g] = "completed"

\* A row is taken for an orphan only when it is one.
LogKnows ==
  \A g \in Gid :
    /\ old[g] => log[g] = "reserved" /\ pc[g] \in Ended
    /\ log[g] \in {"compensating", "compensated"} => pc[g] \in Ended

\* A call of a handler is that of the step it is at, or of one it has given up; a
\* release of the poller is for a saga that was claimed; and a reserve that is
\* still under way when its saga is compensated comes too late for the release.
Under == [reserve |-> {"reserve", "failed", "crashed"},
          release |-> {"release", "undo", "failed", "crashed"}]
Undone(g) == reservation[g] = "released" \/ g \in overtaken
CallKnows ==
  \A r \in calls :
    /\ r.by = "handler" => pc[r.gid] \in Under[r.op]
    /\ r.by = "poller" => r.op = "release" /\ log[r.gid] \in {"compensating", "compensated"}
    /\ r.op = "reserve" /\ log[r.gid] = "compensated" => Undone(r.gid)

\* No saga is in two batches, and one about to be marked was answered for.
PollerKnows ==
  /\ \A t \in Run : \A g \in batch[t] : log[g] = "compensating"
  /\ \A s, t \in Run : s # t => batch[s] \intersect batch[t] = {}
  /\ \A g \in Gid : task[g] # "none" => log[g] = "compensating"
  /\ \A g \in Gid : task[g] = "mark" => Undone(g)

IndInv == TypeOK /\ HandlerKnows /\ LogKnows /\ CallKnows /\ PollerKnows

LEMMA InvInit == Init => IndInv
<1> SUFFICES ASSUME Init PROVE IndInv
  OBVIOUS
<1>1. TypeOK
  BY TypeInit
<1>2. HandlerKnows /\ LogKnows /\ CallKnows /\ PollerKnows
  BY DEF Init, HandlerKnows, LogKnows, CallKnows, PollerKnows, Active
<1> QED BY <1>1, <1>2 DEF IndInv

\* Of an order whose handler runs only that handler has calls under way: the one it
\* waits for, or the release it has given up.
LEMMA OwnCalls ==
  ASSUME IndInv, NEW g \in Gid, pc[g] \notin Ended
  PROVE  \A r \in calls : r.gid = g =>
           /\ r.by = "handler"
           /\ (r.op = "reserve" /\ pc[g] = "reserve") \/ (r.op = "release" /\ pc[g] \in {"release", "undo"})
<1> SUFFICES ASSUME NEW r \in calls, r.gid = g
    PROVE  /\ r.by = "handler"
           /\ (r.op = "reserve" /\ pc[g] = "reserve") \/ (r.op = "release" /\ pc[g] \in {"release", "undo"})
  OBVIOUS
<1>1. r.by \in {"handler", "poller"} /\ r.op \in {"reserve", "release"}
  BY DEF IndInv, TypeOK, Call
<1>2. r.by # "poller"
  BY DEF IndInv, CallKnows, LogKnows
<1>3. pc[g] \in Under[r.op]
  BY <1>1, <1>2 DEF IndInv, CallKnows
<1>4. pc[g] # "failed" /\ pc[g] # "crashed"
  BY DEF Ended
<1>5. CASE r.op = "reserve"
  <2>1. Under["reserve"] = {"reserve", "failed", "crashed"}
    BY DEF Under
  <2> QED BY <1>1, <1>2, <1>3, <1>4, <1>5, <2>1
<1>6. CASE r.op = "release"
  BY <1>1, <1>2, <1>3, <1>4, <1>6 DEF Under
<1> QED BY <1>1, <1>5, <1>6

\* A handler, whose saga the poller has not claimed, takes a step of its own that
\* sends at most one call.
LEMMA OwnStep ==
  ASSUME IndInv, TypeOK', NEW g \in Gid, pc[g] \notin Ended,
         \A h \in Gid : h # g => pc'[h] = pc[h] /\ log'[h] = log[h] /\ old'[h] = old[h],
         UNCHANGED <<reservation, overtaken, poller>>, order \subseteq order',
         \A r \in calls' : IF r.gid = g THEN /\ r.by = "handler" /\ pc'[g] \in Under[r.op]
                                             /\ r.op = "reserve" => log'[g] # "compensated"
                            ELSE r \in calls,
         ~old'[g], log'[g] \in {"compensating", "compensated"} => pc'[g] \in Ended, log'[g] # "compensating",
         /\ pc'[g] = "new" => log'[g] = "none" /\ reservation[g] = "none"
         /\ pc'[g] \in Active => log'[g] = "reserved"
         /\ pc'[g] = "sendReserve" => reservation[g] = "none"
         /\ pc'[g] = "reserve" => reservation[g] \in {"none", "held"}
         /\ pc'[g] \in {"insert", "complete", "done"} => reservation[g] = "held"
         /\ pc'[g] \in {"complete", "done"} => g \in order'
         /\ pc'[g] = "done" => log'[g] = "completed"
  PROVE  IndInv'
<1>1. HandlerKnows'
  BY DEF IndInv, HandlerKnows
<1>2. LogKnows'
  BY DEF IndInv, LogKnows
<1>3. CallKnows'
  <2> SUFFICES ASSUME NEW r \in calls'
      PROVE  /\ r.by = "handler" => pc'[r.gid] \in Under[r.op]
             /\ r.by = "poller" => r.op = "release" /\ log'[r.gid] \in {"compensating", "compensated"}
             /\ r.op = "reserve" /\ log'[r.gid] = "compensated" => Undone(r.gid)
    BY DEF CallKnows, Undone, Under
  <2>1. CASE r.gid # g
    <3>1. r \in calls /\ r.gid \in Gid
      BY <2>1 DEF IndInv, TypeOK, Call
    <3> QED BY <2>1, <3>1 DEF IndInv, CallKnows
  <2>2. CASE r.gid = g
    BY <2>2
  <2> QED BY <2>1, <2>2
<1>4. PollerKnows'
  <2>1. log[g] # "compensating"
    BY DEF IndInv, LogKnows
  <2>2. \A h \in Gid : log[h] = "compensating" => log'[h] = "compensating"
    BY <2>1
  <2> QED BY <2>2 DEF IndInv, PollerKnows, Undone, poller, TypeOK
<1> QED BY <1>1, <1>2, <1>3, <1>4 DEF IndInv

LEMMA InvHandler ==
  ASSUME IndInv, NEW g \in Gid, InsertSagaLog(g) \/ HandlerStep(g)
  PROVE  IndInv'
<1>1. TypeOK /\ TypeOK' /\ HandlerKnows /\ LogKnows
  BY TypeHandler DEF IndInv
<1>2. pc[g] \notin Ended /\ UNCHANGED <<reservation, overtaken, poller>> /\ order \subseteq order'
  BY DEF InsertSagaLog, HandlerStep, SendReserve, FaultPoint, InsertOrder, InsertOrderFails,
         MarkCompensated, Complete, UpdateFails, HandlerTimeout, Ended, items, shelf
<1>3. \A r \in calls : r.gid = g =>
        /\ r.by = "handler"
        /\ (r.op = "reserve" /\ pc[g] = "reserve") \/ (r.op = "release" /\ pc[g] \in {"release", "undo"})
  BY <1>2, OwnCalls
<1>4. \A h \in Gid : h # g => pc'[h] = pc[h]
  BY <1>1, GotoType DEF InsertSagaLog, HandlerStep, SendReserve, FaultPoint, InsertOrder, InsertOrderFails,
         MarkCompensated, Complete, UpdateFails, HandlerTimeout, PC, Ended
<1>5. ASSUME UNCHANGED logs PROVE log' = log /\ old' = old
  BY <1>5 DEF logs
<1>6. ~old[g] /\ log[g] \notin {"compensating", "compensated"}
  BY <1>1, <1>2 DEF LogKnows
<1>7. CASE InsertSagaLog(g)
  <2>1. pc[g] = "new" /\ pc'[g] \in {"sendReserve", "failed"} /\ UNCHANGED calls
    BY <1>1, <1>7 DEF InsertSagaLog, Goto, TypeOK, items
  <2>2. \/ SetLog(g, "reserved")
        \/ UNCHANGED logs /\ pc'[g] = "failed"
    BY <1>1, <1>7 DEF InsertSagaLog, MayLog, Goto, TypeOK
  <2>3. reservation[g] = "none" /\ log[g] = "none"
    BY <1>1, <2>1 DEF HandlerKnows
  <2>4. \A r \in calls' : r \in calls /\ r.gid # g
    BY <1>3, <2>1
  <2>5. CASE SetLog(g, "reserved")
    <3>1. log'[g] = "reserved" /\ ~old'[g] /\ \A h \in Gid : h # g => log'[h] = log[h] /\ old'[h] = old[h]
      BY <1>1, <2>5, SetLogType
    <3> QED BY <1>1, <1>2, <1>4, <2>1, <2>3, <2>4, <3>1, OwnStep
  <2>6. CASE UNCHANGED logs /\ pc'[g] = "failed"
    BY <1>1, <1>2, <1>4, <1>5, <1>6, <2>1, <2>3, <2>4, <2>6, OwnStep DEF Active
  <2> QED BY <2>2, <2>5, <2>6
<1>8. CASE SendReserve(g)
  <2>1. pc[g] = "sendReserve" /\ pc'[g] = "reserve" /\ UNCHANGED logs
    BY <1>1, <1>8 DEF SendReserve, Goto, TypeOK
  <2>2. log[g] = "reserved" /\ reservation[g] = "none"
    BY <1>1, <2>1 DEF HandlerKnows, Active
  <2>3. \A r \in calls' : (r \in calls /\ r.gid # g) \/ (r.gid = g /\ r.by = "handler" /\ r.op = "reserve")
    BY <1>3, <1>8, <2>1 DEF SendReserve, Send, CallOf
  <2>4. "reserve" \in Under["reserve"]
    BY DEF Under
  <2> QED BY <1>1, <1>2, <1>4, <1>5, <1>6, <2>1, <2>2, <2>3, <2>4, OwnStep
<1>9. CASE FaultPoint(g)
  <2>1. pc[g] = "insert" /\ pc'[g] = "failed" /\ UNCHANGED <<logs, calls>>
    BY <1>1, <1>9 DEF FaultPoint, Goto, TypeOK, items
  <2>2. \A r \in calls' : r \in calls /\ r.gid # g
    BY <1>3, <2>1
  <2> QED BY <1>1, <1>2, <1>4, <1>5, <1>6, <2>1, <2>2, OwnStep DEF Active
<1>10. CASE InsertOrder(g)
  <2>1. pc[g] = "insert" /\ pc'[g] = "complete" /\ g \in order' /\ UNCHANGED <<logs, calls>>
    BY <1>1, <1>10 DEF InsertOrder, Goto, TypeOK, items
  <2>2. log[g] = "reserved" /\ reservation[g] = "held"
    BY <1>1, <2>1 DEF HandlerKnows, Active
  <2>3. \A r \in calls' : r \in calls /\ r.gid # g
    BY <1>3, <2>1
  <2> QED BY <1>1, <1>2, <1>4, <1>5, <1>6, <2>1, <2>2, <2>3, OwnStep
<1>11. CASE InsertOrderFails(g)
  <2>1. pc[g] = "insert" /\ pc'[g] = "release" /\ UNCHANGED logs
    BY <1>1, <1>11 DEF InsertOrderFails, Goto, TypeOK
  <2>2. log[g] = "reserved"
    BY <1>1, <2>1 DEF HandlerKnows, Active
  <2>3. \A r \in calls' : (r \in calls /\ r.gid # g) \/ (r.gid = g /\ r.by = "handler" /\ r.op = "release")
    BY <1>3, <1>11, <2>1 DEF InsertOrderFails, Send, CallOf
  <2>4. "release" \in Under["release"]
    BY DEF Under
  <2> QED BY <1>1, <1>2, <1>4, <1>5, <1>6, <2>1, <2>2, <2>3, <2>4, OwnStep
<1>12. CASE MarkCompensated(g)
  <2>1. /\ (pc[g] = "undo" /\ pc'[g] = "failed") \/ (pc[g] = "refuse" /\ pc'[g] = "refused")
        /\ SetLog(g, "compensated") /\ UNCHANGED calls
    BY <1>1, <1>12 DEF MarkCompensated, Goto, TypeOK, items
  <2>2. log'[g] = "compensated" /\ ~old'[g] /\ \A h \in Gid : h # g => log'[h] = log[h] /\ old'[h] = old[h]
    BY <1>1, <2>1, SetLogType
  <2>3. \A r \in calls' : r \in calls
                        /\ (r.gid = g => r.by = "handler" /\ r.op = "release" /\ pc'[g] = "failed")
    BY <1>3, <2>1
  <2>4. "failed" \in Under["release"]
    BY DEF Under
  <2> QED BY <1>1, <1>2, <1>4, <2>1, <2>2, <2>3, <2>4, OwnStep DEF Active, Ended
<1>13. CASE Complete(g)
  <2>1. pc[g] = "complete" /\ pc'[g] = "done" /\ SetLog(g, "completed") /\ UNCHANGED calls
    BY <1>1, <1>13 DEF Complete, Goto, TypeOK, items
  <2>2. log'[g] = "completed" /\ ~old'[g] /\ \A h \in Gid : h # g => log'[h] = log[h] /\ old'[h] = old[h]
    BY <1>1, <2>1, SetLogType
  <2>3. reservation[g] = "held" /\ g \in order
    BY <1>1, <2>1 DEF HandlerKnows
  <2>4. \A r \in calls' : r \in calls /\ r.gid # g
    BY <1>3, <2>1
  <2> QED BY <1>1, <1>2, <1>4, <2>1, <2>2, <2>3, <2>4, OwnStep DEF Active
<1>14. CASE UpdateFails(g)
  <2>1. /\ pc[g] \in {"undo", "refuse", "complete"} /\ pc'[g] = "failed" /\ UNCHANGED calls
        /\ SetLog(g, "compensated") \/ SetLog(g, "completed") \/ UNCHANGED logs
    BY <1>1, <1>14 DEF UpdateFails, MayLog, Goto, TypeOK, items
  <2>2. /\ log'[g] # "compensating" /\ ~old'[g]
        /\ \A h \in Gid : h # g => log'[h] = log[h] /\ old'[h] = old[h]
    BY <1>1, <1>5, <1>6, <2>1, SetLogType
  <2>3. \A r \in calls' : r \in calls /\ (r.gid = g => r.by = "handler" /\ r.op = "release")
    BY <1>3, <2>1
  <2>4. "failed" \in Under["release"]
    BY DEF Under
  <2> QED BY <1>1, <1>2, <1>4, <2>1, <2>2, <2>3, <2>4, OwnStep DEF Active, Ended
<1>15. CASE HandlerTimeout(g)
  <2>1. /\ \/ pc[g] = "reserve" /\ pc'[g] = "failed"
           \/ pc[g] = "release" /\ pc'[g] = "undo"
        /\ UNCHANGED <<logs, calls>>
    BY <1>1, <1>15 DEF HandlerTimeout, Goto, TypeOK, items
  <2>2. log[g] = "reserved"
    BY <1>1, <2>1 DEF HandlerKnows, Active
  <2>3. \A r \in calls' : r \in calls /\ (r.gid = g => r.by = "handler" /\ pc'[g] \in Under[r.op])
    BY <1>3, <2>1 DEF Under
  <2> QED BY <1>1, <1>2, <1>4, <1>5, <1>6, <2>1, <2>2, <2>3, OwnStep
<1> QED BY <1>7, <1>8, <1>9, <1>10, <1>11, <1>12, <1>13, <1>14, <1>15 DEF HandlerStep

\* What was given back, or passed by, stays so.
LEMMA UndoneStays ==
  ASSUME TypeOK, NEW r \in calls, ItemsStep(r), NEW h \in Gid, Undone(h)
  PROVE  Undone(h)'
<1>1. r.op \in {"reserve", "release"}
  BY DEF TypeOK, Call
<1> QED BY <1>1, ItemsFacts DEF Undone

LEMMA InvItems ==
  ASSUME IndInv, NEW r \in calls, ItemsStep(r)
  PROVE  IndInv'
<1> DEFINE g == r.gid
<1>1. TypeOK /\ TypeOK' /\ HandlerKnows /\ LogKnows /\ CallKnows /\ PollerKnows
  BY TypeItems DEF IndInv
<1>2. /\ g \in Gid /\ calls' = calls \ {r}
      /\ reservation[g] \in {"none", "held", "released"}
      /\ reservation'[g] \in {"none", "held", "released"}
      /\ \A h \in Gid : h # g => reservation'[h] = reservation[h]
      /\ r.op = "reserve" => reservation'[g] \in {reservation[g], "held"}
      /\ r.op = "release" => Undone(g)'
  BY <1>1, ItemsFacts DEF TypeOK, Undone
<1>3. UNCHANGED <<log, old, order, batch>>
  BY DEF ItemsStep, HandlerHears, PollerHears, NobodyHears, handlers, logs, poller
<1>4. r.by \in {"handler", "poller"} /\ r.op \in {"reserve", "release"}
  BY <1>1 DEF TypeOK, Call
<1>5. \/ UNCHANGED pc
      \/ /\ pc[g] = "reserve" /\ r.by = "handler"
         /\ pc' = [pc EXCEPT ![g] = IF reservation'[g] = "none" THEN "refuse" ELSE "insert"]
      \/ pc[g] = "release" /\ r.by = "handler" /\ pc' = [pc EXCEPT ![g] = "undo"]
  BY DEF ItemsStep, HandlerHears, PollerHears, NobodyHears, handlers, Goto
<1>6. \/ UNCHANGED task
      \/ r.by = "poller" /\ task[g] = "await" /\ task' = [task EXCEPT ![g] = "mark"]
  BY DEF ItemsStep, HandlerHears, PollerHears, NobodyHears, poller
<1>7. r.by = "handler" => pc[g] \in Under[r.op]
  BY <1>1 DEF CallKnows
<1>8. r.by = "poller" => r.op = "release" /\ log[g] \in {"compensating", "compensated"} /\ pc[g] \in Ended
  BY <1>1, <1>2 DEF CallKnows, LogKnows
<1>9. /\ \A h \in Gid : h # g => pc'[h] = pc[h] /\ task'[h] = task[h]
      /\ pc'[g] = pc[g] \/ (pc[g] = "reserve" /\ pc'[g] = IF reservation'[g] = "none" THEN "refuse" ELSE "insert")
                        \/ (pc[g] = "release" /\ pc'[g] = "undo")
      /\ task'[g] = task[g] \/ (r.by = "poller" /\ task[g] = "await" /\ task'[g] = "mark")
  BY <1>1, <1>2, <1>5, <1>6 DEF TypeOK
<1>10. HandlerKnows'
  <2>1. CASE r.by = "handler" /\ r.op = "reserve"
    <3>1. pc[g] \in {"reserve", "failed", "crashed"}
      BY <1>7, <2>1 DEF Under
    <3>2. pc[g] = "reserve" => reservation'[g] \in {"none", "held"}
      BY <1>1, <1>2, <2>1 DEF HandlerKnows
    <3> QED BY <1>1, <1>2, <1>3, <1>9, <3>1, <3>2 DEF HandlerKnows, Active
  <2>2. CASE r.by = "handler" /\ r.op = "release"
    <3>1. pc[g] \in {"release", "undo", "failed", "crashed"}
      BY <1>7, <2>2 DEF Under
    <3> QED BY <1>1, <1>2, <1>3, <1>9, <3>1 DEF HandlerKnows, Active
  <2>3. CASE r.by = "poller"
    <3>1. pc[g] \in Ended \ {"done"} /\ pc'[g] = pc[g]
      BY <1>1, <1>2, <1>8, <1>9, <2>3 DEF HandlerKnows, Ended
    <3> QED BY <1>1, <1>2, <1>3, <1>9, <3>1 DEF HandlerKnows, Active, Ended
  <2> QED BY <1>4, <2>1, <2>2, <2>3
<1>11. LogKnows'
  <2>1. \A h \in Gid : pc[h] \in Ended => pc'[h] = pc[h]
    BY <1>9 DEF Ended
  <2> QED BY <1>1, <1>3, <2>1 DEF LogKnows
<1>12. CallKnows'
  <2> SUFFICES ASSUME NEW q \in calls, q # r
      PROVE  /\ q.by = "handler" => pc'[q.gid] \in Under[q.op]
             /\ q.by = "poller" => q.op = "release" /\ log[q.gid] \in {"compensating", "compensated"}
             /\ q.op = "reserve" /\ log[q.gid] = "compensated" => Undone(q.gid)'
    BY <1>2, <1>3 DEF CallKnows, Under, Undone
  <2>1. /\ q.gid \in Gid /\ q.op \in {"reserve", "release"} /\ q.by \in {"handler", "poller"}
        /\ q = [op |-> q.op, gid |-> q.gid, by |-> q.by]
        /\ r = [op |-> r.op, gid |-> r.gid, by |-> r.by]
    BY <1>1 DEF TypeOK, Call
  <2>2. q.op = "reserve" /\ log[q.gid] = "compensated" => Undone(q.gid)'
    BY <1>1, <2>1, UndoneStays DEF CallKnows
  <2>3. q.by = "poller" => q.op = "release" /\ log[q.gid] \in {"compensating", "compensated"}
    BY <1>1 DEF CallKnows
  <2>4. ASSUME q.by = "handler", q.gid = g, pc'[g] # pc[g] PROVE FALSE
    <3>1. r.by = "handler" /\ pc[g] \in {"reserve", "release"} /\ pc[g] \in Under[r.op] /\ pc[g] \in Under[q.op]
      BY <1>1, <1>5, <1>7, <2>4 DEF CallKnows
    <3>2. q.op = r.op
      BY <1>4, <2>1, <3>1 DEF Under
    <3> QED BY <2>1, <2>4, <3>1, <3>2
  <2>5. q.by = "handler" => pc[q.gid] \in Under[q.op]
    BY <1>1 DEF CallKnows
  <2> QED BY <1>9, <2>1, <2>2, <2>3, <2>4, <2>5
<1>13. PollerKnows'
  <2>1. \A h \in Gid : task'[h] # "none" => log[h] = "compensating"
    BY <1>1, <1>9 DEF PollerKnows
  <2>2. ASSUME NEW h \in Gid, task'[h] = "mark" PROVE Undone(h)'
    <3>1. CASE task[h] = "mark"
      BY <1>1, <3>1, UndoneStays DEF PollerKnows
    <3>2. CASE task[h] # "mark"
      <4>1. h = g /\ r.by = "poller"
        BY <1>9, <2>2, <3>2
      <4> QED BY <1>2, <1>8, <4>1
    <3> QED BY <3>1, <3>2
  <2> QED BY <1>1, <1>3, <2>1, <2>2 DEF PollerKnows
<1> QED BY <1>1, <1>10, <1>11, <1>12, <1>13 DEF IndInv

LEMMA InvPoller ==
  ASSUME IndInv, NEW t \in Run, PollerStep(t)
  PROVE  IndInv'
<1>1. TypeOK /\ TypeOK' /\ HandlerKnows /\ LogKnows /\ CallKnows /\ PollerKnows
  BY TypePoller DEF IndInv
<1>2. UNCHANGED <<pc, order, reservation, overtaken>> /\ \A g \in Gid : Undone(g)' = Undone(g)
  BY DEF PollerStep, ClaimStuckSagaLogs, PollerRelease, PollerMark, PollerFails, Leave, handlers, items, shelf, Undone
<1>3. CASE ClaimStuckSagaLogs(t)
  <2>1. /\ \A g \in Gid : log'[g] = IF g \in Stuck THEN "compensating" ELSE log[g]
        /\ UNCHANGED <<calls, task>>
    BY <1>3 DEF ClaimStuckSagaLogs, items
  <2>2. \A g \in Gid : old'[g] => old[g] /\ g \notin Stuck
    <3>1. old' = [g \in Gid |-> old[g] /\ g \notin Stuck]
      BY <1>3, Zenon DEF ClaimStuckSagaLogs
    <3> QED BY <3>1, Zenon
  <2>3. batch[t] = {} /\ (batch' = [batch EXCEPT ![t] = Stuck] \/ batch' = batch)
    BY <1>3, Zenon DEF ClaimStuckSagaLogs
  <2>4. \A g \in Stuck : g \in Gid /\ log[g] = "reserved" /\ old[g] /\ pc[g] \in Ended /\ pc[g] # "done"
    BY <1>1 DEF Stuck, LogKnows, HandlerKnows
  <2>5. HandlerKnows'
    BY <1>1, <1>2, <2>1, <2>2, <2>4 DEF HandlerKnows, Active, Ended
  <2>6. LogKnows'
    BY <1>1, <1>2, <2>1, <2>2, <2>4 DEF LogKnows
  <2>7. CallKnows'
    <3> SUFFICES ASSUME NEW r \in calls
        PROVE  /\ r.by = "poller" => log'[r.gid] \in {"compensating", "compensated"}
               /\ r.op = "reserve" /\ log'[r.gid] = "compensated" => Undone(r.gid)
      BY <1>1, <1>2, <2>1 DEF CallKnows, Undone, Under
    <3>1. r.gid \in Gid
      BY <1>1 DEF TypeOK, Call
    <3> QED BY <1>1, <2>1, <3>1 DEF CallKnows
  <2>8. PollerKnows'
    <3>1. \A g \in Gid : log[g] = "compensating" => log'[g] = "compensating" /\ g \notin Stuck
      BY <2>1, <2>4
    <3>2. \A s \in Run : batch'[s] = batch[s] \/ (s = t /\ batch'[s] = Stuck)
      BY <1>1, <2>3 DEF TypeOK
    <3>3. \A s \in Run : batch[s] \subseteq Gid /\ batch[s] \intersect Stuck = {}
      BY <1>1, <2>4 DEF TypeOK, PollerKnows
    <3>4. \A s \in Run : \A g \in batch'[s] : log'[g] = "compensating"
      BY <1>1, <2>1, <2>4, <3>1, <3>2, <3>3 DEF PollerKnows
    <3>5. \A s, u \in Run : s # u => batch'[s] \intersect batch'[u] = {}
      BY <1>1, <3>2, <3>3 DEF PollerKnows
    <3> QED BY <1>1, <1>2, <2>1, <3>1, <3>4, <3>5 DEF PollerKnows
  <2> QED BY <1>1, <2>5, <2>6, <2>7, <2>8 DEF IndInv
<1>4. ASSUME NEW g \in Gid, PollerRelease(t, g) PROVE IndInv'
  <2>1. /\ g \in batch[t] /\ UNCHANGED <<log, old, batch>>
        /\ calls' = calls \union {CallOf("release", g, "poller")}
        /\ task' = [task EXCEPT ![g] = "await"]
    BY <1>4 DEF PollerRelease, Send, logs
  <2>2. log[g] = "compensating"
    BY <1>1, <2>1 DEF PollerKnows
  <2>3. HandlerKnows' /\ LogKnows'
    BY <1>1, <1>2, <2>1 DEF HandlerKnows, LogKnows
  <2>4. CallKnows'
    <3>1. /\ CallOf("release", g, "poller").op = "release" /\ CallOf("release", g, "poller").gid = g
          /\ CallOf("release", g, "poller").by = "poller"
      BY DEF CallOf
    <3> QED BY <1>1, <1>2, <2>1, <2>2, <3>1 DEF CallKnows, Undone, Under
  <2>5. PollerKnows'
    BY <1>1, <1>2, <2>1, <2>2 DEF PollerKnows, TypeOK
  <2> QED BY <1>1, <2>3, <2>4, <2>5 DEF IndInv
<1>5. ASSUME NEW g \in Gid, PollerMark(t, g) \/ PollerFails(t, g) PROVE IndInv'
  <2>1. /\ g \in batch[t] /\ UNCHANGED calls
        /\ batch' = [batch EXCEPT ![t] = @ \ {g}] /\ task' = [task EXCEPT ![g] = "none"]
        /\ (SetLog(g, "compensated") /\ task[g] = "mark") \/ UNCHANGED logs
    BY <1>5 DEF PollerMark, PollerFails, MayLog, Leave, items
  <2>2. log[g] = "compensating" /\ pc[g] \in Ended
    BY <1>1, <2>1 DEF PollerKnows, LogKnows
  <2>3. /\ log'[g] \in {"compensating", "compensated"} /\ (old'[g] => old[g])
        /\ log'[g] = "compensated" => task[g] = "mark"
        /\ \A h \in Gid : h # g => log'[h] = log[h] /\ old'[h] = old[h]
    BY <1>1, <2>1, <2>2, SetLogType DEF logs
  <2>4. HandlerKnows'
    BY <1>1, <1>2, <2>2, <2>3 DEF HandlerKnows, Active, Ended
  <2>5. LogKnows'
    BY <1>1, <1>2, <2>2, <2>3 DEF LogKnows
  <2>6. CallKnows'
    <3> SUFFICES ASSUME NEW r \in calls
        PROVE  /\ r.by = "poller" => log'[r.gid] \in {"compensating", "compensated"}
               /\ r.op = "reserve" /\ log'[r.gid] = "compensated" => Undone(r.gid)
      BY <1>1, <1>2, <2>1 DEF CallKnows, Undone, Under
    <3>1. r.gid \in Gid
      BY <1>1 DEF TypeOK, Call
    <3>2. CASE r.gid = g
      BY <1>1, <2>3, <3>2 DEF PollerKnows
    <3>3. CASE r.gid # g
      BY <1>1, <2>3, <3>1, <3>3 DEF CallKnows
    <3> QED BY <3>2, <3>3
  <2>7. PollerKnows'
    <3>1. \A s \in Run : batch'[s] = IF s = t THEN batch[s] \ {g} ELSE batch[s]
      BY <1>1, <2>1 DEF TypeOK
    <3>2. \A h \in Gid : task'[h] = IF h = g THEN "none" ELSE task[h]
      BY <1>1, <2>1 DEF TypeOK
    <3>3. \A s \in Run : \A h \in batch'[s] : h \in Gid /\ h # g /\ h \in batch[s]
      BY <1>1, <2>1, <3>1 DEF PollerKnows, TypeOK
    <3> QED BY <1>1, <1>2, <2>3, <3>1, <3>2, <3>3 DEF PollerKnows
  <2> QED BY <1>1, <2>4, <2>5, <2>6, <2>7 DEF IndInv
<1> QED BY <1>3, <1>4, <1>5 DEF PollerStep

LEMMA InvAge ==
  ASSUME Timely, IndInv, NEW g \in Gid, Age(g)
  PROVE  IndInv'
<1>1. TypeOK /\ TypeOK' /\ HandlerKnows /\ LogKnows /\ CallKnows /\ PollerKnows
  BY TypeNext DEF IndInv, Next
<1>2. /\ log[g] = "reserved" /\ pc[g] \in Ended
      /\ UNCHANGED <<pc, order, log, reservation, overtaken, calls, batch, task>>
      /\ \A h \in Gid : old'[h] => old[h] \/ h = g
  BY <1>1 DEF Age, handlers, items, shelf, poller, TypeOK
<1>3. HandlerKnows'
  BY <1>1, <1>2 DEF HandlerKnows, Active, Ended
<1>4. LogKnows'
  BY <1>1, <1>2 DEF LogKnows
<1>5. CallKnows'
  BY <1>1, <1>2 DEF CallKnows, Undone, Under
<1>6. PollerKnows'
  BY <1>1, <1>2 DEF PollerKnows, Undone
<1> QED BY <1>1, <1>3, <1>4, <1>5, <1>6 DEF IndInv

LEMMA InvCrash ==
  ASSUME IndInv, Crash
  PROVE  IndInv'
<1>1. TypeOK /\ TypeOK' /\ HandlerKnows /\ LogKnows /\ CallKnows /\ PollerKnows
  BY TypeNext DEF IndInv, Next
<1>2. /\ \A g \in Gid : pc'[g] = IF pc[g] \in Ended \union {"new"} THEN pc[g] ELSE "crashed"
      /\ \A t \in Run : batch'[t] = {}
      /\ \A g \in Gid : task'[g] = "none"
      /\ UNCHANGED <<order, log, old, reservation, overtaken, calls>>
  BY DEF Crash, logs, items, shelf
<1>3. HandlerKnows'
  BY <1>1, <1>2 DEF HandlerKnows, Active, Ended
<1>4. LogKnows'
  BY <1>1, <1>2 DEF LogKnows, Ended
<1>5. CallKnows'
  <2> SUFFICES ASSUME NEW r \in calls, r.by = "handler" PROVE pc'[r.gid] \in Under[r.op]
    BY <1>1, <1>2 DEF CallKnows, Undone, Under
  <2>1. r.gid \in Gid /\ r.op \in {"reserve", "release"} /\ pc[r.gid] \in Under[r.op]
    BY <1>1 DEF CallKnows, TypeOK, Call
  <2>2. pc'[r.gid] \in {pc[r.gid], "crashed"}
    BY <1>2, <2>1
  <2> QED BY <2>1, <2>2 DEF Under
<1>6. PollerKnows'
  BY <1>2 DEF PollerKnows
<1> QED BY <1>1, <1>3, <1>4, <1>5, <1>6 DEF IndInv

LEMMA InvNext == Timely /\ IndInv /\ [Next]_vars => IndInv'
<1> SUFFICES ASSUME Timely, IndInv, [Next]_vars PROVE IndInv'
  OBVIOUS
<1>1. TypeOK'
  BY TypeNext DEF IndInv
<1>2. CASE UNCHANGED vars
  BY <1>1, <1>2 DEF vars, handlers, logs, items, shelf, poller, IndInv, HandlerKnows, LogKnows, CallKnows, PollerKnows,
                 Undone, Under
<1>3. ASSUME NEW r \in calls, LoseCall(r) PROVE IndInv'
  <2>1. UNCHANGED <<pc, order, log, old, reservation, overtaken, batch, task>> /\ calls' \subseteq calls
    BY <1>3 DEF LoseCall, handlers, logs, shelf, poller
  <2> QED BY <1>1, <2>1 DEF IndInv, HandlerKnows, LogKnows, CallKnows, PollerKnows, Undone, Under
<1> QED BY <1>2, <1>3, InvHandler, InvItems, InvPoller, InvAge, InvCrash DEF Next

\* If no handler takes longer than the threshold, what handlers, calls and the
\* poller take for granted is true, however executions overlap and calls are late.
THEOREM IndInvHolds ==
  ASSUME Timely
  PROVE  Spec => []IndInv
BY InvInit, InvNext, PTL DEF Spec

\* A 201 stands: compensation never takes the stock of such an order away.
THEOREM CreatedStandsHolds ==
  ASSUME Timely
  PROVE  Spec => []CreatedStands
<1>1. IndInv => CreatedStands
  BY DEF IndInv, HandlerKnows, CreatedStands
<1> QED BY <1>1, IndInvHolds, PTL

\* What the poller marks compensated has its stock back, and no late reserve takes
\* stock for a compensated saga, but for those whose release overtook the reserve.
THEOREM CompensatedReleasedHolds ==
  ASSUME Timely
  PROVE  Spec => CompensatedReleased
<1>1. ASSUME IndInv, [Next]_vars, NEW g \in Gid, log[g] = "compensating", log'[g] = "compensated"
      PROVE  reservation[g] # "held" \/ g \in overtaken
  <2>1. pc[g] \in Ended /\ TypeOK
    BY <1>1 DEF IndInv, LogKnows
  <2> SUFFICES task[g] = "mark"
    BY <1>1 DEF IndInv, PollerKnows, Undone
  <2>2. ASSUME NEW h \in Gid, InsertSagaLog(h) \/ HandlerStep(h) PROVE FALSE
    <3>1. h # g
      BY <2>1, <2>2 DEF InsertSagaLog, HandlerStep, SendReserve, FaultPoint, InsertOrder, InsertOrderFails,
                        MarkCompensated, Complete, UpdateFails, HandlerTimeout, Ended
    <3>2. UNCHANGED log \/ \E s : SetLog(h, s)
      BY <2>2 DEF InsertSagaLog, HandlerStep, SendReserve, FaultPoint, InsertOrder, InsertOrderFails,
                  MarkCompensated, Complete, UpdateFails, HandlerTimeout, MayLog, logs
    <3>3. log'[g] = log[g]
      BY <2>1, <3>1, <3>2 DEF SetLog, Log, TypeOK
    <3> QED BY <1>1, <3>3
  <2>3. ASSUME UNCHANGED log PROVE FALSE
    BY <1>1, <2>3
  <2>4. ASSUME NEW t \in Run, PollerStep(t) PROVE task[g] = "mark"
    <3>1. CASE ClaimStuckSagaLogs(t)
      <4>1. log'[g] = IF g \in Stuck THEN "compensating" ELSE log[g]
        BY <3>1 DEF ClaimStuckSagaLogs
      <4> QED BY <1>1, <4>1
    <3>2. ASSUME NEW h \in Gid, PollerRelease(t, h) PROVE FALSE
      BY <2>3, <3>2 DEF PollerRelease, logs
    <3>3. ASSUME NEW h \in Gid, PollerMark(t, h) \/ PollerFails(t, h) PROVE task[g] = "mark"
      <4>1. UNCHANGED log \/ (SetLog(h, "compensated") /\ task[h] = "mark")
        BY <3>3 DEF PollerMark, PollerFails, MayLog, logs
      <4>2. h = g
        BY <1>1, <2>1, <2>3, <4>1 DEF SetLog, Log, TypeOK
      <4> QED BY <2>3, <4>1, <4>2
    <3> QED BY <2>4, <3>1, <3>2, <3>3 DEF PollerStep
  <2>5. CASE UNCHANGED vars \/ Crash \/ (\E h \in Gid : Age(h)) \/ (\E r \in calls : ItemsStep(r) \/ LoseCall(r))
    BY <2>3, <2>5 DEF vars, logs, Crash, Age, ItemsStep, HandlerHears, PollerHears, NobodyHears, LoseCall
  <2> QED BY <1>1, <2>2, <2>4, <2>5 DEF Next
<1>2. ASSUME IndInv, [Next]_vars, NEW g \in Gid, log[g] = "compensated"
      PROVE  reservation'[g] \in {reservation[g], "released"} \/ g \in overtaken
  <2>1. ASSUME NEW r \in calls, ItemsStep(r)
        PROVE  reservation'[g] \in {reservation[g], "released"} \/ g \in overtaken
    <3>1. r.op \in {"reserve", "release"} /\ TypeOK
      BY <1>2 DEF IndInv, TypeOK, Call
    <3>2. r.gid = g /\ r.op = "reserve" => reservation[g] = "released" \/ g \in overtaken
      BY <1>2, <3>1 DEF IndInv, CallKnows, Undone
    <3> QED BY <2>1, <3>1, <3>2, ItemsFacts
  <2>2. ASSUME UNCHANGED reservation PROVE reservation'[g] \in {reservation[g], "released"}
    BY <2>2
  <2>3. CASE UNCHANGED vars \/ Crash \/ (\E h \in Gid : InsertSagaLog(h) \/ HandlerStep(h) \/ Age(h))
    BY <2>2, <2>3 DEF vars, items, shelf, Crash, Age, InsertSagaLog, HandlerStep, SendReserve, FaultPoint, InsertOrder,
                      InsertOrderFails, MarkCompensated, Complete, UpdateFails, HandlerTimeout
  <2>4. CASE (\E t \in Run : PollerStep(t)) \/ (\E r \in calls : LoseCall(r))
    BY <2>2, <2>4 DEF PollerStep, ClaimStuckSagaLogs, PollerRelease, PollerMark, PollerFails, Leave, LoseCall, items, shelf
  <2> QED BY <1>2, <2>1, <2>3, <2>4 DEF Next
<1>3. IndInv /\ [Next]_vars =>
        [\A g \in Gid :
           /\ log[g] = "compensating" /\ log'[g] = "compensated" => reservation[g] # "held" \/ g \in overtaken
           /\ log[g] = "compensated" => reservation'[g] \in {reservation[g], "released"} \/ g \in overtaken]_vars
  BY <1>1, <1>2
<1> QED BY <1>3, IndInvHolds, PTL DEF Spec, CompensatedReleased

-----------------------------------------------------------------------------
(* Stock, however slow a handler is.                                       *)

StockInv == IsFiniteSet(UnitsOf(Qty, Held)) /\ StockAccounted

LEMMA StockInit == Init => StockInv
<1> SUFFICES ASSUME Init PROVE StockInv
  OBVIOUS
<1>1. Held = {} /\ stock = InitStock /\ InitStock \in Nat
  BY SagaAssumption DEF Init, Held
<1> QED BY <1>1, TotalEmpty DEF StockInv, StockAccounted

\* items-service takes and gives back the quantity of the one order it answers.
LEMMA StockItems ==
  ASSUME TypeOK, StockInv, NEW r \in calls, ItemsStep(r)
  PROVE  StockInv'
<1> DEFINE g == r.gid
<1>1. g \in Gid /\ Qty[g] \in Nat /\ stock \in Nat /\ InitStock \in Nat
  BY SagaAssumption DEF TypeOK, Call, StockInv, StockAccounted
<1>2. IsFiniteSet(UnitsOf(Qty, Held)) /\ Total(Qty, Held) \in Nat /\ stock + Total(Qty, Held) = InitStock
  BY TotalNat DEF StockInv, StockAccounted
<1>3. CASE UNCHANGED <<reservation, stock>>
  <2>1. Held' = Held
    BY <1>3 DEF Held
  <2> QED BY <1>3, <2>1 DEF StockInv, StockAccounted
<1>4. CASE /\ reservation[g] = "none" /\ stock >= Qty[g]
           /\ reservation' = [reservation EXCEPT ![g] = "held"] /\ stock' = stock - Qty[g]
  <2>1. Held' = Held \union {g} /\ g \notin Held
    BY <1>1, <1>4 DEF Held, TypeOK
  <2>2. IsFiniteSet(UnitsOf(Qty, Held')) /\ Total(Qty, Held') = Total(Qty, Held) + Qty[g]
    BY <1>1, <1>2, <2>1, TotalAdd
  <2> HIDE DEF g
  <2>3. stock' >= 0 /\ stock' + Total(Qty, Held') = InitStock
    BY <1>1, <1>2, <1>4, <2>2
  <2> QED BY <2>2, <2>3 DEF StockInv, StockAccounted
<1>5. CASE /\ reservation[g] = "held"
           /\ reservation' = [reservation EXCEPT ![g] = "released"] /\ stock' = stock + Qty[g]
  <2>1. Held' = Held \ {g} /\ g \in Held
    BY <1>1, <1>5 DEF Held, TypeOK
  <2>2. IsFiniteSet(UnitsOf(Qty, Held')) /\ Total(Qty, Held') = Total(Qty, Held) - Qty[g]
    BY <1>1, <1>2, <2>1, TotalRemove
  <2> HIDE DEF g
  <2>3. stock' >= 0 /\ stock' + Total(Qty, Held') = InitStock
    BY <1>1, <1>2, <1>5, <2>2
  <2> QED BY <2>2, <2>3 DEF StockInv, StockAccounted
<1> QED BY <1>3, <1>4, <1>5 DEF ItemsStep, Reserve, Release

LEMMA StockNext == TypeOK /\ StockInv /\ [Next]_vars => StockInv'
<1> SUFFICES ASSUME TypeOK, StockInv, [Next]_vars PROVE StockInv'
  OBVIOUS
<1>1. CASE UNCHANGED <<reservation, stock>>
  <2>1. Held' = Held
    BY <1>1 DEF Held
  <2> QED BY <1>1, <2>1 DEF StockInv, StockAccounted
<1>2. \A g \in Gid : InsertSagaLog(g) \/ HandlerStep(g) \/ Age(g) => UNCHANGED <<reservation, stock>>
  BY DEF InsertSagaLog, HandlerStep, SendReserve, FaultPoint, InsertOrder, InsertOrderFails,
         MarkCompensated, Complete, UpdateFails, HandlerTimeout, Age, items, shelf
<1>3. \A t \in Run : PollerStep(t) => UNCHANGED <<reservation, stock>>
  BY DEF PollerStep, ClaimStuckSagaLogs, PollerRelease, PollerMark, PollerFails, Leave, items, shelf
<1>4. Crash \/ (\E r \in calls : LoseCall(r)) \/ UNCHANGED vars => UNCHANGED <<reservation, stock>>
  BY DEF Crash, LoseCall, items, shelf, vars
<1> QED BY <1>1, <1>2, <1>3, <1>4, StockItems DEF Next

\* However slow a handler is, whatever is lost, late or given up, and however many
\* executions of the poller overlap: no stock is created, lost or sold twice.
THEOREM StockAccountedHolds == Spec => []StockAccounted
<1>1. StockInv => StockAccounted
  BY DEF StockInv
<1> QED BY <1>1, StockInit, StockNext, TypeCorrect, PTL DEF Spec

-----------------------------------------------------------------------------
(* The saga implements a store that supplies or compensates.               *)

\* One order moves.
LEMMA Becomes ==
  ASSUME NEW g \in Gid, NEW s,
         \A h \in Gid : h # g => pc'[h] = pc[h] /\ reservation'[h] = reservation[h],
         Shown(g)' = s
  PROVE  Store!Become(g, s)
BY DEF Store!Become, Shown

\* None does.
LEMMA Stutters ==
  ASSUME \A h \in Gid : Shown(h)' = Shown(h), stock' = stock
  PROVE  UNCHANGED Store!vars
BY DEF Store!vars

\* One order that has no answer yet gets a 500.
LEMMA Fails ==
  ASSUME NEW g \in Gid, Shown(g) \in {"new", "short", "taken"}, stock' = stock,
         \A h \in Gid : h # g => Shown(h)' = Shown(h),
         Shown(g)' = IF Shown(g) = "taken" THEN "spent" ELSE "failed"
  PROVE  Store!Next
<1>1. Store!Fail({g})
  BY DEF Store!Fail
<1> QED BY <1>1 DEF Store!Next

\* The handler's own steps: they answer, and leave the stock alone.
LEMMA HandlerRefines ==
  ASSUME IndInv, NEW g \in Gid, InsertSagaLog(g) \/ HandlerStep(g)
  PROVE  [Store!Next]_(Store!vars)
<1>1. UNCHANGED <<reservation, stock>>
  BY DEF InsertSagaLog, HandlerStep, SendReserve, FaultPoint, InsertOrder, InsertOrderFails,
         MarkCompensated, Complete, UpdateFails, HandlerTimeout, items, shelf
<1>2. \A h \in Gid : h # g => pc'[h] = pc[h]
  BY DEF InsertSagaLog, HandlerStep, SendReserve, FaultPoint, InsertOrder, InsertOrderFails,
         MarkCompensated, Complete, UpdateFails, HandlerTimeout, Goto, IndInv, TypeOK
<1>3. /\ pc[g] \notin Ended
      /\ \/ pc'[g] = "failed"
         \/ pc[g] = "complete" /\ pc'[g] = "done"
         \/ pc[g] = "refuse" /\ pc'[g] = "refused"
         \/ pc[g] # "refuse" /\ pc'[g] \notin {"refuse"} \union Ended
  BY DEF InsertSagaLog, HandlerStep, SendReserve, FaultPoint, InsertOrder, InsertOrderFails,
         MarkCompensated, Complete, UpdateFails, HandlerTimeout, Goto, IndInv, TypeOK, Ended
<1>4. \A h \in Gid : h # g => Shown(h)' = Shown(h)
  BY <1>1, <1>2 DEF Shown
<1>5. CASE Shown(g)' = Shown(g)
  BY <1>1, <1>4, <1>5, Stutters
<1>6. CASE pc'[g] = "failed" /\ Shown(g)' # Shown(g)
  <2>1. reservation[g] \in {"none", "held"}
    BY <1>1, <1>6 DEF Shown, IndInv, TypeOK
  <2>2. Shown(g) \in {"new", "short", "taken"} /\ Shown(g)' = IF Shown(g) = "taken" THEN "spent" ELSE "failed"
    BY <1>1, <1>3, <1>6, <2>1 DEF Shown, Gone, Ended
  <2> QED BY <1>1, <1>4, <2>2, Fails
<1>7. CASE pc[g] = "complete" /\ pc'[g] = "done"
  <2>1. reservation[g] = "held"
    BY <1>7 DEF IndInv, HandlerKnows
  <2>2. Shown(g) = "taken" /\ Shown(g)' = "created"
    BY <1>1, <1>7, <2>1 DEF Shown, Gone
  <2>3. Store!Create(g)
    BY <1>1, <1>2, <2>2, Becomes DEF Store!Create
  <2> QED BY <2>3 DEF Store!Next
<1>8. CASE pc[g] = "refuse" /\ pc'[g] = "refused" /\ Shown(g)' # Shown(g)
  <2>1. Shown(g) = "short" /\ Shown(g)' = "refused"
    BY <1>1, <1>8 DEF Shown, Gone
  <2>2. Store!Refuse(g)
    BY <1>1, <1>2, <2>1, Becomes DEF Store!Refuse
  <2> QED BY <2>2 DEF Store!Next
<1>9. CASE pc[g] # "refuse" /\ pc'[g] \notin {"refuse"} \union Ended
  <2>1. Shown(g)' = Shown(g)
    BY <1>1, <1>3, <1>9 DEF Shown, Gone, Ended
  <2> QED BY <1>5, <2>1
<1> QED BY <1>3, <1>5, <1>6, <1>7, <1>8, <1>9

\* A call that items-service serves: the stock moves with the one order.
LEMMA ItemsRefines ==
  ASSUME IndInv, NEW r \in calls, ItemsStep(r)
  PROVE  [Store!Next]_(Store!vars)
<1> DEFINE g == r.gid
<1>1. /\ TypeOK /\ g \in Gid /\ \A h \in Gid : h # g => reservation'[h] = reservation[h]
      /\ r.by \in {"handler", "poller"} /\ r.op \in {"reserve", "release"}
  BY ItemsFacts DEF IndInv, TypeOK, Call
<1>2. /\ \A h \in Gid : h # g => pc'[h] = pc[h]
      /\ \/ pc'[g] = pc[g]
         \/ pc[g] = "reserve" /\ pc'[g] = IF reservation'[g] = "none" THEN "refuse" ELSE "insert"
         \/ pc[g] = "release" /\ pc'[g] = "undo"
  BY <1>1 DEF ItemsStep, HandlerHears, PollerHears, NobodyHears, handlers, Goto, TypeOK
<1>3. \A h \in Gid : h # g => Shown(h)' = Shown(h)
  BY <1>1, <1>2 DEF Shown
<1>4. r.by = "handler" => pc[g] \in Under[r.op]
  BY <1>1 DEF IndInv, CallKnows
<1>5. r.by = "poller" => r.op = "release" /\ pc[g] \in Ended \ {"done"}
  BY <1>1 DEF IndInv, CallKnows, LogKnows, HandlerKnows
<1>6. \/ r.op = "reserve" /\ pc[g] \in {"reserve", "failed", "crashed"}
      \/ r.op = "release" /\ pc[g] \in {"release", "undo", "failed", "crashed", "refused"}
  BY <1>1, <1>4, <1>5 DEF Under, Ended
<1>7. CASE /\ r.op = "reserve" /\ reservation[g] = "none" /\ stock >= Qty[g]
           /\ reservation' = [reservation EXCEPT ![g] = "held"] /\ stock' = stock - Qty[g]
  <2>1. reservation'[g] = "held" /\ pc'[g] \in {pc[g], "insert"}
    BY <1>1, <1>2, <1>6, <1>7 DEF TypeOK
  <2>2. /\ Shown(g) \in {"new", "failed"}
        /\ Shown(g)' = IF Shown(g) = "new" THEN "taken" ELSE "spent"
    BY <1>2, <1>6, <1>7, <2>1 DEF Shown, Gone
  <2>3. Store!Become(g, IF Shown(g) = "new" THEN "taken" ELSE "spent")
    BY <1>1, <1>2, <2>2, Becomes
  <2>4. Store!Take(g)
    BY <1>1, <1>7, <2>2, <2>3 DEF Store!Take
  <2> QED BY <1>1, <2>4 DEF Store!Next
<1>8. CASE /\ r.op = "reserve" /\ (reservation[g] # "none" \/ stock < Qty[g])
           /\ UNCHANGED <<reservation, stock>>
  <2>1. CASE pc'[g] = "refuse"
    <3>1. pc[g] = "reserve" /\ reservation[g] = "none" /\ reservation'[g] = "none" /\ stock < Qty[g]
      BY <1>2, <1>6, <1>8, <2>1
    <3>2. Shown(g) = "new" /\ Shown(g)' = "short"
      BY <2>1, <3>1 DEF Shown, Gone
    <3>3. Store!FallShort(g)
      BY <1>1, <1>2, <1>8, <3>1, <3>2, Becomes DEF Store!FallShort
    <3> QED BY <1>1, <3>3 DEF Store!Next
  <2>2. CASE pc'[g] # "refuse"
    <3>1. pc'[g] = pc[g] \/ (pc[g] = "reserve" /\ pc'[g] = "insert")
      BY <1>2, <1>6, <1>8, <2>2
    <3>2. Shown(g)' = Shown(g)
      BY <1>8, <3>1 DEF Shown, Gone
    <3> QED BY <1>3, <1>8, <3>2, Stutters
  <2> QED BY <2>1, <2>2
<1>9. CASE /\ r.op = "release" /\ reservation[g] = "held"
           /\ reservation' = [reservation EXCEPT ![g] = "released"] /\ stock' = stock + Qty[g]
  <2>1. Shown(g) \in {"taken", "spent"} /\ Shown(g)' = "returned"
    BY <1>1, <1>6, <1>9 DEF Shown, Gone, TypeOK
  <2>2. Store!GiveBack(g)
    BY <1>1, <1>2, <1>9, <2>1, Becomes DEF Store!GiveBack
  <2> QED BY <1>1, <2>2 DEF Store!Next
<1>10. CASE r.op = "release" /\ reservation[g] # "held" /\ UNCHANGED <<reservation, stock>>
  <2>1. pc'[g] = pc[g] \/ (pc[g] = "release" /\ pc'[g] = "undo")
    BY <1>2, <1>6, <1>10
  <2>2. Shown(g)' = Shown(g)
    BY <1>10, <2>1 DEF Shown, Gone
  <2> QED BY <1>3, <1>10, <2>2, Stutters
<1> QED BY <1>7, <1>8, <1>9, <1>10 DEF ItemsStep, Reserve, Release

\* A crash is a 500 for every order whose handler ran.
LEMMA CrashRefines ==
  ASSUME IndInv, Crash
  PROVE  [Store!Next]_(Store!vars)
<1> DEFINE os == {g \in Gid : pc'[g] # pc[g] /\ reservation[g] # "released"}
<1>1. /\ \A g \in Gid : pc'[g] = IF pc[g] \in Ended \union {"new"} THEN pc[g] ELSE "crashed"
      /\ UNCHANGED <<reservation, stock>>
  BY DEF Crash, items, shelf
<1>2. \A g \in os : Shown(g) \in {"new", "short", "taken"}
  BY <1>1 DEF Shown, Gone, Ended
<1>3. \A g \in os : Shown(g)' = IF Shown(g) = "taken" THEN "spent" ELSE "failed"
  BY <1>1 DEF Shown, Gone, Ended, IndInv, TypeOK
<1>4. \A g \in Gid : g \notin os => Shown(g)' = Shown(g)
  BY <1>1 DEF Shown
<1> HIDE DEF os
<1>5. os \in SUBSET Gid
  BY DEF os
<1>6. Store!Fail(os)
  BY <1>1, <1>2, <1>3, <1>4, <1>5 DEF Store!Fail
<1> QED BY <1>5, <1>6 DEF Store!Next

LEMMA StoreInit == Init => Store!Init
BY DEF Init, Store!Init, Shown, Gone

LEMMA StoreNext == IndInv /\ [Next]_vars => [Store!Next]_(Store!vars)
<1> SUFFICES ASSUME IndInv, [Next]_vars PROVE [Store!Next]_(Store!vars)
  OBVIOUS
<1>1. CASE UNCHANGED <<pc, reservation, stock>>
  BY <1>1, Stutters DEF Shown
<1>2. \A g \in Gid : Age(g) => UNCHANGED <<pc, reservation, stock>>
  BY DEF Age, handlers, items, shelf
<1>3. \A t \in Run : PollerStep(t) => UNCHANGED <<pc, reservation, stock>>
  BY DEF PollerStep, ClaimStuckSagaLogs, PollerRelease, PollerMark, PollerFails, Leave, handlers, items, shelf
<1>4. (\E r \in calls : LoseCall(r)) \/ UNCHANGED vars => UNCHANGED <<pc, reservation, stock>>
  BY DEF LoseCall, handlers, items, shelf, vars
<1> QED BY <1>1, <1>2, <1>3, <1>4, HandlerRefines, ItemsRefines, CrashRefines DEF Next

\* If no handler takes longer than the threshold, an order by the saga is supplied
\* or compensated as one store would do it, whatever dies, is late or is lost.
THEOREM RefinesStoreHolds ==
  ASSUME Timely
  PROVE  Spec => RefinesStore
BY StoreInit, StoreNext, IndInvHolds, PTL DEF Spec, Store!Spec, RefinesStore
=============================================================================
