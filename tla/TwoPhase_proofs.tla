--------------------------- MODULE TwoPhase_proofs ---------------------------
(***************************************************************************)
(* Proofs about TwoPhase, for any orders, items, quantities, pool size and *)
(* faults.                                                                 *)
(***************************************************************************)
EXTENDS TwoPhase, Units_proofs, TLAPS

-----------------------------------------------------------------------------
(* Type correctness.                                                       *)

LEMMA TypeInit == Init => TypeOK
BY TwoPhaseAssumption DEF Init, TypeOK, PC, TxState, Phase, Task, Ended, Waiting

USE DEF PC, TxState, Phase, Task, Busy, Ended, Waiting, Call, HandlerCall, ResolverCall,
        CommitPrepared, RollbackPrepared, Goto, SetPhase, SetTask,
        handlers, orders, items, resolver, vars

LEMMA AnswerType ==
  ASSUME NEW g \in Gid, NEW from, NEW to \in PC, pc \in [Gid -> PC], Answer(g, from, to)
  PROVE  pc' \in [Gid -> PC]
BY DEF Answer

LEMMA SetTaskType ==
  ASSUME NEW c \in Coord, NEW g \in Gid, NEW t \in Task,
         task \in [Coord -> [Gid -> Task]], SetTask(c, g, t)
  PROVE  task' \in [Coord -> [Gid -> Task]]
OBVIOUS

LEMMA ResolverAnswerType ==
  ASSUME NEW r \in Call, r.by \in Coord, NEW to \in Task,
         task \in [Coord -> [Gid -> Task]], ResolverAnswer(r, to)
  PROVE  task' \in [Coord -> [Gid -> Task]]
<1>1. r.gid \in Gid
  OBVIOUS
<1>2. CASE task' = [task EXCEPT ![r.by][r.gid] = to]
  BY <1>1, <1>2
<1>3. CASE UNCHANGED task
  BY <1>3
<1> QED BY <1>2, <1>3 DEF ResolverAnswer

LEMMA TypeHandler ==
  ASSUME TypeOK, NEW g \in Gid, HandlerStep(g)
  PROVE  TypeOK'
<1>1. CASE PrepareInsert(g)      BY <1>1 DEF PrepareInsert, TypeOK
<1>2. CASE PrepareInsertFails(g) BY <1>2 DEF PrepareInsertFails, TypeOK
<1>3. CASE WriteJournalCommit(g) BY <1>3 DEF WriteJournalCommit, TypeOK
<1>4. CASE SendCommit(g)         BY <1>4 DEF SendCommit, TypeOK
<1>5. CASE CommitOrders(g)       BY <1>5 DEF CommitOrders, TypeOK
<1>6. CASE DeleteJournal(g)      BY <1>6 DEF DeleteJournal, TypeOK
<1>7. CASE OrdersQueryFails(g)   BY <1>7 DEF OrdersQueryFails, TypeOK
<1>8. CASE FaultPoint(g)         BY <1>8 DEF FaultPoint, TypeOK
<1>9. CASE HandlerTimeout(g)     BY <1>9 DEF HandlerTimeout, TypeOK
<1> QED BY <1>1, <1>2, <1>3, <1>4, <1>5, <1>6, <1>7, <1>8, <1>9 DEF HandlerStep

LEMMA TypeService ==
  ASSUME TypeOK,
         \/ \E g \in Gid : Connect(g) \/ PrepareDecrement(g)
         \/ \E r \in calls : CommitTx(r) \/ RollbackTx(r) \/ LoseCall(r)
         \/ ItemsRestart
  PROVE  TypeOK'
<1>1. ASSUME NEW g \in Gid, Connect(g) PROVE TypeOK'
  BY <1>1 DEF Connect, TypeOK
<1>2. ASSUME NEW g \in Gid, PrepareDecrement(g) PROVE TypeOK'
  <2>1. pc' \in [Gid -> PC]
    BY <1>2, AnswerType DEF PrepareDecrement, TypeOK
  <2>2. itemsDb' \in [Gid -> TxState]
    BY <1>2 DEF PrepareDecrement, TypeOK
  <2> QED BY <1>2, <2>1, <2>2 DEF PrepareDecrement, TypeOK
<1>3. ASSUME NEW r \in calls, CommitTx(r) PROVE TypeOK'
  <2>1. r \in Call /\ r.gid \in Gid /\ ItemOf[r.gid] \in Item /\ Qty[r.gid] \in Int
    BY TwoPhaseAssumption DEF TypeOK
  <2>2. pc' \in [Gid -> PC] /\ task' \in [Coord -> [Gid -> Task]]
    <3>1. CASE r.by = NoCoord /\ Answer(r.gid, "commitItems", "commitOrders") /\ UNCHANGED task
      BY <3>1, <2>1, AnswerType DEF TypeOK
    <3>2. CASE r.by \in Coord /\ ResolverAnswer(r, "journal") /\ UNCHANGED pc
      BY <3>2, <2>1, ResolverAnswerType DEF TypeOK
    <3> QED BY <1>3, <3>1, <3>2 DEF CommitTx
  <2>3. stock' \in [Item -> Int]
    BY <1>3, <2>1 DEF CommitTx, TypeOK
  <2>4. itemsDb' \in [Gid -> TxState]
    BY <1>3, <2>1 DEF CommitTx, TypeOK
  <2> QED BY <1>3, <2>2, <2>3, <2>4 DEF CommitTx, TypeOK
<1>4. ASSUME NEW r \in calls, RollbackTx(r) PROVE TypeOK'
  <2>1. r \in Call /\ r.gid \in Gid
    BY DEF TypeOK
  <2>2. pc' \in [Gid -> PC] /\ task' \in [Coord -> [Gid -> Task]]
    <3>1. CASE r.by = NoCoord /\ Answer(r.gid, "rollbackItems", "failed") /\ UNCHANGED task
      BY <3>1, <2>1, AnswerType DEF TypeOK
    <3>2. CASE r.by \in Coord /\ ResolverAnswer(r, "done") /\ UNCHANGED pc
      BY <3>2, <2>1, ResolverAnswerType DEF TypeOK
    <3> QED BY <1>4, <3>1, <3>2 DEF RollbackTx
  <2>3. itemsDb' \in [Gid -> TxState]
    BY <1>4, <2>1 DEF RollbackTx, TypeOK
  <2> QED BY <1>4, <2>2, <2>3 DEF RollbackTx, TypeOK
<1>5. ASSUME NEW r \in calls, LoseCall(r) PROVE TypeOK'
  BY <1>5 DEF LoseCall, TypeOK
<1>6. CASE ItemsRestart BY <1>6 DEF ItemsRestart, TypeOK
<1> QED BY <1>1, <1>2, <1>3, <1>4, <1>5, <1>6

LEMMA TypeResolver ==
  ASSUME TypeOK, NEW c \in Coord, ResolverStep(c)
  PROVE  TypeOK'
<1>1. CASE ListLocal(c)      BY <1>1 DEF ListLocal, TypeOK
<1>2. CASE ListItems(c)      BY <1>2 DEF ListItems, TypeOK
<1>3. CASE ListItemsFails(c) BY <1>3 DEF ListItemsFails, TypeOK
<1>4. CASE ListJournalCommits(c) BY <1>4 DEF ListJournalCommits, TypeOK
<1>5. ASSUME NEW g \in Gid, ResolveLocal(c, g) PROVE TypeOK'
  BY <1>5 DEF ResolveLocal, SettleLocal, TypeOK
<1>6. ASSUME NEW g \in Gid, ResolveItems(c, g) PROVE TypeOK'
  BY <1>6 DEF ResolveItems, TypeOK
<1>7. ASSUME NEW g \in Gid, ResolveWithoutItems(c, g) PROVE TypeOK'
  <2>1. PICK t \in Task : SetTask(c, g, t)
    BY <1>7 DEF ResolveWithoutItems
  <2> QED BY <1>7, <2>1, SetTaskType DEF ResolveWithoutItems, TypeOK
<1>8. ASSUME NEW g \in Gid, ResolveJournal(c, g) PROVE TypeOK'
  BY <1>8 DEF ResolveJournal, TypeOK
<1>9. ASSUME NEW g \in Gid, ResolveFails(c, g) PROVE TypeOK'
  BY <1>9 DEF ResolveFails, SettleLocal, CommitPrepared, RollbackPrepared, TypeOK
<1>10. CASE Listen(c) BY <1>10 DEF Listen, ForgetPass, TypeOK
<1> QED BY <1>1, <1>2, <1>3, <1>4, <1>5, <1>6, <1>7, <1>8, <1>9, <1>10 DEF ResolverStep

LEMMA TypeNext == TypeOK /\ [Next]_vars => TypeOK'
<1> SUFFICES ASSUME TypeOK, [Next]_vars PROVE TypeOK'
  OBVIOUS
<1>1. ASSUME NEW c \in Coord, NEW g \in Gid, StartOrder(c, g) PROVE TypeOK'
  BY <1>1 DEF StartOrder, TypeOK
<1>2. ASSUME NEW g \in Gid, HandlerStep(g) PROVE TypeOK'
  BY <1>2, TypeHandler
<1>3. ASSUME NEW c \in Coord, Boot(c) PROVE TypeOK'
  BY <1>3 DEF Boot, TypeOK
<1>4. ASSUME NEW c \in Coord, ResolverStep(c) PROVE TypeOK'
  BY <1>4, TypeResolver
<1>5. ASSUME NEW c \in Coord, Crash(c) PROVE TypeOK'
  BY <1>5 DEF Crash, ForgetPass, TypeOK
<1>6. CASE UNCHANGED vars BY <1>6 DEF TypeOK
<1> QED BY <1>1, <1>2, <1>3, <1>4, <1>5, <1>6, TypeService DEF Next

\* Every variable keeps its type, whatever fails and however many coordinators run.
THEOREM TypeCorrect == Spec => []TypeOK
BY TypeInit, TypeNext, PTL DEF Spec
-----------------------------------------------------------------------------
(* Agreement, when one coordinator runs.  IndInv is inductive; one lemma per *)
(* action, with one step per part of IndInv.                                 *)

SingleCoordinator == \A c, d \in Coord : c = d

USE DEF Doomed, BothCommitted, Promised, Live

LEMMA IndInvInit == Init => IndInv
BY DEF Init, IndInv, JournalIsDecision, CommitCovered, HandlerKnows, ResolverKnows

LEMMA StartOrderInd ==
  ASSUME SingleCoordinator, TypeOK, TypeOK', IndInv, NEW c \in Coord, NEW g \in Gid, StartOrder(c, g)
  PROVE  IndInv'
<1>1. JournalIsDecision' /\ CommitCovered'
  BY DEF StartOrder, TypeOK, IndInv, JournalIsDecision, CommitCovered, HandlerKnows, CallJustified, ResolverKnows
<1>2. ASSUME NEW h \in Gid PROVE HandlerKnows(h)'
  BY DEF StartOrder, TypeOK, IndInv, SingleCoordinator, HandlerKnows, CallJustified, CommitCovered, ResolverKnows
<1>3. ASSUME NEW q \in calls' PROVE CallJustified(q)'
  BY DEF StartOrder, TypeOK, IndInv, CallJustified, HandlerKnows, ResolverKnows
<1>4. ASSUME NEW h \in holding' PROVE HandlerCall("prepare", h) \in calls'
  BY DEF StartOrder, TypeOK, IndInv
<1>5. ASSUME NEW e \in Coord, NEW h \in Gid PROVE ResolverKnows(e, h)'
  BY DEF StartOrder, TypeOK, IndInv, SingleCoordinator, ResolverKnows, HandlerKnows, CommitCovered, CallJustified
<1> QED BY <1>1, <1>2, <1>3, <1>4, <1>5 DEF IndInv

LEMMA PrepareInsertInd ==
  ASSUME SingleCoordinator, TypeOK, TypeOK', IndInv, NEW g \in Gid, PrepareInsert(g)
  PROVE  IndInv'
<1>1. JournalIsDecision' /\ CommitCovered'
  BY DEF PrepareInsert, TypeOK, IndInv, JournalIsDecision, CommitCovered, HandlerKnows, CallJustified, ResolverKnows
<1>2. ASSUME NEW h \in Gid PROVE HandlerKnows(h)'
  BY DEF PrepareInsert, TypeOK, IndInv, SingleCoordinator, HandlerKnows, CallJustified, CommitCovered, ResolverKnows
<1>3. ASSUME NEW q \in calls' PROVE CallJustified(q)'
  BY DEF PrepareInsert, TypeOK, IndInv, CallJustified, HandlerKnows, ResolverKnows
<1>4. ASSUME NEW h \in holding' PROVE HandlerCall("prepare", h) \in calls'
  BY DEF PrepareInsert, TypeOK, IndInv
<1>5. ASSUME NEW e \in Coord, NEW h \in Gid PROVE ResolverKnows(e, h)'
  BY DEF PrepareInsert, TypeOK, IndInv, SingleCoordinator, ResolverKnows, HandlerKnows, CommitCovered, CallJustified
<1> QED BY <1>1, <1>2, <1>3, <1>4, <1>5 DEF IndInv

LEMMA PrepareInsertFailsInd ==
  ASSUME SingleCoordinator, TypeOK, TypeOK', IndInv, NEW g \in Gid, PrepareInsertFails(g)
  PROVE  IndInv'
<1>1. JournalIsDecision' /\ CommitCovered'
  BY DEF PrepareInsertFails, TypeOK, IndInv, JournalIsDecision, CommitCovered, HandlerKnows, CallJustified, ResolverKnows
<1>2. ASSUME NEW h \in Gid PROVE HandlerKnows(h)'
  BY DEF PrepareInsertFails, TypeOK, IndInv, SingleCoordinator, HandlerKnows, CallJustified, CommitCovered, ResolverKnows
<1>3. ASSUME NEW q \in calls' PROVE CallJustified(q)'
  BY DEF PrepareInsertFails, TypeOK, IndInv, CallJustified, HandlerKnows, ResolverKnows
<1>4. ASSUME NEW h \in holding' PROVE HandlerCall("prepare", h) \in calls'
  BY DEF PrepareInsertFails, TypeOK, IndInv
<1>5. ASSUME NEW e \in Coord, NEW h \in Gid PROVE ResolverKnows(e, h)'
  BY DEF PrepareInsertFails, TypeOK, IndInv, SingleCoordinator, ResolverKnows, HandlerKnows, CommitCovered, CallJustified
<1> QED BY <1>1, <1>2, <1>3, <1>4, <1>5 DEF IndInv

LEMMA WriteJournalCommitInd ==
  ASSUME SingleCoordinator, TypeOK, TypeOK', IndInv, NEW g \in Gid, WriteJournalCommit(g)
  PROVE  IndInv'
<1>1. JournalIsDecision' /\ CommitCovered'
  BY DEF WriteJournalCommit, TypeOK, IndInv, JournalIsDecision, CommitCovered, HandlerKnows, CallJustified, ResolverKnows
<1>2. ASSUME NEW h \in Gid PROVE HandlerKnows(h)'
  BY DEF WriteJournalCommit, TypeOK, IndInv, SingleCoordinator, HandlerKnows, CallJustified, CommitCovered, ResolverKnows
<1>3. ASSUME NEW q \in calls' PROVE CallJustified(q)'
  BY DEF WriteJournalCommit, TypeOK, IndInv, CallJustified, HandlerKnows, ResolverKnows
<1>4. ASSUME NEW h \in holding' PROVE HandlerCall("prepare", h) \in calls'
  BY DEF WriteJournalCommit, TypeOK, IndInv
<1>5. ASSUME NEW e \in Coord, NEW h \in Gid PROVE ResolverKnows(e, h)'
  BY DEF WriteJournalCommit, TypeOK, IndInv, SingleCoordinator, ResolverKnows, HandlerKnows, CommitCovered, CallJustified
<1> QED BY <1>1, <1>2, <1>3, <1>4, <1>5 DEF IndInv

LEMMA SendCommitInd ==
  ASSUME SingleCoordinator, TypeOK, TypeOK', IndInv, NEW g \in Gid, SendCommit(g)
  PROVE  IndInv'
<1>1. JournalIsDecision' /\ CommitCovered'
  BY DEF SendCommit, TypeOK, IndInv, JournalIsDecision, CommitCovered, HandlerKnows, CallJustified, ResolverKnows
<1>2. ASSUME NEW h \in Gid PROVE HandlerKnows(h)'
  BY DEF SendCommit, TypeOK, IndInv, SingleCoordinator, HandlerKnows, CallJustified, CommitCovered, ResolverKnows
<1>3. ASSUME NEW q \in calls' PROVE CallJustified(q)'
  BY DEF SendCommit, TypeOK, IndInv, CallJustified, HandlerKnows, ResolverKnows
<1>4. ASSUME NEW h \in holding' PROVE HandlerCall("prepare", h) \in calls'
  BY DEF SendCommit, TypeOK, IndInv
<1>5. ASSUME NEW e \in Coord, NEW h \in Gid PROVE ResolverKnows(e, h)'
  BY DEF SendCommit, TypeOK, IndInv, SingleCoordinator, ResolverKnows, HandlerKnows, CommitCovered, CallJustified
<1> QED BY <1>1, <1>2, <1>3, <1>4, <1>5 DEF IndInv

LEMMA CommitOrdersInd ==
  ASSUME SingleCoordinator, TypeOK, TypeOK', IndInv, NEW g \in Gid, CommitOrders(g)
  PROVE  IndInv'
<1>1. JournalIsDecision' /\ CommitCovered'
  BY DEF CommitOrders, TypeOK, IndInv, JournalIsDecision, CommitCovered, HandlerKnows, CallJustified, ResolverKnows
<1>2. ASSUME NEW h \in Gid PROVE HandlerKnows(h)'
  <2>1. g \in journal /\ ordersDb[g] \in {"prepared", "committed"}
    BY DEF CommitOrders, IndInv, HandlerKnows, JournalIsDecision
  <2>2. CASE h = g
    <3>1. /\ pc'[g] = "deleteJournal" /\ ordersDb'[g] = "committed"
          /\ UNCHANGED <<owner, journal, itemsDb, phase>>
      BY <2>1 DEF CommitOrders, TypeOK
    <3>2. itemsDb[g] = "committed" /\ owner[g] \in Coord /\ \A c \in Coord : phase[c] = "serving"
      BY DEF CommitOrders, IndInv, HandlerKnows
    <3> QED BY <2>1, <2>2, <3>1, <3>2 DEF HandlerKnows
  <2>3. CASE h # g
    BY <2>3 DEF CommitOrders, TypeOK, IndInv, HandlerKnows
  <2> QED BY <2>2, <2>3
<1>3. ASSUME NEW q \in calls' PROVE CallJustified(q)'
  BY DEF CommitOrders, TypeOK, IndInv, CallJustified, HandlerKnows, ResolverKnows
<1>4. ASSUME NEW h \in holding' PROVE HandlerCall("prepare", h) \in calls'
  BY DEF CommitOrders, TypeOK, IndInv
<1>5. ASSUME NEW e \in Coord, NEW h \in Gid PROVE ResolverKnows(e, h)'
  BY DEF CommitOrders, TypeOK, IndInv, SingleCoordinator, ResolverKnows, HandlerKnows, CommitCovered, CallJustified
<1> QED BY <1>1, <1>2, <1>3, <1>4, <1>5 DEF IndInv

LEMMA DeleteJournalInd ==
  ASSUME SingleCoordinator, TypeOK, TypeOK', IndInv, NEW g \in Gid, DeleteJournal(g)
  PROVE  IndInv'
<1>1. JournalIsDecision' /\ CommitCovered'
  BY DEF DeleteJournal, TypeOK, IndInv, JournalIsDecision, CommitCovered, HandlerKnows, CallJustified, ResolverKnows
<1>2. ASSUME NEW h \in Gid PROVE HandlerKnows(h)'
  BY DEF DeleteJournal, TypeOK, IndInv, SingleCoordinator, HandlerKnows, CallJustified, CommitCovered, ResolverKnows
<1>3. ASSUME NEW q \in calls' PROVE CallJustified(q)'
  BY DEF DeleteJournal, TypeOK, IndInv, CallJustified, HandlerKnows, ResolverKnows
<1>4. ASSUME NEW h \in holding' PROVE HandlerCall("prepare", h) \in calls'
  BY DEF DeleteJournal, TypeOK, IndInv
<1>5. ASSUME NEW e \in Coord, NEW h \in Gid PROVE ResolverKnows(e, h)'
  BY DEF DeleteJournal, TypeOK, IndInv, SingleCoordinator, ResolverKnows, HandlerKnows, CommitCovered, CallJustified
<1> QED BY <1>1, <1>2, <1>3, <1>4, <1>5 DEF IndInv

LEMMA OrdersQueryFailsInd ==
  ASSUME SingleCoordinator, TypeOK, TypeOK', IndInv, NEW g \in Gid, OrdersQueryFails(g)
  PROVE  IndInv'
<1>1. JournalIsDecision' /\ CommitCovered'
  <2>1. CASE pc[g] = "decide"
    BY <2>1 DEF OrdersQueryFails, TypeOK, IndInv, JournalIsDecision, CommitCovered, HandlerKnows
  <2>2. CASE pc[g] = "commitOrders"
    <3>1. g \in journal /\ Promised(g)
      BY <2>2 DEF IndInv, HandlerKnows, JournalIsDecision
    <3>2. /\ ordersDb'[g] \in {"prepared", "committed"}
          /\ \A h \in Gid \ {g} : ordersDb'[h] = ordersDb[h]
      <4>1. CASE ordersDb' = ordersDb
        BY <3>1, <4>1
      <4>2. CASE ordersDb' = CommitPrepared(ordersDb, g)
        BY <3>1, <4>2 DEF TypeOK
      <4>3. ordersDb' = ordersDb \/ ordersDb' = CommitPrepared(ordersDb, g)
        BY ONLY <2>2, OrdersQueryFails(g) DEF OrdersQueryFails
      <4> QED BY <4>1, <4>2, <4>3
    <3>3. UNCHANGED <<journal, itemsDb>>
      BY <2>2 DEF OrdersQueryFails
    <3> QED BY <3>1, <3>2, <3>3 DEF TypeOK, IndInv, JournalIsDecision, CommitCovered
  <2>3. CASE pc[g] = "deleteJournal"
    BY <2>3 DEF OrdersQueryFails, TypeOK, IndInv, JournalIsDecision, CommitCovered, HandlerKnows
  <2> QED BY <2>1, <2>2, <2>3 DEF OrdersQueryFails
<1>2. ASSUME NEW h \in Gid PROVE HandlerKnows(h)'
  BY DEF OrdersQueryFails, TypeOK, IndInv, SingleCoordinator, HandlerKnows, CallJustified, CommitCovered, ResolverKnows
<1>3. ASSUME NEW q \in calls' PROVE CallJustified(q)'
  BY DEF OrdersQueryFails, TypeOK, IndInv, CallJustified, HandlerKnows, ResolverKnows
<1>4. ASSUME NEW h \in holding' PROVE HandlerCall("prepare", h) \in calls'
  BY DEF OrdersQueryFails, TypeOK, IndInv
<1>5. ASSUME NEW e \in Coord, NEW h \in Gid PROVE ResolverKnows(e, h)'
  BY DEF OrdersQueryFails, TypeOK, IndInv, SingleCoordinator, ResolverKnows, HandlerKnows, CommitCovered, CallJustified
<1> QED BY <1>1, <1>2, <1>3, <1>4, <1>5 DEF IndInv

LEMMA FaultPointInd ==
  ASSUME SingleCoordinator, TypeOK, TypeOK', IndInv, NEW g \in Gid, FaultPoint(g)
  PROVE  IndInv'
<1>1. JournalIsDecision' /\ CommitCovered'
  BY DEF FaultPoint, TypeOK, IndInv, JournalIsDecision, CommitCovered, HandlerKnows, CallJustified, ResolverKnows
<1>2. ASSUME NEW h \in Gid PROVE HandlerKnows(h)'
  BY DEF FaultPoint, TypeOK, IndInv, SingleCoordinator, HandlerKnows, CallJustified, CommitCovered, ResolverKnows
<1>3. ASSUME NEW q \in calls' PROVE CallJustified(q)'
  BY DEF FaultPoint, TypeOK, IndInv, CallJustified, HandlerKnows, ResolverKnows
<1>4. ASSUME NEW h \in holding' PROVE HandlerCall("prepare", h) \in calls'
  BY DEF FaultPoint, TypeOK, IndInv
<1>5. ASSUME NEW e \in Coord, NEW h \in Gid PROVE ResolverKnows(e, h)'
  BY DEF FaultPoint, TypeOK, IndInv, SingleCoordinator, ResolverKnows, HandlerKnows, CommitCovered, CallJustified
<1> QED BY <1>1, <1>2, <1>3, <1>4, <1>5 DEF IndInv

LEMMA HandlerTimeoutInd ==
  ASSUME SingleCoordinator, TypeOK, TypeOK', IndInv, NEW g \in Gid, HandlerTimeout(g)
  PROVE  IndInv'
<1>1. JournalIsDecision' /\ CommitCovered'
  BY DEF HandlerTimeout, TypeOK, IndInv, JournalIsDecision, CommitCovered, HandlerKnows, CallJustified, ResolverKnows
<1>2. ASSUME NEW h \in Gid PROVE HandlerKnows(h)'
  BY DEF HandlerTimeout, TypeOK, IndInv, SingleCoordinator, HandlerKnows, CallJustified, CommitCovered, ResolverKnows
<1>3. ASSUME NEW q \in calls' PROVE CallJustified(q)'
  BY DEF HandlerTimeout, TypeOK, IndInv, CallJustified, HandlerKnows, ResolverKnows
<1>4. ASSUME NEW h \in holding' PROVE HandlerCall("prepare", h) \in calls'
  BY DEF HandlerTimeout, TypeOK, IndInv
<1>5. ASSUME NEW e \in Coord, NEW h \in Gid PROVE ResolverKnows(e, h)'
  BY DEF HandlerTimeout, TypeOK, IndInv, SingleCoordinator, ResolverKnows, HandlerKnows, CommitCovered, CallJustified
<1> QED BY <1>1, <1>2, <1>3, <1>4, <1>5 DEF IndInv

LEMMA ConnectInd ==
  ASSUME SingleCoordinator, TypeOK, TypeOK', IndInv, NEW g \in Gid, Connect(g)
  PROVE  IndInv'
<1>1. JournalIsDecision' /\ CommitCovered'
  BY DEF Connect, TypeOK, IndInv, JournalIsDecision, CommitCovered, HandlerKnows, CallJustified, ResolverKnows
<1>2. ASSUME NEW h \in Gid PROVE HandlerKnows(h)'
  BY DEF Connect, TypeOK, IndInv, SingleCoordinator, HandlerKnows, CallJustified, CommitCovered, ResolverKnows
<1>3. ASSUME NEW q \in calls' PROVE CallJustified(q)'
  BY DEF Connect, TypeOK, IndInv, CallJustified, HandlerKnows, ResolverKnows
<1>4. ASSUME NEW h \in holding' PROVE HandlerCall("prepare", h) \in calls'
  BY DEF Connect, TypeOK, IndInv
<1>5. ASSUME NEW e \in Coord, NEW h \in Gid PROVE ResolverKnows(e, h)'
  BY DEF Connect, TypeOK, IndInv, SingleCoordinator, ResolverKnows, HandlerKnows, CommitCovered, CallJustified
<1> QED BY <1>1, <1>2, <1>3, <1>4, <1>5 DEF IndInv

LEMMA PrepareDecrementInd ==
  ASSUME SingleCoordinator, TypeOK, TypeOK', IndInv, NEW g \in Gid, PrepareDecrement(g)
  PROVE  IndInv'
<1>1. /\ itemsDb[g] = "none" /\ pc[g] # "new"
      /\ ordersDb[g] # "committed" /\ g \notin journal
  <2>1. CallJustified(HandlerCall("prepare", g)) /\ HandlerCall("prepare", g) \in calls
    BY DEF PrepareDecrement, IndInv
  <2> QED BY <2>1 DEF CallJustified, IndInv, CommitCovered, JournalIsDecision
<1>2. \E s \in {"prepared", "refused"} :
        /\ itemsDb' = [itemsDb EXCEPT ![g] = s]
        /\ \/ UNCHANGED pc
           \/ s = "prepared" /\ pc[g] = "prepareItems" /\ pc' = [pc EXCEPT ![g] = "prepareOrders"]
           \/ s = "refused" /\ pc[g] = "prepareItems" /\ pc' = [pc EXCEPT ![g] = "refused"]
  BY DEF PrepareDecrement, Answer
<1>3. /\ UNCHANGED <<owner, ordersDb, journal, phase, local, listed, reach, commits, task>>
      /\ holding' = holding \ {g} /\ calls' = calls \ {HandlerCall("prepare", g)}
  BY DEF PrepareDecrement
<1>4. ASSUME NEW h \in Gid, Doomed(h) PROVE Doomed(h)'
  BY <1>1, <1>2, <1>3, <1>4 DEF TypeOK
<1>5. JournalIsDecision' /\ CommitCovered'
  BY <1>1, <1>2, <1>3 DEF TypeOK, IndInv, JournalIsDecision, CommitCovered
<1>6. ASSUME NEW h \in Gid PROVE HandlerKnows(h)'
  <2>1. CASE h # g
    BY <1>2, <1>3, <2>1 DEF TypeOK, IndInv, HandlerKnows
  <2>2. CASE h = g
    BY <1>1, <1>2, <1>3, <2>2 DEF TypeOK, IndInv, HandlerKnows
  <2> QED BY <2>1, <2>2
<1>7. ASSUME NEW q \in calls' PROVE CallJustified(q)'
  <2>1. q \in calls /\ q \in Call /\ CallJustified(q)
    BY <1>3 DEF TypeOK, IndInv
  <2>2. q.op = "prepare" => q.gid # g
    BY <1>3, <2>1 DEF CallJustified
  <2>3. pc'[q.gid] # "new"
    BY <1>2, <2>1 DEF CallJustified, TypeOK
  <2>4. q.op = "prepare" => itemsDb'[q.gid] = "none"
    BY <1>2, <2>1, <2>2 DEF CallJustified, TypeOK
  <2>5. q.op = "commit" => (q.gid \in journal \/ BothCommitted(q.gid))'
    BY <1>1, <1>2, <1>3, <2>1 DEF CallJustified, TypeOK
  <2>6. q.op = "rollback" => Doomed(q.gid)'
    BY <1>4, <2>1 DEF CallJustified
  <2> QED BY <2>1, <2>3, <2>4, <2>5, <2>6 DEF CallJustified
<1>8. ASSUME NEW h \in holding' PROVE HandlerCall("prepare", h) \in calls'
  BY <1>3 DEF TypeOK, IndInv
<1>9. ASSUME NEW e \in Coord, NEW h \in Gid PROVE ResolverKnows(e, h)'
  <2>1. itemsDb[h] = "committed" => itemsDb'[h] = "committed"
    BY <1>1, <1>2 DEF TypeOK
  <2> QED BY <1>3, <1>4, <2>1 DEF IndInv, ResolverKnows
<1> QED BY <1>5, <1>6, <1>7, <1>8, <1>9 DEF IndInv

LEMMA CommitTxInd ==
  ASSUME SingleCoordinator, TypeOK, TypeOK', IndInv, NEW r \in calls, CommitTx(r)
  PROVE  IndInv'
<1>1. JournalIsDecision' /\ CommitCovered'
  BY DEF CommitTx, Answer, ResolverAnswer, Awaits, TypeOK, IndInv, JournalIsDecision, CommitCovered, HandlerKnows, CallJustified, ResolverKnows
<1>2. ASSUME NEW h \in Gid PROVE HandlerKnows(h)'
  <2>1. r.gid \in Gid /\ CallJustified(r)
    BY DEF TypeOK, IndInv
  <2>2. itemsDb[r.gid] \in {"prepared", "committed"} /\ ~Doomed(r.gid)
    BY <2>1 DEF CommitTx, CallJustified, IndInv, JournalIsDecision
  <2>3. itemsDb' = [itemsDb EXCEPT ![r.gid] = "committed"]
    BY <2>1, <2>2 DEF CommitTx, TypeOK
  <2>4. pc' = pc \/ (pc[r.gid] = "commitItems" /\ pc' = [pc EXCEPT ![r.gid] = "commitOrders"])
    BY DEF CommitTx, Answer
  <2>5. UNCHANGED <<owner, ordersDb, journal, phase>>
    BY DEF CommitTx
  <2>6. CASE h # r.gid
    BY <2>1, <2>3, <2>4, <2>5, <2>6 DEF TypeOK, IndInv, HandlerKnows
  <2>7. CASE h = r.gid
    <3>1. h \in journal \/ BothCommitted(h)
      BY <2>1, <2>7 DEF CommitTx, CallJustified
    <3> QED BY <2>1, <2>2, <2>3, <2>4, <2>5, <2>7, <3>1 DEF TypeOK, IndInv, HandlerKnows
  <2> QED BY <2>6, <2>7
<1>3. ASSUME NEW q \in calls' PROVE CallJustified(q)'
  BY DEF CommitTx, Answer, ResolverAnswer, Awaits, TypeOK, IndInv, CallJustified, HandlerKnows, ResolverKnows
<1>4. ASSUME NEW h \in holding' PROVE HandlerCall("prepare", h) \in calls'
  BY DEF CommitTx, Answer, ResolverAnswer, Awaits, TypeOK, IndInv
<1>5. ASSUME NEW e \in Coord, NEW h \in Gid PROVE ResolverKnows(e, h)'
  <2>1. r.gid \in Gid /\ CallJustified(r)
    BY DEF TypeOK, IndInv
  <2>2. itemsDb' = [itemsDb EXCEPT ![r.gid] = "committed"] /\ ~Doomed(r.gid)
    BY <2>1 DEF CommitTx, CallJustified, IndInv, JournalIsDecision, TypeOK
  <2>3. UNCHANGED <<ordersDb, journal, phase, local, listed, reach, commits>>
    BY DEF CommitTx
  <2>4. ASSUME Doomed(h) PROVE Doomed(h)'
    BY <2>1, <2>2, <2>3, <2>4 DEF CommitTx, Answer, TypeOK
  <2>5. itemsDb[h] = "committed" => itemsDb'[h] = "committed"
    BY <2>1, <2>2 DEF TypeOK
  <2>6. \/ task' = task
        \/ r.by \in Coord /\ Awaits(r.by, r) /\ task' = [task EXCEPT ![r.by][r.gid] = "journal"]
    BY DEF CommitTx, ResolverAnswer
  <2>7. CASE task' = task
    BY <2>3, <2>4, <2>5, <2>7 DEF IndInv, ResolverKnows
  <2>8. CASE r.by \in Coord /\ Awaits(r.by, r) /\ task' = [task EXCEPT ![r.by][r.gid] = "journal"]
    <3>1. CASE e = r.by /\ h = r.gid
      <4>1. task[e][h] = "await" /\ h \in commits[e] /\ task'[e][h] = "journal" /\ itemsDb'[h] = "committed"
        BY <2>1, <2>2, <2>8, <3>1 DEF Awaits, CommitTx, TypeOK
      <4> QED BY <2>3, <2>4, <4>1 DEF IndInv, ResolverKnows
    <3>2. CASE ~(e = r.by /\ h = r.gid)
      <4>1. task'[e][h] = task[e][h]
        BY <2>1, <2>8, <3>2 DEF TypeOK
      <4> QED BY <2>3, <2>4, <2>5, <4>1 DEF IndInv, ResolverKnows
    <3> QED BY <3>1, <3>2
  <2> QED BY <2>6, <2>7, <2>8
<1> QED BY <1>1, <1>2, <1>3, <1>4, <1>5 DEF IndInv

LEMMA RollbackTxInd ==
  ASSUME SingleCoordinator, TypeOK, TypeOK', IndInv, NEW r \in calls, RollbackTx(r)
  PROVE  IndInv'
<1>1. JournalIsDecision' /\ CommitCovered'
  BY DEF RollbackTx, Answer, ResolverAnswer, Awaits, TypeOK, IndInv, JournalIsDecision, CommitCovered, HandlerKnows, CallJustified, ResolverKnows
<1>2. ASSUME NEW h \in Gid PROVE HandlerKnows(h)'
  BY DEF RollbackTx, Answer, ResolverAnswer, Awaits, TypeOK, IndInv, SingleCoordinator, HandlerKnows, CallJustified, CommitCovered, ResolverKnows
<1>3. ASSUME NEW q \in calls' PROVE CallJustified(q)'
  BY DEF RollbackTx, Answer, ResolverAnswer, Awaits, TypeOK, IndInv, CallJustified, HandlerKnows, ResolverKnows
<1>4. ASSUME NEW h \in holding' PROVE HandlerCall("prepare", h) \in calls'
  BY DEF RollbackTx, Answer, ResolverAnswer, Awaits, TypeOK, IndInv
<1>5. ASSUME NEW e \in Coord, NEW h \in Gid PROVE ResolverKnows(e, h)'
  BY DEF RollbackTx, Answer, ResolverAnswer, Awaits, TypeOK, IndInv, SingleCoordinator, ResolverKnows, HandlerKnows, CommitCovered, CallJustified
<1> QED BY <1>1, <1>2, <1>3, <1>4, <1>5 DEF IndInv

LEMMA LoseCallInd ==
  ASSUME SingleCoordinator, TypeOK, TypeOK', IndInv, NEW r \in calls, LoseCall(r)
  PROVE  IndInv'
<1>1. JournalIsDecision' /\ CommitCovered'
  BY DEF LoseCall, TypeOK, IndInv, JournalIsDecision, CommitCovered, HandlerKnows, CallJustified, ResolverKnows
<1>2. ASSUME NEW h \in Gid PROVE HandlerKnows(h)'
  BY DEF LoseCall, TypeOK, IndInv, SingleCoordinator, HandlerKnows, CallJustified, CommitCovered, ResolverKnows
<1>3. ASSUME NEW q \in calls' PROVE CallJustified(q)'
  BY DEF LoseCall, TypeOK, IndInv, CallJustified, HandlerKnows, ResolverKnows
<1>4. ASSUME NEW h \in holding' PROVE HandlerCall("prepare", h) \in calls'
  BY DEF LoseCall, TypeOK, IndInv
<1>5. ASSUME NEW e \in Coord, NEW h \in Gid PROVE ResolverKnows(e, h)'
  BY DEF LoseCall, TypeOK, IndInv, SingleCoordinator, ResolverKnows, HandlerKnows, CommitCovered, CallJustified
<1> QED BY <1>1, <1>2, <1>3, <1>4, <1>5 DEF IndInv

LEMMA ItemsRestartInd ==
  ASSUME SingleCoordinator, TypeOK, TypeOK', IndInv, ItemsRestart
  PROVE  IndInv'
<1>1. JournalIsDecision' /\ CommitCovered'
  BY DEF ItemsRestart, TypeOK, IndInv, JournalIsDecision, CommitCovered, HandlerKnows, CallJustified, ResolverKnows
<1>2. ASSUME NEW h \in Gid PROVE HandlerKnows(h)'
  BY DEF ItemsRestart, TypeOK, IndInv, SingleCoordinator, HandlerKnows, CallJustified, CommitCovered, ResolverKnows
<1>3. ASSUME NEW q \in calls' PROVE CallJustified(q)'
  BY DEF ItemsRestart, TypeOK, IndInv, CallJustified, HandlerKnows, ResolverKnows
<1>4. ASSUME NEW h \in holding' PROVE HandlerCall("prepare", h) \in calls'
  BY DEF ItemsRestart, TypeOK, IndInv
<1>5. ASSUME NEW e \in Coord, NEW h \in Gid PROVE ResolverKnows(e, h)'
  BY DEF ItemsRestart, TypeOK, IndInv, SingleCoordinator, ResolverKnows, HandlerKnows, CommitCovered, CallJustified
<1> QED BY <1>1, <1>2, <1>3, <1>4, <1>5 DEF IndInv

LEMMA BootInd ==
  ASSUME SingleCoordinator, TypeOK, TypeOK', IndInv, NEW c \in Coord, Boot(c)
  PROVE  IndInv'
<1>1. JournalIsDecision' /\ CommitCovered'
  BY DEF Boot, TypeOK, IndInv, JournalIsDecision, CommitCovered, HandlerKnows, CallJustified, ResolverKnows
<1>2. ASSUME NEW h \in Gid PROVE HandlerKnows(h)'
  BY DEF Boot, TypeOK, IndInv, SingleCoordinator, HandlerKnows, CallJustified, CommitCovered, ResolverKnows
<1>3. ASSUME NEW q \in calls' PROVE CallJustified(q)'
  BY DEF Boot, TypeOK, IndInv, CallJustified, HandlerKnows, ResolverKnows
<1>4. ASSUME NEW h \in holding' PROVE HandlerCall("prepare", h) \in calls'
  BY DEF Boot, TypeOK, IndInv
<1>5. ASSUME NEW e \in Coord, NEW h \in Gid PROVE ResolverKnows(e, h)'
  BY DEF Boot, TypeOK, IndInv, SingleCoordinator, ResolverKnows, HandlerKnows, CommitCovered, CallJustified
<1> QED BY <1>1, <1>2, <1>3, <1>4, <1>5 DEF IndInv

LEMMA ListLocalInd ==
  ASSUME SingleCoordinator, TypeOK, TypeOK', IndInv, NEW c \in Coord, ListLocal(c)
  PROVE  IndInv'
<1>1. JournalIsDecision' /\ CommitCovered'
  BY DEF ListLocal, TypeOK, IndInv, JournalIsDecision, CommitCovered, HandlerKnows, CallJustified, ResolverKnows
<1>2. ASSUME NEW h \in Gid PROVE HandlerKnows(h)'
  BY DEF ListLocal, TypeOK, IndInv, SingleCoordinator, HandlerKnows, CallJustified, CommitCovered, ResolverKnows
<1>3. ASSUME NEW q \in calls' PROVE CallJustified(q)'
  BY DEF ListLocal, TypeOK, IndInv, CallJustified, HandlerKnows, ResolverKnows
<1>4. ASSUME NEW h \in holding' PROVE HandlerCall("prepare", h) \in calls'
  BY DEF ListLocal, TypeOK, IndInv
<1>5. ASSUME NEW e \in Coord, NEW h \in Gid PROVE ResolverKnows(e, h)'
  <2>1. e = c /\ phase[c] = "listLocal" /\ phase'[c] = "listItems" /\ task[c][h] = "none"
    BY DEF SingleCoordinator, ListLocal, TypeOK, IndInv, ResolverKnows
  <2>2. h \in local'[c] <=> ordersDb[h] = "prepared"
    BY DEF ListLocal, TypeOK
  <2>3. ordersDb[h] = "prepared" => h \in journal \/ Doomed(h)
    BY <2>1 DEF IndInv, HandlerKnows, CommitCovered, TypeOK
  <2> QED BY <2>1, <2>2, <2>3 DEF ListLocal, IndInv, JournalIsDecision, ResolverKnows
<1> QED BY <1>1, <1>2, <1>3, <1>4, <1>5 DEF IndInv

LEMMA ListItemsInd ==
  ASSUME SingleCoordinator, TypeOK, TypeOK', IndInv, NEW c \in Coord, ListItems(c)
  PROVE  IndInv'
<1>1. JournalIsDecision' /\ CommitCovered'
  BY DEF ListItems, TypeOK, IndInv, JournalIsDecision, CommitCovered, HandlerKnows, CallJustified, ResolverKnows
<1>2. ASSUME NEW h \in Gid PROVE HandlerKnows(h)'
  BY DEF ListItems, TypeOK, IndInv, SingleCoordinator, HandlerKnows, CallJustified, CommitCovered, ResolverKnows
<1>3. ASSUME NEW q \in calls' PROVE CallJustified(q)'
  BY DEF ListItems, TypeOK, IndInv, CallJustified, HandlerKnows, ResolverKnows
<1>4. ASSUME NEW h \in holding' PROVE HandlerCall("prepare", h) \in calls'
  BY DEF ListItems, TypeOK, IndInv
<1>5. ASSUME NEW e \in Coord, NEW h \in Gid PROVE ResolverKnows(e, h)'
  <2>1. e = c /\ phase[c] = "listItems" /\ phase'[c] = "listJournal" /\ task[c][h] = "none"
    BY DEF SingleCoordinator, ListItems, TypeOK, IndInv, ResolverKnows
  <2>2. h \in listed'[c] <=> itemsDb[h] = "prepared"
    BY DEF ListItems, TypeOK
  <2>3. itemsDb[h] = "prepared" => h \in journal \/ Doomed(h)
    BY <2>1 DEF IndInv, HandlerKnows, CommitCovered, TypeOK
  <2> QED BY <2>1, <2>2, <2>3 DEF ListItems, IndInv, JournalIsDecision, ResolverKnows
<1> QED BY <1>1, <1>2, <1>3, <1>4, <1>5 DEF IndInv

LEMMA ListItemsFailsInd ==
  ASSUME SingleCoordinator, TypeOK, TypeOK', IndInv, NEW c \in Coord, ListItemsFails(c)
  PROVE  IndInv'
<1>1. JournalIsDecision' /\ CommitCovered'
  BY DEF ListItemsFails, TypeOK, IndInv, JournalIsDecision, CommitCovered, HandlerKnows, CallJustified, ResolverKnows
<1>2. ASSUME NEW h \in Gid PROVE HandlerKnows(h)'
  BY DEF ListItemsFails, TypeOK, IndInv, SingleCoordinator, HandlerKnows, CallJustified, CommitCovered, ResolverKnows
<1>3. ASSUME NEW q \in calls' PROVE CallJustified(q)'
  BY DEF ListItemsFails, TypeOK, IndInv, CallJustified, HandlerKnows, ResolverKnows
<1>4. ASSUME NEW h \in holding' PROVE HandlerCall("prepare", h) \in calls'
  BY DEF ListItemsFails, TypeOK, IndInv
<1>5. ASSUME NEW e \in Coord, NEW h \in Gid PROVE ResolverKnows(e, h)'
  BY DEF ListItemsFails, TypeOK, IndInv, SingleCoordinator, ResolverKnows, HandlerKnows, CommitCovered, CallJustified
<1> QED BY <1>1, <1>2, <1>3, <1>4, <1>5 DEF IndInv

LEMMA ListJournalCommitsInd ==
  ASSUME SingleCoordinator, TypeOK, TypeOK', IndInv, NEW c \in Coord, ListJournalCommits(c)
  PROVE  IndInv'
<1>1. JournalIsDecision' /\ CommitCovered'
  BY DEF ListJournalCommits, TypeOK, IndInv, JournalIsDecision, CommitCovered, HandlerKnows, CallJustified, ResolverKnows
<1>2. ASSUME NEW h \in Gid PROVE HandlerKnows(h)'
  BY DEF ListJournalCommits, TypeOK, IndInv, SingleCoordinator, HandlerKnows, CallJustified, CommitCovered, ResolverKnows
<1>3. ASSUME NEW q \in calls' PROVE CallJustified(q)'
  BY DEF ListJournalCommits, TypeOK, IndInv, CallJustified, HandlerKnows, ResolverKnows
<1>4. ASSUME NEW h \in holding' PROVE HandlerCall("prepare", h) \in calls'
  BY DEF ListJournalCommits, TypeOK, IndInv
<1>5. ASSUME NEW e \in Coord, NEW h \in Gid PROVE ResolverKnows(e, h)'
  BY DEF ListJournalCommits, TypeOK, IndInv, SingleCoordinator, ResolverKnows, HandlerKnows, CommitCovered, CallJustified
<1> QED BY <1>1, <1>2, <1>3, <1>4, <1>5 DEF IndInv

LEMMA ResolveLocalInd ==
  ASSUME SingleCoordinator, TypeOK, TypeOK', IndInv, NEW c \in Coord, NEW g \in Gid, ResolveLocal(c, g)
  PROVE  IndInv'
<1>1. JournalIsDecision' /\ CommitCovered'
  <2> ResolverKnows(c, g)
    BY DEF IndInv
  <2> task[c][g] = "todo"
    BY DEF ResolveLocal
  <2>1. (g \in commits[c] => g \in journal) /\ (g \notin commits[c] => Doomed(g))
    BY DEF ResolverKnows
  <2>2. UNCHANGED <<journal, itemsDb>>
    BY DEF ResolveLocal
  <2>3. \A d \in Gid :
          \/ ordersDb'[d] = ordersDb[d]
          \/ d = g /\ g \in journal /\ ordersDb[d] = "prepared" /\ ordersDb'[d] = "committed"
          \/ d = g /\ Doomed(g) /\ ordersDb'[d] = "aborted"
    BY <2>1 DEF ResolveLocal, SettleLocal, TypeOK
  <2> QED BY <2>2, <2>3 DEF TypeOK, IndInv, JournalIsDecision, CommitCovered
<1>2. ASSUME NEW h \in Gid PROVE HandlerKnows(h)'
  BY DEF ResolveLocal, SettleLocal, TypeOK, IndInv, SingleCoordinator, HandlerKnows, CallJustified, CommitCovered, ResolverKnows
<1>3. ASSUME NEW q \in calls' PROVE CallJustified(q)'
  BY DEF ResolveLocal, SettleLocal, TypeOK, IndInv, CallJustified, HandlerKnows, ResolverKnows
<1>4. ASSUME NEW h \in holding' PROVE HandlerCall("prepare", h) \in calls'
  BY DEF ResolveLocal, SettleLocal, TypeOK, IndInv
<1>5. ASSUME NEW e \in Coord, NEW h \in Gid PROVE ResolverKnows(e, h)'
  <2>1. e = c /\ phase[c] = "resolve" /\ ResolverKnows(c, h) /\ ResolverKnows(c, g)
    BY DEF SingleCoordinator, ResolveLocal, IndInv
  <2>2. (g \in commits[c] => g \in journal) /\ (g \notin commits[c] => Doomed(g))
    BY <2>1 DEF ResolveLocal, ResolverKnows
  <2>3. UNCHANGED <<pc, journal, itemsDb, phase, local, listed, reach, commits>>
    BY DEF ResolveLocal
  <2>4. ordersDb[h] = "committed" => ordersDb'[h] = "committed"
    BY DEF ResolveLocal, SettleLocal, TypeOK
  <2>5. Doomed(h) => Doomed(h)'
    BY <2>2, <2>3 DEF ResolveLocal, SettleLocal, TypeOK, IndInv
  <2>6. g \in commits[c] => ordersDb'[g] = "committed"
    BY <2>1, <2>2 DEF ResolveLocal, SettleLocal, ResolverKnows, IndInv, JournalIsDecision, TypeOK
  <2>7. task'[c][g] = "items" /\ (h # g => task'[c][h] = task[c][h])
    BY DEF ResolveLocal, SettleLocal, TypeOK
  <2>8. CASE h = g
    BY <2>1, <2>2, <2>3, <2>4, <2>5, <2>6, <2>7, <2>8 DEF ResolverKnows
  <2>9. CASE h # g
    BY <2>1, <2>3, <2>4, <2>5, <2>7, <2>9 DEF ResolverKnows
  <2> QED BY <2>8, <2>9
<1> QED BY <1>1, <1>2, <1>3, <1>4, <1>5 DEF IndInv

LEMMA ResolveItemsInd ==
  ASSUME SingleCoordinator, TypeOK, TypeOK', IndInv, NEW c \in Coord, NEW g \in Gid, ResolveItems(c, g)
  PROVE  IndInv'
<1>1. JournalIsDecision' /\ CommitCovered'
  BY DEF ResolveItems, TypeOK, IndInv, JournalIsDecision, CommitCovered, HandlerKnows, CallJustified, ResolverKnows
<1>2. ASSUME NEW h \in Gid PROVE HandlerKnows(h)'
  BY DEF ResolveItems, TypeOK, IndInv, SingleCoordinator, HandlerKnows, CallJustified, CommitCovered, ResolverKnows
<1>3. ASSUME NEW q \in calls' PROVE CallJustified(q)'
  BY DEF ResolveItems, TypeOK, IndInv, CallJustified, HandlerKnows, ResolverKnows
<1>4. ASSUME NEW h \in holding' PROVE HandlerCall("prepare", h) \in calls'
  BY DEF ResolveItems, TypeOK, IndInv
<1>5. ASSUME NEW e \in Coord, NEW h \in Gid PROVE ResolverKnows(e, h)'
  BY DEF ResolveItems, TypeOK, IndInv, SingleCoordinator, ResolverKnows, HandlerKnows, CommitCovered, CallJustified
<1> QED BY <1>1, <1>2, <1>3, <1>4, <1>5 DEF IndInv

LEMMA ResolveWithoutItemsInd ==
  ASSUME SingleCoordinator, TypeOK, TypeOK', IndInv, NEW c \in Coord, NEW g \in Gid, ResolveWithoutItems(c, g)
  PROVE  IndInv'
<1>1. JournalIsDecision' /\ CommitCovered'
  BY DEF ResolveWithoutItems, TypeOK, IndInv, JournalIsDecision, CommitCovered, HandlerKnows, CallJustified, ResolverKnows
<1>2. ASSUME NEW h \in Gid PROVE HandlerKnows(h)'
  BY DEF ResolveWithoutItems, TypeOK, IndInv, SingleCoordinator, HandlerKnows, CallJustified, CommitCovered, ResolverKnows
<1>3. ASSUME NEW q \in calls' PROVE CallJustified(q)'
  BY DEF ResolveWithoutItems, TypeOK, IndInv, CallJustified, HandlerKnows, ResolverKnows
<1>4. ASSUME NEW h \in holding' PROVE HandlerCall("prepare", h) \in calls'
  BY DEF ResolveWithoutItems, TypeOK, IndInv
<1>5. ASSUME NEW e \in Coord, NEW h \in Gid PROVE ResolverKnows(e, h)'
  BY DEF ResolveWithoutItems, TypeOK, IndInv, SingleCoordinator, ResolverKnows, HandlerKnows, CommitCovered, CallJustified
<1> QED BY <1>1, <1>2, <1>3, <1>4, <1>5 DEF IndInv

LEMMA ResolveJournalInd ==
  ASSUME SingleCoordinator, TypeOK, TypeOK', IndInv, NEW c \in Coord, NEW g \in Gid, ResolveJournal(c, g)
  PROVE  IndInv'
<1>1. JournalIsDecision' /\ CommitCovered'
  BY DEF ResolveJournal, TypeOK, IndInv, JournalIsDecision, CommitCovered, HandlerKnows, CallJustified, ResolverKnows
<1>2. ASSUME NEW h \in Gid PROVE HandlerKnows(h)'
  BY DEF ResolveJournal, TypeOK, IndInv, SingleCoordinator, HandlerKnows, CallJustified, CommitCovered, ResolverKnows
<1>3. ASSUME NEW q \in calls' PROVE CallJustified(q)'
  BY DEF ResolveJournal, TypeOK, IndInv, CallJustified, HandlerKnows, ResolverKnows
<1>4. ASSUME NEW h \in holding' PROVE HandlerCall("prepare", h) \in calls'
  BY DEF ResolveJournal, TypeOK, IndInv
<1>5. ASSUME NEW e \in Coord, NEW h \in Gid PROVE ResolverKnows(e, h)'
  BY DEF ResolveJournal, TypeOK, IndInv, SingleCoordinator, ResolverKnows, HandlerKnows, CommitCovered, CallJustified
<1> QED BY <1>1, <1>2, <1>3, <1>4, <1>5 DEF IndInv

LEMMA ResolveFailsInd ==
  ASSUME SingleCoordinator, TypeOK, TypeOK', IndInv, NEW c \in Coord, NEW g \in Gid, ResolveFails(c, g)
  PROVE  IndInv'
<1>1. JournalIsDecision' /\ CommitCovered'
  <2> ResolverKnows(c, g)
    BY DEF IndInv
  <2>1. task[c][g] = "todo" => (g \in commits[c] => g \in journal) /\ (g \notin commits[c] => Doomed(g))
    BY DEF ResolverKnows
  <2>2. task[c][g] = "journal" => BothCommitted(g)
    BY DEF ResolverKnows
  <2> QED BY <2>1, <2>2 DEF ResolveFails, SettleLocal, TypeOK, IndInv, JournalIsDecision, CommitCovered
<1>2. ASSUME NEW h \in Gid PROVE HandlerKnows(h)'
  BY DEF ResolveFails, SettleLocal, TypeOK, IndInv, SingleCoordinator, HandlerKnows, CallJustified, CommitCovered, ResolverKnows
<1>3. ASSUME NEW q \in calls' PROVE CallJustified(q)'
  BY DEF ResolveFails, SettleLocal, TypeOK, IndInv, CallJustified, HandlerKnows, ResolverKnows
<1>4. ASSUME NEW h \in holding' PROVE HandlerCall("prepare", h) \in calls'
  BY DEF ResolveFails, IndInv
<1>5. ASSUME NEW e \in Coord, NEW h \in Gid PROVE ResolverKnows(e, h)'
  <2>1. e = c /\ ResolverKnows(c, h) /\ ResolverKnows(c, g)
    BY DEF SingleCoordinator, IndInv
  <2>2. phase[c] = "resolve"
    BY <2>1 DEF ResolveFails, ResolverKnows
  <2>3. task[c][g] = "todo" => (g \in commits[c] => g \in journal) /\ (g \notin commits[c] => Doomed(g))
    BY <2>1 DEF ResolverKnows
  <2>4. UNCHANGED <<pc, itemsDb, phase, local, listed, reach, commits>>
    BY DEF ResolveFails
  <2>5. \A d \in Gid : ordersDb[d] = "committed" => ordersDb'[d] = "committed"
    BY DEF ResolveFails, SettleLocal, TypeOK
  <2>6. journal' \subseteq journal /\ (h # g => (h \in journal' <=> h \in journal))
    BY DEF ResolveFails
  <2>7. task'[c][g] = "failed" /\ (h # g => task'[c][h] = task[c][h])
    BY DEF ResolveFails, TypeOK
  <2>8. Doomed(h) => Doomed(h)'
    BY <2>3, <2>4, <2>6 DEF ResolveFails, SettleLocal, TypeOK, IndInv
  <2>9. CASE h = g
    BY <2>1, <2>2, <2>4, <2>5, <2>6, <2>7, <2>9 DEF ResolverKnows
  <2>10. CASE h # g
    BY <2>1, <2>2, <2>4, <2>5, <2>6, <2>7, <2>8, <2>10 DEF ResolverKnows
  <2> QED BY <2>9, <2>10
<1> QED BY <1>1, <1>2, <1>3, <1>4, <1>5 DEF IndInv

LEMMA ListenInd ==
  ASSUME SingleCoordinator, TypeOK, TypeOK', IndInv, NEW c \in Coord, Listen(c)
  PROVE  IndInv'
<1>1. JournalIsDecision' /\ CommitCovered'
  BY DEF Listen, ForgetPass, TypeOK, IndInv, JournalIsDecision, CommitCovered, HandlerKnows, CallJustified, ResolverKnows
<1>2. ASSUME NEW h \in Gid PROVE HandlerKnows(h)'
  BY DEF Listen, ForgetPass, TypeOK, IndInv, SingleCoordinator, HandlerKnows, CallJustified, CommitCovered, ResolverKnows
<1>3. ASSUME NEW q \in calls' PROVE CallJustified(q)'
  BY DEF Listen, ForgetPass, TypeOK, IndInv, CallJustified, HandlerKnows, ResolverKnows
<1>4. ASSUME NEW h \in holding' PROVE HandlerCall("prepare", h) \in calls'
  BY DEF Listen, ForgetPass, TypeOK, IndInv
<1>5. ASSUME NEW e \in Coord, NEW h \in Gid PROVE ResolverKnows(e, h)'
  BY DEF Listen, ForgetPass, TypeOK, IndInv, SingleCoordinator, ResolverKnows, HandlerKnows, CommitCovered, CallJustified
<1> QED BY <1>1, <1>2, <1>3, <1>4, <1>5 DEF IndInv

LEMMA CrashInd ==
  ASSUME SingleCoordinator, TypeOK, TypeOK', IndInv, NEW c \in Coord, Crash(c)
  PROVE  IndInv'
<1>1. JournalIsDecision' /\ CommitCovered'
  BY DEF Crash, ForgetPass, TypeOK, IndInv, JournalIsDecision, CommitCovered, HandlerKnows, CallJustified, ResolverKnows
<1>2. ASSUME NEW h \in Gid PROVE HandlerKnows(h)'
  BY DEF Crash, ForgetPass, TypeOK, IndInv, SingleCoordinator, HandlerKnows, CallJustified, CommitCovered, ResolverKnows
<1>3. ASSUME NEW q \in calls' PROVE CallJustified(q)'
  BY DEF Crash, ForgetPass, TypeOK, IndInv, CallJustified, HandlerKnows, ResolverKnows
<1>4. ASSUME NEW h \in holding' PROVE HandlerCall("prepare", h) \in calls'
  BY DEF Crash, ForgetPass, TypeOK, IndInv
<1>5. ASSUME NEW e \in Coord, NEW h \in Gid PROVE ResolverKnows(e, h)'
  BY DEF Crash, ForgetPass, TypeOK, IndInv, SingleCoordinator, ResolverKnows, HandlerKnows, CommitCovered, CallJustified
<1> QED BY <1>1, <1>2, <1>3, <1>4, <1>5 DEF IndInv

LEMMA IndInvNext == SingleCoordinator /\ TypeOK /\ TypeOK' /\ IndInv /\ [Next]_vars => IndInv'
<1> SUFFICES ASSUME SingleCoordinator, TypeOK, TypeOK', IndInv, [Next]_vars PROVE IndInv'
  OBVIOUS
<1>1. ASSUME NEW c \in Coord, NEW g \in Gid, StartOrder(c, g) PROVE IndInv'
  BY <1>1, StartOrderInd
<1>2. ASSUME NEW g \in Gid, HandlerStep(g) PROVE IndInv'
  BY <1>2, PrepareInsertInd, PrepareInsertFailsInd, WriteJournalCommitInd, SendCommitInd,
     CommitOrdersInd, DeleteJournalInd, OrdersQueryFailsInd, FaultPointInd, HandlerTimeoutInd
     DEF HandlerStep
<1>3. ASSUME NEW g \in Gid, Connect(g) \/ PrepareDecrement(g) PROVE IndInv'
  BY <1>3, ConnectInd, PrepareDecrementInd
<1>4. ASSUME NEW r \in calls, CommitTx(r) \/ RollbackTx(r) \/ LoseCall(r) PROVE IndInv'
  BY <1>4, CommitTxInd, RollbackTxInd, LoseCallInd
<1>5. ASSUME NEW c \in Coord, Boot(c) \/ Crash(c) PROVE IndInv'
  BY <1>5, BootInd, CrashInd
<1>6. ASSUME NEW c \in Coord, ResolverStep(c) PROVE IndInv'
  BY <1>6, ListLocalInd, ListItemsInd, ListItemsFailsInd, ListJournalCommitsInd, ResolveLocalInd,
     ResolveItemsInd, ResolveWithoutItemsInd, ResolveJournalInd, ResolveFailsInd, ListenInd
     DEF ResolverStep
<1>7. CASE ItemsRestart
  BY <1>7, ItemsRestartInd
<1>8. CASE UNCHANGED vars
  BY <1>8 DEF IndInv, JournalIsDecision, CommitCovered, HandlerKnows, CallJustified, ResolverKnows
<1> QED BY <1>1, <1>2, <1>3, <1>4, <1>5, <1>6, <1>7, <1>8 DEF Next

\* Whatever the orders, the pool and the faults, a single coordinator with its
\* journal and its resolver keeps the inductive invariant at all times.
THEOREM IndInvHolds == SingleCoordinator => (Spec => []IndInv)
<1>1. SingleCoordinator /\ TypeOK /\ IndInv /\ [Next]_vars => TypeOK' /\ IndInv'
  BY TypeNext, IndInvNext
<1>2. Init => TypeOK /\ IndInv
  BY TypeInit, IndInvInit
<1> SUFFICES ASSUME SingleCoordinator PROVE Spec => []IndInv
  OBVIOUS
<1>3. TypeOK /\ IndInv /\ [Next]_vars => TypeOK' /\ IndInv'
  BY <1>1
<1> QED BY <1>2, <1>3, PTL DEF Spec

LEMMA IndInvImplies == IndInv => Atomicity /\ CreatedStands
BY DEF IndInv, Atomicity, CreatedStands, CommitCovered, JournalIsDecision, HandlerKnows

\* With one coordinator there is no split-brain: no crash, timeout, lost or late
\* call makes one database commit an order that the other one aborts.
THEOREM AtomicityHolds == SingleCoordinator => (Spec => []Atomicity)
BY IndInvHolds, IndInvImplies, PTL

\* With one coordinator an order answered with 201 is committed on both sides.
THEOREM CreatedStandsHolds == SingleCoordinator => (Spec => []CreatedStands)
BY IndInvHolds, IndInvImplies, PTL

LEMMA DeferredDeleteStep ==
  ASSUME TypeOK, IndInv, [Next]_vars, NEW g \in Gid, g \in journal, g \notin journal'
  PROVE  BothCommitted(g)
<1>1. ASSUME NEW h \in Gid, HandlerStep(h) PROVE BothCommitted(g)
  <2>1. h = g /\ pc[g] = "deleteJournal"
    BY <1>1 DEF HandlerStep, PrepareInsert, PrepareInsertFails, WriteJournalCommit, SendCommit,
       CommitOrders, DeleteJournal, OrdersQueryFails, FaultPoint, HandlerTimeout
  <2> QED BY <2>1 DEF IndInv, HandlerKnows
<1>2. ASSUME NEW c \in Coord, ResolverStep(c) PROVE BothCommitted(g)
  <2>1. task[c][g] = "journal"
    BY <1>2 DEF ResolverStep, ListLocal, ListItems, ListItemsFails, ListJournalCommits,
       ResolveLocal, ResolveItems, ResolveWithoutItems, ResolveJournal, ResolveFails, Listen
  <2> QED BY <2>1 DEF IndInv, ResolverKnows
<1>3. ~\E c \in Coord, h \in Gid : StartOrder(c, h)
  BY DEF StartOrder
<1>4. ~\E h \in Gid : Connect(h) \/ PrepareDecrement(h)
  BY DEF Connect, PrepareDecrement
<1>5. ~\E r \in calls : CommitTx(r) \/ RollbackTx(r) \/ LoseCall(r)
  BY DEF CommitTx, RollbackTx, LoseCall
<1>6. ~ItemsRestart /\ ~\E c \in Coord : Boot(c) \/ Crash(c)
  BY DEF ItemsRestart, Boot, Crash
<1> QED BY <1>1, <1>2, <1>3, <1>4, <1>5, <1>6 DEF Next

\* With one coordinator a journal row is deleted only when both sides have
\* committed, by the handler as by the resolver.
THEOREM DeferredDeleteHolds == SingleCoordinator => (Spec => DeferredDelete)
<1>1. TypeOK /\ IndInv /\ [Next]_vars
        => [\A g \in Gid : g \in journal /\ g \notin journal' => BothCommitted(g)]_vars
  BY DeferredDeleteStep
<1> QED BY <1>1, TypeCorrect, IndInvHolds, PTL DEF Spec, DeferredDelete

-----------------------------------------------------------------------------
(* What the resolver leaves behind, when one coordinator runs.              *)

\* The order's transaction in orders-db comes after the one in items-db.
ItemsFirst == \A g \in Gid : ordersDb[g] # "none" => itemsDb[g] # "none"

\* The lists are complete: a late prepare can only be of an order that is in none
\* of them, and a gid the loop is through with has been settled.
PassKnows(c, g) ==
  /\ phase[c] \in {"listItems", "listJournal", "resolve"} =>
       /\ ordersDb[g] = "prepared" => g \in local[c]
       /\ g \in local[c] => itemsDb[g] # "none"
  /\ phase[c] \in {"listJournal", "resolve"} =>
       /\ g \in listed[c] => itemsDb[g] # "none"
       /\ reach[c] /\ g \in local[c] \ listed[c] => itemsDb[g] # "prepared"
  /\ task[c][g] # "none" =>
       itemsDb[g] # "none" /\ (reach[c] /\ g \notin listed[c] => itemsDb[g] # "prepared")
  /\ task[c][g] \in Busy \union {"done"} => ordersDb[g] # "prepared"
  /\ task[c][g] = "done" => g \notin journal /\ (reach[c] => itemsDb[g] # "prepared")

Passes == ItemsFirst /\ \A c \in Coord, g \in Gid : PassKnows(c, g)

LEMMA ItemsFirstNext == TypeOK /\ IndInv /\ ItemsFirst /\ [Next]_vars => ItemsFirst'
<1> SUFFICES ASSUME TypeOK, IndInv, ItemsFirst, [Next]_vars PROVE ItemsFirst'
  OBVIOUS
<1>1. CASE UNCHANGED <<ordersDb, itemsDb>>
  BY <1>1 DEF ItemsFirst
<1>2. ASSUME NEW g \in Gid, HandlerStep(g), ~UNCHANGED <<ordersDb, itemsDb>> PROVE ItemsFirst'
  <2>1. /\ UNCHANGED itemsDb
        /\ \A h \in Gid :
             ordersDb[h] = "none" => ordersDb'[h] = "none" \/ (h = g /\ pc[g] = "prepareOrders")
    <3>1. CASE PrepareInsert(g) \/ PrepareInsertFails(g)
      BY <3>1 DEF TypeOK, PrepareInsert, PrepareInsertFails
    <3>2. CASE CommitOrders(g) \/ OrdersQueryFails(g)
      BY <3>2 DEF TypeOK, CommitOrders, OrdersQueryFails
    <3>3. CASE WriteJournalCommit(g) \/ SendCommit(g) \/ DeleteJournal(g) \/ FaultPoint(g) \/ HandlerTimeout(g)
      BY <3>3 DEF WriteJournalCommit, SendCommit, DeleteJournal, FaultPoint, HandlerTimeout
    <3> QED BY <1>2, <3>1, <3>2, <3>3 DEF HandlerStep
  <2>2. pc[g] = "prepareOrders" => itemsDb[g] = "prepared"
    BY DEF IndInv, HandlerKnows
  <2> QED BY <2>1, <2>2 DEF ItemsFirst
<1>3. ASSUME UNCHANGED ordersDb, \A h \in Gid : itemsDb[h] # "none" => itemsDb'[h] # "none" PROVE ItemsFirst'
  BY <1>3 DEF ItemsFirst
<1>4. ASSUME NEW g \in Gid, PrepareDecrement(g) PROVE ItemsFirst'
  BY <1>3, <1>4 DEF PrepareDecrement, TypeOK
<1>5. ASSUME NEW r \in calls, CommitTx(r) \/ RollbackTx(r) PROVE ItemsFirst'
  BY <1>3, <1>5 DEF CommitTx, RollbackTx, TypeOK
<1>6. ASSUME NEW c \in Coord, ResolverStep(c) PROVE ItemsFirst'
  <2>1. UNCHANGED itemsDb /\ \A h \in Gid : ordersDb[h] = "none" => ordersDb'[h] = "none"
    BY <1>6 DEF TypeOK, ResolverStep, ListLocal, ListItems, ListItemsFails, ListJournalCommits,
       ResolveLocal, ResolveItems, ResolveWithoutItems, ResolveJournal, ResolveFails, Listen, SettleLocal
  <2> QED BY <2>1 DEF ItemsFirst
<1> QED BY <1>1, <1>2, <1>4, <1>5, <1>6
      DEF Next, StartOrder, Connect, LoseCall, ItemsRestart, Boot, Crash

\* Where the resolver has no task and no list, there is nothing to know.
LEMMA PassIdle ==
  ASSUME NEW c \in Coord, NEW g \in Gid, task[c][g] = "none",
         phase[c] \notin {"listItems", "listJournal", "resolve"}
  PROVE  PassKnows(c, g)
BY DEF PassKnows

\* A handler only runs while no resolver does.
LEMMA PassHandler ==
  ASSUME SingleCoordinator, TypeOK, IndInv, NEW h \in Gid,
         HandlerStep(h) \/ \E d \in Coord : StartOrder(d, h),
         NEW c \in Coord, NEW g \in Gid
  PROVE  PassKnows(c, g)'
<1>1. UNCHANGED resolver
  BY DEF StartOrder, HandlerStep, PrepareInsert, PrepareInsertFails, WriteJournalCommit, SendCommit,
     CommitOrders, DeleteJournal, OrdersQueryFails, FaultPoint, HandlerTimeout
<1>2. phase[c] = "serving"
  <2>1. CASE HandlerStep(h)
    <3>1. Live(h)
      BY <2>1 DEF HandlerStep, PrepareInsert, PrepareInsertFails, WriteJournalCommit, SendCommit,
         CommitOrders, DeleteJournal, OrdersQueryFails, FaultPoint, HandlerTimeout
    <3> QED BY <3>1 DEF IndInv, HandlerKnows
  <2>2. CASE \E d \in Coord : StartOrder(d, h)
    BY <2>2 DEF SingleCoordinator, StartOrder
  <2> QED BY <2>1, <2>2
<1>3. task[c][g] = "none"
  BY <1>2 DEF IndInv, ResolverKnows
<1> QED BY <1>1, <1>2, <1>3 DEF PassKnows

LEMMA PassService ==
  ASSUME TypeOK, IndInv, Passes,
         \/ \E h \in Gid : Connect(h) \/ PrepareDecrement(h)
         \/ \E r \in calls : CommitTx(r) \/ RollbackTx(r) \/ LoseCall(r)
         \/ ItemsRestart,
         NEW c \in Coord, NEW g \in Gid
  PROVE  PassKnows(c, g)'
<1>1. UNCHANGED <<orders, phase, local, listed, reach, commits>> /\ PassKnows(c, g)
  BY DEF Passes, Connect, PrepareDecrement, CommitTx, RollbackTx, LoseCall, ItemsRestart
<1>2. /\ itemsDb[g] # "none" => itemsDb'[g] # "none"
      /\ itemsDb'[g] = "prepared" => itemsDb[g] \in {"none", "prepared"}
  <2>1. ASSUME NEW h \in Gid, PrepareDecrement(h)
        PROVE  itemsDb[h] = "none" /\ \A x \in Gid \ {h} : itemsDb'[x] = itemsDb[x]
    <3>1. HandlerCall("prepare", h) \in calls
      BY <2>1 DEF PrepareDecrement, IndInv
    <3>2. CallJustified(HandlerCall("prepare", h))
      BY <3>1 DEF IndInv
    <3>3. itemsDb[h] = "none"
      BY <3>2 DEF CallJustified
    <3>4. \A x \in Gid \ {h} : itemsDb'[x] = itemsDb[x]
      BY <2>1 DEF PrepareDecrement, TypeOK
    <3> QED BY <3>3, <3>4
  <2>2. ASSUME NEW h \in Gid, PrepareDecrement(h) PROVE itemsDb'[h] # "none"
    BY <2>2 DEF PrepareDecrement, TypeOK
  <2>3. ASSUME NEW r \in calls, CommitTx(r) \/ RollbackTx(r)
        PROVE  itemsDb'[g] = itemsDb[g] \/ itemsDb'[g] \in {"committed", "aborted"}
    BY <2>3 DEF CommitTx, RollbackTx, TypeOK
  <2>4. CASE UNCHANGED itemsDb
    BY <2>4
  <2> QED BY <2>1, <2>2, <2>3, <2>4 DEF Connect, LoseCall, ItemsRestart
<1>3. CASE task'[c][g] = task[c][g]
  BY <1>1, <1>2, <1>3 DEF PassKnows
<1>4. ASSUME task'[c][g] # task[c][g]
      PROVE  /\ task[c][g] = "await"
             /\ \/ task'[c][g] = "journal"
                \/ task'[c][g] = "done" /\ g \notin journal /\ itemsDb'[g] # "prepared"
  <2>1. PICK r \in calls : CommitTx(r) \/ RollbackTx(r)
    BY <1>4 DEF Connect, PrepareDecrement, LoseCall, ItemsRestart
  <2>2. r.by = c /\ r.gid = g /\ Awaits(r.by, r)
    BY <1>4, <2>1 DEF CommitTx, RollbackTx, ResolverAnswer, TypeOK
  <2>3. CASE CommitTx(r)
    BY <1>4, <2>2, <2>3 DEF CommitTx, ResolverAnswer, Awaits, TypeOK
  <2>4. CASE RollbackTx(r)
    <3>1. g \notin journal
      BY <2>2, <2>4 DEF RollbackTx, IndInv, CallJustified
    <3> QED BY <1>4, <2>2, <2>4, <3>1 DEF RollbackTx, ResolverAnswer, Awaits, TypeOK
  <2> QED BY <2>1, <2>3, <2>4
<1> QED BY <1>1, <1>2, <1>3, <1>4 DEF PassKnows

LEMMA PassLists ==
  ASSUME SingleCoordinator, TypeOK, IndInv, Passes, NEW d \in Coord,
         ListLocal(d) \/ ListItems(d) \/ ListItemsFails(d) \/ ListJournalCommits(d),
         NEW c \in Coord, NEW g \in Gid
  PROVE  PassKnows(c, g)'
<1>1. d = c /\ UNCHANGED <<orders, itemsDb>> /\ PassKnows(c, g) /\ ResolverKnows(c, g)
  BY DEF SingleCoordinator, Passes, IndInv, ListLocal, ListItems, ListItemsFails, ListJournalCommits
<1>2. task[c][g] = "none"
  BY <1>1 DEF ResolverKnows, ListLocal, ListItems, ListItemsFails, ListJournalCommits
<1>3. CASE ListLocal(d)
  <2>1. /\ phase'[c] = "listItems" /\ UNCHANGED task
        /\ g \in local'[c] <=> ordersDb[g] = "prepared"
    BY <1>1, <1>3 DEF ListLocal, TypeOK
  <2> QED BY <1>1, <1>2, <2>1 DEF PassKnows, Passes, ItemsFirst
<1>4. CASE ListItems(d)
  <2>1. /\ phase[c] = "listItems" /\ phase'[c] = "listJournal" /\ UNCHANGED <<task, local>>
        /\ g \in listed'[c] <=> itemsDb[g] = "prepared"
    BY <1>1, <1>4 DEF ListItems, TypeOK
  <2> QED BY <1>1, <1>2, <2>1 DEF PassKnows
<1>5. CASE ListItemsFails(d)
  <2>1. /\ phase[c] = "listItems" /\ phase'[c] = "listJournal" /\ UNCHANGED <<task, local>>
        /\ g \notin listed'[c] /\ ~reach'[c]
    BY <1>1, <1>5 DEF ListItemsFails, TypeOK
  <2> QED BY <1>1, <1>2, <2>1 DEF PassKnows
<1>6. CASE ListJournalCommits(d)
  <2>1. /\ phase[c] = "listJournal" /\ phase'[c] = "resolve" /\ UNCHANGED <<local, listed, reach>>
        /\ task'[c][g] \in {"none", "todo"}
        /\ task'[c][g] = "todo" => g \in local[c] \union listed[c] \union journal
    BY <1>1, <1>6 DEF ListJournalCommits, TypeOK
  <2>2. g \in journal => itemsDb[g] # "none"
    BY DEF IndInv, JournalIsDecision
  <2>3. reach[c] /\ g \in journal \ listed[c] => itemsDb[g] # "prepared"
    BY <1>1, <2>1 DEF ResolverKnows
  <2> QED BY <1>1, <2>1, <2>2, <2>3 DEF PassKnows
<1> QED BY <1>3, <1>4, <1>5, <1>6

LEMMA PassLoop ==
  ASSUME SingleCoordinator, TypeOK, IndInv, Passes, NEW d \in Coord, NEW h \in Gid,
         \/ ResolveLocal(d, h) \/ ResolveItems(d, h) \/ ResolveWithoutItems(d, h)
         \/ ResolveJournal(d, h) \/ ResolveFails(d, h),
         NEW c \in Coord, NEW g \in Gid
  PROVE  PassKnows(c, g)'
<1>1. d = c /\ UNCHANGED <<itemsDb, phase, local, listed, reach, commits>> /\ PassKnows(c, g) /\ ResolverKnows(c, g)
  BY DEF SingleCoordinator, Passes, IndInv, ResolveLocal, ResolveItems, ResolveWithoutItems, ResolveJournal, ResolveFails
<1>2. phase[c] = "resolve"
  <2>1. ResolverKnows(c, h)
    BY DEF IndInv
  <2> QED BY <1>1, <2>1 DEF ResolverKnows, ResolveLocal, ResolveItems, ResolveWithoutItems, ResolveJournal, ResolveFails
<1>3. (ordersDb'[g] = "prepared" => ordersDb[g] = "prepared") /\ (g \in journal' => g \in journal)
  BY DEF ResolveLocal, ResolveItems, ResolveWithoutItems, ResolveJournal, ResolveFails, SettleLocal, TypeOK
<1>4. CASE g # h
  <2>1. task'[c][g] = task[c][g]
    BY <1>1, <1>4 DEF ResolveLocal, ResolveItems, ResolveWithoutItems, ResolveJournal, ResolveFails, TypeOK
  <2> QED BY <1>1, <1>3, <2>1 DEF PassKnows
<1>5. CASE g = h
  <2>1. CASE ResolveLocal(d, h)
    <3>1. task[c][g] = "todo" /\ task'[c][g] = "items"
      BY <1>1, <1>5, <2>1 DEF ResolveLocal, TypeOK
    <3>2. ordersDb'[g] # "prepared"
      BY <1>1, <1>2, <1>5, <2>1 DEF ResolveLocal, SettleLocal, TypeOK, PassKnows
    <3> QED BY <1>1, <1>2, <1>3, <3>1, <3>2 DEF PassKnows
  <2>2. CASE ResolveItems(d, h)
    <3>1. task[c][g] = "items" /\ task'[c][g] = "await"
      BY <1>1, <1>5, <2>2 DEF ResolveItems, TypeOK
    <3> QED BY <1>1, <1>2, <1>3, <3>1 DEF PassKnows
  <2>3. CASE ResolveWithoutItems(d, h)
    <3>1. /\ task[c][g] = "items" /\ task'[c][g] \in {"journal", "deferred", "done"}
          /\ task'[c][g] = "done" => g \notin commits[c] /\ ~(reach[c] /\ g \in listed[c])
      BY <1>1, <1>5, <2>3 DEF ResolveWithoutItems, TypeOK
    <3>2. task'[c][g] = "done" => g \notin journal
      BY <1>1, <3>1 DEF ResolverKnows
    <3> QED BY <1>1, <1>2, <1>3, <3>1, <3>2 DEF PassKnows
  <2>4. CASE ResolveJournal(d, h)
    <3>1. task[c][g] = "journal" /\ task'[c][g] = "done" /\ g \notin journal'
      BY <1>1, <1>5, <2>4 DEF ResolveJournal, TypeOK
    <3>2. itemsDb[g] = "committed"
      BY <1>1, <3>1 DEF ResolverKnows
    <3> QED BY <1>1, <1>2, <1>3, <3>1, <3>2 DEF PassKnows
  <2>5. CASE ResolveFails(d, h)
    <3>1. task[c][g] \in {"todo", "await", "journal"} /\ task'[c][g] = "failed"
      BY <1>1, <1>5, <2>5 DEF ResolveFails, TypeOK
    <3> QED BY <1>1, <1>2, <1>3, <3>1 DEF PassKnows
  <2> QED BY <2>1, <2>2, <2>3, <2>4, <2>5
<1> QED BY <1>4, <1>5

LEMMA PassLifeCycle ==
  ASSUME SingleCoordinator, TypeOK, IndInv, NEW d \in Coord, Boot(d) \/ Listen(d) \/ Crash(d),
         NEW c \in Coord, NEW g \in Gid
  PROVE  PassKnows(c, g)'
<1>1. d = c
  BY DEF SingleCoordinator
<1>2. phase'[c] \in {"listLocal", "serving", "down"}
  BY <1>1 DEF Boot, Listen, Crash, TypeOK
<1>3. task'[c][g] = "none"
  <2>1. CASE Boot(d)
    BY <1>1, <2>1 DEF Boot, IndInv, ResolverKnows
  <2>2. CASE Listen(d) \/ Crash(d)
    BY <1>1, <2>2 DEF Listen, Crash, ForgetPass, TypeOK
  <2> QED BY <2>1, <2>2
<1> QED BY <1>2, <1>3 DEF PassKnows

LEMMA PassesNext == SingleCoordinator /\ TypeOK /\ IndInv /\ Passes /\ [Next]_vars => Passes'
<1> SUFFICES ASSUME SingleCoordinator, TypeOK, IndInv, Passes, [Next]_vars PROVE Passes'
  OBVIOUS
<1>1. ItemsFirst'
  BY ItemsFirstNext DEF Passes
<1>2. ASSUME NEW c \in Coord, NEW g \in Gid PROVE PassKnows(c, g)'
  <2>1. ASSUME NEW h \in Gid, HandlerStep(h) \/ \E d \in Coord : StartOrder(d, h) PROVE PassKnows(c, g)'
    BY <2>1, PassHandler
  <2>2. CASE \/ \E h \in Gid : Connect(h) \/ PrepareDecrement(h)
             \/ \E r \in calls : CommitTx(r) \/ RollbackTx(r) \/ LoseCall(r)
             \/ ItemsRestart
    BY <2>2, PassService
  <2>3. ASSUME NEW d \in Coord, ResolverStep(d) PROVE PassKnows(c, g)'
    BY <2>3, PassLists, PassLoop, PassLifeCycle DEF ResolverStep
  <2>4. ASSUME NEW d \in Coord, Boot(d) \/ Crash(d) PROVE PassKnows(c, g)'
    BY <2>4, PassLifeCycle
  <2>5. CASE UNCHANGED vars
    BY <2>5 DEF Passes, PassKnows
  <2> QED BY <2>1, <2>2, <2>3, <2>4, <2>5 DEF Next
<1> QED BY <1>1, <1>2 DEF Passes

\* With one coordinator, what a run of the resolver counts as committed or aborted
\* is settled in both databases, whatever late calls arrive while it runs.
THEOREM ResolvedIsSettledHolds == SingleCoordinator => (Spec => []ResolvedIsSettled)
<1> SUFFICES ASSUME SingleCoordinator PROVE Spec => []ResolvedIsSettled
  OBVIOUS
<1>1. Init => Passes
  BY DEF Init, Passes, ItemsFirst, PassKnows
<1>2. TypeOK /\ IndInv /\ Passes /\ [Next]_vars => Passes'
  BY PassesNext
<1>3. Passes => ResolvedIsSettled
  BY DEF Passes, PassKnows, ResolvedIsSettled
<1> QED BY <1>1, <1>2, <1>3, TypeCorrect, IndInvHolds, PTL DEF Spec

-----------------------------------------------------------------------------
(* Refinement: under one coordinator the protocol is an atomic commit.      *)

LEMMA RefinesInit == Init => AC!Init
BY DEF Init, AC!Init, Abstract

\* A step that leaves both databases alone is a stutter of AtomicCommit.
LEMMA Stutter ==
  ASSUME UNCHANGED <<itemsDb, ordersDb>>
  PROVE  [AC!Next]_AC!vars
BY DEF AC!vars, Abstract

\* One transaction of items-db changes.
LEMMA ItemsChange ==
  ASSUME TypeOK, NEW g \in Gid, NEW s \in {"prepared", "committed", "aborted", "refused"},
         itemsDb' = [itemsDb EXCEPT ![g] = s], UNCHANGED ordersDb,
         \/ itemsDb[g] = "none" /\ s = "prepared"
         \/ itemsDb[g] = "none" /\ s = "refused" /\ ordersDb[g] # "committed"
         \/ itemsDb[g] = "prepared" /\ s = "committed" /\ ordersDb[g] \in {"prepared", "committed"}
         \/ itemsDb[g] = "prepared" /\ s = "aborted" /\ ordersDb[g] # "committed"
  PROVE  [AC!Next]_AC!vars
<1>1. /\ Abstract(itemsDb)' = [Abstract(itemsDb) EXCEPT ![g] = IF s = "refused" THEN "aborted" ELSE s]
      /\ UNCHANGED Abstract(ordersDb)
  BY DEF Abstract, TypeOK
<1>2. Abstract(itemsDb)[g] = CASE itemsDb[g] = "none" -> "working"
                               [] itemsDb[g] = "refused" -> "aborted"
                               [] OTHER -> itemsDb[g]
  BY DEF Abstract
<1>3. Abstract(ordersDb)[g] = CASE ordersDb[g] = "none" -> "working"
                                [] ordersDb[g] = "refused" -> "aborted"
                                [] OTHER -> ordersDb[g]
  BY DEF Abstract
<1>4. CASE itemsDb[g] = "none" /\ s = "prepared"
  BY <1>1, <1>2, <1>4 DEF AC!Next, AC!PrepareItems
<1>5. CASE itemsDb[g] = "none" /\ s = "refused" /\ ordersDb[g] # "committed"
  BY <1>1, <1>2, <1>3, <1>5 DEF AC!Next, AC!AbortItems, TypeOK
<1>6. CASE itemsDb[g] = "prepared" /\ s = "committed" /\ ordersDb[g] \in {"prepared", "committed"}
  BY <1>1, <1>2, <1>3, <1>6 DEF AC!Next, AC!CommitItems, AC!Promised
<1>7. CASE itemsDb[g] = "prepared" /\ s = "aborted" /\ ordersDb[g] # "committed"
  BY <1>1, <1>2, <1>3, <1>7 DEF AC!Next, AC!AbortItems, TypeOK
<1> QED BY <1>4, <1>5, <1>6, <1>7

\* One transaction of orders-db changes.
LEMMA OrdersChange ==
  ASSUME TypeOK, NEW g \in Gid, NEW s \in {"prepared", "committed", "aborted"},
         ordersDb' = [ordersDb EXCEPT ![g] = s], UNCHANGED itemsDb,
         \/ ordersDb[g] = "none" /\ s = "prepared"
         \/ ordersDb[g] = "prepared" /\ s = "committed" /\ itemsDb[g] \in {"prepared", "committed"}
         \/ ordersDb[g] = "prepared" /\ s = "aborted" /\ itemsDb[g] # "committed"
  PROVE  [AC!Next]_AC!vars
<1>1. /\ Abstract(ordersDb)' = [Abstract(ordersDb) EXCEPT ![g] = s]
      /\ UNCHANGED Abstract(itemsDb)
  BY DEF Abstract, TypeOK
<1>2. Abstract(ordersDb)[g] = CASE ordersDb[g] = "none" -> "working"
                                [] ordersDb[g] = "refused" -> "aborted"
                                [] OTHER -> ordersDb[g]
  BY DEF Abstract
<1>3. Abstract(itemsDb)[g] = CASE itemsDb[g] = "none" -> "working"
                               [] itemsDb[g] = "refused" -> "aborted"
                               [] OTHER -> itemsDb[g]
  BY DEF Abstract
<1>4. CASE ordersDb[g] = "none" /\ s = "prepared"
  BY <1>1, <1>2, <1>4 DEF AC!Next, AC!PrepareOrders
<1>5. CASE ordersDb[g] = "prepared" /\ s = "committed" /\ itemsDb[g] \in {"prepared", "committed"}
  BY <1>1, <1>2, <1>3, <1>5 DEF AC!Next, AC!CommitOrders, AC!Promised
<1>6. CASE ordersDb[g] = "prepared" /\ s = "aborted" /\ itemsDb[g] # "committed"
  BY <1>1, <1>2, <1>3, <1>6 DEF AC!Next, AC!AbortOrders, TypeOK
<1> QED BY <1>4, <1>5, <1>6

\* COMMIT PREPARED of a gid that is not prepared changes nothing.
LEMMA Resolved ==
  ASSUME NEW db \in [Gid -> TxState], NEW g \in Gid
  PROVE  /\ CommitPrepared(db, g) = IF db[g] = "prepared" THEN [db EXCEPT ![g] = "committed"] ELSE db
         /\ RollbackPrepared(db, g) = IF db[g] = "prepared" THEN [db EXCEPT ![g] = "aborted"] ELSE db
OBVIOUS

LEMMA RefinesHandler ==
  ASSUME TypeOK, IndInv, NEW g \in Gid, HandlerStep(g)
  PROVE  [AC!Next]_AC!vars
<1>1. CASE UNCHANGED <<itemsDb, ordersDb>>
  BY <1>1, Stutter
<1>2. CASE PrepareInsert(g)
  BY <1>2, OrdersChange DEF PrepareInsert, IndInv, HandlerKnows
<1>3. CASE PrepareInsertFails(g)
  <2>1. ordersDb[g] = "none" /\ UNCHANGED itemsDb
    BY <1>3 DEF PrepareInsertFails, IndInv, HandlerKnows
  <2>2. CASE ordersDb' = [ordersDb EXCEPT ![g] = "none"]
    <3>1. ordersDb' = ordersDb
      BY <2>1, <2>2 DEF TypeOK
    <3> QED BY <2>1, <3>1, Stutter
  <2>3. CASE ordersDb' = [ordersDb EXCEPT ![g] = "prepared"]
    BY <2>1, <2>3, OrdersChange
  <2> QED BY <1>3, <2>2, <2>3 DEF PrepareInsertFails
<1>4. ASSUME pc[g] = "commitOrders", UNCHANGED itemsDb, ordersDb' = CommitPrepared(ordersDb, g)
      PROVE  [AC!Next]_AC!vars
  <2>1. itemsDb[g] = "committed"
    BY <1>4 DEF IndInv, HandlerKnows
  <2>2. CASE ordersDb[g] = "prepared"
    <3>1. ordersDb' = [ordersDb EXCEPT ![g] = "committed"]
      BY <1>4, <2>2, Resolved DEF TypeOK
    <3> QED BY <1>4, <2>1, <2>2, <3>1, OrdersChange
  <2>3. CASE ordersDb[g] # "prepared"
    <3>1. ordersDb' = ordersDb
      BY <1>4, <2>3, Resolved DEF TypeOK
    <3> QED BY <1>4, <3>1, Stutter
  <2> QED BY <2>2, <2>3
<1>5. CASE CommitOrders(g)
  BY <1>4, <1>5 DEF CommitOrders
<1>6. CASE OrdersQueryFails(g)
  <2>1. \/ UNCHANGED <<itemsDb, ordersDb>>
        \/ pc[g] = "commitOrders" /\ UNCHANGED itemsDb /\ ordersDb' = CommitPrepared(ordersDb, g)
    BY ONLY <1>6 DEF OrdersQueryFails, items
  <2> QED BY <1>1, <1>4, <2>1
<1>7. WriteJournalCommit(g) \/ SendCommit(g) \/ DeleteJournal(g) \/ FaultPoint(g)
        \/ HandlerTimeout(g) => UNCHANGED <<itemsDb, ordersDb>>
  BY DEF WriteJournalCommit, SendCommit, DeleteJournal, FaultPoint, HandlerTimeout
<1> QED BY <1>1, <1>2, <1>3, <1>5, <1>6, <1>7 DEF HandlerStep

LEMMA RefinesService ==
  ASSUME TypeOK, IndInv,
         \/ \E g \in Gid : PrepareDecrement(g)
         \/ \E r \in calls : CommitTx(r) \/ RollbackTx(r)
  PROVE  [AC!Next]_AC!vars
<1>1. ASSUME NEW g \in Gid, PrepareDecrement(g) PROVE [AC!Next]_AC!vars
  <2>1. CallJustified(HandlerCall("prepare", g))
    BY <1>1 DEF PrepareDecrement, IndInv
  <2>2. itemsDb[g] = "none" /\ ordersDb[g] # "committed"
    BY <2>1 DEF CallJustified, IndInv, CommitCovered, JournalIsDecision
  <2>3. /\ UNCHANGED ordersDb
        /\ \E s \in {"prepared", "refused"} : itemsDb' = [itemsDb EXCEPT ![g] = s]
    BY <1>1 DEF PrepareDecrement
  <2> QED BY <2>2, <2>3, ItemsChange
<1>2. ASSUME NEW r \in calls, CommitTx(r) PROVE [AC!Next]_AC!vars
  <2>1. r.gid \in Gid /\ CallJustified(r)
    BY DEF TypeOK, IndInv
  <2>2. UNCHANGED ordersDb /\ itemsDb' = CommitPrepared(itemsDb, r.gid) /\ Promised(r.gid)
    BY <1>2, <2>1 DEF CommitTx, CallJustified, IndInv, JournalIsDecision
  <2>3. CASE itemsDb[r.gid] = "prepared"
    <3>1. itemsDb' = [itemsDb EXCEPT ![r.gid] = "committed"]
      BY <2>1, <2>2, <2>3, Resolved DEF TypeOK
    <3> QED BY <2>1, <2>2, <2>3, <3>1, ItemsChange
  <2>4. CASE itemsDb[r.gid] # "prepared"
    <3>1. itemsDb' = itemsDb
      BY <2>1, <2>2, <2>4, Resolved DEF TypeOK
    <3> QED BY <2>2, <3>1, Stutter
  <2> QED BY <2>3, <2>4
<1>3. ASSUME NEW r \in calls, RollbackTx(r) PROVE [AC!Next]_AC!vars
  <2>1. r.gid \in Gid /\ Doomed(r.gid)
    BY <1>3 DEF TypeOK, IndInv, RollbackTx, CallJustified
  <2>2. UNCHANGED ordersDb /\ itemsDb' = RollbackPrepared(itemsDb, r.gid)
    BY <1>3 DEF RollbackTx
  <2>3. CASE itemsDb[r.gid] = "prepared"
    <3>1. itemsDb' = [itemsDb EXCEPT ![r.gid] = "aborted"]
      BY <2>1, <2>2, <2>3, Resolved DEF TypeOK
    <3> QED BY <2>1, <2>2, <2>3, <3>1, ItemsChange
  <2>4. CASE itemsDb[r.gid] # "prepared"
    <3>1. itemsDb' = itemsDb
      BY <2>1, <2>2, <2>4, Resolved DEF TypeOK
    <3> QED BY <2>2, <3>1, Stutter
  <2> QED BY <2>3, <2>4
<1> QED BY <1>1, <1>2, <1>3

LEMMA RefinesSettleLocal ==
  ASSUME TypeOK, IndInv, NEW c \in Coord, NEW g \in Gid,
         task[c][g] = "todo", SettleLocal(c, g), UNCHANGED itemsDb
  PROVE  [AC!Next]_AC!vars
<1>1. ResolverKnows(c, g)
  BY DEF IndInv
<1>2. CASE g \in commits[c] /\ ordersDb[g] = "prepared"
  <2>1. itemsDb[g] \in {"prepared", "committed"}
    BY <1>1, <1>2 DEF ResolverKnows, IndInv, JournalIsDecision
  <2>2. ordersDb' = [ordersDb EXCEPT ![g] = "committed"]
    BY <1>2, Resolved DEF SettleLocal, TypeOK
  <2> QED BY <1>2, <2>1, <2>2, OrdersChange
<1>3. CASE g \notin commits[c] /\ ordersDb[g] = "prepared"
  <2>1. itemsDb[g] # "committed"
    BY <1>1, <1>3 DEF ResolverKnows
  <2>2. ordersDb' = [ordersDb EXCEPT ![g] = "aborted"]
    BY <1>3, Resolved DEF SettleLocal, TypeOK
  <2> QED BY <1>3, <2>1, <2>2, OrdersChange
<1>4. CASE ordersDb[g] # "prepared"
  <2>1. ordersDb' = ordersDb
    BY <1>4, Resolved DEF SettleLocal, TypeOK
  <2> QED BY <2>1, Stutter
<1> QED BY <1>2, <1>3, <1>4

LEMMA RefinesNext ==
  ASSUME TypeOK, IndInv, [Next]_vars
  PROVE  [AC!Next]_AC!vars
<1>1. CASE UNCHANGED <<itemsDb, ordersDb>>
  BY <1>1, Stutter
<1>2. ASSUME NEW g \in Gid, HandlerStep(g) PROVE [AC!Next]_AC!vars
  BY <1>2, RefinesHandler
<1>3. ASSUME NEW c \in Coord, ResolverStep(c) PROVE [AC!Next]_AC!vars
  <2>1. \/ \E g \in Gid : task[c][g] = "todo" /\ SettleLocal(c, g) /\ UNCHANGED itemsDb
        \/ UNCHANGED <<itemsDb, ordersDb>>
    BY <1>3 DEF ResolverStep, ListLocal, ListItems, ListItemsFails, ListJournalCommits,
       ResolveLocal, ResolveItems, ResolveWithoutItems, ResolveJournal, ResolveFails, Listen
  <2> QED BY <1>1, <2>1, RefinesSettleLocal
<1>4. \A c \in Coord, g \in Gid : StartOrder(c, g) => UNCHANGED <<itemsDb, ordersDb>>
  BY DEF StartOrder
<1>5. \A g \in Gid : Connect(g) => UNCHANGED <<itemsDb, ordersDb>>
  BY DEF Connect
<1>6. \A r \in calls : LoseCall(r) => UNCHANGED <<itemsDb, ordersDb>>
  BY DEF LoseCall
<1>7. ItemsRestart \/ (\E c \in Coord : Boot(c) \/ Crash(c)) => UNCHANGED <<itemsDb, ordersDb>>
  BY DEF ItemsRestart, Boot, Crash
<1>8. UNCHANGED vars => UNCHANGED <<itemsDb, ordersDb>>
  OBVIOUS
<1> QED BY <1>1, <1>2, <1>3, <1>4, <1>5, <1>6, <1>7, <1>8, RefinesService DEF Next

\* With one coordinator the protocol of the code, its crashes, lost calls and
\* resolver included, implements the atomic commit of AtomicCommit.tla.
THEOREM RefinesHolds == SingleCoordinator => (Spec => Refines)
<1>1. TypeOK /\ IndInv /\ [Next]_vars => [AC!Next]_AC!vars
  BY RefinesNext
<1> QED BY <1>1, RefinesInit, TypeCorrect, IndInvHolds, PTL DEF Spec, Refines, AC!Spec

-----------------------------------------------------------------------------
(* Stock, however many coordinators run.                                    *)

\* At most one decrement of an item is prepared, and the committed stock covers it.
StockInv ==
  /\ StockNeverNegative
  /\ \A g \in Gid : itemsDb[g] = "prepared" => stock[ItemOf[g]] >= Qty[g]
  /\ \A g, h \in Gid :
       g # h /\ ItemOf[g] = ItemOf[h] => ~(itemsDb[g] = "prepared" /\ itemsDb[h] = "prepared")

LEMMA StockPrepare ==
  ASSUME TypeOK, StockInv, NEW g \in Gid, PrepareDecrement(g)
  PROVE  StockInv'
<1>1. stock' = stock
  BY DEF PrepareDecrement
<1>2. CASE stock[ItemOf[g]] >= Qty[g] /\ itemsDb' = [itemsDb EXCEPT ![g] = "prepared"]
  BY <1>1, <1>2 DEF PrepareDecrement, RowFree, StockInv, StockNeverNegative, TypeOK
<1>3. CASE itemsDb' = [itemsDb EXCEPT ![g] = "refused"]
  BY <1>1, <1>3 DEF StockInv, StockNeverNegative, TypeOK
<1> QED BY <1>2, <1>3 DEF PrepareDecrement

LEMMA StockCommit ==
  ASSUME TypeOK, StockInv, NEW r \in calls, CommitTx(r)
  PROVE  StockInv'
<1>1. /\ r.gid \in Gid /\ ItemOf[r.gid] \in Item /\ Qty[r.gid] \in Nat
      /\ \A g \in Gid : Qty[g] \in Nat /\ ItemOf[g] \in Item
  BY TwoPhaseAssumption DEF TypeOK
<1>2. CASE itemsDb[r.gid] = "prepared"
  <2>1. /\ itemsDb' = [itemsDb EXCEPT ![r.gid] = "committed"]
        /\ stock' = [stock EXCEPT ![ItemOf[r.gid]] = @ - Qty[r.gid]]
    BY <1>1, <1>2 DEF CommitTx, TypeOK
  <2>2. stock[ItemOf[r.gid]] >= Qty[r.gid]
    BY <1>1, <1>2 DEF StockInv
  <2>3. StockNeverNegative'
    BY <1>1, <2>1, <2>2 DEF StockInv, StockNeverNegative, TypeOK
  <2>4. ASSUME NEW g \in Gid, itemsDb'[g] = "prepared" PROVE stock'[ItemOf[g]] >= Qty[g]
    <3>1. g # r.gid /\ itemsDb[g] = "prepared"
      BY <1>1, <2>1, <2>4 DEF TypeOK
    <3>2. ItemOf[g] # ItemOf[r.gid]
      BY <1>1, <1>2, <3>1 DEF StockInv
    <3> QED BY <1>1, <2>1, <3>1, <3>2 DEF StockInv, TypeOK
  <2> QED BY <1>1, <2>1, <2>3, <2>4 DEF StockInv, TypeOK
<1>3. CASE itemsDb[r.gid] # "prepared"
  <2>1. /\ \A g \in Gid : itemsDb'[g] = itemsDb[g]
        /\ \A i \in Item : stock'[i] = stock[i]
    BY <1>1, <1>3 DEF CommitTx, TypeOK
  <2> QED BY <1>1, <2>1 DEF StockInv, StockNeverNegative
<1> QED BY <1>2, <1>3

LEMMA StockRollback ==
  ASSUME TypeOK, StockInv, NEW r \in calls, RollbackTx(r)
  PROVE  StockInv'
<1>1. stock' = stock /\ \A g \in Gid : itemsDb'[g] = "prepared" => itemsDb[g] = "prepared"
  BY DEF RollbackTx, TypeOK
<1> QED BY <1>1 DEF StockInv, StockNeverNegative

\* Which steps reach the tables of items-db.
LEMMA ItemsDbSteps ==
  ASSUME [Next]_vars
  PROVE  \/ UNCHANGED <<itemsDb, stock>>
         \/ \E g \in Gid : PrepareDecrement(g)
         \/ \E r \in calls : CommitTx(r) \/ RollbackTx(r)
<1>1. \A c \in Coord, g \in Gid : StartOrder(c, g) => UNCHANGED <<itemsDb, stock>>
  BY DEF StartOrder
<1>2. \A g \in Gid : HandlerStep(g) \/ Connect(g) => UNCHANGED <<itemsDb, stock>>
  BY DEF HandlerStep, PrepareInsert, PrepareInsertFails, WriteJournalCommit, SendCommit,
     CommitOrders, DeleteJournal, OrdersQueryFails, FaultPoint, HandlerTimeout, Connect
<1>3. \A r \in calls : LoseCall(r) => UNCHANGED <<itemsDb, stock>>
  BY DEF LoseCall
<1>4. \A c \in Coord : ResolverStep(c) => UNCHANGED <<itemsDb, stock>>
  BY DEF ResolverStep, ListLocal, ListItems, ListItemsFails, ListJournalCommits, ResolveLocal,
     ResolveItems, ResolveWithoutItems, ResolveJournal, ResolveFails, Listen
<1>5. ItemsRestart \/ (\E c \in Coord : Boot(c) \/ Crash(c)) => UNCHANGED <<itemsDb, stock>>
  BY DEF ItemsRestart, Boot, Crash
<1>6. UNCHANGED vars => UNCHANGED <<itemsDb, stock>>
  OBVIOUS
<1> QED BY <1>1, <1>2, <1>3, <1>4, <1>5, <1>6 DEF Next

LEMMA StockNext == TypeOK /\ StockInv /\ [Next]_vars => StockInv'
<1> SUFFICES ASSUME TypeOK, StockInv, [Next]_vars PROVE StockInv'
  OBVIOUS
<1>1. CASE UNCHANGED <<itemsDb, stock>>
  BY <1>1 DEF StockInv, StockNeverNegative
<1> QED BY <1>1, ItemsDbSteps, StockPrepare, StockCommit, StockRollback

LEMMA StockInvHolds == Spec => []StockInv
<1>1. Init => StockInv
  BY TwoPhaseAssumption DEF Init, StockInv, StockNeverNegative
<1> QED BY <1>1, TypeCorrect, StockNext, PTL DEF Spec

\* However many coordinators run and whatever fails, no sequence of prepared
\* decrements, commits and rollbacks takes the stock of an item below zero.
THEOREM StockNeverNegativeHolds == Spec => []StockNeverNegative
<1>1. StockInv => StockNeverNegative
  BY DEF StockInv
<1> QED BY <1>1, StockInvHolds, PTL

-----------------------------------------------------------------------------
(* What was sold and what was ordered.                                      *)

\* A prepare is sent once, and until it has run items-db knows nothing of its order.
PrepareOnce ==
  /\ \A g \in Gid : pc[g] = "new" \/ HandlerCall("prepare", g) \in calls => itemsDb[g] = "none"
  /\ \A g \in Gid : pc[g] = "new" => HandlerCall("prepare", g) \notin calls
  /\ \A g \in holding : HandlerCall("prepare", g) \in calls

LEMMA PrepareOnceService ==
  ASSUME TypeOK, PrepareOnce,
         \/ \E g \in Gid : PrepareDecrement(g)
         \/ \E r \in calls : CommitTx(r) \/ RollbackTx(r)
  PROVE  PrepareOnce'
<1>1. ASSUME NEW g \in Gid, PrepareDecrement(g) PROVE PrepareOnce'
  <2>1. HandlerCall("prepare", g) \in calls /\ pc[g] # "new"
    BY <1>1 DEF PrepareDecrement, PrepareOnce
  <2>2. \A h \in Gid : pc'[h] = "new" => pc[h] = "new" /\ h # g
    BY <1>1, <2>1 DEF PrepareDecrement, Answer, TypeOK
  <2>3. \A h \in Gid : h # g => itemsDb'[h] = itemsDb[h]
    BY <1>1 DEF PrepareDecrement, TypeOK
  <2>4. calls' = calls \ {HandlerCall("prepare", g)} /\ holding' = holding \ {g}
    BY <1>1 DEF PrepareDecrement
  <2> QED BY <2>2, <2>3, <2>4 DEF PrepareOnce, TypeOK
<1>2. ASSUME NEW r \in calls, CommitTx(r) \/ RollbackTx(r) PROVE PrepareOnce'
  <2>1. r.gid \in Gid /\ r.op # "prepare"
    BY <1>2 DEF CommitTx, RollbackTx, TypeOK
  <2>2. \A h \in Gid : pc'[h] = "new" => pc[h] = "new"
    BY <1>2, <2>1 DEF CommitTx, RollbackTx, Answer, TypeOK
  <2>3. \A h \in Gid : itemsDb[h] = "none" => itemsDb'[h] = "none"
    BY <1>2, <2>1 DEF CommitTx, RollbackTx, TypeOK
  <2>4. calls' = calls \ {r} /\ holding' = holding
    BY <1>2 DEF CommitTx, RollbackTx
  <2>5. \A h \in Gid : HandlerCall("prepare", h) # r
    BY <2>1
  <2> QED BY <2>2, <2>3, <2>4, <2>5 DEF PrepareOnce, TypeOK
<1> QED BY <1>1, <1>2

LEMMA PrepareOnceNext == TypeOK /\ PrepareOnce /\ [Next]_vars => PrepareOnce'
<1> SUFFICES ASSUME TypeOK, PrepareOnce, [Next]_vars PROVE PrepareOnce'
  OBVIOUS
<1>1. CASE UNCHANGED <<itemsDb, stock>>
  <2>1. ASSUME \A h \in Gid : pc'[h] = "new" => pc[h] = "new",
               \A h \in Gid : HandlerCall("prepare", h) \in calls' <=> HandlerCall("prepare", h) \in calls,
               \A h \in holding' : HandlerCall("prepare", h) \in calls'
        PROVE  PrepareOnce'
    BY <1>1, <2>1 DEF PrepareOnce, TypeOK
  <2>2. ASSUME NEW c \in Coord, NEW g \in Gid, StartOrder(c, g) PROVE PrepareOnce'
    BY <1>1, <2>2 DEF StartOrder, PrepareOnce, TypeOK
  <2>3. ASSUME NEW g \in Gid, HandlerStep(g) PROVE PrepareOnce'
    <3>1. \A h \in Gid : pc'[h] = "new" => pc[h] = "new"
      BY <2>3 DEF HandlerStep, PrepareInsert, PrepareInsertFails, WriteJournalCommit, SendCommit,
         CommitOrders, DeleteJournal, OrdersQueryFails, FaultPoint, HandlerTimeout, TypeOK
    <3>2. holding' = holding /\ \E op \in {"commit", "rollback"} :
             calls' = calls \/ calls' = calls \union {HandlerCall(op, g)}
      BY <2>3 DEF HandlerStep, PrepareInsert, PrepareInsertFails, WriteJournalCommit, SendCommit,
         CommitOrders, DeleteJournal, OrdersQueryFails, FaultPoint, HandlerTimeout
    <3> QED BY <2>1, <3>1, <3>2 DEF PrepareOnce
  <2>4. ASSUME NEW g \in Gid, Connect(g) PROVE PrepareOnce'
    BY <2>1, <2>4 DEF Connect, PrepareOnce
  <2>5. ASSUME NEW r \in calls, LoseCall(r) PROVE PrepareOnce'
    BY <1>1, <2>5 DEF LoseCall, PrepareOnce, TypeOK
  <2>6. CASE ItemsRestart
    BY <1>1, <2>6 DEF ItemsRestart, PrepareOnce
  <2>7. ASSUME NEW c \in Coord, Boot(c) \/ Crash(c) PROVE PrepareOnce'
    <3>1. UNCHANGED <<calls, holding>>
      BY <2>7 DEF Boot, Crash
    <3>2. \A h \in Gid : pc'[h] = "new" => pc[h] = "new"
      BY <2>7 DEF Boot, Crash
    <3> QED BY <2>1, <3>1, <3>2 DEF PrepareOnce
  <2>8. ASSUME NEW c \in Coord, ResolverStep(c) PROVE PrepareOnce'
    <3>1. pc' = pc /\ holding' = holding
      BY <2>8 DEF ResolverStep, ListLocal, ListItems, ListItemsFails, ListJournalCommits, ResolveLocal,
         ResolveItems, ResolveWithoutItems, ResolveJournal, ResolveFails, Listen
    <3>2. \/ calls' = calls
          \/ \E g \in Gid, op \in {"commit", "rollback"} : calls' = calls \union {ResolverCall(op, g, c)}
      BY <2>8 DEF ResolverStep, ListLocal, ListItems, ListItemsFails, ListJournalCommits, ResolveLocal,
         ResolveItems, ResolveWithoutItems, ResolveJournal, ResolveFails, Listen
    <3> QED BY <2>1, <3>1, <3>2 DEF PrepareOnce
  <2>9. CASE UNCHANGED vars
    BY <2>1, <2>9 DEF PrepareOnce
  <2>10. ASSUME NEW g \in Gid, PrepareDecrement(g) PROVE PrepareOnce'
    BY <2>10, PrepareOnceService
  <2>11. ASSUME NEW r \in calls, CommitTx(r) \/ RollbackTx(r) PROVE PrepareOnce'
    BY <2>11, PrepareOnceService
  <2> QED BY <2>2, <2>3, <2>4, <2>5, <2>6, <2>7, <2>8, <2>9, <2>10, <2>11 DEF Next
<1> QED BY <1>1, ItemsDbSteps, PrepareOnceService

\* What items-db has sold of an item.
Sold(i) == {g \in Gid : ItemOf[g] = i /\ itemsDb[g] = "committed"}

\* The stock that is missing from an item was sold, order by order.
Ledger(i) == IsFiniteSet(UnitsOf(Qty, Sold(i))) /\ stock[i] + Total(Qty, Sold(i)) = InitStock[i]
StockLedger == \A i \in Item : Ledger(i)

LEMMA LedgerInit == Init => StockLedger
<1> SUFFICES ASSUME Init, NEW i \in Item PROVE Ledger(i)
  BY DEF StockLedger
<1>1. Sold(i) = {}
  BY DEF Init, Sold
<1>2. stock[i] = InitStock[i] /\ InitStock[i] \in Nat
  BY TwoPhaseAssumption DEF Init
<1> QED BY <1>1, <1>2, TotalEmpty DEF Ledger

\* Only a commit of a prepared decrement changes what is sold, and by its quantity.
LEMMA LedgerCommit ==
  ASSUME TypeOK, StockLedger, NEW r \in calls, CommitTx(r), NEW i \in Item
  PROVE  Ledger(i)'
<1> DEFINE g == r.gid
<1>1. g \in Gid /\ ItemOf[g] \in Item /\ Qty[g] \in Nat
  BY TwoPhaseAssumption DEF TypeOK
<1>2. Ledger(i) /\ stock[i] \in Int /\ InitStock[i] \in Nat
  BY TwoPhaseAssumption DEF TypeOK, StockLedger
<1>3. CASE itemsDb[g] = "prepared" /\ ItemOf[g] = i
  <2>1. Sold(i)' = Sold(i) \union {g} /\ g \notin Sold(i)
    BY <1>1, <1>3 DEF CommitTx, Sold, TypeOK
  <2>2. stock'[i] = stock[i] - Qty[g]
    BY <1>1, <1>3 DEF CommitTx, TypeOK
  <2>3. /\ IsFiniteSet(UnitsOf(Qty, Sold(i) \union {g}))
        /\ Total(Qty, Sold(i) \union {g}) = Total(Qty, Sold(i)) + Qty[g]
    BY <1>1, <1>2, <2>1, TotalAdd DEF Ledger
  <2>4. Total(Qty, Sold(i)) \in Nat
    BY <1>2, TotalNat DEF Ledger
  <2> HIDE DEF g
  <2> QED BY <1>1, <1>2, <2>1, <2>2, <2>3, <2>4 DEF Ledger
<1>4. CASE ~(itemsDb[g] = "prepared" /\ ItemOf[g] = i)
  <2>1. Sold(i)' = Sold(i)
    BY <1>1, <1>4 DEF CommitTx, Sold, TypeOK
  <2>2. stock'[i] = stock[i]
    BY <1>1, <1>4 DEF CommitTx, TypeOK
  <2> QED BY <1>2, <2>1, <2>2 DEF Ledger
<1> QED BY <1>3, <1>4

LEMMA LedgerNext == TypeOK /\ PrepareOnce /\ StockLedger /\ [Next]_vars => StockLedger'
<1> SUFFICES ASSUME TypeOK, PrepareOnce, StockLedger, [Next]_vars, NEW i \in Item PROVE Ledger(i)'
  BY DEF StockLedger
<1>1. ASSUME UNCHANGED stock, \A g \in Gid : itemsDb'[g] = "committed" <=> itemsDb[g] = "committed"
      PROVE  Ledger(i)'
  <2>1. Sold(i)' = Sold(i)
    BY <1>1 DEF Sold
  <2> QED BY <1>1, <2>1 DEF Ledger, StockLedger
<1>2. CASE UNCHANGED <<itemsDb, stock>>
  BY <1>1, <1>2
<1>3. ASSUME NEW g \in Gid, PrepareDecrement(g) PROVE Ledger(i)'
  <2>1. itemsDb[g] = "none"
    BY <1>3 DEF PrepareDecrement, PrepareOnce
  <2> QED BY <1>1, <1>3, <2>1 DEF PrepareDecrement, TypeOK
<1>4. ASSUME NEW r \in calls, RollbackTx(r) PROVE Ledger(i)'
  BY <1>1, <1>4 DEF RollbackTx, TypeOK
<1> QED BY <1>2, <1>3, <1>4, LedgerCommit, ItemsDbSteps

\* However many coordinators run and whatever fails, what is missing from the
\* stock of an item is what its committed decrements took, each of them once.
THEOREM StockLedgerHolds == Spec => []StockLedger
<1>1. Init => PrepareOnce
  BY DEF Init, PrepareOnce
<1>2. TypeOK /\ PrepareOnce /\ StockLedger /\ [Next]_vars => PrepareOnce' /\ StockLedger'
  BY PrepareOnceNext, LedgerNext
<1> QED BY <1>1, <1>2, LedgerInit, TypeCorrect, PTL DEF Spec

\* The order rows of an item are among what items-db has sold, but for one that
\* is prepared there and that the stock covers.
LEMMA OrderedWithinStock ==
  ASSUME TypeOK, Atomicity, StockInv, StockLedger, NEW i \in Item
  PROVE  Total(Qty, Ordered(i)) <= InitStock[i]
<1>1. /\ IsFiniteSet(UnitsOf(Qty, Sold(i)))
      /\ Total(Qty, Sold(i)) \in Nat /\ stock[i] \in Nat /\ InitStock[i] \in Nat
      /\ stock[i] + Total(Qty, Sold(i)) = InitStock[i]
  BY TwoPhaseAssumption, TotalNat DEF StockLedger, Ledger, StockInv, StockNeverNegative, TypeOK
<1>2. \A g \in Ordered(i) : g \in Sold(i) \/ (ItemOf[g] = i /\ itemsDb[g] = "prepared")
  BY DEF Ordered, Sold, Atomicity
<1>3. CASE Ordered(i) \in SUBSET Sold(i)
  <2>1. IsFiniteSet(UnitsOf(Qty, Ordered(i))) /\ Total(Qty, Ordered(i)) <= Total(Qty, Sold(i))
    BY <1>1, <1>3, TotalSubset
  <2>2. Total(Qty, Ordered(i)) \in Nat
    BY <2>1, TotalNat
  <2> QED BY <1>1, <2>1, <2>2
<1>4. CASE Ordered(i) \notin SUBSET Sold(i)
  <2>1. PICK g \in Ordered(i) : g \notin Sold(i)
    BY <1>4
  <2>2. g \in Gid /\ ItemOf[g] = i /\ itemsDb[g] = "prepared" /\ Qty[g] \in Nat
    BY <1>2, <2>1, TwoPhaseAssumption DEF Ordered
  <2>3. Qty[g] <= stock[i]
    BY <2>2 DEF StockInv
  <2>4. Ordered(i) \in SUBSET (Sold(i) \union {g})
    BY <1>2, <2>2 DEF Ordered, StockInv
  <2>5. /\ IsFiniteSet(UnitsOf(Qty, Sold(i) \union {g}))
        /\ Total(Qty, Sold(i) \union {g}) = Total(Qty, Sold(i)) + Qty[g]
    BY <1>1, <2>1, <2>2, TotalAdd
  <2>6. /\ IsFiniteSet(UnitsOf(Qty, Ordered(i)))
        /\ Total(Qty, Ordered(i)) <= Total(Qty, Sold(i) \union {g})
    BY <2>4, <2>5, TotalSubset
  <2>7. Total(Qty, Ordered(i)) \in Nat
    BY <2>6, TotalNat
  <2> QED BY <1>1, <2>2, <2>3, <2>5, <2>6, <2>7
<1> QED BY <1>3, <1>4

\* With no order of the item in doubt, the two databases have committed the same.
LEMMA OrderedIsSold ==
  ASSUME TypeOK, Atomicity, NEW i \in Item, \A g \in Gid : ItemOf[g] = i => ~InDoubt(g)
  PROVE  Ordered(i) = Sold(i)
BY DEF Ordered, Sold, Atomicity, InDoubt

\* With one coordinator the order rows never add up to more than the stock there
\* was, and once nothing is in doubt to what is missing from it.
THEOREM StockMatchesOrdersHolds == SingleCoordinator => (Spec => []StockMatchesOrders)
<1>1. TypeOK /\ Atomicity /\ StockInv /\ StockLedger => StockMatchesOrders
  BY OrderedWithinStock, OrderedIsSold DEF StockMatchesOrders, StockLedger, Ledger
<1> QED BY <1>1, TypeCorrect, AtomicityHolds, StockInvHolds, StockLedgerHolds, PTL
=============================================================================
