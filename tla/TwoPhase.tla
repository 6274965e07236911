------------------------------ MODULE TwoPhase ------------------------------
(***************************************************************************)
(* ORDER_TX_MODE=2pc: the order handler drives PREPARE / COMMIT PREPARED   *)
(* on items-db (through items-service, over HTTP) and on orders-db, writes *)
(* its commit decision to tx_journal, and the startup resolver settles     *)
(* what a crash left in doubt.                                             *)
(*                                                                         *)
(* Processes: order handlers (one per gid, in the coordinator that got the *)
(* request), the startup resolver of each coordinator, items-service with  *)
(* its connection pool.  HTTP calls to items-service are members of calls  *)
(* from the fetch to the moment the service has run them; a caller that    *)
(* gives up (5 s timeout, crash) does not take its call back.              *)
(*                                                                         *)
(* Queries to orders-db are local and atomic; a failing query has either   *)
(* run or not run when the error reaches the caller.                       *)
(***************************************************************************)
EXTENDS Integers, FiniteSets, Units

CONSTANTS
  Gid,          \* orders, by the gid the handler draws for them
  Coord,        \* coordinator processes (SERVICE=orders)
  NoCoord,      \* not a coordinator
  Item,         \* rows of items
  ItemOf,       \* the item each order buys
  Qty,          \* the quantity each order buys
  InitStock,    \* stock of each item before the first order
  PoolMax,      \* PG_POOL_MAX of items-service
  Faults        \* the failures the environment may produce, see below

ASSUME TwoPhaseAssumption ==
  /\ NoCoord \notin Coord
  /\ ItemOf \in [Gid -> Item]
  /\ Qty \in [Gid -> Nat \ {0}]
  /\ InitStock \in [Item -> Nat]
  /\ PoolMax \in Nat \ {0}
  /\ Faults \subseteq {"net",     \* a call or its answer is lost or late
                       "db",      \* an orders-db query fails
                       "demo",    \* FAULT_POINT is set
                       "items",   \* items-service restarts
                       "kill"}    \* a coordinator dies

VARIABLES
  pc,           \* where the handler of an order is
  owner,        \* the coordinator that runs it
  ordersDb,     \* the order's transaction in orders-db
  journal,      \* tx_journal: gids with decision 'commit'
  itemsDb,      \* the order's transaction in items-db
  stock,        \* committed stock of each item
  calls,        \* HTTP calls items-service has not finished
  holding,      \* prepares that hold a pooled connection of items-service
  phase,        \* life cycle of a coordinator
  local,        \* resolver: localPrepared
  listed,       \* resolver: itemsPrepared
  reach,        \* resolver: itemsReachable
  commits,      \* resolver: commits, the journal as it read it
  task          \* resolver: how far its loop is with each gid

handlers == <<pc, owner>>
orders   == <<ordersDb, journal>>
items    == <<itemsDb, stock, calls, holding>>
resolver == <<phase, local, listed, reach, commits, task>>
vars     == <<handlers, orders, items, resolver>>

-----------------------------------------------------------------------------
Ended   == {"done", "refused", "failed", "crashed"}
Waiting == {"prepareItems", "rollbackItems", "commitItems"}   \* in a fetch
PC      == {"new", "prepareOrders", "decide", "sendCommit",
            "commitOrders", "deleteJournal"} \union Ended \union Waiting
TxState == {"none", "prepared", "committed", "aborted", "refused"}
Phase   == {"down", "listLocal", "listItems", "listJournal", "resolve", "serving"}
Task    == {"none", "todo", "items", "await", "journal", "done", "deferred", "failed"}
Busy    == {"items", "await", "journal"}
Call    == [op : {"prepare", "commit", "rollback"}, gid : Gid, by : Coord \union {NoCoord}]

\* A call of the order's own handler, and a call of the resolver of c.
HandlerCall(op, g)     == [op |-> op, gid |-> g, by |-> NoCoord]
ResolverCall(op, g, c) == [op |-> op, gid |-> g, by |-> c]

TypeOK ==
  /\ pc \in [Gid -> PC]
  /\ owner \in [Gid -> Coord \union {NoCoord}]
  /\ ordersDb \in [Gid -> TxState]
  /\ journal \subseteq Gid
  /\ itemsDb \in [Gid -> TxState]
  /\ stock \in [Item -> Int]
  /\ calls \subseteq Call
  /\ holding \subseteq Gid
  /\ phase \in [Coord -> Phase]
  /\ local \in [Coord -> SUBSET Gid]
  /\ listed \in [Coord -> SUBSET Gid]
  /\ reach \in [Coord -> BOOLEAN]
  /\ commits \in [Coord -> SUBSET Gid]
  /\ task \in [Coord -> [Gid -> Task]]

Init ==
  /\ pc = [g \in Gid |-> "new"]
  /\ owner = [g \in Gid |-> NoCoord]
  /\ ordersDb = [g \in Gid |-> "none"]
  /\ journal = {}
  /\ itemsDb = [g \in Gid |-> "none"]
  /\ stock = InitStock
  /\ calls = {}
  /\ holding = {}
  /\ phase = [c \in Coord |-> "down"]
  /\ local = [c \in Coord |-> {}]
  /\ listed = [c \in Coord |-> {}]
  /\ reach = [c \in Coord |-> TRUE]
  /\ commits = [c \in Coord |-> {}]
  /\ task = [c \in Coord |-> [g \in Gid |-> "none"]]

\* COMMIT PREPARED and ROLLBACK PREPARED: a gid that is not prepared is ignored.
CommitPrepared(db, g)   == [db EXCEPT ![g] = IF @ = "prepared" THEN "committed" ELSE @]
RollbackPrepared(db, g) == [db EXCEPT ![g] = IF @ = "prepared" THEN "aborted" ELSE @]

PoolFull == Cardinality(holding) >= PoolMax

Goto(g, l) == pc' = [pc EXCEPT ![g] = l]
SetPhase(c, p) == phase' = [phase EXCEPT ![c] = p]
SetTask(c, g, t) == task' = [task EXCEPT ![c][g] = t]
Idle(c) == \A g \in Gid : task[c][g] \notin Busy

\* The answer of a call of g's handler: it moves on if it still waits and hears it.
Answer(g, from, to) ==
  \/ pc[g] = from /\ Goto(g, to)
  \/ (pc[g] # from \/ "net" \in Faults) /\ UNCHANGED pc

\* The resolver of c waits for this very call.
Awaits(c, r) ==
  /\ task[c][r.gid] = "await"
  /\ r.op = (IF r.gid \in commits[c] THEN "commit" ELSE "rollback")

ResolverAnswer(r, to) ==
  \/ Awaits(r.by, r) /\ task' = [task EXCEPT ![r.by][r.gid] = to]
  \/ (~Awaits(r.by, r) \/ "net" \in Faults) /\ UNCHANGED task

-----------------------------------------------------------------------------
(* Mistakes this code could have made, each with the parameters of the      *)
(* definition it would replace.  No action of the model uses them: a run    *)
(* with one of them in place shows that its property can be violated.       *)

\* PrepareDecrement without the row lock of the prepared decrement.
NoRowLock(g) == g \in Gid

\* SendCommit does not wait for the journal row.
SendCommitFirst(g) ==
  /\ pc[g] \in {"decide", "sendCommit"}
  /\ calls' = calls \union {HandlerCall("commit", g)}
  /\ Goto(g, "commitItems")
  /\ UNCHANGED <<owner, orders, itemsDb, stock, holding, resolver>>

\* HandlerTimeout of commitTx is swallowed and the handler goes on.
TimeoutSwallowed(g) ==
  /\ pc[g] = "commitItems" /\ "net" \in Faults
  /\ Goto(g, "commitOrders")
  /\ UNCHANGED <<owner, orders, items, resolver>>

\* HandlerTimeout without a deadline on prepareTxDecrement.
NoPrepareTimeout(g) ==
  /\ pc[g] \in {"rollbackItems", "commitItems"}
  /\ Goto(g, "failed")
  /\ UNCHANGED <<owner, orders, items, resolver>>

\* RollbackTx gives back stock that a prepared decrement never took.
RollbackRestocks(r) ==
  /\ r.op = "rollback" /\ ~PoolFull
  /\ itemsDb' = RollbackPrepared(itemsDb, r.gid)
  /\ stock' = [stock EXCEPT ![ItemOf[r.gid]] = @ + Qty[r.gid]]
  /\ calls' = calls \ {r}
  /\ UNCHANGED <<handlers, orders, holding, resolver>>

\* ListItemsFails forgets to clear itemsReachable.
UnreachableUnnoticed(c) ==
  /\ phase[c] = "listItems" /\ (PoolFull \/ "net" \in Faults)
  /\ SetPhase(c, "listJournal")
  /\ UNCHANGED <<handlers, orders, items, local, listed, reach, commits, task>>

\* ListItems does not ask items-service.
OrdersOnly(c) ==
  /\ phase[c] = "listItems" /\ ~PoolFull
  /\ SetPhase(c, "listJournal")
  /\ UNCHANGED <<handlers, orders, items, local, listed, reach, commits, task>>

\* ResolveLocal aborts whatever is prepared, journal or not.
AlwaysAbort(c, g) ==
  /\ phase[c] = "resolve" /\ Idle(c) /\ task[c][g] = "todo"
  /\ ordersDb' = RollbackPrepared(ordersDb, g)
  /\ SetTask(c, g, "items")
  /\ UNCHANGED <<handlers, journal, items, phase, local, listed, reach, commits>>

\* ResolveWithoutItems deletes the journal row though items-service is down.
JournalNotDeferred(c, g) ==
  /\ task[c][g] = "items" /\ ~(reach[c] /\ g \in listed[c])
  /\ SetTask(c, g, IF g \in commits[c] THEN "journal" ELSE "done")
  /\ UNCHANGED <<handlers, orders, items, phase, local, listed, reach, commits>>

\* A prepared transaction keeps the row lock of the item it updated.
RowFree(g) == \A h \in Gid \ {g} : ItemOf[h] = ItemOf[g] => itemsDb[h] # "prepared"

-----------------------------------------------------------------------------
(* The order handler: createOrder2pc.                                      *)

StartOrder(c, g) ==
  /\ phase[c] = "serving" /\ pc[g] = "new"
  /\ Goto(g, "prepareItems")
  /\ owner' = [owner EXCEPT ![g] = c]
  /\ calls' = calls \union {HandlerCall("prepare", g)}
  /\ UNCHANGED <<orders, itemsDb, stock, holding, resolver>>

PrepareInsert(g) ==
  /\ pc[g] = "prepareOrders"
  /\ ordersDb' = [ordersDb EXCEPT ![g] = "prepared"]
  /\ Goto(g, "decide")
  /\ UNCHANGED <<owner, journal, items, resolver>>

\* prepareInsert throws, before or after PREPARE TRANSACTION took effect: the
\* handler asks items-service to roll back and fails whatever comes of that.
PrepareInsertFails(g) ==
  /\ "db" \in Faults /\ pc[g] = "prepareOrders"
  /\ \E s \in {"none", "prepared"} : ordersDb' = [ordersDb EXCEPT ![g] = s]
  /\ calls' = calls \union {HandlerCall("rollback", g)}
  /\ Goto(g, "rollbackItems")
  /\ UNCHANGED <<owner, journal, itemsDb, stock, holding, resolver>>

WriteJournalCommit(g) ==
  /\ pc[g] = "decide"
  /\ journal' = journal \union {g}
  /\ Goto(g, "sendCommit")
  /\ UNCHANGED <<owner, ordersDb, items, resolver>>

SendCommit(g) ==
  /\ pc[g] = "sendCommit"
  /\ calls' = calls \union {HandlerCall("commit", g)}
  /\ Goto(g, "commitItems")
  /\ UNCHANGED <<owner, orders, itemsDb, stock, holding, resolver>>

CommitOrders(g) ==
  /\ pc[g] = "commitOrders"
  /\ ordersDb' = CommitPrepared(ordersDb, g)
  /\ Goto(g, "deleteJournal")
  /\ UNCHANGED <<owner, journal, items, resolver>>

DeleteJournal(g) ==
  /\ pc[g] = "deleteJournal"
  /\ journal' = journal \ {g}
  /\ Goto(g, "done")
  /\ UNCHANGED <<owner, ordersDb, items, resolver>>

\* One of the three queries after the prepares throws, having run or not.
OrdersQueryFails(g) ==
  /\ "db" \in Faults
  /\ \/ pc[g] = "decide"        /\ journal' \in {journal, journal \union {g}} /\ UNCHANGED ordersDb
     \/ pc[g] = "commitOrders"  /\ ordersDb' \in {ordersDb, CommitPrepared(ordersDb, g)} /\ UNCHANGED journal
     \/ pc[g] = "deleteJournal" /\ journal' \in {journal, journal \ {g}} /\ UNCHANGED ordersDb
  /\ Goto(g, "failed")
  /\ UNCHANGED <<owner, items, resolver>>

\* FAULT_POINT after-prepare-all and after-journal.
FaultPoint(g) ==
  /\ "demo" \in Faults /\ pc[g] \in {"decide", "sendCommit"}
  /\ Goto(g, "failed")
  /\ UNCHANGED <<owner, orders, items, resolver>>

\* The 5 s of AbortSignal.timeout are over.  The call stays where it is.
\* Without a network fault a call is late only for want of a connection or a row lock.
HandlerTimeout(g) ==
  /\ pc[g] \in Waiting
  /\ \/ "net" \in Faults \/ PoolFull
     \/ \A r \in calls : r.gid # g                        \* lost with items-service
     \/ pc[g] = "prepareItems" /\ ~RowFree(g)
  /\ Goto(g, "failed")
  /\ UNCHANGED <<owner, orders, items, resolver>>

-----------------------------------------------------------------------------
(* items-service: routes and PgItemsRepo.                                  *)

\* writePool.connect() and BEGIN: from here the UPDATE may block on the row lock.
Connect(g) ==
  /\ HandlerCall("prepare", g) \in calls /\ g \notin holding /\ ~PoolFull
  /\ holding' = holding \union {g}
  /\ UNCHANGED <<handlers, orders, itemsDb, stock, calls, resolver>>

\* The UPDATE gets the lock; PREPARE TRANSACTION, or ROLLBACK for want of stock;
\* the connection goes back to the pool and the answer to the handler.
PrepareDecrement(g) ==
  /\ g \in holding /\ RowFree(g)
  /\ holding' = holding \ {g}
  /\ calls' = calls \ {HandlerCall("prepare", g)}
  /\ \/ /\ stock[ItemOf[g]] >= Qty[g]
        /\ itemsDb' = [itemsDb EXCEPT ![g] = "prepared"]
        /\ Answer(g, "prepareItems", "prepareOrders")
     \/ /\ stock[ItemOf[g]] < Qty[g]
        /\ itemsDb' = [itemsDb EXCEPT ![g] = "refused"]
        /\ Answer(g, "prepareItems", "refused")
  /\ UNCHANGED <<owner, orders, stock, resolver>>

CommitTx(r) ==
  /\ r.op = "commit" /\ ~PoolFull
  /\ itemsDb' = CommitPrepared(itemsDb, r.gid)
  /\ stock' = [stock EXCEPT ![ItemOf[r.gid]] =
                 IF itemsDb[r.gid] = "prepared" THEN @ - Qty[r.gid] ELSE @]
  /\ calls' = calls \ {r}
  /\ \/ r.by = NoCoord  /\ Answer(r.gid, "commitItems", "commitOrders") /\ UNCHANGED task
     \/ r.by \in Coord  /\ ResolverAnswer(r, "journal") /\ UNCHANGED pc
  /\ UNCHANGED <<owner, orders, holding, phase, local, listed, reach, commits>>

RollbackTx(r) ==
  /\ r.op = "rollback" /\ ~PoolFull
  /\ itemsDb' = RollbackPrepared(itemsDb, r.gid)
  /\ calls' = calls \ {r}
  /\ \/ r.by = NoCoord  /\ Answer(r.gid, "rollbackItems", "failed") /\ UNCHANGED task
     \/ r.by \in Coord  /\ ResolverAnswer(r, "done") /\ UNCHANGED pc
  /\ UNCHANGED <<owner, orders, stock, holding, phase, local, listed, reach, commits>>

\* A call that never reaches the service, or that it fails without effect.
LoseCall(r) ==
  /\ "net" \in Faults
  /\ ~(r.op = "prepare" /\ r.gid \in holding)
  /\ calls' = calls \ {r}
  /\ UNCHANGED <<handlers, orders, itemsDb, stock, holding, resolver>>

\* items-service restarts: open transactions are gone, prepared ones are not.
ItemsRestart ==
  /\ "items" \in Faults
  /\ calls' = {} /\ holding' = {}
  /\ UNCHANGED <<handlers, orders, itemsDb, stock, resolver>>

-----------------------------------------------------------------------------
(* A coordinator: main() and resolveInDoubt.                               *)

Boot(c) ==
  /\ phase[c] = "down"
  /\ SetPhase(c, "listLocal")
  /\ UNCHANGED <<handlers, orders, items, local, listed, reach, commits, task>>

ListLocal(c) ==
  /\ phase[c] = "listLocal"
  /\ local' = [local EXCEPT ![c] = {g \in Gid : ordersDb[g] = "prepared"}]
  /\ SetPhase(c, "listItems")
  /\ UNCHANGED <<handlers, orders, items, listed, reach, commits, task>>

ListItems(c) ==
  /\ phase[c] = "listItems" /\ ~PoolFull
  /\ listed' = [listed EXCEPT ![c] = {g \in Gid : itemsDb[g] = "prepared"}]
  /\ reach' = [reach EXCEPT ![c] = TRUE]
  /\ SetPhase(c, "listJournal")
  /\ UNCHANGED <<handlers, orders, items, local, commits, task>>

\* items-service does not answer within 5 s.
ListItemsFails(c) ==
  /\ phase[c] = "listItems" /\ (PoolFull \/ "net" \in Faults)
  /\ listed' = [listed EXCEPT ![c] = {}]
  /\ reach' = [reach EXCEPT ![c] = FALSE]
  /\ SetPhase(c, "listJournal")
  /\ UNCHANGED <<handlers, orders, items, local, commits, task>>

ListJournalCommits(c) ==
  /\ phase[c] = "listJournal"
  /\ commits' = [commits EXCEPT ![c] = journal]
  /\ task' = [task EXCEPT ![c] = [g \in Gid |->
       IF g \in local[c] \union listed[c] \union journal THEN "todo" ELSE "none"]]
  /\ SetPhase(c, "resolve")
  /\ UNCHANGED <<handlers, orders, items, local, listed, reach>>

\* COMMIT PREPARED or ROLLBACK PREPARED in orders-db, as the journal says.
SettleLocal(c, g) ==
  ordersDb' = IF g \in commits[c] THEN CommitPrepared(ordersDb, g) ELSE RollbackPrepared(ordersDb, g)

\* The loop takes the next gid and settles the orders-db side of it.
ResolveLocal(c, g) ==
  /\ phase[c] = "resolve" /\ Idle(c) /\ task[c][g] = "todo"
  /\ \/ g \notin local[c] /\ UNCHANGED ordersDb
     \/ g \in local[c] /\ SettleLocal(c, g)
  /\ SetTask(c, g, "items")
  /\ UNCHANGED <<handlers, journal, items, phase, local, listed, reach, commits>>

\* Items side: a call for a gid items-service listed, else straight on.
ResolveItems(c, g) ==
  /\ task[c][g] = "items" /\ reach[c] /\ g \in listed[c]
  /\ calls' = calls \union
       {ResolverCall(IF g \in commits[c] THEN "commit" ELSE "rollback", g, c)}
  /\ SetTask(c, g, "await")
  /\ UNCHANGED <<handlers, orders, itemsDb, stock, holding, phase, local, listed, reach, commits>>

ResolveWithoutItems(c, g) ==
  /\ task[c][g] = "items" /\ ~(reach[c] /\ g \in listed[c])
  /\ \/ g \in commits[c] /\ reach[c]  /\ SetTask(c, g, "journal")
     \/ g \in commits[c] /\ ~reach[c] /\ SetTask(c, g, "deferred")
     \/ g \notin commits[c] /\ SetTask(c, g, "done")
  /\ UNCHANGED <<handlers, orders, items, phase, local, listed, reach, commits>>

ResolveJournal(c, g) ==
  /\ task[c][g] = "journal"
  /\ journal' = journal \ {g}
  /\ SetTask(c, g, "done")
  /\ UNCHANGED <<handlers, ordersDb, items, phase, local, listed, reach, commits>>

\* The catch of the loop: the gid is left for the next restart.  A query of the
\* loop that throws has run or not.
ResolveFails(c, g) ==
  /\ \/ /\ task[c][g] = "await"
        /\ "net" \in Faults \/ PoolFull \/ \A r \in calls : ~(r.by = c /\ Awaits(c, r))
        /\ UNCHANGED orders
     \/ /\ "db" \in Faults /\ task[c][g] = "journal"
        /\ journal' \in {journal, journal \ {g}} /\ UNCHANGED ordersDb
     \/ /\ "db" \in Faults /\ phase[c] = "resolve" /\ Idle(c) /\ task[c][g] = "todo"
        /\ g \in local[c] /\ (UNCHANGED ordersDb \/ SettleLocal(c, g)) /\ UNCHANGED journal
  /\ SetTask(c, g, "failed")
  /\ UNCHANGED <<handlers, items, phase, local, listed, reach, commits>>

\* The resolver's locals, as every run of it finds them.
ForgetPass(c) ==
  /\ local' = [local EXCEPT ![c] = {}]
  /\ listed' = [listed EXCEPT ![c] = {}]
  /\ reach' = [reach EXCEPT ![c] = TRUE]
  /\ commits' = [commits EXCEPT ![c] = {}]
  /\ task' = [task EXCEPT ![c] = [g \in Gid |-> "none"]]

\* The loop is over, or one of the two orders-db listings threw: listen.
Listen(c) ==
  /\ \/ phase[c] = "resolve" /\ \A g \in Gid : task[c][g] \notin Busy \union {"todo"}
     \/ "db" \in Faults /\ phase[c] \in {"listLocal", "listJournal"}
  /\ SetPhase(c, "serving")
  /\ ForgetPass(c)
  /\ UNCHANGED <<handlers, orders, items>>

\* The process dies: its handlers stop where they are, their calls do not.
Crash(c) ==
  /\ "kill" \in Faults /\ phase[c] # "down"
  /\ SetPhase(c, "down")
  /\ ForgetPass(c)
  /\ pc' = [g \in Gid |-> IF owner[g] = c /\ pc[g] \notin Ended THEN "crashed" ELSE pc[g]]
  /\ UNCHANGED <<owner, orders, items>>

-----------------------------------------------------------------------------
HandlerStep(g) ==
  \/ PrepareInsert(g) \/ PrepareInsertFails(g) \/ WriteJournalCommit(g) \/ SendCommit(g)
  \/ CommitOrders(g) \/ DeleteJournal(g) \/ OrdersQueryFails(g) \/ FaultPoint(g)
  \/ HandlerTimeout(g)

ResolverStep(c) ==
  \/ ListLocal(c) \/ ListItems(c) \/ ListItemsFails(c) \/ ListJournalCommits(c)
  \/ \E g \in Gid : \/ ResolveLocal(c, g) \/ ResolveItems(c, g) \/ ResolveWithoutItems(c, g)
                    \/ ResolveJournal(c, g) \/ ResolveFails(c, g)
  \/ Listen(c)

Next ==
  \/ \E c \in Coord, g \in Gid : StartOrder(c, g)
  \/ \E g \in Gid : HandlerStep(g) \/ Connect(g) \/ PrepareDecrement(g)
  \/ \E r \in calls : CommitTx(r) \/ RollbackTx(r) \/ LoseCall(r)
  \/ ItemsRestart
  \/ \E c \in Coord : Boot(c) \/ ResolverStep(c) \/ Crash(c)

Spec == Init /\ [][Next]_vars

\* Promises run to completion, the pool hands out free connections, Postgres
\* grants free locks, and a process that is started runs its startup.
Fairness ==
  /\ \A g \in Gid : WF_vars(HandlerStep(g)) /\ WF_vars(Connect(g)) /\ WF_vars(PrepareDecrement(g))
  /\ WF_vars(\E r \in calls : CommitTx(r) \/ RollbackTx(r))
  /\ \A c \in Coord : WF_vars(Boot(c)) /\ WF_vars(ResolverStep(c))

FairSpec == Spec /\ Fairness
-----------------------------------------------------------------------------
(* What the protocol is for.                                               *)

Live(g) == pc[g] \notin Ended \union {"new"}
Promised(g) == ordersDb[g] \in {"prepared", "committed"} /\ itemsDb[g] \in {"prepared", "committed"}
BothCommitted(g) == ordersDb[g] = "committed" /\ itemsDb[g] = "committed"
InDoubt(g) == ordersDb[g] = "prepared" \/ itemsDb[g] = "prepared"

\* No split-brain: a database that has committed an order finds the other one
\* committed, or bound by its promise to commit (create-order.ts, resolveInDoubt).
Atomicity ==
  \A g \in Gid : "committed" \in {ordersDb[g], itemsDb[g]} => Promised(g)

\* The journal is the decision: from the INSERT of writeJournalCommit to the
\* DELETE, whoever reads it may commit both sides.
JournalIsDecision == \A g \in journal : Promised(g)

\* The answer 201 of POST /orders is only given for an order that stands on both
\* sides, and leaves no journal row behind.
CreatedStands == \A g \in Gid : pc[g] = "done" => BothCommitted(g) /\ g \notin journal

\* What the resolver counts as committed or aborted is settled: no prepared
\* transaction of it is left on the sides it could reach, and no journal row.
ResolvedIsSettled ==
  \A c \in Coord, g \in Gid :
    task[c][g] = "done" =>
      ordersDb[g] # "prepared" /\ g \notin journal /\ (reach[c] => itemsDb[g] # "prepared")

\* The row lock that a prepared decrement keeps and the guard stock >= qty
\* together never let the committed stock of an item fall below zero.
StockNeverNegative == \A i \in Item : stock[i] >= 0

\* The two databases agree on what was sold.  At all times the order rows of an
\* item add up to no more than its first stock; when none of its orders is in
\* doubt, they add up to exactly the stock that items-db misses.
Ordered(i) == {g \in Gid : ItemOf[g] = i /\ ordersDb[g] = "committed"}
StockMatchesOrders ==
  \A i \in Item :
    /\ Total(Qty, Ordered(i)) <= InitStock[i]
    /\ (\A g \in Gid : ItemOf[g] = i => ~InDoubt(g)) =>
         stock[i] + Total(Qty, Ordered(i)) = InitStock[i]

-----------------------------------------------------------------------------
(* Why Atomicity holds when one coordinator runs: an inductive invariant.  *)

\* An order nobody will commit any more.
Doomed(g) ==
  /\ pc[g] \in {"rollbackItems", "refused", "failed", "crashed"}
  /\ g \notin journal
  /\ ordersDb[g] # "committed" /\ itemsDb[g] # "committed"

\* A commit on one side is covered by the journal until both sides have it.
CommitCovered ==
  \A g \in Gid : "committed" \in {ordersDb[g], itemsDb[g]} => g \in journal \/ BothCommitted(g)

\* What each state of a handler knows of the two databases and the journal.
HandlerKnows(g) ==
  /\ pc[g] = "new" => ordersDb[g] = "none" /\ itemsDb[g] = "none" /\ g \notin journal
  /\ pc[g] = "prepareItems" =>
       ordersDb[g] = "none" /\ itemsDb[g] \in {"none", "prepared", "refused"} /\ g \notin journal
  /\ pc[g] = "prepareOrders" =>
       ordersDb[g] = "none" /\ itemsDb[g] = "prepared" /\ g \notin journal
  /\ pc[g] = "decide" =>
       ordersDb[g] = "prepared" /\ itemsDb[g] = "prepared" /\ g \notin journal
  /\ pc[g] \in {"sendCommit", "commitItems", "commitOrders", "deleteJournal"} => g \in journal
  /\ pc[g] \in {"commitOrders", "deleteJournal"} => itemsDb[g] = "committed"
  /\ pc[g] = "deleteJournal" => ordersDb[g] = "committed"
  /\ pc[g] \in {"rollbackItems", "refused"} => Doomed(g)
  /\ pc[g] = "done" => BothCommitted(g) /\ g \notin journal
  /\ Live(g) => owner[g] \in Coord /\ \A c \in Coord : phase[c] = "serving"

\* A call under way is justified by what has been decided.
CallJustified(r) ==
  /\ pc[r.gid] # "new"
  /\ r.op = "prepare"  => r.by = NoCoord /\ itemsDb[r.gid] = "none"
  /\ r.op = "commit"   => r.gid \in journal \/ BothCommitted(r.gid)
  /\ r.op = "rollback" => Doomed(r.gid)

\* What the resolver of c has read of g still tells what to do with g.
ResolverKnows(c, g) ==
  /\ task[c][g] # "none" => phase[c] = "resolve"
  /\ phase[c] \in {"listItems", "listJournal"} /\ g \in local[c] =>
       g \in journal \/ Doomed(g)
  /\ phase[c] = "listJournal" /\ g \in listed[c] => g \in journal \/ Doomed(g)
  /\ phase[c] \in {"listItems", "listJournal", "resolve"} /\ g \in journal \ local[c] =>
       ordersDb[g] = "committed"
  /\ phase[c] \in {"listJournal", "resolve"} /\ reach[c] /\ g \in journal \ listed[c] =>
       itemsDb[g] = "committed"
  /\ task[c][g] \in {"todo"} \union Busy /\ g \in commits[c] => g \in journal
  /\ task[c][g] \in {"todo"} \union Busy /\ g \notin commits[c] => Doomed(g)
  /\ task[c][g] \in Busy /\ g \in commits[c] => ordersDb[g] = "committed"
  /\ task[c][g] = "journal" => g \in commits[c] /\ itemsDb[g] = "committed"

IndInv ==
  /\ JournalIsDecision
  /\ CommitCovered
  /\ \A g \in Gid : HandlerKnows(g)
  /\ \A r \in calls : CallJustified(r)
  /\ \A g \in holding : HandlerCall("prepare", g) \in calls
  /\ \A c \in Coord, g \in Gid : ResolverKnows(c, g)

\* Deferred delete: a journal row goes only when both sides have committed, so
\* a later start cannot misread a half-done commit as "no decision, abort".
DeferredDelete ==
  [][\A g \in Gid : g \in journal /\ g \notin journal' => BothCommitted(g)]_vars

\* Every order ends: no handler waits on items-service for ever (5 s timeouts).
EveryOrderEnds == \A g \in Gid : Live(g) ~> pc[g] \in Ended

\* Restarting the coordinator again and again, each time up to listen, settles
\* every order that is in doubt: "a restart alone resolves what is in doubt".
RestartsResolve ==
  (\A c \in Coord : []<>(phase[c] = "listLocal") /\ []<>(phase[c] = "serving"))
    => \A g \in Gid : InDoubt(g) ~> ~InDoubt(g)

\* The abstract specification, seen through the states of the two databases.
Abstract(db) == [g \in Gid |->
  CASE db[g] = "none" -> "working" [] db[g] = "refused" -> "aborted" [] OTHER -> db[g]]
AC == INSTANCE AtomicCommit WITH itemsTx <- Abstract(itemsDb), ordersTx <- Abstract(ordersDb)
Refines == AC!Spec
=============================================================================
