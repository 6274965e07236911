----------------------------- MODULE Migration -----------------------------
(***************************************************************************)
(* The strangler-fig migration of the items: while orders are placed       *)
(* (ORDER_TX_MODE=none), an operator takes the stock from the monolith's   *)
(* database (primary) to items-service (secondary), by the playbook of     *)
(* src/stages/18-live-extraction:                                          *)
(*   primary_only -> dual_write -> backfill -> dual_shadow -> secondary_only *)
(* DualWriteItemsAdapter sends each decrement where its mode says, and in  *)
(* the dual modes mirrors it best effort.                                  *)
(*                                                                         *)
(* One item: the backfill reads and writes all rows in one statement each, *)
(* and everything else touches one row.  getItem with its shadow           *)
(* comparison is left out: nothing in the program calls it.                *)
(***************************************************************************)
EXTENDS Integers, Units

CONSTANTS
  Order,          \* orders, for the same item
  Qty,            \* quantity of each
  InitStock,
  Quiet,          \* the operator switches and backfills only between orders
  Pinned,         \* ITEMS_MIGRATION_MODE follows the mode that was switched to
  Faults          \* what the environment may do

ASSUME MigrationAssumption ==
  /\ Qty \in [Order -> Nat \ {0}] /\ InitStock \in Nat
  /\ Quiet \in BOOLEAN /\ Pinned \in BOOLEAN
  /\ Faults \subseteq {"net",       \* a call is lost or late
                       "db",        \* a query throws, having run or not
                       "demo",      \* FAULT_POINT=after-first-write
                       "kill"}      \* the monolith dies and starts again

VARIABLES
  mode,           \* DualWriteItemsAdapter.mode
  primary,        \* items.stock in the monolith's database
  secondary,      \* items.stock in items-db
  present,        \* items-db has the row
  pc,             \* where each order's handler is
  via,            \* the mode its decrementStock has read at its start
  took,           \* its decrement was done by the store that counts
  calls,          \* decrements that items-service has not finished
  copy,           \* the output of GET /internal/items/all on its way to the upsert
  backfilled,     \* the operator has seen the upsert succeed
  erred,          \* since then a secondary error was counted or a 500 answered,
                  \* and the counter has not gone back to 0
  restarted,      \* (history) since then the monolith was restarted
  gap,            \* (history) secondary - primary at the cutover
  warned          \* (history) what the operator could have read at the cutover

stores == <<primary, secondary, present>>
orders == <<pc, via, took, calls>>
seen   == <<erred, restarted>>
cut    == <<gap, warned>>
ops    == <<mode, copy, backfilled, restarted, cut>>
vars   == <<stores, orders, ops, erred>>

Modes == {"primary_only", "dual_write", "dual_shadow", "secondary_only"}
Dual == {"dual_write", "dual_shadow"}
Ended == {"created", "refused", "failed"}
PC == {"new", "primary", "mirror", "await", "remote", "insert"} \union Ended
NoCopy == [set |-> FALSE, stock |-> 0]

TypeOK ==
  /\ mode \in Modes /\ via \in [Order -> Modes]
  /\ primary \in Nat /\ secondary \in Nat /\ present \in BOOLEAN
  /\ pc \in [Order -> PC] /\ took \in [Order -> BOOLEAN] /\ calls \subseteq Order
  /\ copy \in [set : BOOLEAN, stock : Nat]
  /\ backfilled \in BOOLEAN /\ erred \in BOOLEAN /\ restarted \in BOOLEAN
  /\ gap \in Int /\ warned \in BOOLEAN

Init ==
  /\ mode = "primary_only" /\ via = [o \in Order |-> "primary_only"]
  /\ primary = InitStock /\ secondary = 0 /\ present = FALSE
  /\ pc = [o \in Order |-> "new"] /\ took = [o \in Order |-> FALSE] /\ calls = {}
  /\ copy = NoCopy /\ backfilled = FALSE /\ erred = FALSE /\ restarted = FALSE
  /\ gap = 0 /\ warned = FALSE

UnderWay == {o \in Order : pc[o] \notin Ended \union {"new"}}
Idle == UnderWay = {} /\ calls = {}
Goto(o, l) == pc' = [pc EXCEPT ![o] = l]

Enough(o) == present /\ secondary >= Qty[o]

\* What the handler does with the result of its decrement.
Result(ok) == IF ok THEN "insert" ELSE "refused"

-----------------------------------------------------------------------------
(* Mistakes this code could have made; no action uses them.                *)

\* if (!sec.ok) is missing: a mirror that finds too little is not counted.
HeardUncounted(o) ==
  \/ pc[o] = "await" /\ Goto(o, Result(took[o])) /\ UNCHANGED erred
  \/ pc[o] = "remote" /\ Goto(o, Result(Enough(o))) /\ UNCHANGED erred

\* Begin does not look for secondary_only.
BeginPrimary(o) ==
  /\ pc[o] = "new" /\ (Quiet => ~copy.set)
  /\ via' = [via EXCEPT ![o] = mode]
  /\ Goto(o, "primary")
  /\ UNCHANGED <<stores, took, calls, ops, erred>>

\* The catch around the mirror also catches the call of secondary_only.
TimeoutSwallowed(o) ==
  /\ "net" \in Faults /\ pc[o] \in {"await", "remote"}
  /\ Goto(o, Result(pc[o] = "remote" \/ took[o]))
  /\ erred' = TRUE
  /\ UNCHANGED <<stores, via, took, calls, ops>>

-----------------------------------------------------------------------------
(* POST /orders: decrementStock of the adapter, then INSERT.               *)

\* The mode is read once, at the start of the call.
Begin(o) ==
  /\ pc[o] = "new" /\ (Quiet => ~copy.set)
  /\ via' = [via EXCEPT ![o] = mode]
  /\ IF mode = "secondary_only"
       THEN Goto(o, "remote") /\ calls' = calls \union {o}
       ELSE Goto(o, "primary") /\ UNCHANGED calls
  /\ UNCHANGED <<stores, took, ops, erred>>

\* UPDATE .. WHERE stock >= qty.  The mirror is sent for a refused order too.
DecrementPrimary(o) ==
  /\ pc[o] = "primary"
  /\ LET ok == primary >= Qty[o] IN
       /\ primary' = IF ok THEN primary - Qty[o] ELSE primary
       /\ took' = [took EXCEPT ![o] = ok]
       /\ Goto(o, IF via[o] \in Dual THEN "mirror" ELSE Result(ok))
  /\ UNCHANGED <<secondary, present, via, calls, ops, erred>>

\* It throws, and no mirror is sent.
PrimaryFails(o) ==
  /\ "db" \in Faults /\ pc[o] = "primary"
  /\ \/ UNCHANGED <<primary, took>>
     \/ /\ primary >= Qty[o] /\ primary' = primary - Qty[o]
        /\ took' = [took EXCEPT ![o] = TRUE]
  /\ Goto(o, "failed") /\ erred' = TRUE
  /\ UNCHANGED <<secondary, present, via, calls, ops>>

Mirror(o) ==
  /\ pc[o] = "mirror"
  /\ calls' = calls \union {o} /\ Goto(o, "await")
  /\ UNCHANGED <<stores, via, took, ops, erred>>

\* items-service decrements, or finds no row or too little (409).
Serve(o) ==
  /\ o \in calls /\ calls' = calls \ {o}
  /\ secondary' = IF Enough(o) THEN secondary - Qty[o] ELSE secondary
  /\ took' = IF via[o] = "secondary_only" THEN [took EXCEPT ![o] = Enough(o)] ELSE took
  /\ UNCHANGED <<primary, present, via, ops>>

\* The result of a mirror is only counted; that of the store itself counts.
Heard(o) ==
  \/ pc[o] = "await" /\ Goto(o, Result(took[o])) /\ erred' = (erred \/ ~Enough(o))
  \/ pc[o] = "remote" /\ Goto(o, Result(Enough(o))) /\ UNCHANGED erred

Unheard(o) == ("net" \in Faults \/ pc[o] \notin {"await", "remote"}) /\ UNCHANGED <<pc, erred>>

ServeHeard(o)   == Serve(o) /\ Heard(o)
ServeUnheard(o) == Serve(o) /\ Unheard(o)

LoseCall(o) ==
  /\ "net" \in Faults /\ o \in calls
  /\ calls' = calls \ {o}
  /\ UNCHANGED <<stores, pc, via, took, ops, erred>>

\* The fetch throws after 2 s, or because items-service answers 500.
Timeout(o) ==
  /\ "net" \in Faults /\ pc[o] \in {"await", "remote"}
  /\ Goto(o, IF pc[o] = "remote" THEN "failed" ELSE Result(took[o]))
  /\ erred' = TRUE
  /\ UNCHANGED <<stores, via, took, calls, ops>>

InsertOrder(o) ==
  /\ pc[o] = "insert" /\ Goto(o, "created")
  /\ UNCHANGED <<stores, via, took, calls, ops, erred>>

\* The INSERT throws, or the fault point before it; nothing gives the stock back.
InsertFails(o) ==
  /\ Faults \intersect {"db", "demo"} # {} /\ pc[o] = "insert"
  /\ Goto(o, "failed") /\ erred' = TRUE
  /\ UNCHANGED <<stores, via, took, calls, ops>>

\* The mode and the counters are in memory: a restart has the mode of the
\* environment, and counts from 0.
Restart ==
  /\ "kill" \in Faults
  /\ pc' = [o \in Order |-> IF o \in UnderWay THEN "failed" ELSE pc[o]]
  /\ mode' = IF Pinned THEN mode ELSE "primary_only"
  /\ backfilled' = (backfilled /\ mode' = mode)
  /\ erred' = FALSE /\ restarted' = TRUE
  /\ UNCHANGED <<stores, via, took, calls, copy, cut>>

-----------------------------------------------------------------------------
(* The operator.  Quiet: traffic is held, and none of it is left anywhere, *)
(* while he switches, and from the copy to the upsert.                     *)

Ready == Quiet => Idle /\ ~copy.set

SetMode(from, to) ==
  /\ mode = from /\ Ready
  /\ mode' = to
  /\ UNCHANGED <<stores, orders, copy, seen>>

EnableDual == SetMode("primary_only", "dual_write") /\ UNCHANGED <<backfilled, cut>>

\* GET /internal/items/all ..
ListAll ==
  /\ mode \in Dual /\ ~copy.set /\ (Quiet => Idle)
  /\ copy' = [set |-> TRUE, stock |-> primary]
  /\ UNCHANGED <<stores, orders, mode, backfilled, seen, cut>>

\* .. | POST /internal/items/bulk-upsert: what is there is overwritten.
Upsert == present' = TRUE /\ secondary' = copy.stock /\ UNCHANGED primary

BulkUpsert ==
  /\ copy.set /\ copy' = NoCopy
  /\ Upsert
  /\ backfilled' = (mode \in Dual) /\ erred' = FALSE /\ restarted' = FALSE
  /\ UNCHANGED <<orders, mode, cut>>

\* The transaction rolls back, or the operator does not see that it did not.
BulkUpsertFails ==
  /\ Faults \intersect {"net", "db"} # {} /\ copy.set
  /\ copy' = NoCopy
  /\ Upsert \/ UNCHANGED stores
  /\ UNCHANGED <<orders, mode, backfilled, seen, cut>>

EnableShadow ==
  /\ backfilled /\ SetMode("dual_write", "dual_shadow")
  /\ UNCHANGED <<backfilled, cut>>

\* In the order of the playbook, and at any time: the endpoint asks for nothing,
\* and the playbook for a shadow_mismatch of 0, which is all it can ever be.
Cutover ==
  /\ backfilled /\ SetMode("dual_shadow", "secondary_only")
  /\ gap' = secondary - primary /\ warned' = (erred \/ restarted)
  /\ UNCHANGED backfilled

BackOut ==
  /\ \E from \in Dual : SetMode(from, "primary_only")
  /\ backfilled' = FALSE /\ UNCHANGED cut

-----------------------------------------------------------------------------
Handler(o) ==
  \/ Begin(o) \/ DecrementPrimary(o) \/ PrimaryFails(o) \/ Mirror(o)
  \/ ServeHeard(o) \/ ServeUnheard(o) \/ LoseCall(o) \/ Timeout(o)
  \/ InsertOrder(o) \/ InsertFails(o)

Operator ==
  EnableDual \/ ListAll \/ BulkUpsert \/ BulkUpsertFails \/ EnableShadow \/ Cutover \/ BackOut

Next == (\E o \in Order : Handler(o)) \/ Restart \/ Operator

Spec == Init /\ [][Next]_vars

-----------------------------------------------------------------------------
(* What the playbook is for.                                               *)

\* Once backfilled, whatever makes the two stores differ is to be seen when all is
\* quiet: a secondary error was counted, a 500 answered, or the monolith started
\* again, which drops both.
NoSilentDrift ==
  backfilled /\ mode \in Dual /\ Idle /\ ~erred /\ ~restarted => secondary = primary

\* Clients see one store, before, during and after the migration, whose stock the
\* cutover may replace.
Stock == IF mode = "secondary_only" THEN secondary ELSE primary
Shown(o) ==
  IF pc[o] \in {"created", "refused"} THEN pc[o]
  ELSE IF pc[o] = "failed" THEN (IF took[o] THEN "spent" ELSE "failed")
  ELSE IF took[o] THEN "taken" ELSE "new"
Store ==
  INSTANCE ItemStore WITH
    stock <- Stock, order <- [o \in Order |-> Shown(o)], moved <- mode = "secondary_only"
RefinesStore == Store!Spec

\* Through every mode: what is missing from the store that counts was taken by
\* orders, once each, and all of them together never get more than there was.  The
\* cutover, where the other store replaces it, adds or drops stock only if an error
\* or a restart since the backfill had warned of it.
StockConserved ==
  /\ Stock >= 0 /\ Stock + Total(Qty, Store!Supplied) = InitStock + gap
  /\ gap # 0 => warned
=============================================================================
