-------------------------- MODULE Migration_proofs --------------------------
(***************************************************************************)
(* Proofs about Migration, for any orders, quantities, stock and faults.    *)
(***************************************************************************)
EXTENDS Migration, Units_proofs, TLAPS

-----------------------------------------------------------------------------
(* Type correctness.                                                       *)

LEMMA QtyIsNat == \A o \in Order : Qty[o] \in Nat /\ Qty[o] > 0
BY MigrationAssumption

LEMMA TypeInit == Init => TypeOK
<1> SUFFICES ASSUME Init PROVE TypeOK
  OBVIOUS
<1>1. copy \in [set : BOOLEAN, stock : Nat]
  BY DEF Init, NoCopy
<1>2. gap \in Int /\ primary \in Nat /\ secondary \in Nat
  BY MigrationAssumption DEF Init
<1> QED BY <1>1, <1>2 DEF Init, TypeOK, Modes, PC

LEMMA TypeHandler ==
  ASSUME TypeOK, NEW o \in Order, Handler(o)
  PROVE  TypeOK'
<1> USE QtyIsNat
<1>1. CASE Begin(o)
  BY <1>1 DEF Begin, Goto, TypeOK, PC, stores, ops, cut
<1>2. CASE DecrementPrimary(o)
  BY <1>2 DEF DecrementPrimary, Goto, Result, TypeOK, PC, Ended, ops, cut
<1>3. CASE PrimaryFails(o)
  <2>1. pc' \in [Order -> PC] /\ took' \in [Order -> BOOLEAN]
    BY <1>3 DEF PrimaryFails, Goto, TypeOK, PC, Ended
  <2>2. primary' \in Nat
    BY <1>3 DEF PrimaryFails, TypeOK
  <2> QED BY <1>3, <2>1, <2>2 DEF PrimaryFails, TypeOK, ops, cut
<1>4. CASE Mirror(o)
  BY <1>4 DEF Mirror, Goto, TypeOK, PC, stores, ops, cut
<1>5. ASSUME Serve(o), pc' \in [Order -> PC], erred' \in BOOLEAN PROVE TypeOK'
  BY <1>5 DEF Serve, Enough, TypeOK, ops, cut
<1>6. CASE ServeHeard(o)
  <2>1. pc' \in [Order -> PC] /\ erred' \in BOOLEAN
    BY <1>6 DEF ServeHeard, Heard, Goto, Result, TypeOK, PC, Ended, Enough
  <2> QED BY <1>5, <1>6, <2>1 DEF ServeHeard
<1>7. CASE ServeUnheard(o)
  BY <1>5, <1>7 DEF ServeUnheard, Unheard, TypeOK
<1>8. CASE LoseCall(o)
  BY <1>8 DEF LoseCall, TypeOK, stores, ops, cut
<1>9. CASE Timeout(o)
  BY <1>9 DEF Timeout, Goto, Result, TypeOK, PC, Ended, stores, ops, cut
<1>10. CASE InsertOrder(o)
  BY <1>10 DEF InsertOrder, Goto, TypeOK, PC, Ended, stores, ops, cut
<1>11. CASE InsertFails(o)
  BY <1>11 DEF InsertFails, Goto, TypeOK, PC, Ended, stores, ops, cut
<1> QED BY <1>1, <1>2, <1>3, <1>4, <1>6, <1>7, <1>8, <1>9, <1>10, <1>11 DEF Handler

LEMMA TypeOperator ==
  ASSUME TypeOK, Operator
  PROVE  TypeOK'
<1>1. CASE EnableDual \/ EnableShadow \/ Cutover \/ BackOut
  <2>1. gap' \in Int
    BY <1>1 DEF EnableDual, EnableShadow, Cutover, BackOut, TypeOK, cut
  <2>2. warned' \in BOOLEAN
    BY <1>1, Zenon DEF EnableDual, EnableShadow, Cutover, BackOut, TypeOK, cut
  <2> QED BY <1>1, <2>1, <2>2 DEF EnableDual, EnableShadow, Cutover, BackOut, SetMode, TypeOK, Modes, Dual,
                                stores, orders, seen
<1>2. CASE ListAll
  BY <1>2 DEF ListAll, TypeOK, stores, orders, seen, cut
<1>3. CASE BulkUpsert
  <2>1. copy.stock \in Nat /\ copy' \in [set : BOOLEAN, stock : Nat]
    BY <1>3 DEF BulkUpsert, NoCopy, TypeOK
  <2>2. backfilled' \in BOOLEAN
    <3>1. backfilled' = TRUE \/ backfilled' = FALSE
      BY <1>3 DEF BulkUpsert
    <3> QED BY <3>1
  <2>3. present' \in BOOLEAN /\ secondary' \in Nat /\ primary' \in Nat
    BY <1>3, <2>1 DEF BulkUpsert, Upsert, TypeOK
  <2> QED BY <1>3, <2>1, <2>2, <2>3 DEF BulkUpsert, TypeOK, orders, cut
<1>4. CASE BulkUpsertFails
  BY <1>4 DEF BulkUpsertFails, Upsert, NoCopy, TypeOK, orders, stores, seen, cut
<1> QED BY <1>1, <1>2, <1>3, <1>4 DEF Operator

LEMMA TypeRestart ==
  ASSUME TypeOK, Restart
  PROVE  TypeOK'
BY DEF Restart, TypeOK, Modes, PC, Ended, stores, cut

LEMMA TypeNext == TypeOK /\ [Next]_vars => TypeOK'
<1> SUFFICES ASSUME TypeOK, [Next]_vars PROVE TypeOK'
  OBVIOUS
<1>1. CASE UNCHANGED vars
  BY <1>1 DEF vars, stores, orders, ops, cut, TypeOK
<1> QED BY <1>1, TypeHandler, TypeOperator, TypeRestart DEF Next

\* Type correctness; neither database ever shows a negative stock.
THEOREM TypeCorrect == Spec => []TypeOK
BY TypeInit, TypeNext, PTL DEF Spec

-----------------------------------------------------------------------------
(* What the operator can read before the cutover.                          *)

\* The mode does not change under an order.
SameMode == \A o \in UnderWay : via[o] = mode

\* From the copy to the upsert nothing moves.
CopyFresh == copy.set => Idle /\ copy.stock = primary

BackfillKnows == backfilled => present /\ mode # "primary_only"

OrderKnows ==
  \A o \in Order :
    /\ pc[o] \in {"new", "primary"} => ~took[o]
    /\ pc[o] \in {"new", "primary", "mirror"} => o \notin calls
    /\ pc[o] = "remote" => via[o] = "secondary_only"
    /\ pc[o] = "primary" => via[o] # "secondary_only"
    /\ pc[o] \in {"mirror", "await"} => via[o] \in Dual
    /\ pc[o] \in {"mirror", "await"} /\ ~took[o] => primary < Qty[o]

\* Neither an error nor a restart was seen since the backfill, and none is certain
\* to be seen: an order whose mirror is gone unheard can only end in a timeout.
Sound == backfilled /\ mode \in Dual /\ ~erred /\ ~restarted
Unanswered == {o \in Order : pc[o] = "await" /\ o \notin calls}

MirrorsAwaited == Sound => \A o \in calls : pc[o] = "await"

\* The mirrors of orders that took stock and that the new store has not served.
Owed == {o \in Order : took[o] /\ (pc[o] = "mirror" \/ (pc[o] = "await" /\ o \in calls))}

\* The new store has more by what it is still owed, or, once it has served the
\* mirror of a refused order, too little to serve all of these: one of them will
\* find that out and be counted.
OwedIsMissing ==
  Sound /\ Unanswered = {} =>
    /\ IsFiniteSet(UnitsOf(Qty, Owed))
    /\ secondary = primary + Total(Qty, Owed) \/ secondary < Total(Qty, Owed)

Knows == SameMode /\ CopyFresh /\ BackfillKnows /\ OrderKnows /\ MirrorsAwaited
DriftInv == TypeOK /\ Knows /\ OwedIsMissing

LEMMA KnowsInit == Init => Knows
<1> SUFFICES ASSUME Init PROVE Knows
  OBVIOUS
<1>1. UnderWay = {} /\ ~copy.set
  BY DEF Init, UnderWay, Ended, NoCopy
<1> QED BY <1>1 DEF Init, Knows, SameMode, CopyFresh, BackfillKnows, OrderKnows, MirrorsAwaited, Sound

\* What a step of a handler does, order by order.
LEMMA KnowsHandler ==
  ASSUME Quiet, TypeOK, Knows, NEW o \in Order, Handler(o)
  PROVE  Knows'
<1> USE QtyIsNat
<1>1. UNCHANGED <<mode, copy, backfilled>> /\ ~copy.set
  <2>1. UNCHANGED <<mode, copy, backfilled>>
    BY DEF Handler, Begin, DecrementPrimary, PrimaryFails, Mirror, ServeHeard, ServeUnheard, Serve,
           LoseCall, Timeout, InsertOrder, InsertFails, ops
  <2>2. CASE copy.set
    <3>1. pc[o] \in Ended \union {"new"} /\ calls = {}
      BY <2>2 DEF Knows, CopyFresh, Idle, UnderWay
    <3> QED BY <2>2, <3>1 DEF Handler, Begin, DecrementPrimary, PrimaryFails, Mirror, ServeHeard, ServeUnheard,
                Serve, LoseCall, Timeout, InsertOrder, InsertFails, Ended
  <2> QED BY <2>1, <2>2
<1>2. SameMode'
  BY <1>1 DEF Knows, SameMode, UnderWay, Ended, Handler, Begin, DecrementPrimary, PrimaryFails, Mirror, ServeHeard,
              ServeUnheard, Serve, Heard, Unheard, LoseCall, Timeout, InsertOrder, InsertFails, Goto, Result, TypeOK
<1>3. CopyFresh'
  BY <1>1 DEF CopyFresh
<1>4. BackfillKnows'
  BY <1>1 DEF Knows, BackfillKnows, Handler, Begin, DecrementPrimary, PrimaryFails, Mirror, ServeHeard, ServeUnheard,
              Serve, LoseCall, Timeout, InsertOrder, InsertFails, stores
<1>5. OrderKnows'
  <2>1. primary \in Nat /\ primary' \in Nat /\ primary' <= primary
    BY DEF TypeOK, Handler, Begin, DecrementPrimary, PrimaryFails, Mirror, ServeHeard, ServeUnheard, Serve,
           LoseCall, Timeout, InsertOrder, InsertFails, stores
  <2>2. \A p \in Order : p # o => /\ pc'[p] = pc[p] /\ via'[p] = via[p] /\ took'[p] = took[p]
                                  /\ p \in calls' => p \in calls
    BY DEF Handler, Begin, DecrementPrimary, PrimaryFails, Mirror, ServeHeard, ServeUnheard, Serve, Heard, Unheard,
           LoseCall, Timeout, InsertOrder, InsertFails, Goto, TypeOK
  <2>3. /\ pc'[o] \in {"new", "primary"} => ~took'[o]
        /\ pc'[o] \in {"new", "primary", "mirror"} => o \notin calls'
        /\ pc'[o] = "remote" => via'[o] = "secondary_only"
        /\ pc'[o] = "primary" => via'[o] # "secondary_only"
        /\ pc'[o] \in {"mirror", "await"} => via'[o] \in Dual
        /\ pc'[o] \in {"mirror", "await"} /\ ~took'[o] => primary' < Qty[o]
    <3>1. CASE Begin(o)
      BY <3>1 DEF Begin, Goto, Knows, OrderKnows, TypeOK, stores, ops
    <3>2. CASE DecrementPrimary(o)
      <4>1. pc'[o] = "mirror" \/ pc'[o] = Result(primary >= Qty[o])
        BY <3>2, Zenon DEF DecrementPrimary, Goto, TypeOK
      <4>2. took'[o] = (primary >= Qty[o])
        BY <3>2, Zenon DEF DecrementPrimary, TypeOK
      <4>3. pc[o] = "primary" /\ o \notin calls' /\ UNCHANGED <<via, calls>>
        BY <3>2 DEF DecrementPrimary, Knows, OrderKnows
      <4>4. pc'[o] = "mirror" => via[o] \in Dual
        BY <3>2, <4>1 DEF DecrementPrimary, Goto, Result, TypeOK
      <4>5. CASE primary >= Qty[o]
        BY <4>1, <4>2, <4>3, <4>4, <4>5 DEF Result
      <4>6. CASE ~(primary >= Qty[o])
        <5>1. primary' < Qty[o]
          BY <3>2, <4>6, <2>1 DEF DecrementPrimary
        <5> QED BY <4>1, <4>2, <4>3, <4>4, <4>6, <5>1 DEF Result
      <4> QED BY <4>5, <4>6
    <3>3. CASE PrimaryFails(o)
      BY <3>3 DEF PrimaryFails, Goto, Knows, OrderKnows, TypeOK, ops
    <3>4. CASE Mirror(o)
      BY <3>4 DEF Mirror, Goto, Knows, OrderKnows, TypeOK, stores, ops
    <3>5. CASE ServeHeard(o) \/ ServeUnheard(o)
      <4>1. o \in calls /\ o \notin calls' /\ UNCHANGED <<primary, via>>
        BY <3>5 DEF ServeHeard, ServeUnheard, Serve
      <4>2. pc[o] \notin {"new", "primary", "mirror"}
        BY <4>1 DEF Knows, OrderKnows
      <4>3. pc'[o] = pc[o] \/ pc'[o] \in {"insert", "refused"}
        BY <3>5 DEF ServeHeard, ServeUnheard, Heard, Unheard, Goto, Result, TypeOK
      <4>4. pc[o] = "await" => took'[o] = took[o]
        BY <3>5 DEF ServeHeard, ServeUnheard, Serve, Knows, OrderKnows, Dual, TypeOK
      <4> QED BY <4>1, <4>2, <4>3, <4>4 DEF Knows, OrderKnows
    <3>6. CASE LoseCall(o)
      BY <3>6 DEF LoseCall, Knows, OrderKnows, TypeOK, stores, ops
    <3>7. CASE Timeout(o)
      BY <3>7 DEF Timeout, Goto, Result, Knows, OrderKnows, TypeOK, stores, ops
    <3>8. CASE InsertOrder(o) \/ InsertFails(o)
      BY <3>8 DEF InsertOrder, InsertFails, Goto, Knows, OrderKnows, TypeOK, stores, ops
    <3> QED BY <3>1, <3>2, <3>3, <3>4, <3>5, <3>6, <3>7, <3>8 DEF Handler
  <2> QED BY <2>1, <2>2, <2>3 DEF Knows, OrderKnows
<1>6. MirrorsAwaited'
  <2> SUFFICES ASSUME Sound', NEW p \in calls' PROVE pc'[p] = "await"
    BY DEF MirrorsAwaited
  <2>1. CASE Begin(o)
    BY <1>1, <2>1 DEF Begin, Goto, Knows, OrderKnows, MirrorsAwaited, Sound, Dual, TypeOK, stores, ops
  <2>2. CASE DecrementPrimary(o)
    BY <2>2 DEF DecrementPrimary, Goto, Knows, OrderKnows, MirrorsAwaited, Sound, TypeOK, ops
  <2>3. CASE PrimaryFails(o) \/ Timeout(o) \/ InsertFails(o)
    BY <2>3 DEF PrimaryFails, Timeout, InsertFails, Sound
  <2>4. CASE Mirror(o)
    BY <2>4 DEF Mirror, Goto, Knows, MirrorsAwaited, Sound, TypeOK, ops
  <2>5. CASE ServeHeard(o) \/ ServeUnheard(o)
    <3>1. Sound
      <4>1. ~erred' => ~erred
        BY <2>5, Zenon DEF ServeHeard, ServeUnheard, Heard, Unheard
      <4>2. UNCHANGED restarted
        BY <2>5 DEF ServeHeard, ServeUnheard, Serve, ops
      <4> QED BY <1>1, <4>1, <4>2 DEF Sound
    <3>2. p # o /\ p \in calls
      BY <2>5 DEF ServeHeard, ServeUnheard, Serve
    <3>3. pc'[p] = pc[p]
      BY <2>5, <3>2 DEF ServeHeard, ServeUnheard, Heard, Unheard, Goto, TypeOK
    <3> QED BY <3>1, <3>2, <3>3 DEF Knows, MirrorsAwaited
  <2>6. CASE LoseCall(o)
    BY <2>6 DEF LoseCall, Knows, MirrorsAwaited, Sound, ops
  <2>7. CASE InsertOrder(o)
    BY <2>7 DEF InsertOrder, Goto, Knows, MirrorsAwaited, Sound, TypeOK, ops
  <2> QED BY <2>1, <2>2, <2>3, <2>4, <2>5, <2>6, <2>7 DEF Handler
<1> QED BY <1>2, <1>3, <1>4, <1>5, <1>6 DEF Knows

LEMMA KnowsRestart ==
  ASSUME TypeOK, Knows, Restart
  PROVE  Knows'
<1>1. UNCHANGED <<primary, secondary, present, via, took, calls, copy>>
  BY Zenon DEF Restart, stores
<1>2. \A o \in Order : pc'[o] = IF o \in UnderWay THEN "failed" ELSE pc[o]
  BY DEF Restart
<1>3. UnderWay' = {}
  BY <1>2 DEF UnderWay, Ended
<1>4. SameMode'
  BY <1>3 DEF SameMode
<1>5. CopyFresh'
  BY <1>1, <1>3 DEF Knows, CopyFresh, Idle
<1>6. BackfillKnows'
  BY <1>1 DEF Knows, BackfillKnows, Restart
<1>7. OrderKnows'
  BY <1>1, <1>2 DEF Knows, OrderKnows, UnderWay, Ended
<1>8. MirrorsAwaited'
  BY DEF Restart, Sound, MirrorsAwaited
<1> QED BY <1>4, <1>5, <1>6, <1>7, <1>8 DEF Knows

LEMMA KnowsOperator ==
  ASSUME Quiet, TypeOK, Knows, Operator
  PROVE  Knows'
<1>1. UNCHANGED <<pc, via, took, calls, primary>>
  BY DEF Operator, EnableDual, ListAll, BulkUpsert, BulkUpsertFails, EnableShadow, Cutover, BackOut,
         SetMode, Upsert, orders, stores
<1>2. UnderWay' = UnderWay
  BY <1>1 DEF UnderWay
<1>3. mode' # mode => Idle /\ copy' = copy
  BY DEF Operator, EnableDual, ListAll, BulkUpsert, BulkUpsertFails, EnableShadow, Cutover, BackOut, SetMode, Ready
<1>4. SameMode'
  BY <1>1, <1>2, <1>3 DEF Knows, SameMode, Idle
<1>5. CopyFresh'
  <2>1. copy'.set => (copy' = copy \/ (Idle /\ copy'.stock = primary))
    BY DEF Operator, EnableDual, ListAll, BulkUpsert, BulkUpsertFails, EnableShadow, Cutover, BackOut, SetMode, NoCopy
  <2> QED BY <1>1, <1>2, <2>1 DEF Knows, CopyFresh, Idle
<1>6. BackfillKnows'
  BY DEF Knows, BackfillKnows, Operator, EnableDual, ListAll, BulkUpsert, BulkUpsertFails, EnableShadow, Cutover, BackOut,
         SetMode, Upsert, stores, Dual
<1>7. OrderKnows'
  BY <1>1 DEF Knows, OrderKnows
<1>8. MirrorsAwaited'
  <2>1. Sound' => Sound \/ calls = {}
    <3>1. CASE BulkUpsert
      BY <3>1 DEF BulkUpsert, Knows, CopyFresh, Idle
    <3>2. CASE ~BulkUpsert
      BY <1>3, <3>2 DEF Operator, EnableDual, ListAll, BulkUpsertFails, EnableShadow, Cutover, BackOut, SetMode,
                  Sound, Idle, Dual, seen
    <3> QED BY <3>1, <3>2
  <2> QED BY <1>1, <2>1 DEF Knows, MirrorsAwaited
<1> QED BY <1>4, <1>5, <1>6, <1>7, <1>8 DEF Knows

LEMMA KnowsNext == Quiet /\ TypeOK /\ Knows /\ [Next]_vars => Knows'
<1> SUFFICES ASSUME Quiet, TypeOK, Knows, [Next]_vars PROVE Knows'
  OBVIOUS
<1>1. CASE UNCHANGED vars
  BY <1>1 DEF vars, stores, orders, ops, Knows, SameMode, CopyFresh, BackfillKnows, OrderKnows, MirrorsAwaited,
              Sound, Idle, UnderWay
<1> QED BY <1>1, KnowsHandler, KnowsRestart, KnowsOperator DEF Next

\* Nobody is owed anything when all is quiet.
LEMMA IdleOwesNothing == Idle => Unanswered = {} /\ Owed = {}
BY DEF Idle, UnderWay, Ended, Unanswered, Owed

LEMMA OwedInit == Init => OwedIsMissing
BY DEF Init, OwedIsMissing, Sound

\* Nothing was seen before the step either, with every mirror still to be heard.
LEMMA SoundBefore ==
  ASSUME TypeOK, NEW o \in Order, Handler(o), Sound', Unanswered' = {}
  PROVE  Sound /\ Unanswered = {} /\ UNCHANGED mode
<1>1. UNCHANGED <<mode, backfilled, restarted>> /\ ~erred'
  BY DEF Sound, Handler, Begin, DecrementPrimary, PrimaryFails, Mirror, ServeHeard, ServeUnheard, Serve,
         LoseCall, Timeout, InsertOrder, InsertFails, ops
<1>2. ~erred
  BY <1>1, Zenon DEF Handler, Begin, DecrementPrimary, PrimaryFails, Mirror, ServeHeard, ServeUnheard, Heard, Unheard,
         LoseCall, Timeout, InsertOrder, InsertFails
<1>3. ~(pc[o] = "await" /\ o \notin calls)
  BY <1>1, Zenon DEF Handler, Begin, DecrementPrimary, PrimaryFails, Mirror, ServeHeard, ServeUnheard, Serve,
         LoseCall, Timeout, InsertOrder, InsertFails
<1>4. \A p \in Order : p # o => pc'[p] = pc[p] /\ (p \in calls' => p \in calls)
  BY DEF Handler, Begin, DecrementPrimary, PrimaryFails, Mirror, ServeHeard, ServeUnheard, Serve, Heard, Unheard,
         LoseCall, Timeout, InsertOrder, InsertFails, Goto, TypeOK
<1>5. Unanswered = {}
  BY <1>3, <1>4 DEF Unanswered
<1> QED BY <1>1, <1>2, <1>5 DEF Sound

LEMMA OwedHandler ==
  ASSUME Quiet, TypeOK, Knows, OwedIsMissing, NEW o \in Order, Handler(o)
  PROVE  OwedIsMissing'
<1> SUFFICES ASSUME Sound', Unanswered' = {}
             PROVE  /\ IsFiniteSet(UnitsOf(Qty, Owed'))
                    /\ secondary' = primary' + Total(Qty, Owed') \/ secondary' < Total(Qty, Owed')
  BY DEF OwedIsMissing
<1>1. Sound /\ Unanswered = {} /\ mode \in Dual /\ mode' = mode /\ present /\ ~erred'
  BY SoundBefore DEF Sound, Knows, BackfillKnows
<1>2. /\ IsFiniteSet(UnitsOf(Qty, Owed)) /\ Total(Qty, Owed) \in Nat
      /\ secondary = primary + Total(Qty, Owed) \/ secondary < Total(Qty, Owed)
      /\ primary \in Nat /\ secondary \in Nat /\ Qty[o] \in Nat
  BY <1>1, TotalNat, QtyIsNat DEF OwedIsMissing, TypeOK
<1>3. ASSUME Owed' = Owed, UNCHANGED <<primary, secondary>>
      PROVE  /\ IsFiniteSet(UnitsOf(Qty, Owed'))
             /\ secondary' = primary' + Total(Qty, Owed') \/ secondary' < Total(Qty, Owed')
  BY <1>2, <1>3
<1>4. CASE Begin(o)
  <2>1. Owed' = Owed
    BY <1>1, <1>4 DEF Begin, Goto, Owed, Dual, TypeOK
  <2> QED BY <1>3, <1>4, <2>1 DEF Begin, stores
<1>5. CASE DecrementPrimary(o)
  <2>1. via[o] = mode /\ pc[o] = "primary" /\ o \notin Owed /\ ~took[o]
    BY <1>5 DEF DecrementPrimary, Knows, SameMode, OrderKnows, UnderWay, Ended, Owed
  <2>2. pc' = [pc EXCEPT ![o] = "mirror"] /\ UNCHANGED <<secondary, calls>>
    BY <1>1, <1>5, <2>1 DEF DecrementPrimary, Goto
  <2>3. CASE primary >= Qty[o]
    <3>1. primary' = primary - Qty[o] /\ took' = [took EXCEPT ![o] = TRUE]
      <4>1. (primary >= Qty[o]) = TRUE
        BY <2>3
      <4> QED BY <1>5, <2>3, <4>1 DEF DecrementPrimary
    <3>2. Owed' = Owed \union {o}
      BY <2>1, <2>2, <3>1 DEF Owed, TypeOK
    <3>3. IsFiniteSet(UnitsOf(Qty, Owed')) /\ Total(Qty, Owed') = Total(Qty, Owed) + Qty[o]
      BY <1>2, <2>1, <3>2, TotalAdd
    <3> QED BY <1>2, <2>2, <3>1, <3>3
  <2>4. CASE ~(primary >= Qty[o])
    <3>1. primary' = primary /\ took' = [took EXCEPT ![o] = FALSE]
      <4>1. (primary >= Qty[o]) = FALSE
        BY <2>4
      <4> QED BY <1>5, <2>4, <4>1 DEF DecrementPrimary
    <3>2. Owed' = Owed
      BY <2>1, <2>2, <3>1 DEF Owed, TypeOK
    <3> QED BY <1>3, <2>2, <3>1, <3>2
  <2> QED BY <2>3, <2>4
<1>6. CASE Mirror(o)
  <2>1. Owed' = Owed
    BY <1>6 DEF Mirror, Goto, Owed, TypeOK
  <2> QED BY <1>3, <1>6, <2>1 DEF Mirror, stores
<1>7. CASE ServeHeard(o)
  <2>1. pc[o] = "await" /\ o \in calls /\ via[o] \in Dual
    BY <1>1, <1>7 DEF ServeHeard, Serve, Knows, MirrorsAwaited, OrderKnows
  <2>2. Enough(o)
    BY <1>1, <1>7, <2>1, Zenon DEF ServeHeard, Heard
  <2>3. /\ secondary' = secondary - Qty[o] /\ secondary >= Qty[o]
        /\ UNCHANGED <<primary, took>> /\ calls' = calls \ {o}
    BY <1>7, <2>1, <2>2 DEF ServeHeard, Serve, Enough, Dual
  <2>4. pc'[o] # "await" /\ pc'[o] # "mirror" /\ \A p \in Order : p # o => pc'[p] = pc[p]
    BY <1>7, <2>1 DEF ServeHeard, Heard, Goto, Result, TypeOK
  <2>5. CASE took[o]
    <3>1. Owed' = Owed \ {o} /\ o \in Owed
      BY <2>1, <2>3, <2>4, <2>5 DEF Owed
    <3>2. IsFiniteSet(UnitsOf(Qty, Owed')) /\ Total(Qty, Owed') = Total(Qty, Owed) - Qty[o]
      BY <1>2, <3>1, TotalRemove
    <3> QED BY <1>2, <2>3, <3>2
  <2>6. CASE ~took[o]
    <3>1. Owed' = Owed
      BY <2>1, <2>3, <2>4, <2>6 DEF Owed
    <3>2. primary < Qty[o]
      BY <2>1, <2>6 DEF Knows, OrderKnows
    <3> QED BY <1>2, <2>3, <3>1, <3>2
  <2> QED BY <2>5, <2>6
<1>8. CASE ServeUnheard(o) \/ LoseCall(o)
  <2>1. pc[o] = "await" /\ o \notin calls'
    BY <1>1, <1>8 DEF ServeUnheard, Serve, LoseCall, Knows, MirrorsAwaited
  <2>2. pc' = pc
    BY <1>8 DEF ServeUnheard, Unheard, LoseCall
  <2> QED BY <2>1, <2>2 DEF Unanswered
<1>9. CASE PrimaryFails(o) \/ Timeout(o) \/ InsertFails(o)
  BY <1>1, <1>9 DEF PrimaryFails, Timeout, InsertFails
<1>10. CASE InsertOrder(o)
  <2>1. Owed' = Owed
    BY <1>10 DEF InsertOrder, Goto, Owed, TypeOK
  <2> QED BY <1>3, <1>10, <2>1 DEF InsertOrder, stores
<1> QED BY <1>4, <1>5, <1>6, <1>7, <1>8, <1>9, <1>10 DEF Handler

LEMMA OwedRestart == Restart => OwedIsMissing'
BY DEF Restart, OwedIsMissing, Sound

LEMMA OwedOperator ==
  ASSUME Quiet, TypeOK, Knows, OwedIsMissing, Operator
  PROVE  OwedIsMissing'
<1>1. UNCHANGED <<pc, took, calls, primary>>
  BY DEF Operator, EnableDual, ListAll, BulkUpsert, BulkUpsertFails, EnableShadow, Cutover, BackOut,
         SetMode, Upsert, orders, stores
<1>2. Unanswered' = Unanswered /\ Owed' = Owed
  BY <1>1 DEF Unanswered, Owed
<1>3. CASE copy.set /\ Upsert
  <2>1. Owed' = {} /\ secondary' = primary' /\ primary' \in Nat
    BY <1>1, <1>2, <1>3, IdleOwesNothing DEF Knows, CopyFresh, Upsert, TypeOK
  <2>2. IsFiniteSet(UnitsOf(Qty, Owed')) /\ Total(Qty, Owed') = 0
    BY <2>1, TotalEmpty
  <2> QED BY <2>1, <2>2 DEF OwedIsMissing
<1>4. CASE ~(copy.set /\ Upsert)
  <2>1. secondary' = secondary
    BY <1>4 DEF Operator, EnableDual, ListAll, BulkUpsert, BulkUpsertFails, EnableShadow, Cutover, BackOut,
                SetMode, stores
  <2>2. Sound' => Sound
    BY <1>4 DEF Operator, EnableDual, ListAll, BulkUpsert, BulkUpsertFails, EnableShadow, Cutover, BackOut,
                SetMode, Sound, Knows, BackfillKnows, Dual, seen
  <2> QED BY <1>1, <1>2, <2>1, <2>2 DEF OwedIsMissing
<1> QED BY <1>3, <1>4

LEMMA OwedNext == Quiet /\ TypeOK /\ Knows /\ OwedIsMissing /\ [Next]_vars => OwedIsMissing'
<1> SUFFICES ASSUME Quiet, TypeOK, Knows, OwedIsMissing, [Next]_vars PROVE OwedIsMissing'
  OBVIOUS
<1>1. CASE UNCHANGED vars
  <2>1. Unanswered' = Unanswered /\ Owed' = Owed /\ Sound' = Sound /\ UNCHANGED <<primary, secondary>>
    BY <1>1 DEF vars, stores, orders, ops, Unanswered, Owed, Sound
  <2> QED BY <2>1 DEF OwedIsMissing
<1> QED BY <1>1, OwedHandler, OwedRestart, OwedOperator DEF Next

\* If traffic is held while the operator acts, no lost, late, refused or reordered
\* mirror makes the stores differ without an error that is counted, a 500, or a
\* restart since the backfill, by the time all is quiet again.
THEOREM NoSilentDriftHolds ==
  ASSUME Quiet
  PROVE  Spec => []NoSilentDrift
<1>1. Init => DriftInv
  BY TypeInit, KnowsInit, OwedInit DEF DriftInv
<1>2. DriftInv /\ [Next]_vars => DriftInv'
  BY TypeNext, KnowsNext, OwedNext DEF DriftInv
<1>3. DriftInv => NoSilentDrift
  <2> SUFFICES ASSUME DriftInv, Sound, Idle PROVE secondary = primary
    BY DEF NoSilentDrift, Sound
  <2>1. Unanswered = {} /\ Owed = {}
    BY IdleOwesNothing
  <2>2. Total(Qty, Owed) = 0
    BY <2>1, TotalEmpty
  <2> QED BY <2>1, <2>2 DEF DriftInv, OwedIsMissing, TypeOK
<1> QED BY <1>1, <1>2, <1>3, PTL DEF Spec

-----------------------------------------------------------------------------
(* One store.                                                              *)

\* Before the cutover no call is for the new store alone, after it every one is.
SameSide ==
  \A o \in Order : pc[o] \notin Ended \union {"new"} \/ o \in calls =>
    (via[o] = "secondary_only" <=> mode = "secondary_only")

\* What a handler knows of its own decrement.
HandlerKnows ==
  \A o \in Order :
    /\ pc[o] \in {"new", "primary"} => ~took[o]
    /\ pc[o] = "new" => o \notin calls
    /\ pc[o] \in {"primary", "mirror", "await"} => via[o] # "secondary_only"
    /\ pc[o] \in {"mirror", "await"} /\ ~took[o] => primary < Qty[o]
    /\ pc[o] = "remote" => via[o] = "secondary_only"
    /\ pc[o] = "insert" => took[o]

\* A call to the new store alone is that of a handler that waits or has given up.
CallKnows ==
  \A o \in calls : via[o] = "secondary_only" => ~took[o] /\ pc[o] \in {"remote", "failed"}

\* The cutover is after the backfill, and no upsert is under way then.
StoreKnows ==
  /\ mode = "secondary_only" => present /\ ~copy.set
  /\ backfilled => present

IndInv == TypeOK /\ SameSide /\ HandlerKnows /\ CallKnows /\ StoreKnows

LEMMA IndInvInit == Init => IndInv
<1> SUFFICES ASSUME Init PROVE IndInv
  OBVIOUS
<1>1. TypeOK
  BY TypeInit
<1>2. SameSide /\ HandlerKnows /\ CallKnows /\ StoreKnows
  BY DEF Init, SameSide, HandlerKnows, CallKnows, StoreKnows, Ended
<1> QED BY <1>1, <1>2 DEF IndInv

LEMMA IndInvHandler ==
  ASSUME IndInv, NEW o \in Order, Handler(o)
  PROVE  IndInv'
<1> USE QtyIsNat
<1>1. TypeOK /\ TypeOK' /\ SameSide /\ HandlerKnows /\ CallKnows /\ StoreKnows
  BY TypeHandler DEF IndInv
<1>2. CASE Begin(o)
  <2>1. SameSide'
    BY <1>1, <1>2 DEF Begin, Goto, stores, ops, SameSide, HandlerKnows, TypeOK, Ended, Dual
  <2>2. HandlerKnows'
    BY <1>1, <1>2 DEF Begin, Goto, stores, ops, HandlerKnows, SameSide, CallKnows, TypeOK, Ended, Dual
  <2>3. CallKnows'
    BY <1>1, <1>2 DEF Begin, Goto, stores, ops, CallKnows, SameSide, HandlerKnows, TypeOK, Ended, Dual
  <2>4. StoreKnows'
    BY <1>1, <1>2 DEF Begin, Goto, stores, ops, StoreKnows, TypeOK, Ended, Dual
  <2> QED BY <1>1, <2>1, <2>2, <2>3, <2>4 DEF IndInv
<1>3. CASE DecrementPrimary(o)
  <2>1. SameSide'
    BY <1>1, <1>3 DEF DecrementPrimary, Goto, Result, ops, SameSide, HandlerKnows, TypeOK, Ended, Dual
  <2>2. HandlerKnows'
    <3>1. primary' <= primary /\ primary \in Nat /\ primary' \in Nat
      BY <1>1, <1>3 DEF DecrementPrimary, TypeOK
    <3>2. \A p \in Order : p # o => pc'[p] = pc[p] /\ took'[p] = took[p]
      BY <1>1, <1>3 DEF DecrementPrimary, Goto, TypeOK
    <3>3. took'[o] = (primary >= Qty[o])
      BY <1>1, <1>3, Zenon DEF DecrementPrimary, TypeOK
    <3>4. pc'[o] = "mirror" \/ pc'[o] = Result(primary >= Qty[o])
      BY <1>1, <1>3, Zenon DEF DecrementPrimary, Goto, TypeOK
    <3>5. UNCHANGED <<via, calls>>
      BY <1>3 DEF DecrementPrimary
    <3>6. CASE primary >= Qty[o]
      <4>1. took'[o] /\ pc'[o] \in {"mirror", "insert"}
        BY <3>3, <3>4, <3>6 DEF Result
      <4> QED BY <1>1, <1>3, <3>1, <3>2, <3>5, <4>1 DEF DecrementPrimary, HandlerKnows
    <3>7. CASE ~(primary >= Qty[o])
      <4>1. ~took'[o] /\ pc'[o] \in {"mirror", "refused"}
        BY <3>3, <3>4, <3>7 DEF Result
      <4>2. primary' < Qty[o]
        BY <1>3, <3>1, <3>7 DEF DecrementPrimary
      <4> QED BY <1>1, <1>3, <3>1, <3>2, <3>5, <4>1, <4>2 DEF DecrementPrimary, HandlerKnows
    <3> QED BY <3>6, <3>7
  <2>3. CallKnows'
    BY <1>1, <1>3 DEF DecrementPrimary, Goto, Result, ops, CallKnows, SameSide, HandlerKnows, TypeOK, Ended, Dual
  <2>4. StoreKnows'
    BY <1>1, <1>3 DEF DecrementPrimary, Goto, Result, ops, StoreKnows, TypeOK, Ended, Dual
  <2> QED BY <1>1, <2>1, <2>2, <2>3, <2>4 DEF IndInv
<1>4. CASE PrimaryFails(o)
  <2>1. SameSide'
    BY <1>1, <1>4 DEF PrimaryFails, Goto, ops, SameSide, HandlerKnows, TypeOK, Ended, Dual
  <2>2. HandlerKnows'
    BY <1>1, <1>4 DEF PrimaryFails, Goto, ops, HandlerKnows, SameSide, CallKnows, TypeOK, Ended, Dual
  <2>3. CallKnows'
    BY <1>1, <1>4 DEF PrimaryFails, Goto, ops, CallKnows, SameSide, HandlerKnows, TypeOK, Ended, Dual
  <2>4. StoreKnows'
    BY <1>1, <1>4 DEF PrimaryFails, Goto, ops, StoreKnows, TypeOK, Ended, Dual
  <2> QED BY <1>1, <2>1, <2>2, <2>3, <2>4 DEF IndInv
<1>5. CASE Mirror(o)
  <2>1. SameSide'
    BY <1>1, <1>5 DEF Mirror, Goto, stores, ops, SameSide, HandlerKnows, TypeOK, Ended, Dual
  <2>2. HandlerKnows'
    BY <1>1, <1>5 DEF Mirror, Goto, stores, ops, HandlerKnows, SameSide, CallKnows, TypeOK, Ended, Dual
  <2>3. CallKnows'
    BY <1>1, <1>5 DEF Mirror, Goto, stores, ops, CallKnows, SameSide, HandlerKnows, TypeOK, Ended, Dual
  <2>4. StoreKnows'
    BY <1>1, <1>5 DEF Mirror, Goto, stores, ops, StoreKnows, TypeOK, Ended, Dual
  <2> QED BY <1>1, <2>1, <2>2, <2>3, <2>4 DEF IndInv
<1>6. CASE ServeHeard(o)
  <2>1. SameSide'
    BY <1>1, <1>6 DEF ServeHeard, Serve, Heard, Goto, Result, Enough, ops, SameSide, HandlerKnows, TypeOK, Ended, Dual
  <2>2. HandlerKnows'
    BY <1>1, <1>6 DEF ServeHeard, Serve, Heard, Goto, Result, Enough, ops, HandlerKnows, SameSide, CallKnows, TypeOK, Ended, Dual
  <2>3. CallKnows'
    BY <1>1, <1>6 DEF ServeHeard, Serve, Heard, Goto, Result, Enough, ops, CallKnows, SameSide, HandlerKnows, TypeOK, Ended, Dual
  <2>4. StoreKnows'
    BY <1>1, <1>6 DEF ServeHeard, Serve, Heard, Goto, Result, Enough, ops, StoreKnows, TypeOK, Ended, Dual
  <2> QED BY <1>1, <2>1, <2>2, <2>3, <2>4 DEF IndInv
<1>7. CASE ServeUnheard(o)
  <2>1. SameSide'
    BY <1>1, <1>7 DEF ServeUnheard, Serve, Unheard, Enough, ops, SameSide, HandlerKnows, TypeOK, Ended, Dual
  <2>2. HandlerKnows'
    BY <1>1, <1>7 DEF ServeUnheard, Serve, Unheard, Enough, ops, HandlerKnows, SameSide, CallKnows, TypeOK, Ended, Dual
  <2>3. CallKnows'
    BY <1>1, <1>7 DEF ServeUnheard, Serve, Unheard, Enough, ops, CallKnows, SameSide, HandlerKnows, TypeOK, Ended, Dual
  <2>4. StoreKnows'
    BY <1>1, <1>7 DEF ServeUnheard, Serve, Unheard, Enough, ops, StoreKnows, TypeOK, Ended, Dual
  <2> QED BY <1>1, <2>1, <2>2, <2>3, <2>4 DEF IndInv
<1>8. CASE LoseCall(o)
  <2>1. SameSide'
    BY <1>1, <1>8 DEF LoseCall, stores, ops, SameSide, HandlerKnows, TypeOK, Ended, Dual
  <2>2. HandlerKnows'
    BY <1>1, <1>8 DEF LoseCall, stores, ops, HandlerKnows, SameSide, CallKnows, TypeOK, Ended, Dual
  <2>3. CallKnows'
    BY <1>1, <1>8 DEF LoseCall, stores, ops, CallKnows, SameSide, HandlerKnows, TypeOK, Ended, Dual
  <2>4. StoreKnows'
    BY <1>1, <1>8 DEF LoseCall, stores, ops, StoreKnows, TypeOK, Ended, Dual
  <2> QED BY <1>1, <2>1, <2>2, <2>3, <2>4 DEF IndInv
<1>9. CASE Timeout(o)
  <2>1. SameSide'
    BY <1>1, <1>9 DEF Timeout, Goto, Result, stores, ops, SameSide, HandlerKnows, TypeOK, Ended, Dual
  <2>2. HandlerKnows'
    BY <1>1, <1>9 DEF Timeout, Goto, Result, stores, ops, HandlerKnows, SameSide, CallKnows, TypeOK, Ended, Dual
  <2>3. CallKnows'
    BY <1>1, <1>9 DEF Timeout, Goto, Result, stores, ops, CallKnows, SameSide, HandlerKnows, TypeOK, Ended, Dual
  <2>4. StoreKnows'
    BY <1>1, <1>9 DEF Timeout, Goto, Result, stores, ops, StoreKnows, TypeOK, Ended, Dual
  <2> QED BY <1>1, <2>1, <2>2, <2>3, <2>4 DEF IndInv
<1>10. CASE InsertOrder(o)
  <2>1. SameSide'
    BY <1>1, <1>10 DEF InsertOrder, Goto, stores, ops, SameSide, HandlerKnows, TypeOK, Ended, Dual
  <2>2. HandlerKnows'
    BY <1>1, <1>10 DEF InsertOrder, Goto, stores, ops, HandlerKnows, SameSide, CallKnows, TypeOK, Ended, Dual
  <2>3. CallKnows'
    BY <1>1, <1>10 DEF InsertOrder, Goto, stores, ops, CallKnows, SameSide, HandlerKnows, TypeOK, Ended, Dual
  <2>4. StoreKnows'
    BY <1>1, <1>10 DEF InsertOrder, Goto, stores, ops, StoreKnows, TypeOK, Ended, Dual
  <2> QED BY <1>1, <2>1, <2>2, <2>3, <2>4 DEF IndInv
<1>11. CASE InsertFails(o)
  <2>1. SameSide'
    BY <1>1, <1>11 DEF InsertFails, Goto, stores, ops, SameSide, HandlerKnows, TypeOK, Ended, Dual
  <2>2. HandlerKnows'
    BY <1>1, <1>11 DEF InsertFails, Goto, stores, ops, HandlerKnows, SameSide, CallKnows, TypeOK, Ended, Dual
  <2>3. CallKnows'
    BY <1>1, <1>11 DEF InsertFails, Goto, stores, ops, CallKnows, SameSide, HandlerKnows, TypeOK, Ended, Dual
  <2>4. StoreKnows'
    BY <1>1, <1>11 DEF InsertFails, Goto, stores, ops, StoreKnows, TypeOK, Ended, Dual
  <2> QED BY <1>1, <2>1, <2>2, <2>3, <2>4 DEF IndInv
<1> QED BY <1>2, <1>3, <1>4, <1>5, <1>6, <1>7, <1>8, <1>9, <1>10, <1>11 DEF Handler

LEMMA IndInvRestart ==
  ASSUME Pinned, IndInv, Restart
  PROVE  IndInv'
<1>1. TypeOK'
  BY TypeRestart DEF IndInv
<1>2. UNCHANGED <<primary, secondary, present, via, took, calls, copy, mode>>
  BY Zenon DEF Restart, stores
<1>3. \A o \in Order : pc'[o] = IF o \in UnderWay THEN "failed" ELSE pc[o]
  BY DEF Restart
<1>4. SameSide'
  BY <1>2, <1>3 DEF IndInv, SameSide, Ended
<1>5. HandlerKnows'
  BY <1>2, <1>3 DEF IndInv, HandlerKnows, UnderWay, Ended
<1>6. CallKnows'
  BY <1>2, <1>3 DEF IndInv, CallKnows, UnderWay, Ended, TypeOK
<1>7. StoreKnows'
  BY <1>2 DEF IndInv, StoreKnows, Restart, TypeOK
<1> QED BY <1>1, <1>4, <1>5, <1>6, <1>7 DEF IndInv

LEMMA IndInvOperator ==
  ASSUME Quiet, IndInv, Operator
  PROVE  IndInv'
<1>1. TypeOK'
  BY TypeOperator DEF IndInv
<1>2. UNCHANGED <<pc, via, took, calls, primary>>
  BY DEF Operator, EnableDual, ListAll, BulkUpsert, BulkUpsertFails, EnableShadow, Cutover, BackOut,
         SetMode, Upsert, orders, stores
<1>3. HandlerKnows' /\ CallKnows'
  BY <1>2 DEF IndInv, HandlerKnows, CallKnows
<1>4. mode' # mode => Idle /\ ~copy.set /\ copy' = copy
  BY DEF Operator, EnableDual, ListAll, BulkUpsert, BulkUpsertFails, EnableShadow, Cutover, BackOut, SetMode, Ready
<1>5. SameSide'
  BY <1>2, <1>4 DEF IndInv, SameSide, Idle, UnderWay
<1>6. StoreKnows'
  <2>1. CASE EnableDual \/ EnableShadow \/ BackOut
    BY <2>1 DEF EnableDual, EnableShadow, BackOut, SetMode, Dual, stores, IndInv, StoreKnows
  <2>2. CASE Cutover
    BY <1>4, <2>2 DEF Cutover, SetMode, Ready, stores, IndInv, StoreKnows
  <2>3. CASE ListAll
    BY <2>3 DEF ListAll, Dual, stores, IndInv, StoreKnows
  <2>4. CASE BulkUpsert \/ BulkUpsertFails
    BY <2>4 DEF BulkUpsert, BulkUpsertFails, Upsert, NoCopy, stores, IndInv, StoreKnows
  <2> QED BY <2>1, <2>2, <2>3, <2>4 DEF Operator
<1> QED BY <1>1, <1>3, <1>5, <1>6 DEF IndInv

LEMMA IndInvNext == Quiet /\ Pinned /\ IndInv /\ [Next]_vars => IndInv'
<1> SUFFICES ASSUME Quiet, Pinned, IndInv, [Next]_vars PROVE IndInv'
  OBVIOUS
<1>1. CASE UNCHANGED vars
  <2>1. TypeOK'
    BY <1>1, TypeNext DEF IndInv
  <2> QED BY <1>1, <2>1 DEF vars, stores, orders, ops, IndInv, SameSide, HandlerKnows, CallKnows, StoreKnows
<1> QED BY <1>1, IndInvHandler, IndInvRestart, IndInvOperator DEF Next

\* If traffic is held while the operator acts and the mode survives a restart, what
\* handlers and calls under way take for granted is true.
THEOREM IndInvHolds ==
  ASSUME Quiet, Pinned
  PROVE  Spec => []IndInv
BY IndInvInit, IndInvNext, PTL DEF Spec

-----------------------------------------------------------------------------
(* The refinement of ItemStore.                                            *)

\* One order moves.
LEMMA Becomes ==
  ASSUME NEW o \in Order, NEW s,
         \A p \in Order : p # o => Shown(p)' = Shown(p), Shown(o)' = s, mode' = mode
  PROVE  Store!Become(o, s)
BY DEF Store!Become

\* None does.
LEMMA Stutters ==
  ASSUME \A p \in Order : Shown(p)' = Shown(p), Stock' = Stock,
         mode' = "secondary_only" <=> mode = "secondary_only"
  PROVE  UNCHANGED Store!vars
BY DEF Store!vars

\* What the handler of an order does not touch.
LEMMA Others ==
  ASSUME TypeOK, NEW o \in Order, Handler(o)
  PROVE  /\ mode' = mode
         /\ \A p \in Order : p # o => Shown(p)' = Shown(p)
<1>1. mode' = mode
  BY DEF Handler, Begin, DecrementPrimary, PrimaryFails, Mirror, ServeHeard, ServeUnheard, Serve,
         LoseCall, Timeout, InsertOrder, InsertFails, ops
<1>2. \A p \in Order : p # o => pc'[p] = pc[p]
  BY DEF Handler, Begin, DecrementPrimary, PrimaryFails, Mirror, ServeHeard, ServeUnheard, Heard, Unheard,
         LoseCall, Timeout, InsertOrder, InsertFails, Goto, TypeOK
<1>3. \A p \in Order : p # o => took'[p] = took[p]
  BY DEF Handler, Begin, DecrementPrimary, PrimaryFails, Mirror, ServeHeard, ServeUnheard, Serve,
         LoseCall, Timeout, InsertOrder, InsertFails, TypeOK
<1> QED BY <1>1, <1>2, <1>3 DEF Shown

\* The decrement in the monolith's database.
LEMMA PrimaryStep ==
  ASSUME IndInv, NEW o \in Order, DecrementPrimary(o)
  PROVE  [Store!Next]_(Store!vars)
<1> USE QtyIsNat
<1>1. /\ pc[o] = "primary" /\ ~took[o] /\ via[o] # "secondary_only"
      /\ primary \in Nat
  BY DEF IndInv, HandlerKnows, TypeOK, DecrementPrimary
<1>2. mode # "secondary_only" /\ mode' = mode
  BY <1>1 DEF IndInv, SameSide, Ended, DecrementPrimary, ops
<1>3. Stock = primary /\ Stock' = primary' /\ Shown(o) = "new"
  BY <1>1, <1>2 DEF Stock, Shown
<1>4. \A p \in Order : p # o => Shown(p)' = Shown(p)
  BY Others DEF Handler, IndInv
<1>5. pc'[o] = "mirror" \/ pc'[o] = Result(primary >= Qty[o])
  BY Zenon DEF DecrementPrimary, Goto, TypeOK, IndInv
<1>6. took'[o] = (primary >= Qty[o])
  BY Zenon DEF DecrementPrimary, TypeOK, IndInv
<1>7. CASE primary >= Qty[o]
  <2>1. Shown(o)' = "taken"
    <3>1. took'[o] /\ pc'[o] \in {"mirror", "insert"}
      BY <1>5, <1>6, <1>7 DEF Result
    <3> QED BY <3>1 DEF Shown
  <2>2. Stock' = Stock - Qty[o] /\ Stock >= Qty[o]
    BY <1>3, <1>7 DEF DecrementPrimary
  <2>3. Store!Become(o, "taken")
    BY <1>2, <1>4, <2>1, Becomes
  <2>4. Store!Take(o)
    BY <1>3, <2>2, <2>3 DEF Store!Take
  <2> QED BY <2>4 DEF Store!Next
<1>8. CASE ~(primary >= Qty[o])
  <2>1. Stock' = Stock /\ Stock < Qty[o]
    BY <1>1, <1>3, <1>8 DEF DecrementPrimary
  <2>2. ~took'[o] /\ pc'[o] \in {"mirror", "refused"}
    BY <1>5, <1>6, <1>8 DEF Result
  <2>3. CASE pc'[o] = "mirror"
    <3>1. Shown(o)' = Shown(o)
      BY <1>3, <2>2, <2>3 DEF Shown
    <3> QED BY <1>2, <1>4, <2>1, <3>1, Stutters
  <2>4. CASE pc'[o] = "refused"
    <3>1. Store!Become(o, "refused")
      BY <1>2, <1>4, <2>4, Becomes DEF Shown
    <3>2. Store!Refuse(o)
      BY <1>3, <2>1, <3>1 DEF Store!Refuse
    <3> QED BY <3>2 DEF Store!Next
  <2> QED BY <2>2, <2>3, <2>4
<1> QED BY <1>7, <1>8

\* The answer of the new store, or its end unheard.
LEMMA RemoteStep ==
  ASSUME IndInv, NEW o \in Order, Serve(o), Heard(o) \/ Unheard(o), via[o] = "secondary_only"
  PROVE  [Store!Next]_(Store!vars)
<1> USE QtyIsNat
<1>1. /\ o \in calls /\ ~took[o] /\ pc[o] \in {"remote", "failed"}
      /\ mode = "secondary_only" /\ mode' = mode /\ present /\ secondary \in Nat
  BY DEF IndInv, CallKnows, SameSide, StoreKnows, TypeOK, Serve, ops
<1>2. Stock = secondary /\ Stock' = secondary'
  BY <1>1 DEF Stock
<1>3. \A p \in Order : p # o => Shown(p)' = Shown(p)
  BY Others DEF Handler, ServeHeard, ServeUnheard, IndInv
<1>4. took'[o] = Enough(o)
  BY Zenon DEF Serve, TypeOK, IndInv
<1>5. \/ pc'[o] = pc[o]
      \/ pc[o] = "remote" /\ pc'[o] = Result(Enough(o))
  <2>1. CASE Unheard(o)
    BY <2>1 DEF Unheard
  <2>2. CASE Heard(o)
    BY <1>1, <2>2, Zenon DEF Heard, Goto, TypeOK, IndInv
  <2> QED BY <2>1, <2>2
<1>6. Shown(o) = IF pc[o] = "failed" THEN "failed" ELSE "new"
  BY <1>1 DEF Shown
<1>7. CASE Enough(o)
  <2>1. Stock' = Stock - Qty[o] /\ Stock >= Qty[o]
    BY <1>2, <1>7 DEF Serve, Enough
  <2>2. took'[o] /\ (pc'[o] = pc[o] \/ (pc[o] = "remote" /\ pc'[o] = "insert"))
    BY <1>4, <1>5, <1>7 DEF Result
  <2>3. Shown(o)' = IF Shown(o) = "new" THEN "taken" ELSE "spent"
    BY <1>1, <1>6, <2>2 DEF Shown
  <2>4. Store!Take(o)
    BY <1>1, <1>3, <1>6, <2>1, <2>3, Becomes DEF Store!Take
  <2> QED BY <2>4 DEF Store!Next
<1>8. CASE ~Enough(o)
  <2>1. Stock' = Stock /\ Stock < Qty[o]
    BY <1>1, <1>2, <1>8 DEF Serve, Enough
  <2>2. ~took'[o] /\ (pc'[o] = pc[o] \/ (pc[o] = "remote" /\ pc'[o] = "refused"))
    BY <1>4, <1>5, <1>8 DEF Result
  <2>3. CASE pc'[o] = pc[o]
    <3>1. Shown(o)' = Shown(o)
      BY <1>1, <2>2, <2>3 DEF Shown
    <3> QED BY <1>1, <1>3, <2>1, <3>1, Stutters
  <2>4. CASE pc[o] = "remote" /\ pc'[o] = "refused"
    <3>1. Store!Become(o, "refused")
      BY <1>1, <1>3, <2>4, Becomes DEF Shown
    <3>2. Store!Refuse(o)
      BY <1>6, <2>1, <2>4, <3>1 DEF Store!Refuse
    <3> QED BY <3>2 DEF Store!Next
  <2> QED BY <2>2, <2>3, <2>4
<1> QED BY <1>7, <1>8

\* The handler of a dual mode goes on as its decrement in the primary said.
LEMMA AnswerStep ==
  ASSUME IndInv, NEW o \in Order, pc[o] = "await", pc'[o] = Result(took[o]),
         took'[o] = took[o], UNCHANGED <<primary, mode>>,
         \A p \in Order : p # o => Shown(p)' = Shown(p)
  PROVE  [Store!Next]_(Store!vars)
<1>1. mode # "secondary_only"
  BY DEF IndInv, HandlerKnows, SameSide, Ended
<1>2. Stock = primary /\ Stock' = primary
  BY <1>1 DEF Stock
<1>3. CASE took[o]
  <2>1. Shown(o)' = Shown(o)
    BY <1>3 DEF Shown, Result
  <2> QED BY <1>2, <2>1, Stutters
<1>4. CASE ~took[o]
  <2>1. primary < Qty[o] /\ Shown(o) = "new"
    BY <1>4 DEF IndInv, HandlerKnows, Shown
  <2>2. Store!Become(o, "refused")
    BY <1>4, Becomes DEF Shown, Result
  <2>3. Store!Refuse(o)
    BY <1>2, <2>1, <2>2 DEF Store!Refuse
  <2> QED BY <2>3 DEF Store!Next
<1> QED BY <1>3, <1>4

\* A mirror is served.
LEMMA MirrorStep ==
  ASSUME IndInv, NEW o \in Order, Serve(o), Heard(o) \/ Unheard(o), via[o] # "secondary_only"
  PROVE  [Store!Next]_(Store!vars)
<1>1. UNCHANGED <<primary, mode, took>>
  BY DEF Serve, ops
<1>2. \A p \in Order : p # o => Shown(p)' = Shown(p)
  BY Others DEF Handler, ServeHeard, ServeUnheard, IndInv
<1>3. CASE Unheard(o)
  <2>1. mode # "secondary_only"
    BY DEF IndInv, SameSide, Serve
  <2>2. Stock' = Stock
    BY <1>1, <2>1 DEF Stock
  <2>3. Shown(o)' = Shown(o)
    BY <1>1, <1>3 DEF Unheard, Shown
  <2> QED BY <1>1, <1>2, <2>2, <2>3, Stutters
<1>4. CASE Heard(o)
  <2>1. pc[o] = "await"
    BY <1>4 DEF Heard, IndInv, HandlerKnows
  <2>2. pc'[o] = Result(took[o])
    BY <1>4, <2>1, Zenon DEF Heard, Goto, IndInv, TypeOK
  <2> QED BY <1>1, <1>2, <2>1, <2>2, AnswerStep
<1> QED BY <1>3, <1>4

\* Orders that were under way end in a 500.
LEMMA FailStep ==
  ASSUME NEW os \in SUBSET Order,
         \A p \in os : pc[p] \notin Ended /\ pc'[p] = "failed" /\ took'[p] = took[p],
         \A p \in Order \ os : Shown(p)' = Shown(p), Stock' = Stock, mode' = mode
  PROVE  Store!Next
<1>1. \A p \in os : Shown(p) = IF took[p] THEN "taken" ELSE "new"
  BY DEF Shown, Ended
<1>2. \A p \in os : Shown(p)' = IF took[p] THEN "spent" ELSE "failed"
  BY DEF Shown
<1>3. Store!Fail(os)
  BY <1>1, <1>2 DEF Store!Fail
<1> QED BY <1>3 DEF Store!Next

LEMMA HandlerRefines ==
  ASSUME IndInv, NEW o \in Order, Handler(o)
  PROVE  [Store!Next]_(Store!vars)
<1> USE QtyIsNat
<1>1. /\ mode' = mode
      /\ \A p \in Order : p # o => Shown(p)' = Shown(p)
  BY Others DEF IndInv
<1>2. ASSUME Shown(o)' = Shown(o), UNCHANGED stores PROVE [Store!Next]_(Store!vars)
  BY <1>1, <1>2, Stutters DEF Stock, stores
<1>3. ASSUME pc[o] \notin Ended, pc'[o] = "failed", took'[o] = took[o], UNCHANGED stores
      PROVE  [Store!Next]_(Store!vars)
  <2>1. Stock' = Stock
    BY <1>1, <1>3 DEF Stock, stores
  <2>2. \A p \in {o} : pc[p] \notin Ended /\ pc'[p] = "failed" /\ took'[p] = took[p]
    BY <1>3
  <2>3. \A p \in Order \ {o} : Shown(p)' = Shown(p)
    BY <1>1
  <2>4. {o} \in SUBSET Order
    OBVIOUS
  <2> QED BY <1>1, <2>1, <2>2, <2>3, <2>4, FailStep
<1>4. CASE Begin(o) \/ Mirror(o) \/ LoseCall(o)
  <2>1. Shown(o)' = Shown(o)
    BY <1>4 DEF Begin, Mirror, LoseCall, Goto, Shown, IndInv, TypeOK
  <2> QED BY <1>2, <1>4, <2>1 DEF Begin, Mirror, LoseCall
<1>5. CASE DecrementPrimary(o)
  BY <1>5, PrimaryStep
<1>6. CASE PrimaryFails(o)
  <2>1. pc[o] = "primary" /\ pc'[o] = "failed" /\ ~took[o] /\ mode # "secondary_only"
    BY <1>6 DEF PrimaryFails, Goto, IndInv, TypeOK, HandlerKnows, SameSide, Ended
  <2>2. CASE UNCHANGED <<primary, took>>
    BY <1>3, <1>6, <2>1, <2>2 DEF PrimaryFails, stores, Ended
  <2>3. CASE primary >= Qty[o] /\ primary' = primary - Qty[o] /\ took' = [took EXCEPT ![o] = TRUE]
    <3>1. Shown(o) = "new" /\ Shown(o)' = "spent"
      BY <2>1, <2>3 DEF Shown, IndInv, TypeOK
    <3>2. Stock >= Qty[o] /\ Stock' = Stock - Qty[o]
      BY <1>1, <2>1, <2>3 DEF Stock
    <3>3. Store!Spend(o)
      BY <1>1, <3>1, <3>2, Becomes DEF Store!Spend
    <3> QED BY <3>3 DEF Store!Next
  <2> QED BY <1>6, <2>2, <2>3 DEF PrimaryFails
<1>7. CASE ServeHeard(o) \/ ServeUnheard(o)
  BY <1>7, RemoteStep, MirrorStep DEF ServeHeard, ServeUnheard
<1>8. CASE Timeout(o)
  <2>1. UNCHANGED <<took, stores>>
    BY <1>8 DEF Timeout
  <2>2. CASE pc[o] = "await"
    <3>1. pc'[o] = Result(took[o])
      BY <1>8, <2>2, Zenon DEF Timeout, Goto, IndInv, TypeOK
    <3> QED BY <1>1, <2>1, <2>2, <3>1, AnswerStep DEF stores
  <2>3. CASE pc[o] = "remote"
    <3>1. pc'[o] = "failed"
      BY <1>8, <2>3 DEF Timeout, Goto, IndInv, TypeOK
    <3> QED BY <1>3, <2>1, <2>3, <3>1 DEF Ended
  <2> QED BY <1>8, <2>2, <2>3 DEF Timeout
<1>9. CASE InsertOrder(o)
  <2>1. Shown(o) = "taken" /\ Shown(o)' = "created"
    BY <1>9 DEF InsertOrder, Goto, Shown, IndInv, TypeOK, HandlerKnows
  <2>2. Store!Create(o)
    BY <1>1, <1>9, <2>1, Becomes DEF InsertOrder, Store!Create, Stock, stores
  <2> QED BY <2>2 DEF Store!Next
<1>10. CASE InsertFails(o)
  BY <1>3, <1>10 DEF InsertFails, Goto, Ended, IndInv, TypeOK
<1> QED BY <1>4, <1>5, <1>6, <1>7, <1>8, <1>9, <1>10 DEF Handler

LEMMA RestartRefines ==
  ASSUME Pinned, IndInv, Restart
  PROVE  Store!Next
<1>1. UNCHANGED <<primary, secondary, took, mode>>
  BY Zenon DEF Restart, stores
<1>2. \A o \in Order : pc'[o] = IF o \in UnderWay THEN "failed" ELSE pc[o]
  BY DEF Restart
<1>3. \A o \in Order \ UnderWay : Shown(o)' = Shown(o)
  BY <1>1, <1>2 DEF Shown
<1>4. Stock' = Stock
  BY <1>1 DEF Stock
<1>5. \A o \in UnderWay : pc[o] \notin Ended
  BY DEF UnderWay
<1> QED BY <1>1, <1>2, <1>3, <1>4, <1>5, FailStep DEF UnderWay

\* The cutover replaces the stock; whatever else the operator does, no client sees.
LEMMA OperatorRefines ==
  ASSUME IndInv, Operator
  PROVE  [Store!Next]_(Store!vars)
<1>1. UNCHANGED <<pc, via, took, calls, primary>>
  BY DEF Operator, EnableDual, ListAll, BulkUpsert, BulkUpsertFails, EnableShadow, Cutover, BackOut,
         SetMode, Upsert, orders, stores
<1>2. \A o \in Order : Shown(o)' = Shown(o)
  BY <1>1 DEF Shown
<1>3. CASE Cutover
  <2>1. mode # "secondary_only" /\ mode' = "secondary_only" /\ Stock' \in Nat
    BY <1>3 DEF Cutover, SetMode, Stock, IndInv, TypeOK, stores
  <2>2. Store!Replace
    BY <1>2, <2>1 DEF Store!Replace
  <2> QED BY <2>2 DEF Store!Next
<1>4. CASE EnableDual \/ EnableShadow \/ BackOut
  <2>1. Stock' = Stock /\ mode # "secondary_only" /\ mode' # "secondary_only"
    BY <1>1, <1>4 DEF EnableDual, EnableShadow, BackOut, SetMode, Stock, Dual
  <2> QED BY <1>2, <2>1, Stutters
<1>5. CASE ListAll
  <2>1. Stock' = Stock /\ mode' = mode
    BY <1>1, <1>5 DEF ListAll, Stock, stores
  <2> QED BY <1>2, <2>1, Stutters
<1>6. CASE BulkUpsert \/ BulkUpsertFails
  <2>1. Stock' = Stock /\ mode' = mode
    BY <1>1, <1>6 DEF BulkUpsert, BulkUpsertFails, Stock, IndInv, StoreKnows
  <2> QED BY <1>2, <2>1, Stutters
<1> QED BY <1>3, <1>4, <1>5, <1>6 DEF Operator

LEMMA StoreInit == Init => Store!Init
BY DEF Init, Store!Init, Stock, Shown

LEMMA StoreNext ==
  ASSUME Pinned
  PROVE  IndInv /\ [Next]_vars => [Store!Next]_(Store!vars)
<1> SUFFICES ASSUME IndInv, [Next]_vars PROVE [Store!Next]_(Store!vars)
  OBVIOUS
<1>1. CASE UNCHANGED vars
  BY <1>1, Stutters DEF vars, stores, orders, ops, Shown, Stock
<1> QED BY <1>1, HandlerRefines, RestartRefines, OperatorRefines DEF Next

\* If traffic is held while the operator acts and the mode survives a restart,
\* clients see one store throughout the migration, whose stock the cutover replaces.
THEOREM RefinesStoreHolds ==
  ASSUME Quiet, Pinned
  PROVE  Spec => RefinesStore
BY StoreInit, StoreNext, IndInvHolds, PTL DEF Spec, Store!Spec, RefinesStore

-----------------------------------------------------------------------------
(* The stock across the cutover.                                           *)

\* Up to the cutover there is no gap, and then there is none that nothing warned of.
GapKnows == (mode # "secondary_only" => gap = 0) /\ (gap # 0 => warned)

\* What only the cutover does.
LEMMA CutoverAlone ==
  ASSUME Pinned, [Next]_vars, ~Cutover
  PROVE  UNCHANGED cut /\ (mode' = "secondary_only" <=> mode = "secondary_only")
<1>1. CASE UNCHANGED vars
  BY <1>1 DEF vars, ops
<1>2. ASSUME NEW o \in Order, Handler(o) PROVE UNCHANGED <<cut, mode>>
  BY <1>2 DEF Handler, Begin, DecrementPrimary, PrimaryFails, Mirror, ServeHeard, ServeUnheard, Serve,
         LoseCall, Timeout, InsertOrder, InsertFails, ops
<1>3. CASE Restart
  BY <1>3 DEF Restart
<1>4. CASE Operator
  BY <1>4 DEF Operator, EnableDual, ListAll, BulkUpsert, BulkUpsertFails, EnableShadow, BackOut, SetMode, Dual
<1> QED BY <1>1, <1>2, <1>3, <1>4 DEF Next

\* Traffic is held, so that the two stores are the same unless something warned.
LEMMA GapNext ==
  ASSUME Quiet, Pinned, TypeOK, NoSilentDrift, GapKnows, [Next]_vars
  PROVE  GapKnows'
<1>1. CASE Cutover
  <2>1. mode' = "secondary_only" /\ gap' = secondary - primary /\ warned' = (erred \/ restarted)
    BY <1>1 DEF Cutover, SetMode
  <2>2. ~erred /\ ~restarted => secondary = primary
    BY <1>1 DEF Cutover, SetMode, Ready, NoSilentDrift, Dual
  <2> QED BY <2>1, <2>2 DEF GapKnows, TypeOK
<1>2. CASE ~Cutover
  BY <1>2, CutoverAlone DEF GapKnows, cut
<1> QED BY <1>1, <1>2

\* What is missing went to the orders that are supplied.
Balance ==
  /\ IsFiniteSet(UnitsOf(Qty, Store!Supplied))
  /\ Stock >= 0 /\ Stock + Total(Qty, Store!Supplied) = InitStock + gap

LEMMA BalanceInit == Init => Balance
<1> SUFFICES ASSUME Init PROVE Balance
  OBVIOUS
<1>1. Store!Supplied = {}
  BY DEF Init, Store!Supplied, Shown
<1>2. Stock = InitStock /\ InitStock \in Nat /\ gap = 0
  BY MigrationAssumption DEF Init, Stock
<1> QED BY <1>1, <1>2, TotalEmpty DEF Balance

\* One order is supplied, or none is, and the stock says so.
LEMMA BalanceStep ==
  ASSUME TypeOK, Balance, [Store!Next]_(Store!vars),
         gap' = gap, mode' = "secondary_only" <=> mode = "secondary_only"
  PROVE  Balance'
<1>1. /\ IsFiniteSet(UnitsOf(Qty, Store!Supplied)) /\ Total(Qty, Store!Supplied) \in Nat
      /\ Stock \in Nat /\ InitStock \in Nat /\ gap \in Int
      /\ Stock + Total(Qty, Store!Supplied) = InitStock + gap
  BY MigrationAssumption, TotalNat DEF Balance, TypeOK, Stock
<1>2. ASSUME Store!Supplied' = Store!Supplied, Stock' = Stock PROVE Balance'
  BY <1>2 DEF Balance
<1>3. ASSUME NEW o \in Order, Store!Take(o) \/ Store!Spend(o) PROVE Balance'
  <2>1. o \notin Store!Supplied /\ Stock >= Qty[o] /\ Stock' = Stock - Qty[o] /\ Qty[o] \in Nat
    BY <1>3, QtyIsNat DEF Store!Take, Store!Spend, Store!Supplied
  <2>2. Store!Supplied' = Store!Supplied \union {o}
    BY <1>3 DEF Store!Take, Store!Spend, Store!Become, Store!Supplied
  <2>3. /\ IsFiniteSet(UnitsOf(Qty, Store!Supplied'))
        /\ Total(Qty, Store!Supplied') = Total(Qty, Store!Supplied) + Qty[o]
    BY <1>1, <2>1, <2>2, TotalAdd
  <2>4. Stock' >= 0 /\ Stock' + Total(Qty, Store!Supplied') = InitStock + gap'
    BY <1>1, <2>1, <2>3
  <2> QED BY <2>3, <2>4 DEF Balance
<1>4. ASSUME NEW o \in Order, Store!Refuse(o) \/ Store!Create(o) PROVE Balance'
  <2>1. Store!Supplied' = Store!Supplied
    BY <1>4 DEF Store!Refuse, Store!Create, Store!Become, Store!Supplied
  <2> QED BY <1>2, <1>4, <2>1 DEF Store!Refuse, Store!Create
<1>5. ASSUME NEW os \in SUBSET Order, Store!Fail(os) PROVE Balance'
  <2>1. Store!Supplied' = Store!Supplied
    BY <1>5 DEF Store!Fail, Store!Supplied
  <2> QED BY <1>2, <1>5, <2>1 DEF Store!Fail
<1>6. CASE UNCHANGED Store!vars
  <2>1. Store!Supplied' = Store!Supplied
    BY <1>6 DEF Store!vars, Store!Supplied
  <2> QED BY <1>2, <1>6, <2>1 DEF Store!vars
<1>7. ~Store!Replace
  BY DEF Store!Replace
<1> QED BY <1>3, <1>4, <1>5, <1>6, <1>7 DEF Store!Next

LEMMA BalanceNext ==
  ASSUME Pinned, TypeOK, IndInv, GapKnows, Balance, [Next]_vars
  PROVE  Balance'
<1>1. CASE Cutover
  <2>1. \A o \in Order : Shown(o)' = Shown(o)
    BY <1>1 DEF Cutover, SetMode, orders, Shown
  <2>2. Store!Supplied' = Store!Supplied
    BY <2>1 DEF Store!Supplied
  <2>3. /\ Stock = primary /\ Stock' = secondary /\ primary \in Nat /\ secondary \in Nat
        /\ gap = 0 /\ gap' = secondary - primary
    BY <1>1 DEF Cutover, SetMode, Stock, GapKnows, stores, TypeOK
  <2>4. Total(Qty, Store!Supplied) \in Nat /\ InitStock \in Nat
    BY MigrationAssumption, TotalNat DEF Balance
  <2> QED BY <2>2, <2>3, <2>4 DEF Balance
<1>2. CASE ~Cutover
  BY <1>2, CutoverAlone, StoreNext, BalanceStep DEF cut
<1> QED BY <1>1, <1>2

\* Under the same assumptions no order is supplied twice and no stock is lost or
\* sold beyond what there was, whichever store counts, but for what the cutover adds
\* or drops; and it does neither unless an error or a restart had warned of it.
THEOREM StockConservedHolds ==
  ASSUME Quiet, Pinned
  PROVE  Spec => []StockConserved
<1>1. Init => GapKnows
  BY DEF Init, GapKnows
<1>2. TypeOK /\ IndInv /\ NoSilentDrift /\ GapKnows /\ Balance /\ [Next]_vars => GapKnows' /\ Balance'
  BY GapNext, BalanceNext
<1>3. GapKnows /\ Balance => StockConserved
  BY DEF GapKnows, Balance, StockConserved
<1> QED BY <1>1, <1>2, <1>3, BalanceInit, TypeCorrect, IndInvHolds, NoSilentDriftHolds, PTL DEF Spec
=============================================================================
