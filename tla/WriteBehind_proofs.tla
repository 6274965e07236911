------------------------- MODULE WriteBehind_proofs -------------------------
(***************************************************************************)
(* Proofs about WriteBehind, for any writes, consumers, bounds and faults.  *)
(***************************************************************************)
EXTENDS WriteBehind, FiniteSetTheorems, TLAPS

\* Entries behind the group's last delivered id.
Behind == {fresh[i] : i \in 1..Len(fresh)}

\* An entry that has not been sent to Redis is nowhere.
Unsent ==
  \A e \in Entry : req[e] \in {"new", "checked"} =>
    /\ e \notin stream /\ e \notin Behind /\ e \notin pel
    /\ \A k \in Consumer, x \in Kind : e \notin Hands(k, x)

\* The group delivers an entry once: it is behind the last id once, and neither
\* pending nor in anybody's hands then.
DeliveredOnce ==
  /\ \A i, j \in 1..Len(fresh) : fresh[i] = fresh[j] => i = j
  /\ Behind \intersect pel = {}
  /\ \A k \in Consumer, x \in Kind : Behind \intersect Hands(k, x) = {}

\* XDEL and XACK come after the INSERT, and of a single entry, whose commands are
\* not in a pipeline, XACK comes after an XDEL that has succeeded.
InOrder ==
  \A k \in Consumer, x \in Kind :
    /\ loop[k][x].at \in {"xdel", "xack"} => \A e \in loop[k][x].cur : rows[e] > 0
    /\ loop[k][x].at = "xack" /\ ~bulk => loop[k][x].cur \intersect stream = {}

\* What is idle for 60 s is in nobody's hands.
IdleIsFree == \A k \in Consumer, x \in Kind : stale \intersect Hands(k, x) = {}

IndInv ==
  /\ TypeOK /\ Unsent /\ DeliveredOnce /\ InOrder
  /\ AcceptedIsKept
  /\ Timely => IdleIsFree /\ OneOwner

-----------------------------------------------------------------------------
(* How a loop changes, and that the others do not.                         *)

Places == {"poll", "insert", "xdel", "xack", "del"}
LoopRec == [todo : SUBSET Entry, cur : SUBSET Entry, at : Places]
LoopType == [Consumer -> [Kind -> LoopRec]]
Others(k, x) ==
  \A j \in Consumer, y \in Kind : <<j, y>> # <<k, x>> => loop'[j][y] = loop[j][y]

LEMMA SetLoop ==
  ASSUME loop \in LoopType, NEW k \in Consumer, NEW x \in Kind, NEW r \in LoopRec, Set(k, x, r)
  PROVE  loop' \in LoopType /\ loop'[k][x] = r /\ Others(k, x)
BY DEF Set, LoopType, Others

LEMMA WithAt ==
  ASSUME NEW r \in LoopRec, NEW l \in Places
  PROVE  [r EXCEPT !.at = l] = [todo |-> r.todo, cur |-> r.cur, at |-> l]
BY DEF LoopRec

LEMMA MoveLoop ==
  ASSUME loop \in LoopType, NEW k \in Consumer, NEW x \in Kind, NEW l \in Places, Move(k, x, l)
  PROVE  /\ loop' \in LoopType /\ Others(k, x)
         /\ loop'[k][x].todo = loop[k][x].todo /\ loop'[k][x].cur = loop[k][x].cur
         /\ loop'[k][x].at = l
<1> DEFINE r == [todo |-> loop[k][x].todo, cur |-> loop[k][x].cur, at |-> l]
           e == [loop[k][x] EXCEPT !.at = l]
<1>1. loop[k][x] \in LoopRec
  BY DEF LoopType
<1>2. r \in LoopRec /\ e = r
  BY <1>1, WithAt DEF LoopRec
<1>3. loop' = [loop EXCEPT ![k][x] = e]
  BY Zenon DEF Move
<1> HIDE DEF e
<1>4. Set(k, x, r)
  BY <1>2, <1>3 DEF Set
<1> HIDE DEF r
<1>5. loop' \in LoopType /\ loop'[k][x] = r /\ Others(k, x)
  BY <1>2, <1>4, SetLoop
<1> QED BY <1>5 DEF r

LEMMA TakeLoop ==
  ASSUME loop \in LoopType, NEW k \in Consumer, NEW x \in Kind, NEW es \in SUBSET Entry, Take(k, x, es)
  PROVE  /\ loop' \in LoopType /\ Others(k, x)
         /\ loop'[k][x].at = "insert"
         /\ loop'[k][x].todo \union loop'[k][x].cur = es
         /\ loop'[k][x].todo \intersect loop'[k][x].cur = {}
<1>1. PICK u \in Units(es) : Set(k, x, [todo |-> es \ u, cur |-> u, at |-> "insert"])
  BY DEF Take
<1> DEFINE r == [todo |-> es \ u, cur |-> u, at |-> "insert"]
<1>2. u \subseteq es
  BY <1>1 DEF Units
<1>3. r \in LoopRec /\ r.at = "insert" /\ r.todo \union r.cur = es /\ r.todo \intersect r.cur = {}
  BY <1>2 DEF LoopRec, Places
<1>4. Set(k, x, r)
  BY <1>1
<1> HIDE DEF r
<1> QED BY <1>3, <1>4, SetLoop

LEMMA RestLoop ==
  ASSUME loop \in LoopType, NEW k \in Consumer, NEW x \in Kind, Rest(k, x)
  PROVE  /\ loop' \in LoopType /\ Others(k, x)
         /\ loop'[k][x].at \in {"poll", "insert"}
         /\ loop'[k][x].todo \union loop'[k][x].cur \subseteq loop[k][x].todo
         /\ loop'[k][x].todo \intersect loop'[k][x].cur = {}
<1>1. loop[k][x].todo \subseteq Entry
  BY DEF LoopType, LoopRec
<1>2. CASE Set(k, x, Idle)
  <2>1. Idle \in LoopRec /\ Idle.at = "poll" /\ Idle.todo = {} /\ Idle.cur = {}
    BY DEF Idle, LoopRec, Places
  <2> QED BY <1>2, <2>1, SetLoop
<1>3. CASE \E u \in Units(loop[k][x].todo) :
             Set(k, x, [todo |-> loop[k][x].todo \ u, cur |-> u, at |-> "insert"])
  <2>1. Take(k, x, loop[k][x].todo)
    BY <1>3 DEF Take
  <2> QED BY <1>1, <2>1, TakeLoop
<1> QED BY <1>2, <1>3 DEF Rest

-----------------------------------------------------------------------------
(* The entries behind the group's last delivered id.                       *)

LEMMA Appended ==
  ASSUME fresh \in Seq(Entry), NEW e \in Entry, fresh' = Append(fresh, e)
  PROVE  /\ fresh' \in Seq(Entry)
         /\ Behind' = Behind \union {e}
         /\ e \notin Behind /\ (\A i, j \in 1..Len(fresh) : fresh[i] = fresh[j] => i = j)
              => \A i, j \in 1..Len(fresh') : fresh'[i] = fresh'[j] => i = j
<1>1. /\ fresh' \in Seq(Entry) /\ Len(fresh') = Len(fresh) + 1 /\ Len(fresh) \in Nat
      /\ \A i \in 1..Len(fresh) : fresh'[i] = fresh[i]
      /\ fresh'[Len(fresh) + 1] = e
  OBVIOUS
<1>2. 1..Len(fresh') = (1..Len(fresh)) \union {Len(fresh) + 1}
  BY <1>1
<1>3. Behind' = Behind \union {e}
  <2>1. \A z : z \in Behind' <=> \E i \in 1..Len(fresh') : z = fresh'[i]
    BY DEF Behind
  <2>2. \A z : z \in Behind <=> \E i \in 1..Len(fresh) : z = fresh[i]
    BY DEF Behind
  <2> QED BY <1>1, <1>2, <2>1, <2>2
<1>4. \A i \in 1..Len(fresh) : fresh[i] \in Behind
  BY DEF Behind
<1>5. ASSUME e \notin Behind, \A i, j \in 1..Len(fresh) : fresh[i] = fresh[j] => i = j,
             NEW i \in 1..Len(fresh'), NEW j \in 1..Len(fresh'), fresh'[i] = fresh'[j]
      PROVE  i = j
  BY <1>1, <1>2, <1>4, <1>5
<1> QED BY <1>1, <1>3, <1>5

LEMMA DeliverFresh ==
  ASSUME fresh \in Seq(Entry), pel \subseteq Entry, WriteBehindAssumption, Deliver
  PROVE  /\ fresh' \in Seq(Entry) /\ pel' \subseteq Entry /\ pel \subseteq pel'
         /\ pel' \ pel \subseteq Behind
         /\ Behind' \subseteq Behind /\ Behind \subseteq Behind' \union pel'
         /\ (\A i, j \in 1..Len(fresh) : fresh[i] = fresh[j] => i = j)
              => /\ \A i, j \in 1..Len(fresh') : fresh'[i] = fresh'[j] => i = j
                 /\ Behind' \intersect pel' \subseteq pel
<1> DEFINE n == IF Len(fresh) < Count THEN Len(fresh) ELSE Count
<1>1. n \in Nat /\ n <= Len(fresh) /\ Len(fresh) \in Nat
  BY DEF WriteBehindAssumption
<1>2. fresh' = SubSeq(fresh, n + 1, Len(fresh)) /\ pel' = pel \union {fresh[i] : i \in 1..n}
  BY DEF Deliver
<1> HIDE DEF n
<1>3. /\ fresh' \in Seq(Entry) /\ Len(fresh') = Len(fresh) - n
      /\ \A i \in 1..Len(fresh') : fresh'[i] = fresh[i + n] /\ i + n \in 1..Len(fresh)
  BY <1>1, <1>2
<1>4. \A z : z \in Behind <=> \E i \in 1..Len(fresh) : z = fresh[i]
  BY DEF Behind
<1>5. \A z : z \in Behind' <=> \E i \in 1..Len(fresh') : z = fresh'[i]
  BY DEF Behind
<1>6. \A i \in 1..n : i \in 1..Len(fresh) /\ fresh[i] \in Entry
  BY <1>1
<1>7. pel' \subseteq Entry /\ pel \subseteq pel' /\ pel' \ pel \subseteq Behind
  BY <1>2, <1>4, <1>6
<1>8. Behind' \subseteq Behind
  BY <1>3, <1>4, <1>5
<1>9. Behind \subseteq Behind' \union pel'
  <2> SUFFICES ASSUME NEW i \in 1..Len(fresh), fresh[i] \notin pel' PROVE fresh[i] \in Behind'
    BY <1>4
  <2>1. i \notin 1..n
    BY <1>2
  <2>2. i - n \in 1..Len(fresh') /\ (i - n) + n = i
    BY <1>1, <1>3, <2>1
  <2> QED BY <1>3, <1>5, <2>2
<1>10. ASSUME \A i, j \in 1..Len(fresh) : fresh[i] = fresh[j] => i = j
       PROVE  /\ \A i, j \in 1..Len(fresh') : fresh'[i] = fresh'[j] => i = j
              /\ Behind' \intersect pel' \subseteq pel
  <2>1. ASSUME NEW i \in 1..Len(fresh'), NEW j \in 1..Len(fresh'), fresh'[i] = fresh'[j]
        PROVE  i = j
    <3>1. i + n = j + n
      BY <1>3, <1>10, <2>1
    <3> QED BY <1>1, <1>3, <3>1
  <2>2. ASSUME NEW i \in 1..Len(fresh'), NEW j \in 1..n PROVE fresh'[i] # fresh[j]
    <3>1. i + n # j /\ i + n \in 1..Len(fresh) /\ j \in 1..Len(fresh)
      BY <1>1, <1>3, <1>6, <2>2
    <3> QED BY <1>3, <1>10, <3>1
  <2>3. ASSUME NEW z \in Behind', z \in pel', z \notin pel PROVE FALSE
    <3>1. PICK i \in 1..Len(fresh') : z = fresh'[i]
      BY <1>5
    <3>2. PICK j \in 1..n : z = fresh[j]
      BY <1>2, <2>3
    <3> QED BY <2>2, <3>1, <3>2
  <2> QED BY <2>1, <2>3
<1> QED BY <1>3, <1>7, <1>8, <1>9, <1>10

-----------------------------------------------------------------------------
(* Type correctness.                                                       *)

LEMMA LoopTyped == TypeOK => loop \in LoopType
BY DEF TypeOK, LoopType, LoopRec, Places

LEMMA TypeLoop == loop' \in LoopType =>
  loop' \in [Consumer -> [Kind -> [todo : SUBSET Entry, cur : SUBSET Entry,
                                   at : {"poll", "insert", "xdel", "xack", "del"}]]]
BY DEF LoopType, LoopRec, Places

\* What an INSERT does to the rows, and that none goes away.
LEMMA RowsGrow ==
  ASSUME TypeOK, NEW cur \in SUBSET Entry, NEW r,
         r = [e \in Entry |-> IF e \in cur THEN Once[e] ELSE rows[e]]
  PROVE  /\ r \in [Entry -> 0..2]
         /\ \A e \in Entry : rows[e] > 0 => r[e] > 0
         /\ \A e \in cur : r[e] > 0
BY DEF TypeOK, Once

LEMMA TypeInit == Init => TypeOK
<1> SUFFICES ASSUME Init PROVE TypeOK
  OBVIOUS
<1>1. loop \in [Consumer -> [Kind -> [todo : SUBSET Entry, cur : SUBSET Entry,
                                   at : {"poll", "insert", "xdel", "xack", "del"}]]]
  BY DEF Init, Idle
<1>2. fresh \in Seq(Entry)
  BY DEF Init
<1>3. rows \in [Entry -> 0..2]
  BY DEF Init
<1> QED BY <1>1, <1>2, <1>3 DEF Init, TypeOK

LEMMA TypeApi ==
  ASSUME TypeOK, NEW e \in Entry, CheckDepth(e) \/ Enqueue(e) \/ EnqueueFails(e) \/ Age(e)
  PROVE  TypeOK'
<1>1. CASE CheckDepth(e)
  BY <1>1 DEF CheckDepth, TypeOK, queue
<1>2. ASSUME Xadd(e) PROVE stream' \subseteq Entry /\ fresh' \in Seq(Entry)
  BY <1>2 DEF Xadd, TypeOK
<1>3. CASE Enqueue(e)
  BY <1>2, <1>3 DEF Enqueue, Xadd, TypeOK
<1>4. CASE EnqueueFails(e)
  BY <1>2, <1>4 DEF EnqueueFails, Xadd, TypeOK, queue
<1>5. CASE Age(e)
  BY <1>5 DEF Age, TypeOK, api
<1> QED BY <1>1, <1>3, <1>4, <1>5

LEMMA TypeWork ==
  ASSUME TypeOK, NEW k \in Consumer, NEW x \in Kind, Work(k, x)
  PROVE  TypeOK'
<1>1. loop \in LoopType
  BY LoopTyped
<1>2. loop[k][x].cur \subseteq Entry
  BY <1>1 DEF LoopType, LoopRec
<1>3. loop' \in LoopType
  BY <1>1, MoveLoop, RestLoop DEF Work, Insert, InsertFails, Xdel, XdelFails, Xack, XackFails, Invalidate, Places
<1>4. rows' \in [Entry -> 0..2]
  <2>1. CASE Insert(k, x)
    BY <1>2, <2>1, RowsGrow DEF Insert
  <2>2. CASE InsertFails(k, x)
    BY <1>2, <2>2, RowsGrow DEF InsertFails, TypeOK
  <2>3. CASE UNCHANGED rows
    BY <2>3 DEF TypeOK
  <2> QED BY <2>1, <2>2, <2>3 DEF Work, Xdel, XdelFails, Xack, XackFails, Invalidate
<1> USE <1>3, <1>4, TypeLoop
<1>5. CASE Insert(k, x)
  BY <1>5 DEF Insert, TypeOK, api, queue
<1>6. CASE InsertFails(k, x)
  BY <1>6 DEF InsertFails, TypeOK, api, queue
<1>7. CASE Xdel(k, x)
  BY <1>7 DEF Xdel, TypeOK, api
<1>8. CASE XdelFails(k, x)
  BY <1>8 DEF XdelFails, TypeOK, api
<1>9. CASE Xack(k, x)
  BY <1>9 DEF Xack, TypeOK, api
<1>10. CASE XackFails(k, x)
  BY <1>10 DEF XackFails, TypeOK, api
<1>11. CASE Invalidate(k, x)
  BY <1>11 DEF Invalidate, TypeOK, api, queue
<1> QED BY <1>5, <1>6, <1>7, <1>8, <1>9, <1>10, <1>11 DEF Work

\* What the two reading commands do to the queue.
LEMMA TypeQueue ==
  ASSUME TypeOK, Deliver \/ TakeOver
  PROVE  /\ stream' \subseteq Entry /\ group' \in BOOLEAN
         /\ fresh' \in Seq(Entry) /\ pel' \subseteq Entry /\ stale' \subseteq pel'
<1>1. CASE Deliver
  <2>1. fresh' \in Seq(Entry) /\ pel' \subseteq Entry /\ pel \subseteq pel'
    BY <1>1, DeliverFresh, WriteBehindAssumption DEF TypeOK
  <2> QED BY <1>1, <2>1 DEF Deliver, TypeOK
<1>2. CASE TakeOver
  BY <1>2 DEF TakeOver, TypeOK
<1> QED BY <1>1, <1>2

LEMMA TypeConsumer ==
  ASSUME TypeOK, NEW k \in Consumer,
         Boot(k) \/ ReadNew(k) \/ AutoClaim(k) \/ AnswerLost(k) \/ Crash(k)
  PROVE  TypeOK'
<1> loop \in LoopType
  BY LoopTyped
<1>1. CASE Boot(k)
  BY <1>1 DEF Boot, TypeOK, api
<1>2. CASE ReadNew(k)
  <2>1. Deliver /\ Take(k, "read", pel' \ pel)
    BY <1>2 DEF ReadNew
  <2>2. loop' \in LoopType
    BY <2>1, TypeQueue, TakeLoop DEF Kind
  <2> QED BY <1>2, <2>1, <2>2, TypeQueue, TypeLoop DEF ReadNew, TypeOK, api
<1>3. CASE AutoClaim(k)
  <2>1. TakeOver
    BY <1>3 DEF AutoClaim
  <2>2. CASE UNCHANGED loop
    BY <1>3, <2>1, <2>2, TypeQueue, TypeLoop DEF AutoClaim, TypeOK, api
  <2>3. CASE Take(k, "claim", Claimed)
    <3>1. loop' \in LoopType
      BY <2>3, TakeLoop DEF Kind, Claimed, TypeOK
    <3> QED BY <1>3, <2>1, <3>1, TypeQueue, TypeLoop DEF AutoClaim, TypeOK, api
  <2> QED BY <1>3, <2>2, <2>3 DEF AutoClaim
<1>4. CASE AnswerLost(k)
  BY <1>4, TypeQueue DEF AnswerLost, TypeOK, api
<1>5. CASE Crash(k)
  <2>1. [x \in Kind |-> Idle] \in [Kind -> LoopRec]
    BY DEF Idle, LoopRec, Places
  <2>2. loop' \in LoopType
    BY <1>5, <2>1 DEF Crash, LoopType
  <2> QED BY <1>5, <2>2, TypeLoop DEF Crash, TypeOK, api, queue
<1> QED BY <1>1, <1>2, <1>3, <1>4, <1>5

LEMMA TypeNext == TypeOK /\ [Next]_vars => TypeOK'
<1> SUFFICES ASSUME TypeOK, [Next]_vars PROVE TypeOK'
  OBVIOUS
<1>1. CASE UNCHANGED vars
  BY <1>1 DEF vars, queue, TypeOK
<1>2. CASE Next
  BY <1>2, TypeApi, TypeConsumer, TypeWork DEF Next
<1> QED BY <1>1, <1>2

\* Type correctness: entries, rows and loops stay what XREADGROUP, XAUTOCLAIM and
\* the INSERTs can make of them, and what is idle is pending.
THEOREM TypeCorrect == Spec => []TypeOK
BY TypeInit, TypeNext, PTL DEF Spec

-----------------------------------------------------------------------------
(* The inductive invariant.                                                *)

LEMMA InvInit == Init => IndInv
<1> SUFFICES ASSUME Init PROVE IndInv
  OBVIOUS
<1>1. \A k \in Consumer, x \in Kind : Hands(k, x) = {} /\ loop[k][x].at = "poll"
  BY DEF Init, Idle, Hands
<1>2. Behind = {} /\ Len(fresh) = 0
  BY DEF Init, Behind
<1>3. Unsent /\ DeliveredOnce /\ IdleIsFree
  BY <1>1, <1>2 DEF Init, Unsent, DeliveredOnce, IdleIsFree
<1>4. InOrder /\ OneOwner
  BY <1>1 DEF InOrder, OneOwner
<1>5. AcceptedIsKept
  BY DEF Init, AcceptedIsKept
<1> QED BY <1>3, <1>4, <1>5, TypeInit DEF IndInv

\* Entries that are given out of hands, or leave the queue, are in nobody's way.
LEMMA Shrinking ==
  ASSUME IndInv, UNCHANGED <<req, fresh>>,
         stream' \subseteq stream, pel' \subseteq pel, stale' \subseteq stale,
         \A k \in Consumer, x \in Kind : Hands(k, x)' \subseteq Hands(k, x)
  PROVE  Unsent' /\ DeliveredOnce' /\ (Timely => IdleIsFree' /\ OneOwner')
<1>1. Behind' = Behind
  BY DEF Behind
<1>2. Unsent'
  BY <1>1 DEF IndInv, Unsent
<1>3. DeliveredOnce'
  BY <1>1 DEF IndInv, DeliveredOnce
<1>4. Timely => IdleIsFree'
  BY DEF IndInv, IdleIsFree
<1>5. Timely => OneOwner'
  BY DEF IndInv, OneOwner
<1> QED BY <1>2, <1>3, <1>4, <1>5

\* One loop has moved, and knows what its new place says.
LEMMA OrderKept ==
  ASSUME IndInv, NEW k \in Consumer, NEW x \in Kind, Others(k, x), bulk' = bulk,
         stream' \subseteq stream, \A e \in Entry : rows[e] > 0 => rows'[e] > 0,
         loop'[k][x].at \in {"xdel", "xack"} => \A e \in loop'[k][x].cur : rows'[e] > 0,
         loop'[k][x].at = "xack" /\ ~bulk => loop'[k][x].cur \intersect stream' = {}
  PROVE  InOrder'
<1> SUFFICES ASSUME NEW j \in Consumer, NEW y \in Kind
             PROVE  /\ loop'[j][y].at \in {"xdel", "xack"} => \A e \in loop'[j][y].cur : rows'[e] > 0
                    /\ loop'[j][y].at = "xack" /\ ~bulk => loop'[j][y].cur \intersect stream' = {}
  BY DEF InOrder
<1>1. CASE <<j, y>> = <<k, x>>
  BY <1>1
<1>2. CASE <<j, y>> # <<k, x>>
  <2>1. loop'[j][y] = loop[j][y]
    BY <1>2 DEF Others
  <2>2. loop[j][y].cur \subseteq Entry
    BY LoopTyped DEF IndInv, LoopType, LoopRec
  <2> QED BY <2>1, <2>2 DEF IndInv, InOrder
<1> QED BY <1>1, <1>2

LEMMA HandsOf ==
  ASSUME NEW k \in Consumer, NEW x \in Kind, Others(k, x), Hands(k, x)' \subseteq Hands(k, x)
  PROVE  \A j \in Consumer, y \in Kind : Hands(j, y)' \subseteq Hands(j, y)
BY DEF Others, Hands

LEMMA InvWork ==
  ASSUME IndInv, NEW k \in Consumer, NEW x \in Kind, Work(k, x)
  PROVE  IndInv'
<1> DEFINE cur == loop[k][x].cur
<1>1. TypeOK /\ TypeOK'
  BY TypeWork DEF IndInv
<1>2. loop \in LoopType /\ cur \subseteq Entry /\ cur \subseteq Hands(k, x)
  BY <1>1, LoopTyped DEF LoopType, LoopRec, Hands
<1>3. Others(k, x) /\ Hands(k, x)' \subseteq Hands(k, x)
  BY <1>2, MoveLoop, RestLoop DEF Work, Insert, InsertFails, Xdel, XdelFails, Xack, XackFails, Invalidate, Places, Hands
<1>4. UNCHANGED <<bulk, req, fresh>> /\ stream' \subseteq stream /\ pel' \subseteq pel /\ stale' \subseteq stale
  BY DEF Work, Insert, InsertFails, Xdel, XdelFails, Xack, XackFails, Invalidate, api, queue
<1>5. Unsent' /\ DeliveredOnce' /\ (Timely => IdleIsFree' /\ OneOwner')
  BY <1>3, <1>4, HandsOf, Shrinking
<1>6. \A e \in Entry : rows[e] > 0 => rows'[e] > 0
  BY <1>1, <1>2, RowsGrow DEF Work, Insert, InsertFails, Xdel, XdelFails, Xack, XackFails, Invalidate
<1>7. ASSUME stream' = stream PROVE AcceptedIsKept'
  BY <1>4, <1>6, <1>7 DEF IndInv, AcceptedIsKept
<1>8. CASE Insert(k, x)
  <2>1. loop'[k][x].at = "xdel" /\ loop'[k][x].cur = cur
    BY <1>2, <1>8, MoveLoop DEF Insert, Places
  <2>2. \A e \in cur : rows'[e] > 0
    BY <1>1, <1>2, <1>8, RowsGrow DEF Insert
  <2>3. InOrder'
    BY <1>3, <1>4, <1>6, <2>1, <2>2, OrderKept
  <2> QED BY <1>1, <1>5, <1>7, <1>8, <2>3 DEF Insert, queue, IndInv
<1>9. CASE InsertFails(k, x) \/ Invalidate(k, x)
  <2>1. loop'[k][x].at \in {"poll", "insert"}
    BY <1>2, <1>9, RestLoop DEF InsertFails, Invalidate
  <2>2. InOrder'
    BY <1>3, <1>4, <1>6, <2>1, OrderKept
  <2> QED BY <1>1, <1>5, <1>7, <1>9, <2>2 DEF InsertFails, Invalidate, queue, IndInv
<1>10. CASE Xdel(k, x) \/ XdelFails(k, x)
  <2>1. /\ loop'[k][x].at \in {"xack", "del"} /\ loop'[k][x].cur = cur
        /\ loop'[k][x].at = "xack" /\ ~bulk => stream' = stream \ cur
    <3>1. CASE Xdel(k, x)
      BY <1>2, <3>1, MoveLoop DEF Xdel, Places
    <3>2. CASE XdelFails(k, x)
      BY <1>2, <3>2, MoveLoop DEF XdelFails, Places
    <3> QED BY <1>10, <3>1, <3>2
  <2>2. \A e \in cur : rows'[e] > 0
    BY <1>2, <1>6, <1>10 DEF Xdel, XdelFails, At, IndInv, InOrder
  <2>3. InOrder'
    BY <1>3, <1>4, <1>6, <2>1, <2>2, OrderKept
  <2>4. \A e \in stream : e \in stream' \/ rows'[e] > 0
    BY <1>10, <2>2 DEF Xdel, XdelFails
  <2>5. AcceptedIsKept'
    BY <1>4, <1>6, <2>4 DEF IndInv, AcceptedIsKept
  <2> QED BY <1>1, <1>5, <2>3, <2>5 DEF IndInv
<1>11. CASE Xack(k, x) \/ XackFails(k, x)
  <2>1. loop'[k][x].at = "del"
    BY <1>2, <1>11, MoveLoop DEF Xack, XackFails, Places
  <2>2. InOrder'
    BY <1>3, <1>4, <1>6, <2>1, OrderKept
  <2>3. stream' = stream
    BY <1>11 DEF Xack, XackFails
  <2> QED BY <1>1, <1>5, <1>7, <2>2, <2>3 DEF IndInv
<1> QED BY <1>8, <1>9, <1>10, <1>11 DEF Work

\* An entry comes into the stream: nobody has had it before.
LEMMA InvXadd ==
  ASSUME IndInv, NEW e \in Entry, req[e] = "checked",
         Xadd(e), UNCHANGED <<bulk, rows, loop>>, TypeOK',
         \A f \in Entry : f # e => req'[f] = req[f],
         req'[e] \in {"accepted", "refused"}
  PROVE  IndInv'
<1>1. /\ e \notin stream /\ e \notin Behind /\ e \notin pel
      /\ \A k \in Consumer, x \in Kind : e \notin Hands(k, x)
  BY DEF IndInv, Unsent
<1>2. \A k \in Consumer, x \in Kind : Hands(k, x)' = Hands(k, x)
  BY DEF Hands
<1>3. fresh \in Seq(Entry)
  BY DEF IndInv, TypeOK
<1>4. /\ Behind' \subseteq Behind \union {e}
      /\ \A i, j \in 1..Len(fresh') : fresh'[i] = fresh'[j] => i = j
  <2>1. CASE fresh' = Append(fresh, e)
    BY <1>1, <1>3, <2>1, Appended DEF IndInv, DeliveredOnce
  <2>2. CASE fresh' = fresh
    BY <2>2 DEF Behind, IndInv, DeliveredOnce
  <2> QED BY <2>1, <2>2 DEF Xadd
<1>5. stream' = stream \union {e} /\ pel' = pel /\ stale' = stale
  BY DEF Xadd
<1>6. Unsent'
  BY <1>2, <1>4, <1>5 DEF IndInv, Unsent
<1>7. DeliveredOnce'
  BY <1>1, <1>2, <1>4, <1>5 DEF IndInv, DeliveredOnce
<1>8. InOrder'
  BY <1>1, <1>5 DEF IndInv, InOrder, Hands
<1>9. AcceptedIsKept'
  BY <1>5 DEF IndInv, AcceptedIsKept
<1>10. Timely => IdleIsFree' /\ OneOwner'
  BY <1>2, <1>5 DEF IndInv, IdleIsFree, OneOwner
<1> QED BY <1>6, <1>7, <1>8, <1>9, <1>10 DEF IndInv

LEMMA InvSame ==
  ASSUME IndInv, TypeOK', UNCHANGED <<bulk, stream, fresh, pel, stale, rows, loop>>,
         \A e \in Entry : req'[e] \in {"new", "checked"} => req[e] \in {"new", "checked"},
         \A e \in Entry : req'[e] = "accepted" => req[e] = "accepted"
  PROVE  IndInv'
<1>1. Behind' = Behind /\ \A k \in Consumer, x \in Kind : Hands(k, x)' = Hands(k, x)
  BY DEF Behind, Hands
<1>2. Unsent' /\ DeliveredOnce'
  BY <1>1 DEF IndInv, Unsent, DeliveredOnce
<1>3. InOrder' /\ AcceptedIsKept'
  BY DEF IndInv, InOrder, AcceptedIsKept
<1>4. Timely => IdleIsFree' /\ OneOwner'
  BY <1>1 DEF IndInv, IdleIsFree, OneOwner
<1> QED BY <1>2, <1>3, <1>4 DEF IndInv

LEMMA InvApi ==
  ASSUME IndInv, NEW e \in Entry, CheckDepth(e) \/ Enqueue(e) \/ EnqueueFails(e) \/ Age(e)
  PROVE  IndInv'
<1>1. TypeOK /\ TypeOK'
  BY TypeApi DEF IndInv
<1>2. CASE CheckDepth(e)
  BY <1>1, <1>2, InvSame DEF CheckDepth, queue, TypeOK
<1>3. CASE Enqueue(e)
  BY <1>1, <1>3, InvXadd DEF Enqueue, TypeOK
<1>4. CASE EnqueueFails(e)
  <2>1. CASE Xadd(e)
    BY <1>1, <1>4, <2>1, InvXadd DEF EnqueueFails, TypeOK
  <2>2. CASE UNCHANGED queue
    BY <1>1, <1>4, <2>2, InvSame DEF EnqueueFails, queue, TypeOK
  <2> QED BY <1>4, <2>1, <2>2 DEF EnqueueFails
<1>5. CASE Age(e)
  <2>1. \A k \in Consumer, x \in Kind : Hands(k, x)' = Hands(k, x)
    BY <1>5 DEF Age, Hands
  <2>2. Behind' = Behind
    BY <1>5 DEF Age, Behind
  <2>3. Unsent' /\ DeliveredOnce'
    BY <1>5, <2>1, <2>2 DEF Age, api, IndInv, Unsent, DeliveredOnce
  <2>4. InOrder' /\ AcceptedIsKept'
    BY <1>5 DEF Age, api, IndInv, InOrder, AcceptedIsKept
  <2>5. Timely => IdleIsFree' /\ OneOwner'
    BY <1>5, <2>1 DEF Age, IndInv, IdleIsFree, OneOwner
  <2> QED BY <1>1, <2>3, <2>4, <2>5 DEF IndInv
<1> QED BY <1>2, <1>3, <1>4, <1>5

\* A loop gets entries that nobody has, from behind the last id.
LEMMA InvReadNew ==
  ASSUME IndInv, NEW k \in Consumer, Deliver,
         \/ Take(k, "read", pel' \ pel)
         \/ UNCHANGED loop,
         UNCHANGED <<bulk, req, rows>>, TypeOK'
  PROVE  IndInv'
<1> DEFINE es == pel' \ pel
<1>1. TypeOK /\ loop \in LoopType /\ fresh \in Seq(Entry) /\ pel \subseteq Entry /\ "read" \in Kind
  BY LoopTyped DEF IndInv, TypeOK, Kind
<1>2. /\ pel' \subseteq Entry /\ pel \subseteq pel' /\ es \subseteq Behind
      /\ Behind' \subseteq Behind /\ Behind \subseteq Behind' \union pel'
      /\ \A i, j \in 1..Len(fresh') : fresh'[i] = fresh'[j] => i = j
      /\ Behind' \intersect pel' \subseteq pel
  BY <1>1, DeliverFresh, WriteBehindAssumption DEF IndInv, DeliveredOnce
<1>3. stream' = stream /\ stale' = stale /\ stale \subseteq pel /\ es \subseteq Entry
  BY <1>1, <1>2 DEF Deliver, TypeOK
<1>4. /\ Others(k, "read")
      /\ \/ loop'[k]["read"].at = "insert" /\ Hands(k, "read")' = es
         \/ loop'[k]["read"] = loop[k]["read"]
  <2>1. CASE Take(k, "read", es)
    BY <1>1, <1>3, <2>1, TakeLoop DEF Hands
  <2>2. CASE UNCHANGED loop
    BY <2>2 DEF Others
  <2> QED BY <2>1, <2>2
<1> HIDE DEF es
<1>5. \A j \in Consumer, y \in Kind :
        \/ Hands(j, y)' = Hands(j, y)
        \/ <<j, y>> = <<k, "read">> /\ Hands(j, y)' = es
  BY <1>4 DEF Others, Hands
<1>6. Unsent'
  BY <1>2, <1>3, <1>5 DEF IndInv, Unsent, es
<1>7. DeliveredOnce'
  <2>1. Behind' \intersect pel' = {}
    BY <1>2 DEF IndInv, DeliveredOnce
  <2>2. es \subseteq pel'
    BY DEF es
  <2> QED BY <1>2, <1>5, <2>1, <2>2 DEF IndInv, DeliveredOnce
<1>8. InOrder'
  <2>1. loop'[k]["read"].at # "insert" => loop'[k]["read"] = loop[k]["read"]
    BY <1>4
  <2> QED BY <1>1, <1>3, <1>4, <2>1, OrderKept DEF IndInv, InOrder
<1>9. AcceptedIsKept'
  BY <1>3 DEF IndInv, AcceptedIsKept
<1>10. Timely => IdleIsFree'
  BY <1>3, <1>5 DEF IndInv, IdleIsFree, es
<1>11. Timely => OneOwner'
  <2>1. \A j \in Consumer, y \in Kind : es \intersect Hands(j, y) = {}
    BY <1>2 DEF IndInv, DeliveredOnce
  <2> QED BY <1>5, <2>1 DEF IndInv, OneOwner
<1> QED BY <1>6, <1>7, <1>8, <1>9, <1>10, <1>11 DEF IndInv

\* A loop gets what was idle, and that is in nobody's hands if batches are timely.
LEMMA InvAutoClaim ==
  ASSUME IndInv, NEW k \in Consumer, TakeOver,
         \/ Take(k, "claim", Claimed)
         \/ UNCHANGED loop,
         UNCHANGED <<bulk, req, rows>>, TypeOK'
  PROVE  IndInv'
<1>1. TypeOK /\ loop \in LoopType /\ "claim" \in Kind /\ stale \subseteq pel /\ Claimed \subseteq Entry
  BY LoopTyped DEF IndInv, TypeOK, Kind, Claimed
<1>2. stream' = stream /\ fresh' = fresh /\ stale' = {} /\ pel' = pel \ (stale \ stream)
  BY DEF TakeOver
<1>3. /\ Others(k, "claim")
      /\ \/ loop'[k]["claim"].at = "insert" /\ Hands(k, "claim")' = Claimed
         \/ loop'[k]["claim"] = loop[k]["claim"]
  <2>1. CASE Take(k, "claim", Claimed)
    BY <1>1, <2>1, TakeLoop DEF Hands
  <2>2. CASE UNCHANGED loop
    BY <2>2 DEF Others
  <2> QED BY <2>1, <2>2
<1>4. Claimed \subseteq stale /\ Claimed \subseteq stream
  BY DEF Claimed
<1>5. \A j \in Consumer, y \in Kind :
        \/ Hands(j, y)' = Hands(j, y)
        \/ <<j, y>> = <<k, "claim">> /\ Hands(j, y)' = Claimed
  BY <1>3 DEF Others, Hands
<1>6. Behind' = Behind
  BY <1>2 DEF Behind
<1>7. Unsent'
  BY <1>2, <1>4, <1>5, <1>6 DEF IndInv, Unsent
<1>8. DeliveredOnce'
  BY <1>1, <1>2, <1>4, <1>5, <1>6 DEF IndInv, DeliveredOnce
<1>9. InOrder'
  <2>1. loop'[k]["claim"].at # "insert" => loop'[k]["claim"] = loop[k]["claim"]
    BY <1>3
  <2> QED BY <1>1, <1>2, <1>3, <2>1, OrderKept DEF IndInv, InOrder
<1>10. AcceptedIsKept'
  BY <1>2 DEF IndInv, AcceptedIsKept
<1>11. Timely => IdleIsFree'
  BY <1>2 DEF IdleIsFree
<1>12. Timely => OneOwner'
  BY <1>4, <1>5 DEF IndInv, IdleIsFree, OneOwner
<1> QED BY <1>7, <1>8, <1>9, <1>10, <1>11, <1>12 DEF IndInv

LEMMA InvCrash ==
  ASSUME IndInv, NEW k \in Consumer, Crash(k), TypeOK'
  PROVE  IndInv'
<1>1. \A j \in Consumer, y \in Kind :
        loop'[j][y] = loop[j][y] \/ (loop'[j][y].at = "poll" /\ Hands(j, y)' = {})
  BY LoopTyped DEF IndInv, Crash, LoopType, Idle, Hands
<1>2. \A j \in Consumer, y \in Kind : Hands(j, y)' \subseteq Hands(j, y)
  BY <1>1 DEF Hands
<1>3. Unsent' /\ DeliveredOnce' /\ (Timely => IdleIsFree' /\ OneOwner')
  BY <1>2, Shrinking DEF Crash, api, queue
<1>4. InOrder'
  BY <1>1 DEF Crash, queue, IndInv, InOrder
<1>5. AcceptedIsKept'
  BY DEF Crash, api, queue, IndInv, AcceptedIsKept
<1> QED BY <1>3, <1>4, <1>5 DEF IndInv

LEMMA InvNext == IndInv /\ [Next]_vars => IndInv'
<1> SUFFICES ASSUME IndInv, [Next]_vars PROVE IndInv'
  OBVIOUS
<1>1. TypeOK'
  BY TypeNext DEF IndInv
<1>2. CASE UNCHANGED vars
  BY <1>1, <1>2, InvSame DEF vars, queue
<1>3. ASSUME NEW k \in Consumer,
             Boot(k) \/ ReadNew(k) \/ AutoClaim(k) \/ AnswerLost(k) \/ Crash(k)
      PROVE  IndInv'
  <2>1. CASE Boot(k)
    BY <1>1, <2>1, InvSame DEF Boot, api
  <2>2. CASE ReadNew(k)
    BY <1>1, <2>2, InvReadNew DEF ReadNew, api
  <2>3. CASE AutoClaim(k)
    BY <1>1, <2>3, InvAutoClaim DEF AutoClaim, api
  <2>4. CASE AnswerLost(k)
    BY <1>1, <2>4, InvReadNew, InvAutoClaim DEF AnswerLost, api
  <2>5. CASE Crash(k)
    BY <1>1, <2>5, InvCrash
  <2> QED BY <1>3, <2>1, <2>2, <2>3, <2>4, <2>5
<1> QED BY <1>2, <1>3, InvApi, InvWork DEF Next

\* Where an entry is and what the loops that hold it have done agree, whatever
\* fails, dies or is taken over.
THEOREM IndInvHolds == Spec => []IndInv
BY InvInit, InvNext, PTL DEF Spec

\* At least once: what was accepted leaves the stream only with its row in the
\* table, whatever fails and whoever takes over.
THEOREM AcceptedIsKeptHolds == Spec => []AcceptedIsKept
<1>1. IndInv => AcceptedIsKept
  BY DEF IndInv
<1> QED BY <1>1, IndInvHolds, PTL

\* What comes into the stream is behind the group's last id, if there is a group.
LEMMA XaddStrandsNone ==
  ASSUME TypeOK, group, NEW e \in Entry, Enqueue(e) \/ EnqueueFails(e)
  PROVE  Stranded' \subseteq Stranded
<1>1. CASE Xadd(e)
  <2>1. Behind' = Behind \union {e} /\ stream' = stream \union {e} /\ pel' = pel
    BY <1>1, Appended DEF Xadd, TypeOK
  <2> QED BY <2>1 DEF Stranded, Behind
<1>2. CASE UNCHANGED queue
  BY <1>2 DEF queue, Stranded
<1> QED BY <1>1, <1>2 DEF Enqueue, EnqueueFails

\* XREADGROUP moves entries from one place to the other, XAUTOCLAIM drops only what
\* is not in the stream any more.
LEMMA ReadStrandsNone ==
  ASSUME TypeOK, Deliver \/ TakeOver
  PROVE  Stranded' \subseteq Stranded
<1>1. CASE Deliver
  <2>1. Behind \subseteq Behind' \union pel' /\ pel \subseteq pel' /\ stream' = stream
    BY <1>1, DeliverFresh, WriteBehindAssumption DEF TypeOK, Deliver
  <2> QED BY <2>1 DEF Stranded, Behind
<1>2. CASE TakeOver
  BY <1>2 DEF TakeOver, Stranded
<1> QED BY <1>1, <1>2

\* Of what a loop does, only XACK can strand an entry.
LEMMA WorkStrands ==
  ASSUME IndInv, NEW k \in Consumer, NEW x \in Kind, Work(k, x)
  PROVE  \A e \in Stranded' \ Stranded : bulk /\ rows[e] > 0
<1> DEFINE cur == loop[k][x].cur
<1>1. CASE Xack(k, x) \/ XackFails(k, x)
  <2>1. stream' = stream /\ fresh' = fresh /\ pel \ cur \subseteq pel' /\ loop[k][x].at = "xack"
    BY <1>1 DEF Xack, XackFails, At
  <2>2. Stranded' \ Stranded \subseteq cur \intersect stream
    BY <2>1 DEF Stranded
  <2>3. (\A e \in cur : rows[e] > 0) /\ (~bulk => cur \intersect stream = {})
    BY <2>1 DEF IndInv, InOrder
  <2>4. bulk \in BOOLEAN
    BY DEF IndInv, TypeOK
  <2> QED BY <2>2, <2>3, <2>4
<1>2. CASE ~(Xack(k, x) \/ XackFails(k, x))
  <2>1. stream' \subseteq stream /\ UNCHANGED <<fresh, pel>>
    BY <1>2 DEF Work, Insert, InsertFails, Xdel, XdelFails, Invalidate, queue
  <2>2. Stranded' \subseteq Stranded
    BY <2>1 DEF Stranded
  <2> QED BY <2>2
<1> QED BY <1>1, <1>2

\* Once the group exists, only the pipeline of a batch strands an entry in the
\* stream, and only with its row in the table, whatever else fails, dies or is taken
\* over, and however slow a batch is.
THEOREM DepthInvariantHolds == Spec => DepthInvariant
<1>1. ASSUME IndInv, [Next]_vars, group, NEW e \in Stranded' \ Stranded
      PROVE  bulk /\ rows[e] > 0
  <2>1. TypeOK
    BY <1>1 DEF IndInv
  <2>2. ASSUME UNCHANGED <<stream, fresh, pel>> PROVE FALSE
    BY <1>1, <2>2 DEF Stranded
  <2>3. \A f \in Entry : ~(CheckDepth(f) \/ Age(f))
    BY <2>2 DEF CheckDepth, Age, queue
  <2>4. \A f \in Entry : ~(Enqueue(f) \/ EnqueueFails(f))
    BY <1>1, <2>1, XaddStrandsNone
  <2>5. \A k \in Consumer : ~(Boot(k) \/ Crash(k))
    BY <2>2 DEF Boot, Crash, queue
  <2>6. \A k \in Consumer : ~(ReadNew(k) \/ AutoClaim(k) \/ AnswerLost(k))
    BY <1>1, <2>1, ReadStrandsNone DEF ReadNew, AutoClaim, AnswerLost
  <2>7. ~UNCHANGED vars
    BY <2>2 DEF vars, queue
  <2>8. PICK k \in Consumer, x \in Kind : Work(k, x)
    BY <1>1, <2>3, <2>4, <2>5, <2>6, <2>7 DEF Next
  <2> QED BY <1>1, <2>8, WorkStrands
<1>2. IndInv /\ [Next]_vars => [group => \A e \in Stranded' \ Stranded : bulk /\ rows[e] > 0]_vars
  BY <1>1
<1> QED BY <1>2, IndInvHolds, PTL DEF Spec, DepthInvariant

\* If no batch takes longer than the idle time of XAUTOCLAIM, no entry is in the
\* hands of two loops at a time.
THEOREM OneOwnerHolds ==
  ASSUME Timely
  PROVE  Spec => []OneOwner
<1>1. IndInv => OneOwner
  BY DEF IndInv
<1> QED BY <1>1, IndInvHolds, PTL

-----------------------------------------------------------------------------
(* Backpressure: what is in the stream and what may still come.             *)

Checked == {e \in Entry : req[e] = "checked"}

\* Each of the other InFlight - 1 requests that have passed the check may add its
\* entry to the QueueMax - 1 that the last check has seen.
Bounded ==
  /\ IsFiniteSet(stream) /\ IsFiniteSet(Checked)
  /\ Cardinality(stream) + Cardinality(Checked) < QueueMax + InFlight

\* One more, one less.
LEMMA Adding ==
  ASSUME NEW S, IsFiniteSet(S), NEW e
  PROVE  IsFiniteSet(S \union {e}) /\ Cardinality(S \union {e}) \in Nat
         /\ Cardinality(S \union {e}) <= Cardinality(S) + 1
<1>1. IsFiniteSet(S \union {e}) /\ Cardinality(S) \in Nat
  BY FS_AddElement, FS_CardinalityType
<1>2. Cardinality(S \union {e}) = IF e \in S THEN Cardinality(S) ELSE Cardinality(S) + 1
  BY FS_AddElement
<1> QED BY <1>1, <1>2

LEMMA Removing ==
  ASSUME NEW S, IsFiniteSet(S), NEW e \in S
  PROVE  IsFiniteSet(S \ {e}) /\ Cardinality(S \ {e}) = Cardinality(S) - 1
BY FS_RemoveElement

LEMMA Smaller ==
  ASSUME NEW S, IsFiniteSet(S), NEW U \in SUBSET S
  PROVE  IsFiniteSet(U) /\ Cardinality(U) \in Nat /\ Cardinality(U) <= Cardinality(S)
BY FS_Subset, FS_CardinalityType

LEMMA BoundedNext == TypeOK /\ Bounded /\ [Next]_vars => Bounded'
<1> SUFFICES ASSUME TypeOK, Bounded, [Next]_vars PROVE Bounded'
  OBVIOUS
<1>1. /\ QueueMax \in Nat /\ InFlight \in Nat
      /\ Cardinality(stream) \in Nat /\ Cardinality(Checked) \in Nat
  BY WriteBehindAssumption, FS_CardinalityType DEF Bounded
<1>2. ASSUME stream' \subseteq stream, Checked' \subseteq Checked PROVE Bounded'
  <2>1. /\ IsFiniteSet(stream') /\ Cardinality(stream') \in Nat /\ Cardinality(stream') <= Cardinality(stream)
        /\ IsFiniteSet(Checked') /\ Cardinality(Checked') \in Nat /\ Cardinality(Checked') <= Cardinality(Checked)
    BY <1>2, Smaller DEF Bounded
  <2> QED BY <1>1, <2>1 DEF Bounded
<1>3. ASSUME UNCHANGED req PROVE Checked' = Checked
  BY <1>3 DEF Checked
<1>4. ASSUME NEW e \in Entry, CheckDepth(e) PROVE Bounded'
  <2>1. CASE req' = [req EXCEPT ![e] = "checked"] /\ Cardinality(stream) < QueueMax
    <3>1. stream' = stream /\ Cardinality(Checked) < InFlight
      BY <1>4 DEF CheckDepth, queue, Checked
    <3>2. Checked' = Checked \union {e}
      BY <2>1 DEF Checked, TypeOK
    <3>3. IsFiniteSet(Checked') /\ Cardinality(Checked') \in Nat /\ Cardinality(Checked') <= Cardinality(Checked) + 1
      BY <3>2, Adding DEF Bounded
    <3> QED BY <1>1, <2>1, <3>1, <3>3 DEF Bounded
  <2>2. CASE req' = [req EXCEPT ![e] = "refused"]
    <3>1. stream' = stream
      BY <1>4 DEF CheckDepth, queue
    <3>2. Checked' \subseteq Checked
      BY <2>2 DEF Checked, TypeOK
    <3> QED BY <1>2, <3>1, <3>2
  <2> QED BY <1>4, <2>1, <2>2 DEF CheckDepth
<1>5. ASSUME NEW e \in Entry, Enqueue(e) \/ EnqueueFails(e) PROVE Bounded'
  <2>1. e \in Checked /\ Checked' = Checked \ {e}
    BY <1>5 DEF Enqueue, EnqueueFails, Checked, TypeOK
  <2>2. stream' = stream \union {e} \/ stream' = stream
    BY <1>5 DEF Enqueue, EnqueueFails, Xadd, queue
  <2>3. IsFiniteSet(Checked') /\ Cardinality(Checked') = Cardinality(Checked) - 1
    BY <2>1, Removing DEF Bounded
  <2>4. CASE stream' = stream \union {e}
    <3>1. /\ IsFiniteSet(stream') /\ Cardinality(stream') \in Nat
          /\ Cardinality(stream') <= Cardinality(stream) + 1
      BY <2>4, Adding DEF Bounded
    <3> QED BY <1>1, <2>3, <3>1 DEF Bounded
  <2>5. CASE stream' = stream
    BY <1>1, <2>3, <2>5 DEF Bounded
  <2> QED BY <2>2, <2>4, <2>5
<1>6. ASSUME NEW e \in Entry, Age(e) PROVE Bounded'
  BY <1>2, <1>3, <1>6 DEF Age, api
<1>7. ASSUME NEW k \in Consumer, Boot(k) \/ ReadNew(k) \/ AutoClaim(k) \/ AnswerLost(k) \/ Crash(k)
      PROVE  Bounded'
  <2>1. UNCHANGED <<req, stream>>
    BY <1>7 DEF Boot, ReadNew, AutoClaim, AnswerLost, Crash, Deliver, TakeOver, api, queue
  <2> QED BY <1>2, <1>3, <2>1
<1>8. ASSUME NEW k \in Consumer, NEW x \in Kind, Work(k, x) PROVE Bounded'
  <2>1. UNCHANGED req /\ stream' \subseteq stream
    BY <1>8 DEF Work, Insert, InsertFails, Xdel, XdelFails, Xack, XackFails, Invalidate, api, queue
  <2> QED BY <1>2, <1>3, <2>1
<1>9. CASE UNCHANGED vars
  BY <1>2, <1>3, <1>9 DEF vars, queue
<1> QED BY <1>4, <1>5, <1>6, <1>7, <1>8, <1>9 DEF Next

\* The check and the XADD are two steps and XADD may throw after it ran: the stream
\* still never holds QueueMax + InFlight entries.
THEOREM BackpressureHolds == Spec => []Backpressure
<1>1. Init => Bounded
  <2> SUFFICES ASSUME Init PROVE Bounded
    OBVIOUS
  <2>1. stream = {} /\ Checked = {}
    BY DEF Init, Checked
  <2> QED BY <2>1, FS_EmptySet, WriteBehindAssumption DEF Bounded
<1>2. TypeOK /\ Bounded => Backpressure
  <2> SUFFICES ASSUME Bounded PROVE Backpressure
    OBVIOUS
  <2>1. Cardinality(stream) \in Nat /\ Cardinality(Checked) \in Nat
    BY FS_CardinalityType DEF Bounded
  <2> QED BY <2>1, WriteBehindAssumption DEF Bounded, Backpressure
<1> QED BY <1>1, <1>2, BoundedNext, TypeInit, TypeNext, PTL DEF Spec

-----------------------------------------------------------------------------
(* The stream, its group and the loops implement a write buffer.           *)

\* What a loop has left to do, or is about to insert, is still in the stream.
LoopInStream(k, x) ==
  /\ loop[k][x].todo \subseteq stream /\ loop[k][x].todo \intersect loop[k][x].cur = {}
  /\ loop[k][x].at = "insert" => loop[k][x].cur \subseteq stream

\* What is not worked off yet is still in the stream.
InStream ==
  /\ Behind \subseteq stream
  /\ \A k \in Consumer, x \in Kind : LoopInStream(k, x)

LEMMA InStreamInit == Init => InStream
BY DEF Init, InStream, LoopInStream, Behind, Idle

\* The other loops keep what they have, if nothing of theirs leaves the stream.
LEMMA OthersInStream ==
  ASSUME InStream, NEW k \in Consumer, NEW x \in Kind, Others(k, x),
         \A j \in Consumer, y \in Kind : <<j, y>> # <<k, x>> =>
           \A e \in Hands(j, y) : e \in stream => e \in stream',
         Behind' \subseteq stream', LoopInStream(k, x)'
  PROVE  InStream'
<1> SUFFICES ASSUME NEW j \in Consumer, NEW y \in Kind, <<j, y>> # <<k, x>> PROVE LoopInStream(j, y)'
  BY DEF InStream
<1>1. loop'[j][y] = loop[j][y]
  BY DEF Others
<1>2. \A e \in Hands(j, y) : e \in stream => e \in stream'
  OBVIOUS
<1> QED BY <1>1, <1>2 DEF InStream, LoopInStream, Hands

LEMMA InStreamWork ==
  ASSUME Timely, IndInv, InStream, NEW k \in Consumer, NEW x \in Kind, Work(k, x)
  PROVE  InStream'
<1> DEFINE cur == loop[k][x].cur
<1>1. loop \in LoopType /\ cur \subseteq Hands(k, x)
  BY LoopTyped DEF IndInv, Hands
<1>2. Others(k, x) /\ fresh' = fresh
  BY <1>1, MoveLoop, RestLoop DEF Work, Insert, InsertFails, Xdel, XdelFails, Xack, XackFails, Invalidate, Places, queue
<1>3. Behind' = Behind
  BY <1>2 DEF Behind
<1>4. CASE Xdel(k, x) \/ XdelFails(k, x)
  <2>1. stream \ cur \subseteq stream'
    BY <1>4 DEF Xdel, XdelFails
  <2>2. \A j \in Consumer, y \in Kind : <<j, y>> # <<k, x>> => cur \intersect Hands(j, y) = {}
    BY <1>1 DEF IndInv, OneOwner
  <2>3. Behind \intersect cur = {}
    BY <1>1 DEF IndInv, DeliveredOnce
  <2>4. LoopInStream(k, x)'
    <3>1. /\ loop'[k][x].todo = loop[k][x].todo /\ loop'[k][x].cur = cur
          /\ loop'[k][x].at \in {"xack", "del"}
      BY <1>1, <1>4, MoveLoop DEF Xdel, XdelFails, Places
    <3> QED BY <2>1, <3>1 DEF InStream, LoopInStream
  <2>5. \A j \in Consumer, y \in Kind : <<j, y>> # <<k, x>> =>
          \A e \in Hands(j, y) : e \in stream => e \in stream'
    BY <2>1, <2>2
  <2>6. Behind' \subseteq stream'
    BY <1>3, <2>1, <2>3 DEF InStream
  <2> QED BY <1>2, <2>4, <2>5, <2>6, OthersInStream
<1>5. CASE UNCHANGED stream /\ LoopInStream(k, x)'
  BY <1>2, <1>3, <1>5, OthersInStream DEF InStream
<1>6. CASE Insert(k, x) \/ Xack(k, x) \/ XackFails(k, x)
  <2>1. /\ loop'[k][x].todo = loop[k][x].todo /\ loop'[k][x].cur = cur
        /\ loop'[k][x].at \in {"xdel", "del"} /\ stream' = stream
    BY <1>1, <1>6, MoveLoop DEF Insert, Xack, XackFails, Places, queue
  <2> QED BY <1>5, <2>1 DEF InStream, LoopInStream
<1>7. CASE InsertFails(k, x) \/ Invalidate(k, x)
  <2>1. /\ loop'[k][x].todo \union loop'[k][x].cur \subseteq loop[k][x].todo
        /\ loop'[k][x].todo \intersect loop'[k][x].cur = {} /\ stream' = stream
    BY <1>1, <1>7, RestLoop DEF InsertFails, Invalidate, queue
  <2> QED BY <1>5, <2>1 DEF InStream, LoopInStream
<1> QED BY <1>4, <1>6, <1>7 DEF Work

\* A loop is handed entries that are in the stream.
LEMMA InStreamTake ==
  ASSUME TypeOK, InStream, NEW k \in Consumer, NEW x \in Kind, NEW es \in SUBSET Entry,
         es \subseteq stream, Take(k, x, es), stream' = stream, Behind' \subseteq Behind
  PROVE  InStream'
<1>1. /\ Others(k, x) /\ loop'[k][x].todo \union loop'[k][x].cur = es
      /\ loop'[k][x].todo \intersect loop'[k][x].cur = {}
  BY LoopTyped, TakeLoop
<1>2. LoopInStream(k, x)'
  BY <1>1 DEF LoopInStream
<1> QED BY <1>1, <1>2, OthersInStream DEF InStream

LEMMA InStreamRead ==
  ASSUME TypeOK, InStream, NEW k \in Consumer, Deliver, Take(k, "read", pel' \ pel) \/ UNCHANGED loop
  PROVE  InStream'
<1>1. /\ pel' \ pel \in SUBSET Entry /\ pel' \ pel \subseteq stream /\ Behind' \subseteq Behind
      /\ stream' = stream
  BY DeliverFresh, WriteBehindAssumption DEF TypeOK, Deliver, InStream
<1>2. "read" \in Kind
  BY DEF Kind
<1>3. CASE UNCHANGED loop
  BY <1>1, <1>3 DEF InStream, LoopInStream
<1> QED BY <1>1, <1>2, <1>3, InStreamTake

LEMMA InStreamClaim ==
  ASSUME TypeOK, InStream, NEW k \in Consumer, TakeOver, Take(k, "claim", Claimed) \/ UNCHANGED loop
  PROVE  InStream'
<1>1. /\ Claimed \in SUBSET Entry /\ Claimed \subseteq stream
      /\ stream' = stream /\ Behind' = Behind
  BY DEF TypeOK, Claimed, TakeOver, Behind
<1>2. "claim" \in Kind
  BY DEF Kind
<1>3. CASE UNCHANGED loop
  BY <1>1, <1>3 DEF InStream, LoopInStream
<1> QED BY <1>1, <1>2, <1>3, InStreamTake

LEMMA InStreamNext == Timely /\ IndInv /\ InStream /\ [Next]_vars => InStream'
<1> SUFFICES ASSUME Timely, IndInv, InStream, [Next]_vars PROVE InStream'
  OBVIOUS
<1>1. TypeOK
  BY DEF IndInv
<1>2. ASSUME UNCHANGED loop, stream \subseteq stream', Behind' \subseteq stream' PROVE InStream'
  BY <1>2 DEF InStream, LoopInStream
<1>3. ASSUME UNCHANGED <<loop, stream, fresh>> PROVE InStream'
  BY <1>3 DEF InStream, LoopInStream, Behind
<1>4. ASSUME NEW e \in Entry, Enqueue(e) \/ EnqueueFails(e) PROVE InStream'
  <2>1. CASE Xadd(e)
    <3>1. Behind' \subseteq Behind \union {e}
      BY <1>1, <2>1, Appended DEF Xadd, TypeOK, Behind
    <3> QED BY <1>2, <1>4, <2>1, <3>1 DEF Enqueue, EnqueueFails, Xadd, InStream
  <2>2. CASE UNCHANGED queue
    BY <1>3, <1>4, <2>2 DEF Enqueue, EnqueueFails, queue
  <2> QED BY <1>4, <2>1, <2>2 DEF Enqueue, EnqueueFails
<1>5. ASSUME NEW e \in Entry, CheckDepth(e) \/ Age(e) PROVE InStream'
  BY <1>3, <1>5 DEF CheckDepth, Age, queue
<1>6. ASSUME NEW k \in Consumer, Boot(k) \/ ReadNew(k) \/ AutoClaim(k) \/ AnswerLost(k) PROVE InStream'
  <2>1. CASE Boot(k)
    BY <1>3, <2>1 DEF Boot
  <2>2. CASE ReadNew(k)
    BY <1>1, <2>2, InStreamRead DEF ReadNew
  <2>3. CASE AutoClaim(k)
    BY <1>1, <2>3, InStreamClaim DEF AutoClaim
  <2>4. CASE AnswerLost(k)
    BY <1>1, <2>4, InStreamRead, InStreamClaim DEF AnswerLost
  <2> QED BY <1>6, <2>1, <2>2, <2>3, <2>4
<1>7. ASSUME NEW k \in Consumer, Crash(k) PROVE InStream'
  <2>1. \A j \in Consumer, y \in Kind :
          loop'[j][y] = loop[j][y] \/ (loop'[j][y].at = "poll" /\ loop'[j][y].todo = {})
    BY <1>1, <1>7, LoopTyped DEF Crash, LoopType, Idle
  <2>2. stream' = stream /\ Behind' = Behind
    BY <1>7 DEF Crash, queue, Behind
  <2> QED BY <2>1, <2>2 DEF InStream, LoopInStream
<1>8. CASE UNCHANGED vars
  BY <1>3, <1>8 DEF vars, queue
<1> QED BY <1>4, <1>5, <1>6, <1>7, <1>8, InStreamWork DEF Next

LEMMA BufferInit == Init => Buffer!Init
BY DEF Init, Buffer!Init, Told

\* What the API does is a client's write that is kept or not.
LEMMA ApiRefines ==
  ASSUME TypeOK, NEW e \in Entry, CheckDepth(e) \/ Enqueue(e) \/ EnqueueFails(e)
  PROVE  [Buffer!Next]_(Buffer!vars)
<1>1. Told[e] = "new" /\ rows' = rows /\ stream' \in {stream, stream \union {e}}
  BY DEF CheckDepth, Enqueue, EnqueueFails, Xadd, queue, Told
<1>2. CASE req' = [req EXCEPT ![e] = "checked"] /\ CheckDepth(e)
  <2>1. Told' = Told /\ stream' = stream
    BY <1>2 DEF CheckDepth, queue, Told, TypeOK
  <2> QED BY <1>1, <2>1 DEF Buffer!vars
<1>3. CASE req' = [req EXCEPT ![e] = "refused"]
  <2>1. Told' = [Told EXCEPT ![e] = "refused"]
    BY <1>3 DEF Told, TypeOK
  <2>2. Buffer!Refuse(e)
    BY <1>1, <2>1 DEF Buffer!Refuse, Buffer!Tell
  <2> QED BY <2>2 DEF Buffer!Next
<1>4. CASE Enqueue(e)
  <2>1. Told' = [Told EXCEPT ![e] = "accepted"]
    BY <1>4 DEF Enqueue, Told, TypeOK
  <2>2. Buffer!Accept(e)
    BY <1>1, <1>4, <2>1 DEF Enqueue, Xadd, Buffer!Accept, Buffer!Tell
  <2> QED BY <2>2 DEF Buffer!Next
<1> QED BY <1>2, <1>3, <1>4 DEF CheckDepth, EnqueueFails

\* What a loop does is an INSERT of what is kept, or lets go of what has its row.
LEMMA WorkRefines ==
  ASSUME IndInv, InStream, NEW k \in Consumer, NEW x \in Kind, Work(k, x)
  PROVE  [Buffer!Next]_(Buffer!vars)
<1> DEFINE cur == loop[k][x].cur
           more(es) == [e \in Entry |-> IF e \in es THEN Once[e] ELSE rows[e]]
<1>1. Told' = Told /\ cur \in SUBSET Entry
  BY LoopTyped DEF IndInv, LoopType, LoopRec, Work, Insert, InsertFails, Xdel, XdelFails, Xack, XackFails,
                   Invalidate, api, Told
<1>2. ASSUME rows' = more(cur), stream' = stream, At(k, x, "insert") PROVE Buffer!Next
  <2>1. cur \subseteq stream
    BY <1>2 DEF At, InStream, LoopInStream
  <2>2. rows' = [e \in Entry |-> IF e \notin cur THEN rows[e] ELSE IF rows[e] = 0 THEN 1 ELSE 2]
    BY <1>2 DEF Once
  <2>3. Buffer!Insert(cur)
    BY <1>1, <1>2, <2>1, <2>2 DEF Buffer!Insert
  <2> QED BY <1>1, <2>3 DEF Buffer!Next
<1>3. CASE UNCHANGED <<rows, stream>>
  BY <1>1, <1>3 DEF Buffer!vars
<1>4. CASE Insert(k, x) \/ InsertFails(k, x)
  <2>1. stream' = stream /\ At(k, x, "insert") /\ (rows' = more(cur) \/ rows' = rows)
    BY <1>4 DEF Insert, InsertFails, queue
  <2> QED BY <1>2, <1>3, <2>1
<1>5. CASE Xdel(k, x) \/ XdelFails(k, x)
  <2>1. PICK es \in SUBSET cur : stream' = stream \ es
    BY <1>5 DEF Xdel, XdelFails
  <2>2. \A e \in es : rows[e] > 0
    BY <1>5 DEF Xdel, XdelFails, At, IndInv, InOrder
  <2>3. rows' = rows
    BY <1>5 DEF Xdel, XdelFails
  <2>4. Buffer!Leave(es)
    BY <1>1, <2>1, <2>2, <2>3 DEF Buffer!Leave
  <2> QED BY <1>1, <2>4 DEF Buffer!Next
<1>6. CASE Xack(k, x) \/ XackFails(k, x) \/ Invalidate(k, x)
  BY <1>3, <1>6 DEF Xack, XackFails, Invalidate, queue
<1> QED BY <1>4, <1>5, <1>6 DEF Work

LEMMA BufferNext == IndInv /\ InStream /\ [Next]_vars => [Buffer!Next]_(Buffer!vars)
<1> SUFFICES ASSUME IndInv, InStream, [Next]_vars PROVE [Buffer!Next]_(Buffer!vars)
  OBVIOUS
<1>1. CASE UNCHANGED <<req, stream, rows>>
  BY <1>1 DEF Told, Buffer!vars
<1>2. ASSUME NEW k \in Consumer, Boot(k) \/ ReadNew(k) \/ AutoClaim(k) \/ AnswerLost(k) \/ Crash(k)
      PROVE  UNCHANGED <<req, stream, rows>>
  BY <1>2 DEF Boot, ReadNew, AutoClaim, AnswerLost, Crash, Deliver, TakeOver, api, queue
<1>3. ASSUME (\E e \in Entry : Age(e)) \/ UNCHANGED vars PROVE UNCHANGED <<req, stream, rows>>
  BY <1>3 DEF Age, api, queue, vars
<1> QED BY <1>1, <1>2, <1>3, ApiRefines, WorkRefines DEF Next, IndInv

\* If no batch takes longer than the idle time of XAUTOCLAIM, the queue keeps what
\* it accepted until it has a row, and repeats an INSERT only of what it still
\* keeps, whatever fails, dies or is taken over (WriteBehind!RefinesBuffer).
THEOREM RefinesBufferHolds ==
  ASSUME Timely
  PROVE  Spec => RefinesBuffer
<1>1. Init => InStream
  BY InStreamInit
<1>2. IndInv /\ InStream /\ [Next]_vars => InStream'
  BY InStreamNext
<1> QED BY <1>1, <1>2, BufferInit, BufferNext, IndInvHolds, PTL DEF Spec, Buffer!Spec, RefinesBuffer
=============================================================================
