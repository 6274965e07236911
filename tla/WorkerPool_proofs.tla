------------------------- MODULE WorkerPool_proofs -------------------------
(***************************************************************************)
(* Proofs about WorkerPool, for any workers, jobs, length of the queue and *)
(* ways of dying.                                                          *)
(***************************************************************************)
EXTENDS WorkerPool, FiniteSetTheorems, TLAPS

JobState == {"new", "queued", "running", "resolved", "rejected", "saturated"}
Held == Job \union {NoJob}

-----------------------------------------------------------------------------
(* What a step of _drain leaves behind.                                    *)

LEMMA SettleType ==
  ASSUME NEW db \in [Job -> JobState], NEW j \in Held, NEW e \in JobState
  PROVE  /\ Settle(db, j, e) \in [Job -> JobState]
         /\ j \in Job => Settle(db, j, e)[j] = e
         /\ \A k \in Job : k # j => Settle(db, j, e)[k] = db[k]
BY WorkerPoolAssumption DEF Settle, Held

LEMMA QueueHead ==
  ASSUME queue \in Seq(Job), queue # <<>>
  PROVE  /\ Len(queue) \in Nat \ {0}
         /\ Head(queue) = queue[1] /\ Head(queue) \in Job
         /\ Tail(queue) \in Seq(Job) /\ Len(Tail(queue)) = Len(queue) - 1
         /\ \A i \in 1..Len(Tail(queue)) : i + 1 \in 1..Len(queue) /\ Tail(queue)[i] = queue[i + 1]
OBVIOUS

LEMMA DrainTypes ==
  ASSUME TypeOK, NEW s \in Worker, NEW j \in Held, NEW e \in JobState, Drain(s, j, e)
  PROVE  /\ job' \in [Job -> JobState]
         /\ queue' \in Seq(Job) /\ Len(queue') <= Len(queue)
         /\ current' \in [Worker -> Held] /\ work' \in [Worker -> Held]
<1> DEFINE db == Settle(job, j, e)
<1>1. db \in [Job -> JobState]
  BY SettleType DEF TypeOK, JobState
<1> HIDE DEF db
<1>2. CASE queue = <<>>
  <2>1. /\ job' = db /\ queue' = queue
        /\ current' = [current EXCEPT ![s] = NoJob]
        /\ work' = [work EXCEPT ![s] = NoJob]
    BY <1>2 DEF Drain, db
  <2> QED BY <1>1, <2>1 DEF TypeOK, Held
<1>3. CASE queue # <<>>
  <2>1. /\ job' = [db EXCEPT ![Head(queue)] = "running"] /\ queue' = Tail(queue)
        /\ current' = [current EXCEPT ![s] = Head(queue)]
        /\ work' = [work EXCEPT ![s] = Head(queue)]
    BY <1>3 DEF Drain, db
  <2>2. /\ Head(queue) \in Job
        /\ Tail(queue) \in Seq(Job) /\ Len(Tail(queue)) = Len(queue) - 1 /\ Len(queue) \in Nat
    BY <1>3, QueueHead DEF TypeOK
  <2>3. job' \in [Job -> JobState]
    BY <1>1, <2>1, <2>2 DEF JobState
  <2>4. current' \in [Worker -> Held] /\ work' \in [Worker -> Held]
    BY <2>1, <2>2 DEF TypeOK, Held
  <2>5. queue' \in Seq(Job) /\ Len(queue') <= Len(queue)
    BY <2>1, <2>2
  <2> QED BY <2>3, <2>4, <2>5
<1> QED BY <1>2, <1>3

-----------------------------------------------------------------------------
(* Type correctness.                                                       *)

LEMMA TypeInit == Init => TypeOK
BY WorkerPoolAssumption DEF Init, TypeOK

LEMMA EventsTail ==
  ASSUME TypeOK, NEW s \in Worker, events[s] # <<>>, events' = [events EXCEPT ![s] = Tail(@)]
  PROVE  events' \in [Worker -> Seq(Event)]
BY DEF TypeOK

LEMMA TypeWork ==
  ASSUME TypeOK, NEW j \in Job, Refuse(j) \/ RunJob(j)
  PROVE  TypeOK'
<1>1. CASE Refuse(j)
  BY <1>1 DEF Refuse, TypeOK
<1>2. CASE RunJob(j)
  <2>1. job' \in [Job -> JobState]
    BY <1>2 DEF RunJob, TypeOK, JobState
  <2>2. current' \in [Worker -> Held] /\ work' \in [Worker -> Held]
    <3>1. ASSUME NEW s, current' = [current EXCEPT ![s] = j], work' = [work EXCEPT ![s] = j]
          PROVE  current' \in [Worker -> Held] /\ work' \in [Worker -> Held]
      BY <3>1 DEF TypeOK, Held
    <3>2. CASE UNCHANGED <<current, work>>
      BY <3>2 DEF TypeOK, Held
    <3> QED BY <1>2, <3>1, <3>2 DEF RunJob
  <2>3. queue' \in Seq(Job) /\ Len(queue') <= QueueMax
    <3>1. CASE UNCHANGED queue
      BY <3>1 DEF TypeOK
    <3>2. CASE queue' = Append(queue, j)
      <4>1. Len(queue') = Len(queue) + 1 /\ queue' \in Seq(Job) /\ Len(queue) \in Nat
        BY <3>2 DEF TypeOK
      <4>2. ~(Len(queue) >= QueueMax) /\ QueueMax \in Nat
        BY <1>2, WorkerPoolAssumption DEF RunJob, Saturated
      <4> QED BY <4>1, <4>2
    <3> QED BY <1>2, <3>1, <3>2 DEF RunJob
  <2> QED BY <1>2, <2>1, <2>2, <2>3 DEF RunJob, TypeOK, JobState, Held
<1> QED BY <1>1, <1>2

LEMMA SayType ==
  ASSUME TypeOK, NEW s \in Worker, NEW type \in {"message", "error", "exit"}, NEW j \in Held
  PROVE  /\ Say(s, type, j) \in Seq(Event)
         /\ Len(Say(s, type, j)) = Len(events[s]) + 1 /\ Len(events[s]) \in Nat
         /\ Say(s, type, j)[Len(events[s]) + 1] = [type |-> type, job |-> j]
         /\ \A i \in 1..Len(events[s]) : Say(s, type, j)[i] = events[s][i]
<1> DEFINE r == [type |-> type, job |-> j]
<1>1. r \in Event
  BY DEF Event, Held
<1>2. events[s] \in Seq(Event)
  BY DEF TypeOK
<1>3. Say(s, type, j) = Append(events[s], r)
  BY DEF Say
<1> HIDE DEF r
<1> QED BY <1>1, <1>2, <1>3 DEF r

LEMMA TypeThread ==
  ASSUME TypeOK, NEW s \in Worker, Compute(s) \/ Die(s)
  PROVE  TypeOK'
<1>1. CASE Compute(s)
  <2>1. work[s] \in Held
    BY DEF TypeOK, Held
  <2>2. events' \in [Worker -> Seq(Event)]
    BY <1>1, <2>1, SayType DEF Compute, TypeOK
  <2> QED BY <1>1, <2>2 DEF Compute, TypeOK
<1>2. CASE Die(s)
  <2> DEFINE q == Say(s, "error", NoJob) r == [type |-> "exit", job |-> NoJob]
             e == Say(s, "exit", NoJob)
  <2>1. q \in Seq(Event) /\ e \in Seq(Event)
    BY SayType DEF Held
  <2>2. <<r>> \in Seq(Event)
    BY DEF Event
  <2>3. q \o <<r>> \in Seq(Event)
    BY <2>1, <2>2
  <2>4. \/ events' = [events EXCEPT ![s] = q \o <<r>>]
        \/ events' = [events EXCEPT ![s] = e]
    BY <1>2 DEF Die
  <2> HIDE DEF q, r, e
  <2>5. events' \in [Worker -> Seq(Event)]
    BY <2>1, <2>3, <2>4 DEF TypeOK
  <2> QED BY <1>2, <2>5 DEF Die, TypeOK
<1> QED BY <1>1, <1>2

LEMMA TypeMain ==
  ASSUME TypeOK, NEW s \in Worker, MainStep(s)
  PROVE  TypeOK'
<1>1. CASE OnMessage(s)
  <2>1. events[s] \in Seq(Event) /\ events[s] # <<>>
    BY <1>1 DEF OnMessage, Next1, TypeOK
  <2>2. Head(events[s]) \in Event
    BY <2>1
  <2>3. Head(events[s]).job \in Held
    BY <2>2 DEF Event, Held
  <2>4. events' \in [Worker -> Seq(Event)]
    BY <1>1, <2>1, EventsTail DEF OnMessage
  <2>5. CASE Drain(s, Head(events[s]).job, "resolved")
    <3>1. /\ job' \in [Job -> JobState] /\ queue' \in Seq(Job) /\ Len(queue') <= Len(queue)
          /\ current' \in [Worker -> Held] /\ work' \in [Worker -> Held]
      BY <2>3, <2>5, DrainTypes DEF JobState
    <3>2. Len(queue') <= QueueMax
      BY <3>1, WorkerPoolAssumption DEF TypeOK
    <3> QED BY <1>1, <2>4, <3>1, <3>2 DEF OnMessage, TypeOK, JobState, Held
  <2>6. CASE UNCHANGED <<job, queue, current, work>>
    BY <1>1, <2>4, <2>6 DEF OnMessage, TypeOK
  <2> QED BY <1>1, <2>5, <2>6 DEF OnMessage
<1>2. CASE HandleDeath(s)
  <2>1. current[s] \in Held
    BY DEF TypeOK, Held
  <2>2. /\ job' \in [Job -> JobState] /\ queue' \in Seq(Job) /\ Len(queue') <= Len(queue)
        /\ current' \in [Worker -> Held] /\ work' \in [Worker -> Held]
    BY <1>2, <2>1, DrainTypes DEF HandleDeath, JobState
  <2>3. Len(queue') <= QueueMax
    BY <2>2, WorkerPoolAssumption DEF TypeOK
  <2>4. events' \in [Worker -> Seq(Event)] /\ alive' \in [Worker -> BOOLEAN]
    BY <1>2 DEF HandleDeath, Respawn, TypeOK
  <2> QED BY <1>2, <2>2, <2>3, <2>4 DEF HandleDeath, TypeOK, JobState, Held
<1>3. CASE OnDeath(s) /\ HandleDeathDestroyed(s)
  <2>1. events[s] # <<>>
    BY <1>3 DEF OnDeath, Next1
  <2>2. events' \in [Worker -> Seq(Event)]
    BY <1>3, <2>1, EventsTail DEF HandleDeathDestroyed
  <2>3. job' \in [Job -> JobState] /\ current[s] \in Held
    BY <1>3, SettleType DEF HandleDeathDestroyed, TypeOK, JobState, Held
  <2>4. current' \in [Worker -> Held]
    BY <1>3 DEF HandleDeathDestroyed, TypeOK, Held
  <2> QED BY <1>3, <2>2, <2>3, <2>4 DEF HandleDeathDestroyed, TypeOK, JobState, Held
<1> QED BY <1>1, <1>2, <1>3 DEF MainStep

LEMMA TypeNext == TypeOK /\ [Next]_vars => TypeOK'
<1> SUFFICES ASSUME TypeOK, [Next]_vars PROVE TypeOK'
  OBVIOUS
<1>1. CASE \E j \in Job : Refuse(j) \/ RunJob(j)
  BY <1>1, TypeWork
<1>2. CASE \E s \in Worker : Compute(s) \/ Die(s) \/ MainStep(s)
  BY <1>2, TypeThread, TypeMain
<1>3. CASE Close
  BY <1>3 DEF Close, TypeOK
<1>4. CASE Destroy
  <2>1. \A s \in Worker : Say(s, "exit", NoJob) \in Seq(Event)
    BY SayType DEF Held
  <2>2. events' \in [Worker -> Seq(Event)]
    BY <1>4, <2>1 DEF Destroy, TypeOK
  <2> QED BY <1>4, <2>2 DEF Destroy, TypeOK
<1>5. CASE UNCHANGED vars
  BY <1>5 DEF vars, TypeOK
<1> QED BY <1>1, <1>2, <1>3, <1>4, <1>5 DEF Next

\* Type correctness and the bound of the queue, for every value of the constants
\* (WorkerPool!TypeOK).
THEOREM TypeCorrect == Spec => []TypeOK
<1> QED BY TypeInit, TypeNext, PTL DEF Spec

-----------------------------------------------------------------------------
(* The inductive invariant.                                                *)

LEMMA InvInit == Init => IndInv
BY WorkerPoolAssumption DEF Init, IndInv, SlotsMatchPending, WorkConserving, EventsMatch, DestroyedIdle

\* _drain hands a slot over to the oldest job that waits, or leaves it free.
LEMMA DrainHandsOver ==
  ASSUME TypeOK, IndInv, NEW s \in Worker, NEW e \in {"resolved", "rejected"},
         Drain(s, current[s], e)
  PROVE  /\ SlotsMatchPending' /\ WorkConserving'
         /\ current'[s] = work'[s]
         /\ \A u \in Worker : u # s => current'[u] = current[u] /\ work'[u] = work[u]
<1> DEFINE j == current[s]
           db == Settle(job, j, e)
<1>1. /\ db \in [Job -> JobState] /\ j \in Held
      /\ j \in Job => db[j] = e
      /\ \A k \in Job : k # j => db[k] = job[k]
  BY SettleType DEF TypeOK, JobState, Held
<1>2. j # NoJob => job[j] = "running"
  BY DEF IndInv, SlotsMatchPending
<1>3. \A u \in Worker : current[u] \in Held /\ (u # s /\ current[u] # NoJob => current[u] # j)
  BY DEF IndInv, SlotsMatchPending, TypeOK, Held
<1>4. NoJob \notin Job
  BY WorkerPoolAssumption
<1>5. CASE queue = <<>>
  <2>1. job' = db /\ queue' = queue
    BY <1>5 DEF Drain
  <2>2. /\ current'[s] = NoJob /\ work'[s] = NoJob
        /\ \A u \in Worker : u # s => current'[u] = current[u] /\ work'[u] = work[u]
    BY <1>5 DEF Drain, TypeOK
  <2> HIDE DEF j, db
  <2>3. \A u \in Worker : current'[u] # NoJob => job'[current'[u]] = "running"
    BY <1>1, <1>3, <2>1, <2>2 DEF IndInv, SlotsMatchPending, Held
  <2>4. \A u, v \in Worker : current'[u] = current'[v] /\ current'[u] # NoJob => u = v
    BY <2>2 DEF IndInv, SlotsMatchPending
  <2>5. ASSUME NEW k \in Job, job'[k] = "running" PROVE \E u \in Worker : current'[u] = k
    <3>1. k # j /\ job[k] = "running"
      BY <1>1, <2>1, <2>5
    <3>2. PICK u \in Worker : current[u] = k
      BY <3>1 DEF IndInv, SlotsMatchPending
    <3>3. u # s
      BY <3>1, <3>2 DEF j
    <3> QED BY <2>2, <3>2, <3>3
  <2>6. Len(queue') = 0
    BY <1>5, <2>1
  <2>7. SlotsMatchPending'
    BY <2>3, <2>4, <2>5, <2>6 DEF SlotsMatchPending
  <2> QED BY <1>5, <2>1, <2>2, <2>7 DEF WorkConserving
<1>6. CASE queue # <<>>
  <2> DEFINE h == Head(queue)
  <2>1. job' = [db EXCEPT ![h] = "running"] /\ queue' = Tail(queue)
    BY <1>6 DEF Drain
  <2>2. /\ Len(queue) \in Nat \ {0} /\ h = queue[1] /\ h \in Job
        /\ Len(Tail(queue)) = Len(queue) - 1
        /\ \A i \in 1..Len(Tail(queue)) : i + 1 \in 1..Len(queue) /\ Tail(queue)[i] = queue[i + 1]
        /\ \A i \in 1..Len(queue) : queue[i] \in Job
    BY <1>6, QueueHead DEF TypeOK
  <2>3. /\ current'[s] = h /\ work'[s] = h
        /\ \A u \in Worker : u # s => current'[u] = current[u] /\ work'[u] = work[u]
    BY <1>6, <2>2 DEF Drain, TypeOK
  <2>4. job[h] = "queued" /\ h # j
    <3>1. 1 \in 1..Len(queue)
      BY <2>2
    <3>2. job[h] = "queued"
      BY <2>2, <3>1 DEF IndInv, SlotsMatchPending
    <3> QED BY <1>2, <1>4, <2>2, <3>2
  <2>5. job'[h] = "running" /\ \A k \in Job : k # h => job'[k] = db[k]
    BY <1>1, <2>1, <2>2
  <2> HIDE DEF j, db, h
  <2>6. \A u \in Worker : u # s /\ current[u] # NoJob => current[u] # h
    BY <2>2, <2>4 DEF IndInv, SlotsMatchPending
  <2>7. \A u \in Worker : current'[u] # NoJob => job'[current'[u]] = "running"
    BY <1>1, <1>3, <2>3, <2>5, <2>6 DEF IndInv, SlotsMatchPending, Held
  <2>8. \A u, v \in Worker : current'[u] = current'[v] /\ current'[u] # NoJob => u = v
    BY <2>3, <2>6 DEF IndInv, SlotsMatchPending
  <2>9. ASSUME NEW k \in Job, job'[k] = "running" PROVE \E u \in Worker : current'[u] = k
    <3>1. CASE k = h
      BY <2>3, <3>1
    <3>2. CASE k # h
      <4>1. k # j /\ job[k] = "running"
        BY <1>1, <2>5, <2>9, <3>2
      <4>2. PICK u \in Worker : current[u] = k
        BY <4>1 DEF IndInv, SlotsMatchPending
      <4>3. u # s
        BY <4>1, <4>2 DEF j
      <4> QED BY <2>3, <4>2, <4>3
    <3> QED BY <3>1, <3>2
  <2>10. ASSUME NEW i \in 1..Len(queue') PROVE job'[queue'[i]] = "queued"
    <3>1. i \in Nat /\ i + 1 \in 1..Len(queue) /\ queue'[i] = queue[i + 1] /\ i + 1 # 1
      BY <2>1, <2>2, <2>10
    <3>2. job[queue[i + 1]] = "queued" /\ queue[i + 1] # queue[1] /\ queue[i + 1] \in Job
      <4>1. 1 \in 1..Len(queue)
        BY <2>2
      <4> QED BY <2>2, <3>1, <4>1 DEF IndInv, SlotsMatchPending
    <3>3. queue[i + 1] # j
      BY <1>2, <1>4, <3>2
    <3> QED BY <1>1, <2>2, <2>5, <3>1, <3>2, <3>3
  <2>11. ASSUME NEW i \in 1..Len(queue'), NEW k \in 1..Len(queue'), queue'[i] = queue'[k]
         PROVE  i = k
    <3>1. i + 1 \in 1..Len(queue) /\ k + 1 \in 1..Len(queue) /\ queue[i + 1] = queue[k + 1]
      BY <2>1, <2>2, <2>11
    <3>2. i + 1 = k + 1
      BY <3>1 DEF IndInv, SlotsMatchPending
    <3> QED BY <3>2
  <2>12. SlotsMatchPending'
    BY <2>7, <2>8, <2>9, <2>10, <2>11 DEF SlotsMatchPending
  <2>13. WorkConserving'
    BY <1>4, <1>6, <2>2, <2>3 DEF IndInv, WorkConserving, Free
  <2> QED BY <2>3, <2>12, <2>13
<1> QED BY <1>5, <1>6

\* The jobs, the queue and the slots are as they were.
LEMMA SameSlots ==
  ASSUME IndInv, UNCHANGED <<job, queue, current>>
  PROVE  SlotsMatchPending' /\ WorkConserving'
BY DEF IndInv, SlotsMatchPending, WorkConserving, Free

LEMMA InvWork ==
  ASSUME TypeOK, IndInv, NEW j \in Job, Refuse(j) \/ RunJob(j)
  PROVE  IndInv'
<1>1. /\ NoJob \notin Job
      /\ Len(queue) \in Nat /\ \A i \in 1..Len(queue) : queue[i] \in Job
      /\ \A u \in Worker : current[u] \in Held
  BY WorkerPoolAssumption DEF TypeOK, Held
<1>2. /\ job[j] = "new" /\ UNCHANGED <<alive, events, phase>>
      /\ \A k \in Job : k # j => job'[k] = job[k]
  BY DEF Refuse, RunJob, TypeOK
<1>3. /\ \A u \in Worker : current[u] # j
      /\ \A i \in 1..Len(queue) : queue[i] # j
  BY <1>1, <1>2 DEF IndInv, SlotsMatchPending
<1>4. CASE UNCHANGED <<queue, current, work>> /\ job'[j] = "saturated"
  BY <1>1, <1>2, <1>3, <1>4 DEF IndInv, SlotsMatchPending, WorkConserving, EventsMatch, DestroyedIdle, Free, Held
<1>5. ASSUME NEW s \in Free, job' = [job EXCEPT ![j] = "running"], phase = "open",
             current' = [current EXCEPT ![s] = j], work' = [work EXCEPT ![s] = j],
             UNCHANGED queue
      PROVE  IndInv'
  <2>1. s \in Worker /\ current[s] = NoJob
    BY <1>5 DEF Free
  <2>2. /\ job'[j] = "running" /\ current'[s] = j /\ work'[s] = j
        /\ \A u \in Worker : u # s => current'[u] = current[u] /\ work'[u] = work[u]
    BY <1>5, <2>1 DEF TypeOK
  <2>3. SlotsMatchPending'
    <3>1. \A u \in Worker : current'[u] # NoJob => job'[current'[u]] = "running"
      BY <1>1, <1>2, <1>3, <2>2 DEF IndInv, SlotsMatchPending, Held
    <3>2. \A u, v \in Worker : current'[u] = current'[v] /\ current'[u] # NoJob => u = v
      BY <1>3, <2>2 DEF IndInv, SlotsMatchPending
    <3>3. ASSUME NEW k \in Job, job'[k] = "running" PROVE \E u \in Worker : current'[u] = k
      <4>1. CASE k = j
        BY <2>1, <2>2, <4>1
      <4>2. CASE k # j
        <5>1. PICK u \in Worker : current[u] = k
          BY <1>2, <3>3, <4>2 DEF IndInv, SlotsMatchPending
        <5>2. u # s
          BY <1>1, <2>1, <5>1
        <5> QED BY <2>2, <5>1, <5>2
      <4> QED BY <4>1, <4>2
    <3>4. /\ \A i \in 1..Len(queue') : job'[queue'[i]] = "queued"
          /\ \A i, k \in 1..Len(queue') : queue'[i] = queue'[k] => i = k
      BY <1>1, <1>2, <1>3, <1>5 DEF IndInv, SlotsMatchPending
    <3> QED BY <3>1, <3>2, <3>3, <3>4 DEF SlotsMatchPending
  <2>4. queue' = <<>>
    BY <1>5 DEF IndInv, WorkConserving
  \* A free slot's thread has answered all it was asked, if it is alive.
  <2>5. EventsMatch'
    <3>1. /\ \A i \in 1..Len(events[s]) : events[s][i].type # "message"
          /\ alive[s] => events[s] = <<>>
      <4>1. \A i \in 1..Len(events[s]) : events[s][i].type # "message" /\ ~alive[s]
        BY <2>1 DEF IndInv, EventsMatch
      <4>2. events[s] \in Seq(Event)
        BY <2>1 DEF TypeOK
      <4>3. Len(events[s]) # 0 => 1 \in 1..Len(events[s])
        BY <4>2
      <4>4. Len(events[s]) = 0 => events[s] = <<>>
        BY <4>2
      <4> QED BY <4>1, <4>3, <4>4
    <3> QED BY <1>2, <2>2, <3>1 DEF IndInv, EventsMatch
  <2> QED BY <1>2, <1>5, <2>3, <2>4, <2>5 DEF IndInv, WorkConserving, DestroyedIdle
<1>6. CASE /\ Free = {} /\ job' = [job EXCEPT ![j] = "queued"] /\ queue' = Append(queue, j)
           /\ UNCHANGED <<current, work>>
  <2>1. /\ Len(queue') = Len(queue) + 1 /\ queue'[Len(queue) + 1] = j
        /\ \A i \in 1..Len(queue) : queue'[i] = queue[i]
    BY <1>6 DEF TypeOK
  <2>2. job'[j] = "queued"
    BY <1>6 DEF TypeOK
  <2>3. \A i \in 1..Len(queue') : (i \in 1..Len(queue) \/ i = Len(queue) + 1)
    BY <1>1, <2>1
  <2>4. \A i \in 1..Len(queue') : job'[queue'[i]] = "queued"
    BY <1>1, <1>2, <1>3, <2>1, <2>2, <2>3 DEF IndInv, SlotsMatchPending
  <2>5. \A i, k \in 1..Len(queue') : queue'[i] = queue'[k] => i = k
    BY <1>3, <2>1, <2>3 DEF IndInv, SlotsMatchPending
  <2>6. /\ \A u \in Worker : current'[u] # NoJob => job'[current'[u]] = "running"
        /\ \A u, v \in Worker : current'[u] = current'[v] /\ current'[u] # NoJob => u = v
        /\ \A k \in Job : job'[k] = "running" => \E u \in Worker : current'[u] = k
    BY <1>1, <1>2, <1>3, <1>6, <2>2 DEF IndInv, SlotsMatchPending, Held
  <2>7. SlotsMatchPending'
    BY <2>4, <2>5, <2>6 DEF SlotsMatchPending
  <2>8. EventsMatch' /\ DestroyedIdle' /\ WorkConserving'
    BY <1>2, <1>6 DEF IndInv, EventsMatch, DestroyedIdle, WorkConserving, Free
  <2> QED BY <2>7, <2>8 DEF IndInv
<1>7. CASE Refuse(j)
  BY <1>4, <1>7 DEF Refuse, TypeOK
<1>8. CASE RunJob(j)
  BY <1>5, <1>6, <1>8 DEF RunJob
<1> QED BY <1>7, <1>8

LEMMA InvCompute ==
  ASSUME TypeOK, IndInv, NEW s \in Worker, Compute(s)
  PROVE  IndInv'
<1>1. SlotsMatchPending' /\ WorkConserving' /\ DestroyedIdle'
  BY SameSlots DEF Compute, IndInv, DestroyedIdle
<1>2. alive[s] /\ work[s] # NoJob /\ work[s] = current[s] /\ events[s] = <<>>
  BY DEF Compute, IndInv, EventsMatch
<1>3. events'[s] = Say(s, "message", work[s]) /\ work'[s] = NoJob
  BY DEF Compute, TypeOK
<1>4. Len(events[s]) = 0 /\ work[s] \in Held
  BY <1>2 DEF TypeOK, Held
<1>5. Len(events'[s]) = 1 /\ events'[s][1] = [type |-> "message", job |-> current[s]]
  <2> DEFINE r == [type |-> "message", job |-> work[s]]
  <2>1. /\ Len(Say(s, "message", work[s])) = Len(events[s]) + 1
        /\ Say(s, "message", work[s])[Len(events[s]) + 1] = r
    BY <1>4, SayType
  <2>2. r = [type |-> "message", job |-> current[s]]
    BY <1>2
  <2> HIDE DEF r
  <2> QED BY <1>3, <1>4, <2>1, <2>2
<1>6. \A u \in Worker : u # s => events'[u] = events[u] /\ work'[u] = work[u]
  BY DEF Compute, TypeOK
<1>7. current' = current /\ alive' = alive
  BY DEF Compute
<1>8. EventsMatch'
  BY <1>2, <1>3, <1>5, <1>6, <1>7 DEF IndInv, EventsMatch
<1> QED BY <1>1, <1>8 DEF IndInv

\* A death is reported after what the thread has said, and only by dead threads.
LEMMA ReportsDeath ==
  ASSUME TypeOK, IndInv, NEW s \in Worker, ~alive'[s],
         current'[s] = current[s],
         \/ events'[s] = Say(s, "exit", NoJob)
         \/ events'[s] = Say(s, "error", NoJob) \o <<[type |-> "exit", job |-> NoJob]>>
         \/ events'[s] = events[s]
  PROVE  \A i \in 1..Len(events'[s]) :
           IF events'[s][i].type = "message"
             THEN i = 1 /\ events'[s][i].job = current'[s] /\ current'[s] # NoJob
             ELSE ~alive'[s]
<1>0. NoJob \in Held
  BY DEF Held
<1>1. \A i \in 1..Len(events[s]) :
        events[s][i].type = "message" => i = 1 /\ events[s][i].job = current[s] /\ current[s] # NoJob
  BY DEF IndInv, EventsMatch
<1>2. CASE events'[s] = Say(s, "exit", NoJob)
  <2> DEFINE q == Say(s, "exit", NoJob)
             n == Len(events[s])
  <2>1. /\ Len(q) = n + 1 /\ n \in Nat
        /\ q[n + 1] = [type |-> "exit", job |-> NoJob]
        /\ \A i \in 1..n : q[i] = events[s][i]
    BY <1>0, SayType
  <2>2. q[n + 1].type = "exit"
    BY <2>1
  <2>3. events'[s] = q
    BY <1>2
  <2> HIDE DEF q
  <2>4. \A i \in 1..Len(q) : i \in 1..n \/ i = n + 1
    BY <2>1
  <2> QED BY <1>1, <2>1, <2>2, <2>3, <2>4
<1>3. CASE events'[s] = Say(s, "error", NoJob) \o <<[type |-> "exit", job |-> NoJob]>>
  <2> DEFINE q == Say(s, "error", NoJob)
             r == [type |-> "exit", job |-> NoJob]
             n == Len(events[s])
  <2>1. /\ q \in Seq(Event) /\ Len(q) = n + 1 /\ n \in Nat
        /\ q[n + 1] = [type |-> "error", job |-> NoJob]
        /\ \A i \in 1..n : q[i] = events[s][i]
    BY <1>0, SayType
  <2>2. q[n + 1].type = "error"
    BY <2>1
  <2>3. r \in Event /\ r.type = "exit"
    BY DEF Event
  <2>4. events'[s] = q \o <<r>>
    BY <1>3
  <2> HIDE DEF q, r
  <2>5. /\ Len(q \o <<r>>) = n + 2
        /\ \A i \in 1..(n + 1) : (q \o <<r>>)[i] = q[i]
        /\ (q \o <<r>>)[n + 2] = r
    BY <2>1, <2>3
  <2>6. \A i \in 1..Len(q \o <<r>>) : i \in 1..n \/ i = n + 1 \/ i = n + 2
    BY <2>1, <2>5
  <2>7. \A i \in 1..n : i \in 1..(n + 1)
    BY <2>1
  <2>8. n + 1 \in 1..(n + 1)
    BY <2>1
  <2> SUFFICES ASSUME NEW i \in 1..Len(q \o <<r>>)
               PROVE  IF (q \o <<r>>)[i].type = "message"
                        THEN i = 1 /\ (q \o <<r>>)[i].job = current[s] /\ current[s] # NoJob
                        ELSE ~alive'[s]
    BY <2>4
  <2>9. CASE i \in 1..n
    BY <1>1, <2>1, <2>5, <2>7, <2>9
  <2>10. CASE i = n + 1
    BY <2>2, <2>5, <2>8, <2>10
  <2>11. CASE i = n + 2
    BY <2>3, <2>5, <2>11
  <2> QED BY <2>6, <2>9, <2>10, <2>11
<1>4. CASE events'[s] = events[s]
  BY <1>1, <1>4
<1> QED BY <1>2, <1>3, <1>4

LEMMA InvDie ==
  ASSUME TypeOK, IndInv, NEW s \in Worker, Die(s)
  PROVE  IndInv'
<1>1. SlotsMatchPending' /\ WorkConserving'
  BY SameSlots DEF Die
<1>2. /\ ~alive'[s] /\ current' = current /\ work' = work /\ phase' = phase
      /\ \A u \in Worker : u # s => events'[u] = events[u] /\ alive'[u] = alive[u]
  BY DEF Die, TypeOK
<1>3. \/ events'[s] = Say(s, "exit", NoJob)
      \/ events'[s] = Say(s, "error", NoJob) \o <<[type |-> "exit", job |-> NoJob]>>
  BY DEF Die, TypeOK
<1>4. EventsMatch'
  BY <1>2, <1>3, ReportsDeath DEF IndInv, EventsMatch
<1>5. DestroyedIdle'
  BY <1>2 DEF IndInv, DestroyedIdle
<1> QED BY <1>1, <1>4, <1>5 DEF IndInv

LEMMA NothingSaid ==
  ASSUME NEW t \in Seq(Event), \A i \in 1..Len(t) : FALSE
  PROVE  t = <<>>
<1>1. Len(t) # 0 => 1 \in 1..Len(t)
  OBVIOUS
<1> QED BY <1>1

LEMMA InvMessage ==
  ASSUME TypeOK, IndInv, NEW s \in Worker, OnMessage(s)
  PROVE  IndInv'
<1> DEFINE q == events[s]
<1>1. q \in Seq(Event) /\ q # <<>> /\ Head(q).type = "message" /\ alive' = alive /\ phase' = phase
  BY DEF OnMessage, Next1, TypeOK
<1>2. /\ Len(q) \in Nat \ {0} /\ Head(q) = q[1]
      /\ Len(Tail(q)) = Len(q) - 1 /\ Tail(q) \in Seq(Event)
      /\ \A i \in 1..Len(Tail(q)) : i + 1 \in 1..Len(q) /\ Tail(q)[i] = q[i + 1] /\ i + 1 # 1
  BY <1>1
<1>3. events'[s] = Tail(q) /\ \A u \in Worker : u # s => events'[u] = events[u]
  BY DEF OnMessage, TypeOK
<1> HIDE DEF q
<1>4. /\ Head(q).job = current[s] /\ current[s] # NoJob
      /\ \A i \in 1..Len(Tail(q)) : Tail(q)[i].type # "message" /\ ~alive[s]
  <2>1. 1 \in 1..Len(q)
    BY <1>2
  <2> QED BY <1>1, <1>2, <2>1 DEF IndInv, EventsMatch, q
<1>5. job[current[s]] = "running" /\ Head(events[s]).job = current[s]
  BY <1>4 DEF IndInv, SlotsMatchPending, q
<1>6. Drain(s, current[s], "resolved")
  BY <1>5 DEF OnMessage
<1>7. /\ SlotsMatchPending' /\ WorkConserving'
      /\ current'[s] = work'[s]
      /\ \A u \in Worker : u # s => current'[u] = current[u] /\ work'[u] = work[u]
  BY <1>6, DrainHandsOver
<1>8. alive[s] => events'[s] = <<>>
  <2>1. alive[s] => \A i \in 1..Len(Tail(q)) : FALSE
    BY <1>4
  <2> QED BY <1>2, <1>3, <2>1, NothingSaid
<1>9. EventsMatch'
  <2>1. \A i \in 1..Len(events'[s]) : events'[s][i].type # "message" /\ ~alive[s]
    BY <1>3, <1>4
  <2>2. ASSUME NEW u \in Worker, u # s
        PROVE  /\ alive[u] /\ work[u] # NoJob => work[u] = current[u] /\ events[u] = <<>>
               /\ \A i \in 1..Len(events[u]) :
                    IF events[u][i].type = "message"
                      THEN i = 1 /\ events[u][i].job = current[u] /\ current[u] # NoJob
                      ELSE ~alive[u]
    BY DEF IndInv, EventsMatch
  <2>3. alive'[s] /\ work'[s] # NoJob => work'[s] = current'[s] /\ events'[s] = <<>>
    BY <1>1, <1>7, <1>8
  <2>4. \A u \in Worker : u # s => /\ events'[u] = events[u] /\ alive'[u] = alive[u]
                                   /\ current'[u] = current[u] /\ work'[u] = work[u]
    BY <1>1, <1>3, <1>7
  <2>5. ~alive[s] => ~alive'[s]
    BY <1>1
  <2> QED BY <2>1, <2>2, <2>3, <2>4, <2>5 DEF EventsMatch
<1>10. DestroyedIdle'
  BY <1>1, <1>4 DEF IndInv, DestroyedIdle
<1> QED BY <1>7, <1>9, <1>10 DEF IndInv

LEMMA InvDeath ==
  ASSUME TypeOK, IndInv, NEW s \in Worker, HandleDeath(s)
  PROVE  IndInv'
<1>1. /\ SlotsMatchPending' /\ WorkConserving'
      /\ current'[s] = work'[s]
      /\ \A u \in Worker : u # s => current'[u] = current[u] /\ work'[u] = work[u]
  BY DrainHandsOver DEF HandleDeath
<1>2. /\ alive'[s] /\ events'[s] = <<>> /\ phase' # "destroyed"
      /\ \A u \in Worker : u # s => alive'[u] = alive[u] /\ events'[u] = events[u]
  BY DEF HandleDeath, Respawn, TypeOK
<1>3. EventsMatch'
  BY <1>1, <1>2 DEF IndInv, EventsMatch
<1>4. DestroyedIdle'
  BY <1>2 DEF DestroyedIdle
<1> QED BY <1>1, <1>3, <1>4 DEF IndInv

LEMMA InvDeathDestroyed ==
  ASSUME TypeOK, IndInv, NEW s \in Worker, OnDeath(s), HandleDeathDestroyed(s)
  PROVE  IndInv'
<1> DEFINE q == events[s]
<1>1. current[s] = NoJob /\ ~alive[s]
  BY DEF HandleDeathDestroyed, IndInv, DestroyedIdle
<1>2. job' = job /\ current' = current /\ queue' = queue /\ alive' = alive /\ work' = work /\ phase' = phase
  BY <1>1 DEF HandleDeathDestroyed, Settle, TypeOK
<1>3. q \in Seq(Event) /\ q # <<>>
  BY DEF OnDeath, Next1, TypeOK
<1>4. \A i \in 1..Len(Tail(q)) : i + 1 \in 1..Len(q) /\ Tail(q)[i] = q[i + 1] /\ i + 1 # 1
  BY <1>3
<1>5. events'[s] = Tail(q) /\ \A u \in Worker : u # s => events'[u] = events[u]
  BY DEF HandleDeathDestroyed, TypeOK
<1> HIDE DEF q
<1>6. \A i \in 1..Len(Tail(q)) : Tail(q)[i].type # "message"
  BY <1>4 DEF IndInv, EventsMatch, q
<1>7. EventsMatch'
  BY <1>1, <1>2, <1>5, <1>6 DEF IndInv, EventsMatch
<1> QED BY <1>2, <1>7, SameSlots DEF IndInv, DestroyedIdle

LEMMA InvDestroy ==
  ASSUME TypeOK, IndInv, Destroy
  PROVE  IndInv'
<1>1. SlotsMatchPending' /\ WorkConserving'
  BY SameSlots DEF Destroy
<1>2. \A u \in Worker : current[u] = NoJob
  BY DEF Destroy, IndInv, SlotsMatchPending, TypeOK
<1>3. DestroyedIdle'
  BY <1>2 DEF Destroy, DestroyedIdle
<1>4. \A u \in Worker : /\ ~alive'[u] /\ current'[u] = current[u]
                        /\ events'[u] = Say(u, "exit", NoJob) \/ events'[u] = events[u]
  BY DEF Destroy
<1>5. EventsMatch'
  BY <1>4, ReportsDeath DEF EventsMatch
<1> QED BY <1>1, <1>3, <1>5 DEF IndInv

LEMMA InvNext == TypeOK /\ IndInv /\ [Next]_vars => IndInv'
<1> SUFFICES ASSUME TypeOK, IndInv, [Next]_vars PROVE IndInv'
  OBVIOUS
<1>1. CASE \E j \in Job : Refuse(j) \/ RunJob(j)
  BY <1>1, InvWork
<1>2. CASE \E s \in Worker : Compute(s) \/ Die(s) \/ MainStep(s)
  BY <1>2, InvCompute, InvDie, InvMessage, InvDeath, InvDeathDestroyed DEF MainStep
<1>3. CASE Close
  BY <1>3, SameSlots DEF Close, IndInv, EventsMatch, DestroyedIdle
<1>4. CASE Destroy
  BY <1>4, InvDestroy
<1>5. CASE UNCHANGED vars
  BY <1>5, SameSlots DEF vars, IndInv, EventsMatch, DestroyedIdle
<1> QED BY <1>1, <1>2, <1>3, <1>4, <1>5 DEF Next

\* Slots, queue, threads and their events agree, however threads die and are
\* replaced (WorkerPool!IndInv).
THEOREM IndInvHolds == Spec => []IndInv
<1>1. Init => TypeOK /\ IndInv
  BY TypeInit, InvInit
<1>2. TypeOK /\ IndInv /\ [Next]_vars => (TypeOK /\ IndInv)'
  BY TypeNext, InvNext
<1> QED BY <1>1, <1>2, PTL DEF Spec

\* The map pending, the slots and the queue agree: no job is lost, held twice or
\* forgotten by a death (WorkerPool!SlotsMatchPending).
THEOREM SlotsMatchPendingHolds == Spec => []SlotsMatchPending
<1>1. IndInv => SlotsMatchPending
  BY DEF IndInv
<1> QED BY <1>1, IndInvHolds, PTL

\* No job waits beside a free worker (WorkerPool!WorkConserving).
THEOREM WorkConservingHolds == Spec => []WorkConserving
<1>1. IndInv => WorkConserving
  BY DEF IndInv
<1> QED BY <1>1, IndInvHolds, PTL

\* A job that _drain touches ends as the outcome it is given or starts to run.
LEMMA DrainRejects ==
  ASSUME TypeOK, NEW s \in Worker, NEW j \in Held, NEW e \in JobState, Drain(s, j, e),
         NEW k \in Job, job'[k] = "rejected", job[k] # "rejected"
  PROVE  k = j /\ e = "rejected"
<1> DEFINE db == Settle(job, j, e)
<1>1. /\ db \in [Job -> JobState]
      /\ j \in Job => db[j] = e
      /\ \A n \in Job : n # j => db[n] = job[n]
  BY SettleType DEF TypeOK, JobState
<1>2. job' = db \/ job' = [db EXCEPT ![Head(queue)] = "running"]
  BY DEF Drain
<1> HIDE DEF db
<1>3. job'[k] = db[k] \/ job'[k] = "running"
  BY <1>1, <1>2
<1> QED BY <1>1, <1>3

LEMMA RejectedStep ==
  ASSUME TypeOK, IndInv, [Next]_vars, NEW j \in Job, job[j] = "running", job'[j] = "rejected"
  PROVE  \E s \in Worker : current[s] = j /\ ~alive[s]
<1>1. CASE \E k \in Job : Refuse(k) \/ RunJob(k)
  BY <1>1 DEF Refuse, RunJob, TypeOK
<1>2. CASE \E s \in Worker : Compute(s) \/ Die(s)
  BY <1>2 DEF Compute, Die
<1>3. ASSUME NEW s \in Worker, OnMessage(s) PROVE FALSE
  <2>1. Drain(s, Head(events[s]).job, "resolved") \/ job' = job
    BY <1>3 DEF OnMessage
  <2>2. events[s] \in Seq(Event) /\ events[s] # <<>>
    BY <1>3 DEF OnMessage, Next1, TypeOK
  <2>3. Head(events[s]) \in Event
    BY <2>2
  <2>4. Head(events[s]).job \in Held
    BY <2>3 DEF Event, Held
  <2> QED BY <2>1, <2>4, DrainRejects DEF JobState
<1>4. ASSUME NEW s \in Worker, OnDeath(s), HandleDeath(s)
      PROVE  current[s] = j /\ ~alive[s]
  <2>1. Drain(s, current[s], "rejected") /\ current[s] \in Held
    BY <1>4 DEF HandleDeath, TypeOK, Held
  <2>2. current[s] = j
    BY <2>1, DrainRejects DEF JobState
  <2>3. events[s] \in Seq(Event) /\ events[s] # <<>> /\ Head(events[s]).type \in {"error", "exit"}
    BY <1>4 DEF OnDeath, Next1, TypeOK
  <2>4. 1 \in 1..Len(events[s]) /\ Head(events[s]) = events[s][1]
    BY <2>3
  <2>5. ~alive[s]
    BY <2>3, <2>4 DEF IndInv, EventsMatch
  <2> QED BY <2>2, <2>5
<1>5. ASSUME NEW s \in Worker, HandleDeathDestroyed(s) PROVE FALSE
  BY <1>5 DEF HandleDeathDestroyed, Settle, IndInv, DestroyedIdle
<1>6. CASE Close \/ Destroy \/ UNCHANGED vars
  BY <1>6 DEF Close, Destroy, vars
<1> QED BY <1>1, <1>2, <1>3, <1>4, <1>5, <1>6 DEF Next, MainStep

\* A job is rejected only by the death of the thread that had it: the second event
\* of a death never reaches the job of the replacement
\* (WorkerPool!RejectedByItsOwnDeath).
THEOREM RejectedByItsOwnDeathHolds == Spec => RejectedByItsOwnDeath
<1>1. TypeOK /\ IndInv /\ [Next]_vars =>
        [\A j \in Job : job[j] = "running" /\ job'[j] = "rejected" =>
           \E s \in Worker : current[s] = j /\ ~alive[s]]_vars
  BY RejectedStep
<1> QED BY <1>1, TypeCorrect, IndInvHolds, PTL DEF Spec, RejectedByItsOwnDeath

-----------------------------------------------------------------------------
(* The pool implements a line of jobs before so many servers.              *)

\* As many jobs run as slots are busy, so fewer than there are workers while one
\* of them is free.
LEMMA RoomIsFree ==
  ASSUME TypeOK, SlotsMatchPending
  PROVE  Line!Room <=> Free # {}
<1> DEFINE Busy == {s \in Worker : current[s] # NoJob}
           Running == {j \in Job : job[j] = "running"}
           f == [s \in Busy |-> current[s]]
<1>1. IsFiniteSet(Worker) /\ Busy \in SUBSET Worker
  BY WorkerPoolAssumption
<1>2. /\ IsFiniteSet(Busy) /\ Cardinality(Busy) <= Cardinality(Worker)
      /\ Cardinality(Busy) = Cardinality(Worker) => Busy = Worker
  BY <1>1, FS_Subset
<1>3. f \in Bijection(Busy, Running)
  <2>1. f \in [Busy -> Running]
    BY DEF TypeOK, SlotsMatchPending
  <2>2. \A s, u \in Busy : f[s] = f[u] => s = u
    BY DEF SlotsMatchPending
  <2>3. \A j \in Running : \E s \in Busy : f[s] = j
    BY WorkerPoolAssumption DEF SlotsMatchPending
  <2> QED BY <2>1, <2>2, <2>3 DEF Bijection, Injection, Surjection, IsInjective
<1>4. ExistsBijection(Busy, Running)
  BY <1>3, Zenon DEF ExistsBijection
<1>5. Free # {} <=> Busy # Worker
  BY DEF Free
<1> HIDE DEF Busy, f
<1>6. Cardinality(Running) = Cardinality(Busy)
  BY <1>2, <1>4, FS_Bijection
<1>7. Cardinality(Busy) \in Nat /\ Cardinality(Worker) \in Nat
  BY <1>1, <1>2, FS_CardinalityType
<1>8. Cardinality(Running) < Cardinality(Worker) <=> Busy # Worker
  BY <1>2, <1>6, <1>7
<1>9. Line!Room <=> Cardinality(Running) < Cardinality(Worker)
  <2>1. Line!Cardinality(Running) = Cardinality(Running)
    BY DEF Line!Cardinality, Cardinality
  <2> QED BY <2>1, Zenon DEF Line!Room
<1> QED BY <1>5, <1>8, <1>9, Zenon

LEMMA QueueInit == Init => Line!Init
BY DEF Init, Line!Init

\* _drain ends the slot's job and starts the oldest that waits; a slot that had
\* none has nothing to hand on.
LEMMA DrainEnds ==
  ASSUME TypeOK, IndInv, NEW s \in Worker, NEW e \in {"resolved", "rejected"},
         Drain(s, current[s], e)
  PROVE  [Line!Next]_Line!vars
<1>1. CASE current[s] = NoJob
  <2>1. queue = <<>>
    BY <1>1 DEF IndInv, WorkConserving, Free
  <2>2. UNCHANGED <<job, queue>>
    BY <1>1, <2>1 DEF Drain, Settle
  <2> QED BY <2>2 DEF Line!vars
<1>2. CASE current[s] # NoJob
  <2> DEFINE j == current[s]
  <2>1. j \in Job /\ job[j] = "running"
    BY <1>2 DEF TypeOK, IndInv, SlotsMatchPending
  <2>2. CASE queue = <<>>
    <3>1. job' = [job EXCEPT ![j] = e] /\ UNCHANGED queue
      BY <1>2, <2>2 DEF Drain, Settle
    <3> QED BY <2>1, <2>2, <3>1 DEF Line!Next, Line!End
  <2>3. CASE queue # <<>>
    <3>1. job' = [job EXCEPT ![j] = e, ![Head(queue)] = "running"] /\ queue' = Tail(queue)
      BY <1>2, <2>3 DEF Drain, Settle
    <3> QED BY <2>1, <2>3, <3>1 DEF Line!Next, Line!End
  <2> QED BY <2>2, <2>3
<1> QED BY <1>1, <1>2

\* A request that comes in is run, waits or is refused, whichever the room asks for.
LEMMA WorkEnters ==
  ASSUME TypeOK, IndInv, NEW j \in Job, Refuse(j) \/ RunJob(j)
  PROVE  Line!Next
<1>1. Line!Room <=> Free # {}
  BY RoomIsFree DEF IndInv
<1>2. QueueMax \in Nat \ {0} /\ Len(queue) \in Nat /\ Len(queue) <= QueueMax /\ Len(<<>>) = 0
  BY WorkerPoolAssumption DEF TypeOK
<1>3. CASE Refuse(j)
  <2>1. Len(queue) = QueueMax /\ queue # <<>>
    BY <1>2, <1>3 DEF Refuse, Saturated
  <2>2. ~Line!Room
    BY <1>1, <2>1 DEF IndInv, WorkConserving
  <2>3. Line!Refuse(j)
    BY <1>3, <2>1, <2>2 DEF Refuse, Line!Refuse
  <2> QED BY <2>3 DEF Line!Next
<1>4. CASE RunJob(j)
  <2>1. CASE Free # {}
    <3>1. Line!Start(j)
      BY <1>1, <1>4, <2>1 DEF RunJob, Line!Start, IndInv, WorkConserving
    <3> QED BY <3>1 DEF Line!Next
  <2>2. CASE Free = {}
    <3>1. Len(queue) < QueueMax
      BY <1>2, <1>4 DEF RunJob, Saturated
    <3>2. Line!Wait(j)
      BY <1>1, <1>4, <2>2, <3>1 DEF RunJob, Line!Wait
    <3> QED BY <3>2 DEF Line!Next
  <2> QED BY <2>1, <2>2
<1> QED BY <1>3, <1>4

LEMMA QueueNext == TypeOK /\ IndInv /\ [Next]_vars => [Line!Next]_Line!vars
<1> SUFFICES ASSUME TypeOK, IndInv, [Next]_vars PROVE [Line!Next]_Line!vars
  OBVIOUS
<1>1. CASE \E j \in Job : Refuse(j) \/ RunJob(j)
  BY <1>1, WorkEnters
<1>2. CASE UNCHANGED <<job, queue>>
  BY <1>2 DEF Line!vars
<1>3. ASSUME NEW s \in Worker, Compute(s) \/ Die(s) PROVE UNCHANGED <<job, queue>>
  BY <1>3 DEF Compute, Die
<1>4. ASSUME NEW s \in Worker, OnMessage(s) PROVE [Line!Next]_Line!vars
  <2>1. Head(events[s]).job = current[s]
    <3>1. events[s] \in Seq(Event) /\ events[s] # <<>> /\ Head(events[s]).type = "message"
      BY <1>4 DEF OnMessage, Next1, TypeOK
    <3>2. 1 \in 1..Len(events[s]) /\ Head(events[s]) = events[s][1]
      BY <3>1
    <3> QED BY <3>1, <3>2 DEF IndInv, EventsMatch
  <2>2. Drain(s, current[s], "resolved") \/ UNCHANGED <<job, queue>>
    BY <1>4, <2>1 DEF OnMessage
  <2> QED BY <1>2, <2>2, DrainEnds
<1>5. ASSUME NEW s \in Worker, HandleDeath(s) PROVE [Line!Next]_Line!vars
  BY <1>5, DrainEnds DEF HandleDeath
<1>6. ASSUME NEW s \in Worker, HandleDeathDestroyed(s) PROVE UNCHANGED <<job, queue>>
  BY <1>6 DEF HandleDeathDestroyed, Settle, IndInv, DestroyedIdle
<1>7. Close \/ Destroy \/ UNCHANGED vars => UNCHANGED <<job, queue>>
  BY DEF Close, Destroy, vars
<1> QED BY <1>1, <1>2, <1>3, <1>4, <1>5, <1>6, <1>7 DEF Next, MainStep

\* However threads die and are replaced, the pool is one line of jobs before as
\* many servers as it has workers (WorkerPool!RefinesQueue).
THEOREM RefinesQueueHolds == Spec => RefinesQueue
<1>1. Spec => Line!Spec
  BY QueueInit, QueueNext, TypeCorrect, IndInvHolds, PTL DEF Spec, Line!Spec
<1> QED BY <1>1 DEF RefinesQueue
=============================================================================
