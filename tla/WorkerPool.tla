----------------------------- MODULE WorkerPool -----------------------------
(***************************************************************************)
(* pool.ts, cpu-worker.ts and the /work route: CPU jobs run in worker      *)
(* threads, wait in a queue when all are busy, and are refused (503) when  *)
(* the queue is full.  A thread that dies rejects its job and is replaced. *)
(*                                                                         *)
(* The main thread runs one callback at a time, each an action.  Threads   *)
(* run on their own; what they have to say waits in events, in order.      *)
(***************************************************************************)
EXTENDS Naturals, Sequences, FiniteSets

CONSTANTS
  Worker,         \* slots of the pool (WorkerState)
  Job,            \* requests for /work?cpu=..
  NoJob,
  QueueMax,       \* WORKER_QUEUE_MAX
  Faults          \* how threads die: "throw" (error, then exit), "exit" (alone)

ASSUME WorkerPoolAssumption ==
  /\ IsFiniteSet(Worker)
  /\ NoJob \notin Job
  /\ QueueMax \in Nat \ {0}
  /\ Faults \subseteq {"throw", "exit"}

VARIABLES
  job,            \* what has become of each request
  queue,          \* jobs that wait, oldest first
  current,        \* currentJobId of each slot
  alive,          \* the thread behind a slot has not died
  work,           \* the job that thread has been posted
  events,         \* events of that thread the main thread has not handled
  phase           \* of the server process

vars == <<job, queue, current, alive, work, events, phase>>

Event == [type : {"message", "error", "exit"}, job : Job \union {NoJob}]

\* Backpressure included: never more than QueueMax jobs wait.
TypeOK ==
  /\ job \in [Job -> {"new", "queued", "running", "resolved", "rejected", "saturated"}]
  /\ queue \in Seq(Job) /\ Len(queue) <= QueueMax
  /\ current \in [Worker -> Job \union {NoJob}]
  /\ alive \in [Worker -> BOOLEAN]
  /\ work \in [Worker -> Job \union {NoJob}]
  /\ events \in [Worker -> Seq(Event)]
  /\ phase \in {"open", "closing", "destroyed"}

Init ==
  /\ job = [j \in Job |-> "new"]
  /\ queue = <<>>
  /\ current = [s \in Worker |-> NoJob]
  /\ alive = [s \in Worker |-> TRUE]
  /\ work = [s \in Worker |-> NoJob]
  /\ events = [s \in Worker |-> <<>>]
  /\ phase = "open"

Free == {s \in Worker : current[s] = NoJob}
Say(s, type, j) == Append(events[s], [type |-> type, job |-> j])
Next1(s, type) == events[s] # <<>> /\ Head(events[s]).type = type

\* _drain after the job of slot s has ended as e (NoJob: there was none).  The
\* slot takes the head of the queue, if any; posted is what its thread gets.
Settle(db, j, e) == IF j = NoJob THEN db ELSE [db EXCEPT ![j] = e]
Drain(s, j, e) ==
  \/ /\ queue = <<>>
     /\ job' = Settle(job, j, e)
     /\ current' = [current EXCEPT ![s] = NoJob]
     /\ work' = [work EXCEPT ![s] = NoJob]
     /\ UNCHANGED queue
  \/ /\ queue # <<>>
     /\ job' = [Settle(job, j, e) EXCEPT ![Head(queue)] = "running"]
     /\ current' = [current EXCEPT ![s] = Head(queue)]
     /\ work' = [work EXCEPT ![s] = Head(queue)]
     /\ queue' = Tail(queue)

-----------------------------------------------------------------------------
(* Mistakes this code could have made; no action uses them.                *)

\* Saturated with > in place of >=.
SaturatedLate == Len(queue) > QueueMax

\* Respawn leaves the dead thread's listeners, so its next event counts too.
KeepListeners(s) ==
  /\ alive' = [alive EXCEPT ![s] = TRUE]
  /\ events' = [events EXCEPT ![s] = Tail(@)]

\* HandleDeath does not feed the new worker the backlog.
DeathWithoutDrain(s) ==
  /\ phase # "destroyed"
  /\ alive' = [alive EXCEPT ![s] = TRUE] /\ events' = [events EXCEPT ![s] = <<>>]
  /\ job' = Settle(job, current[s], "rejected")
  /\ current' = [current EXCEPT ![s] = NoJob]
  /\ work' = [work EXCEPT ![s] = NoJob]
  /\ UNCHANGED <<queue, phase>>

\* HandleDeath settles the job and leaves currentJobId as it was.
DeathKeepsCurrent(s) ==
  /\ phase # "destroyed"
  /\ alive' = [alive EXCEPT ![s] = TRUE] /\ events' = [events EXCEPT ![s] = <<>>]
  /\ job' = Settle(job, current[s], "rejected")
  /\ UNCHANGED <<queue, current, work, phase>>

\* Only 'error' is listened to.
OnErrorOnly(s) == Next1(s, "error")

-----------------------------------------------------------------------------
(* GET /work, in the main thread.                                          *)

Saturated == Len(queue) >= QueueMax

Refuse(j) ==
  /\ phase = "open" /\ job[j] = "new" /\ Saturated
  /\ job' = [job EXCEPT ![j] = "saturated"]
  /\ UNCHANGED <<queue, current, alive, work, events, phase>>

\* run and _assign: any free slot will do.  postMessage to a thread that is dead is lost.
RunJob(j) ==
  /\ phase = "open" /\ job[j] = "new" /\ ~Saturated
  /\ \/ \E s \in Free :
          /\ job' = [job EXCEPT ![j] = "running"]
          /\ current' = [current EXCEPT ![s] = j]
          /\ work' = [work EXCEPT ![s] = j]
          /\ UNCHANGED queue
     \/ /\ Free = {}
        /\ job' = [job EXCEPT ![j] = "queued"]
        /\ queue' = Append(queue, j)
        /\ UNCHANGED <<current, work>>
  /\ UNCHANGED <<alive, events, phase>>

-----------------------------------------------------------------------------
(* The worker threads: cpu-worker.ts.                                      *)

Compute(s) ==
  /\ alive[s] /\ work[s] # NoJob
  /\ events' = [events EXCEPT ![s] = Say(s, "message", work[s])]
  /\ work' = [work EXCEPT ![s] = NoJob]
  /\ UNCHANGED <<job, queue, current, alive, phase>>

\* An uncaught throw fires 'error' and then 'exit'; a kill fires 'exit' alone.
Die(s) ==
  /\ alive[s]
  /\ alive' = [alive EXCEPT ![s] = FALSE]
  /\ \/ "throw" \in Faults
        /\ events' = [events EXCEPT ![s] = Say(s, "error", NoJob) \o
                                           <<[type |-> "exit", job |-> NoJob]>>]
     \/ "exit" \in Faults /\ events' = [events EXCEPT ![s] = Say(s, "exit", NoJob)]
  /\ UNCHANGED <<job, queue, current, work, phase>>

-----------------------------------------------------------------------------
(* What the main thread does with their events.                            *)

\* A job that is not pending any more is ignored.
OnMessage(s) ==
  /\ Next1(s, "message")
  /\ events' = [events EXCEPT ![s] = Tail(@)]
  /\ LET j == Head(events[s]).job IN
       IF job[j] = "running" THEN Drain(s, j, "resolved")
                             ELSE UNCHANGED <<job, queue, current, work>>
  /\ UNCHANGED <<alive, phase>>

\* The dead thread's listeners go, with the events it has left, and a new
\* thread takes the slot.
Respawn(s) ==
  /\ alive' = [alive EXCEPT ![s] = TRUE]
  /\ events' = [events EXCEPT ![s] = <<>>]

HandleDeath(s) ==
  /\ phase # "destroyed"
  /\ Respawn(s)
  /\ Drain(s, current[s], "rejected")
  /\ UNCHANGED phase

\* After destroy() the job is rejected and nothing else happens.
HandleDeathDestroyed(s) ==
  /\ phase = "destroyed"
  /\ events' = [events EXCEPT ![s] = Tail(@)]
  /\ job' = Settle(job, current[s], "rejected")
  /\ current' = [current EXCEPT ![s] = NoJob]
  /\ UNCHANGED <<queue, alive, work, phase>>

OnDeath(s) == Next1(s, "error") \/ Next1(s, "exit")

MainStep(s) == OnMessage(s) \/ (OnDeath(s) /\ (HandleDeath(s) \/ HandleDeathDestroyed(s)))

\* SIGTERM: app.close() ends with the last request, then the pool is destroyed.
Close ==
  /\ phase = "open"
  /\ phase' = "closing"
  /\ UNCHANGED <<job, queue, current, alive, work, events>>

Destroy ==
  /\ phase = "closing" /\ \A j \in Job : job[j] \notin {"queued", "running"}
  /\ phase' = "destroyed"
  /\ alive' = [s \in Worker |-> FALSE]
  /\ events' = [s \in Worker |-> IF alive[s] THEN Say(s, "exit", NoJob) ELSE events[s]]
  /\ UNCHANGED <<job, queue, current, work>>

-----------------------------------------------------------------------------
Next ==
  \/ \E j \in Job : Refuse(j) \/ RunJob(j)
  \/ \E s \in Worker : Compute(s) \/ Die(s) \/ MainStep(s)
  \/ Close \/ Destroy

Spec == Init /\ [][Next]_vars

\* Threads that live compute, and the event loop handles what they say.
Fairness == \A s \in Worker : WF_vars(Compute(s)) /\ WF_vars(MainStep(s))

FairSpec == Spec /\ Fairness

-----------------------------------------------------------------------------
(* What the pool is for.                                                   *)

\* To its clients the pool, whose threads die and are replaced, is one line of
\* jobs before so many servers: never more run than there are workers, a job that
\* waits is started before any that came later, each ends once, and a 503 is
\* given only while every worker is busy and QueueMax jobs wait.
Line == INSTANCE JobQueue WITH Size <- Cardinality(Worker)
RefinesQueue == Line!Spec

\* The map pending, the slots and the queue agree: a running job is in exactly
\* one slot, a slot holds a running job, and the queued jobs are in the queue once.
SlotsMatchPending ==
  /\ \A s \in Worker : current[s] # NoJob => job[current[s]] = "running"
  /\ \A s, u \in Worker : current[s] = current[u] /\ current[s] # NoJob => s = u
  /\ \A j \in Job : job[j] = "running" => \E s \in Worker : current[s] = j
  /\ \A i \in 1..Len(queue) : job[queue[i]] = "queued"
  /\ \A i, k \in 1..Len(queue) : queue[i] = queue[k] => i = k

\* No job waits while a worker is free, deaths and replacements included.
WorkConserving == queue # <<>> => Free = {}

\* What a thread is at, what it has said and what its slot shows agree: the one
\* answer it may have given is of the slot's job and comes before its death, and
\* only a dead thread has reported one.
EventsMatch == \A s \in Worker :
  /\ alive[s] /\ work[s] # NoJob => work[s] = current[s] /\ events[s] = <<>>
  /\ \A i \in 1..Len(events[s]) :
       IF events[s][i].type = "message"
         THEN i = 1 /\ events[s][i].job = current[s] /\ current[s] # NoJob
         ELSE ~alive[s]

\* destroy() finds no job in the pool.
DestroyedIdle == phase = "destroyed" => \A s \in Worker : ~alive[s] /\ current[s] = NoJob

\* Why all this holds: an inductive invariant.
IndInv == SlotsMatchPending /\ WorkConserving /\ EventsMatch /\ DestroyedIdle

\* A job is rejected only when the very thread that had it is dead: the second
\* event of a death never reaches the job of the replacement.
RejectedByItsOwnDeath ==
  [][\A j \in Job : job[j] = "running" /\ job'[j] = "rejected" =>
       \E s \in Worker : current[s] = j /\ ~alive[s]]_vars

\* Every job that was taken is answered: no /work request hangs.
EveryJobSettles ==
  \A j \in Job : job[j] \in {"queued", "running"} ~> job[j] \in {"resolved", "rejected"}
=============================================================================
