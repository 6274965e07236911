------------------------------ MODULE JobQueue ------------------------------
(***************************************************************************)
(* What the worker pool promises the requests of /work, with nothing of    *)
(* its threads: Size jobs run at a time, the others wait in one line of at *)
(* most QueueMax and start in the order they came, and a job is refused    *)
(* only while every worker is busy and the line is full.                   *)
(* WorkerPool.tla, where threads die and are replaced, implements this     *)
(* module (WorkerPool!RefinesQueue).                                       *)
(***************************************************************************)
EXTENDS Naturals, Sequences, FiniteSets

CONSTANTS Job, Size, QueueMax

VARIABLES
  job,            \* what has become of each request
  queue           \* jobs that wait, oldest first

vars == <<job, queue>>

Init == job = [j \in Job |-> "new"] /\ queue = <<>>

Room == Cardinality({j \in Job : job[j] = "running"}) < Size

Start(j) ==
  /\ job[j] = "new" /\ Room /\ queue = <<>>
  /\ job' = [job EXCEPT ![j] = "running"]
  /\ UNCHANGED queue

Wait(j) ==
  /\ job[j] = "new" /\ ~Room /\ Len(queue) < QueueMax
  /\ job' = [job EXCEPT ![j] = "queued"]
  /\ queue' = Append(queue, j)

Refuse(j) ==
  /\ job[j] = "new" /\ ~Room /\ Len(queue) = QueueMax
  /\ job' = [job EXCEPT ![j] = "saturated"]
  /\ UNCHANGED queue

\* A job ends, well or not, and the one at the head of the line takes its place.
End(j) ==
  /\ job[j] = "running"
  /\ \E e \in {"resolved", "rejected"} :
       \/ /\ queue = <<>>
          /\ job' = [job EXCEPT ![j] = e]
          /\ UNCHANGED queue
       \/ /\ queue # <<>>
          /\ job' = [job EXCEPT ![j] = e, ![Head(queue)] = "running"]
          /\ queue' = Tail(queue)

Next == \E j \in Job : Start(j) \/ Wait(j) \/ Refuse(j) \/ End(j)

Spec == Init /\ [][Next]_vars
=============================================================================
