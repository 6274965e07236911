---------------------------- MODULE WriteBehind ----------------------------
(***************************************************************************)
(* ASYNC_WRITE=1: POST /items adds an entry to a Redis stream and answers  *)
(* 202; consumer processes read the stream in a consumer group, INSERT the *)
(* rows into Postgres and delete and acknowledge the entries (at least     *)
(* once).  What a consumer left unfinished another one takes over with     *)
(* XAUTOCLAIM after 60 s.  The cache that the consumers invalidate is in    *)
(* ItemsApi; here the DEL is a step that cannot hurt.                      *)
(*                                                                         *)
(* Every Redis command and every query is atomic, and in the pipeline of a *)
(* batch each command fails by itself.  The API and the consumers start    *)
(* independently of each other.  The 60 s are the set stale: Age may add   *)
(* an entry at any time, or, if Timely, only when no loop works on it,     *)
(* which is what AUTOCLAIM_IDLE_MS is chosen for.                          *)
(***************************************************************************)
EXTENDS Naturals, Sequences, FiniteSets

CONSTANTS
  Entry,          \* writes: requests for POST /items, and their stream entries
  Consumer,       \* consumer processes
  QueueMax,       \* WRITE_QUEUE_MAX
  InFlight,       \* requests the API serves at one time
  Count,          \* entries an XREADGROUP returns at most
  Timely,         \* no batch takes a consumer 60 s
  Faults          \* what the environment may do

ASSUME WriteBehindAssumption ==
  /\ QueueMax \in Nat \ {0} /\ InFlight \in Nat \ {0} /\ Count \in Nat \ {0}
  /\ Timely \in BOOLEAN
  /\ Faults \subseteq {"db",       \* an INSERT fails
                       "redis",    \* a Redis command, or its answer, is lost
                       "kill"}     \* a consumer process dies

VARIABLES
  bulk,           \* BATCH_WRITES
  req,            \* state of the POST
  stream,         \* entries in the stream (XLEN is their number)
  group,          \* the consumer group exists
  fresh,          \* entries behind the group's last delivered id, in order
  pel,            \* the group's pending entries list
  stale,          \* pending entries that are idle for 60 s
  rows,           \* INSERTs of each entry: none, one, or (2) more
  up,             \* a consumer process has started
  loop            \* its consumeLoop and its autoclaimLoop

api     == <<req>>
queue   == <<stream, group, fresh, pel, stale>>
vars    == <<bulk, req, queue, rows, up, loop>>

Kind == {"read", "claim"}
Idle == [todo |-> {}, cur |-> {}, at |-> "poll"]

TypeOK ==
  /\ bulk \in BOOLEAN
  /\ req \in [Entry -> {"new", "checked", "accepted", "refused"}]
  /\ stream \subseteq Entry /\ group \in BOOLEAN
  /\ fresh \in Seq(Entry) /\ pel \subseteq Entry /\ stale \subseteq pel
  /\ rows \in [Entry -> 0..2]
  /\ up \in [Consumer -> BOOLEAN]
  /\ loop \in [Consumer -> [Kind -> [todo : SUBSET Entry, cur : SUBSET Entry,
                                     at : {"poll", "insert", "xdel", "xack", "del"}]]]

Init ==
  /\ bulk \in BOOLEAN
  /\ req = [e \in Entry |-> "new"]
  /\ stream = {} /\ group = FALSE
  /\ fresh = <<>> /\ pel = {} /\ stale = {}
  /\ rows = [e \in Entry |-> 0]
  /\ up = [k \in Consumer |-> FALSE]
  /\ loop = [k \in Consumer |-> [x \in Kind |-> Idle]]

Once == [e \in Entry |-> IF rows[e] = 0 THEN 1 ELSE 2]
Hands(k, x) == loop[k][x].todo \union loop[k][x].cur
At(k, x, l) == up[k] /\ loop[k][x].at = l
Set(k, x, r) == loop' = [loop EXCEPT ![k][x] = r]
Move(k, x, l) == loop' = [loop EXCEPT ![k][x].at = l]

\* On to the rest of what was read: the whole of it, or entry by entry.
Units(es) == IF bulk THEN {es} ELSE {{e} : e \in es}
Rest(k, x) ==
  \/ loop[k][x].todo = {} /\ Set(k, x, Idle)
  \/ /\ loop[k][x].todo # {}
     /\ \E u \in Units(loop[k][x].todo) :
          Set(k, x, [todo |-> loop[k][x].todo \ u, cur |-> u, at |-> "insert"])

\* What XREADGROUP or XAUTOCLAIM returned goes to the loop that asked.
Take(k, x, es) ==
  \E u \in Units(es) : Set(k, x, [todo |-> es \ u, cur |-> u, at |-> "insert"])

-----------------------------------------------------------------------------
(* Mistakes this code could have made; no action uses them.                *)

\* XLEN is compared with > in place of >=.
CheckLate(e) ==
  /\ req[e] = "new" /\ Cardinality({f \in Entry : req[f] = "checked"}) < InFlight
  /\ \/ Cardinality(stream) <= QueueMax /\ req' = [req EXCEPT ![e] = "checked"]
     \/ (Cardinality(stream) > QueueMax \/ "redis" \in Faults) /\ req' = [req EXCEPT ![e] = "refused"]
  /\ UNCHANGED <<bulk, queue, rows, up, loop>>

\* The idle time of XAUTOCLAIM is shorter than a batch takes.
AgeEarly(e) ==
  /\ e \in pel \ stale
  /\ stale' = stale \union {e}
  /\ UNCHANGED <<bulk, api, stream, group, fresh, pel, rows, up, loop>>

\* A failing INSERT is treated like one that succeeded.
InsertIgnored(k, x) ==
  /\ "db" \in Faults /\ At(k, x, "insert")
  /\ Move(k, x, "xdel")
  /\ UNCHANGED <<bulk, api, queue, rows, up>>

\* A failing XDEL is followed by the XACK for a single entry, too.
AckAnyway(k, x) ==
  /\ "redis" \in Faults /\ At(k, x, "xdel")
  /\ Move(k, x, "xack")
  /\ UNCHANGED <<bulk, api, queue, rows, up>>

\* XAUTOCLAIM returns what has left the stream, not what is in it.
ClaimDeleted == stale \ stream

\* XAUTOCLAIM hands out what has left the stream, too.
ClaimAll == stale

-----------------------------------------------------------------------------
(* POST /items: XLEN, then XADD.                                           *)

CheckDepth(e) ==
  /\ req[e] = "new" /\ Cardinality({f \in Entry : req[f] = "checked"}) < InFlight
  /\ \/ Cardinality(stream) < QueueMax /\ req' = [req EXCEPT ![e] = "checked"]
     \/ (Cardinality(stream) >= QueueMax \/ "redis" \in Faults) /\ req' = [req EXCEPT ![e] = "refused"]
  /\ UNCHANGED <<bulk, queue, rows, up, loop>>

Xadd(e) ==
  /\ stream' = stream \union {e}
  /\ fresh' = IF group THEN Append(fresh, e) ELSE fresh
  /\ UNCHANGED <<group, pel, stale>>

Enqueue(e) ==
  /\ req[e] = "checked"
  /\ Xadd(e)
  /\ req' = [req EXCEPT ![e] = "accepted"]
  /\ UNCHANGED <<bulk, rows, up, loop>>

\* XADD throws, having run or not: 503.
EnqueueFails(e) ==
  /\ "redis" \in Faults /\ req[e] = "checked"
  /\ Xadd(e) \/ UNCHANGED queue
  /\ req' = [req EXCEPT ![e] = "refused"]
  /\ UNCHANGED <<bulk, rows, up, loop>>

-----------------------------------------------------------------------------
(* A consumer process.                                                     *)

\* main(): XGROUP CREATE .. $ MKSTREAM, unless the group is there.  An entry that
\* is already in the stream then is behind the group for ever.
Boot(k) ==
  /\ ~up[k]
  /\ up' = [up EXCEPT ![k] = TRUE]
  /\ group' = TRUE
  /\ UNCHANGED <<bulk, api, stream, fresh, pel, stale, rows, loop>>

\* XREADGROUP '>': what it returns becomes pending.
Deliver ==
  LET n == IF Len(fresh) < Count THEN Len(fresh) ELSE Count IN
    /\ fresh # <<>>
    /\ fresh' = SubSeq(fresh, n + 1, Len(fresh))
    /\ pel' = pel \union {fresh[i] : i \in 1..n}
    /\ UNCHANGED <<stream, group, stale>>

ReadNew(k) ==
  /\ At(k, "read", "poll")
  /\ Deliver /\ Take(k, "read", pel' \ pel)
  /\ UNCHANGED <<bulk, api, rows, up>>

\* XAUTOCLAIM: pending entries that are not idle any more; those that are not in
\* the stream any more leave the pending list.
Claimed == stale \intersect stream
TakeOver == stale # {} /\ stale' = {} /\ pel' = pel \ (stale \ stream) /\ UNCHANGED <<stream, group, fresh>>

AutoClaim(k) ==
  /\ At(k, "claim", "poll")
  /\ TakeOver /\ (IF Claimed = {} THEN UNCHANGED loop ELSE Take(k, "claim", Claimed))
  /\ UNCHANGED <<bulk, api, rows, up>>

\* The answer of either is lost: the entries are pending in nobody's hands.
AnswerLost(k) ==
  /\ "redis" \in Faults
  /\ \/ At(k, "read", "poll") /\ Deliver
     \/ At(k, "claim", "poll") /\ TakeOver
  /\ UNCHANGED <<bulk, api, rows, up, loop>>

\* One INSERT, of one row or of the whole batch.
Insert(k, x) ==
  /\ At(k, x, "insert")
  /\ rows' = [e \in Entry |-> IF e \in loop[k][x].cur THEN Once[e] ELSE rows[e]]
  /\ Move(k, x, "xdel")
  /\ UNCHANGED <<bulk, api, queue, up>>

\* It throws, committed or not: the entries stay pending.
InsertFails(k, x) ==
  /\ "db" \in Faults /\ At(k, x, "insert")
  /\ rows' \in {rows, [e \in Entry |-> IF e \in loop[k][x].cur THEN Once[e] ELSE rows[e]]}
  /\ Rest(k, x)
  /\ UNCHANGED <<bulk, api, queue, up>>

\* XDEL of all of them, then XACK of all of them.
Xdel(k, x) ==
  /\ At(k, x, "xdel")
  /\ stream' = stream \ loop[k][x].cur
  /\ Move(k, x, "xack")
  /\ UNCHANGED <<bulk, api, group, fresh, pel, stale, rows, up>>

Xack(k, x) ==
  /\ At(k, x, "xack")
  /\ pel' = pel \ loop[k][x].cur /\ stale' = stale \ loop[k][x].cur
  /\ Move(k, x, "del")
  /\ UNCHANGED <<bulk, api, stream, group, fresh, rows, up>>

\* XDEL fails for some, having run or not.  ackAndDelete goes on to the DEL; so
\* does the pipeline of a batch if the connection is gone, but if only single
\* commands have failed in it, the XACK of all of them follows.
XdelFails(k, x) ==
  /\ "redis" \in Faults /\ At(k, x, "xdel")
  /\ \E es \in SUBSET loop[k][x].cur : stream' = stream \ es
  /\ Move(k, x, "del") \/ (bulk /\ Move(k, x, "xack"))
  /\ UNCHANGED <<bulk, api, group, fresh, pel, stale, rows, up>>

XackFails(k, x) ==
  /\ "redis" \in Faults /\ At(k, x, "xack")
  /\ \E es \in SUBSET loop[k][x].cur : pel' = pel \ es /\ stale' = stale \ es
  /\ Move(k, x, "del")
  /\ UNCHANGED <<bulk, api, stream, group, fresh, rows, up>>

\* The cache key is deleted, best effort; on to the rest.
Invalidate(k, x) ==
  /\ At(k, x, "del")
  /\ Rest(k, x)
  /\ UNCHANGED <<bulk, api, queue, rows, up>>

Age(e) ==
  /\ e \in pel \ stale
  /\ Timely => \A k \in Consumer, x \in Kind : e \notin Hands(k, x)
  /\ stale' = stale \union {e}
  /\ UNCHANGED <<bulk, api, stream, group, fresh, pel, rows, up, loop>>

Crash(k) ==
  /\ "kill" \in Faults /\ up[k]
  /\ up' = [up EXCEPT ![k] = FALSE]
  /\ loop' = [loop EXCEPT ![k] = [x \in Kind |-> Idle]]
  /\ UNCHANGED <<bulk, api, queue, rows>>

-----------------------------------------------------------------------------
Work(k, x) ==
  \/ Insert(k, x) \/ InsertFails(k, x) \/ Xdel(k, x) \/ XdelFails(k, x)
  \/ Xack(k, x) \/ XackFails(k, x) \/ Invalidate(k, x)

Next ==
  \/ \E e \in Entry : CheckDepth(e) \/ Enqueue(e) \/ EnqueueFails(e) \/ Age(e)
  \/ \E k \in Consumer : \/ Boot(k) \/ ReadNew(k) \/ AutoClaim(k) \/ AnswerLost(k) \/ Crash(k)
                         \/ \E x \in Kind : Work(k, x)

Spec == Init /\ [][Next]_vars

\* Consumers are restarted, their loops go on and time passes; and of all that is
\* tried again and again some XREADGROUP, some XAUTOCLAIM, some INSERT and some
\* XDEL succeed.
Fairness ==
  /\ \A k \in Consumer : WF_vars(Boot(k)) /\ \A x \in Kind : WF_vars(Work(k, x))
  /\ WF_vars(\E e \in Entry : Age(e))
  /\ SF_vars(\E k \in Consumer : ReadNew(k))
  /\ SF_vars(\E k \in Consumer : AutoClaim(k))
  /\ SF_vars(\E k \in Consumer, x \in Kind : Insert(k, x))
  /\ SF_vars(\E k \in Consumer, x \in Kind : Xdel(k, x))
FairSpec == Spec /\ Fairness

-----------------------------------------------------------------------------
(* What the queue is for.                                                  *)

\* Entries where neither XREADGROUP nor XAUTOCLAIM finds them: they stay in the
\* stream and count in XLEN, which POST /items compares with its bound, for ever.
Stranded == stream \ ({fresh[i] : i \in 1..Len(fresh)} \union pel)

\* XDEL goes before XACK so that none is left like that: once the group exists, an
\* entry is stranded only by the pipeline of a batch, whose XACK does not wait for
\* the outcome of the XDELs, and only with its row in the table.
DepthInvariant ==
  [][group => \A e \in Stranded' \ Stranded : bulk /\ rows[e] > 0]_vars

\* An entry leaves the stream only with its row in the table (at least once).
AcceptedIsKept == \A e \in Entry : req[e] = "accepted" => e \in stream \/ rows[e] > 0

\* Check and XADD are two steps, so the bound is overrun by what was in between,
\* but by no more than the API serves at one time.
Backpressure == Cardinality(stream) < QueueMax + InFlight

\* No entry is worked on by two loops at a time: the takeover waits long enough.
OneOwner ==
  \A k, m \in Consumer, x, y \in Kind :
    <<k, x>> # <<m, y>> => Hands(k, x) \intersect Hands(m, y) = {}

\* To the clients and the table, stream, group, loops and takeovers are one buffer
\* that keeps what it has accepted until it has a row, and repeats an INSERT only
\* of what it still keeps: no slow loop inserts a row whose entry another one has
\* already finished with.
Told == [e \in Entry |-> IF req[e] = "checked" THEN "new" ELSE req[e]]
Buffer == INSTANCE WriteBuffer WITH req <- Told, kept <- stream
RefinesBuffer == Buffer!Spec

\* Every backlog of accepted writes is worked off: each 202 becomes a row, unless it
\* was given before there was a group, which starts at '$' and never delivers what
\* is in the stream by then.
Backlog == {e \in Entry \ Stranded : req[e] = "accepted" /\ rows[e] = 0}
Drains == Backlog # {} ~> Backlog = {}
=============================================================================
