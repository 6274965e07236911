------------------------------ MODULE ItemsApi ------------------------------
(***************************************************************************)
(* Instances of the items API (SERVICE=all or items, SEED_DEMO=1) over one *)
(* primary, an optional read replica that lags, and a Redis cache.         *)
(*                                                                         *)
(* main(): create the table, seed it under an advisory lock, wait until    *)
(* the read pool shows the table, listen.  Then GET /items reads through   *)
(* the cache key items:latest100, and POST /items (without ASYNC_WRITE)    *)
(* inserts a row and deletes the key, as a consumer does with the rows of  *)
(* WriteBehind.                                                            *)
(*                                                                         *)
(* log is what the primary has committed, in order; the read pool sees a   *)
(* prefix of it.                                                           *)
(***************************************************************************)
EXTENDS Naturals, Sequences

CONSTANTS
  Api,            \* instances
  Post,           \* requests for POST /items, and their rows
  MaxAttempts,    \* attempts of initDb and of the visibility check (30)
  NoApi,
  Faults          \* what the environment may do

ASSUME ItemsApiAssumption ==
  /\ NoApi \notin Api /\ {"table", "seed"} \intersect Post = {}
  /\ MaxAttempts \in Nat \ {0}
  /\ Faults \subseteq {"db",       \* a query throws, having run or not
                       "redis",    \* a Redis command fails, having run or not
                       "kill"}     \* an instance dies

VARIABLES
  replica,        \* DATABASE_URL_RO is given
  alone,          \* clients send one request at a time
  log,            \* commits on the primary: "table", "seed", rows
  applied,        \* how many of them the read pool shows
  lock,           \* holder of pg_advisory_xact_lock(823041)
  pc,             \* where main() of each instance is
  attempt,        \* its attempts at what it is doing
  post,           \* state of each POST
  at,             \* the instance that handles it
  cache,          \* what the key shows, or nothing
  view            \* what the GET of an instance has read and will cache

database == <<log, applied>>
starting == <<lock, pc, attempt>>
serving  == <<post, at, cache, view>>
vars     == <<replica, alone, database, starting, serving>>

Nothing == [set |-> FALSE, shows |-> {}]
List(rows) == [set |-> TRUE, shows |-> rows]
Lists == [set : BOOLEAN, shows : SUBSET ({"seed"} \union Post)]

Starting == {"schema", "lock", "check", "insert", "rest", "visible"}

TypeOK ==
  /\ replica \in BOOLEAN /\ alone \in BOOLEAN
  /\ log \in Seq({"table", "seed"} \union Post) /\ applied \in 0..Len(log)
  /\ lock \in Api \union {NoApi}
  /\ pc \in [Api -> Starting \union {"down", "serving", "exited"}]
  /\ attempt \in [Api -> 1..MaxAttempts]
  /\ post \in [Post -> {"new", "insert", "del", "done", "undeleted", "failed"}]
  /\ at \in [Post -> Api \union {NoApi}]
  /\ cache \in Lists /\ view \in [Api -> Lists]

Init ==
  /\ replica \in BOOLEAN /\ alone \in BOOLEAN
  /\ log = <<>> /\ applied = 0 /\ lock = NoApi
  /\ pc = [a \in Api |-> "down"] /\ attempt = [a \in Api |-> 1]
  /\ post = [p \in Post |-> "new"] /\ at = [p \in Post |-> NoApi]
  /\ cache = Nothing /\ view = [a \in Api |-> Nothing]

Rows(n) == {log[i] : i \in 1..n} \ {"table"}
TableAt(n) == "table" \in {log[i] : i \in 1..n}

\* A commit; without a replica the read pool is the primary.
Commit(x) ==
  /\ log' = Append(log, x)
  /\ applied' = IF replica THEN applied ELSE Len(log) + 1

Goto(a, l) == pc' = [pc EXCEPT ![a] = l] /\ attempt' = [attempt EXCEPT ![a] = 1]
Step(a, l) == pc' = [pc EXCEPT ![a] = l] /\ UNCHANGED attempt

\* The attempt failed; the next one begins at l, if there is one.
Retry(a, l) ==
  IF attempt[a] < MaxAttempts
    THEN pc' = [pc EXCEPT ![a] = l] /\ attempt' = [attempt EXCEPT ![a] = @ + 1]
    ELSE pc' = [pc EXCEPT ![a] = "exited"] /\ UNCHANGED attempt

Release(a) == lock' = IF lock = a THEN NoApi ELSE lock

Busy == \/ \E p \in Post : post[p] \in {"insert", "del"}
        \/ \E a \in Api : view[a].set
MayBegin == alone => ~Busy

-----------------------------------------------------------------------------
(* Mistakes this code could have made; no action uses them.                *)

\* The seed looks for rows before it takes the lock, and not again.
CheckStale(a) ==
  /\ pc[a] = "check"
  /\ Step(a, "insert")
  /\ UNCHANGED <<replica, alone, database, lock, serving>>

\* listen() without the wait for the read pool.
NotWaited(a) ==
  /\ pc[a] = "visible"
  /\ Goto(a, "serving")
  /\ UNCHANGED <<replica, alone, database, lock, serving>>

\* A seed that throws gives its connection back without ROLLBACK.
FailKeepsLock(a) ==
  /\ "db" \in Faults /\ pc[a] \in Starting \ {"visible"}
  /\ Retry(a, "schema")
  /\ UNCHANGED <<replica, alone, database, lock, serving>>

\* POST leaves the key alone.
DeleteSkipped(p) ==
  /\ post[p] = "del"
  /\ post' = [post EXCEPT ![p] = "done"]
  /\ UNCHANGED <<replica, alone, database, starting, at, cache, view>>

\* POST adds its row to the cached list instead of deleting the key.
PostAppends(p) ==
  /\ post[p] = "del"
  /\ cache' = IF cache.set THEN List(cache.shows \union {p}) ELSE cache
  /\ post' = [post EXCEPT ![p] = "done"]
  /\ UNCHANGED <<replica, alone, database, starting, at, view>>

\* SET without EX, unless the list is empty.
ExpireEmpty ==
  /\ cache.set /\ cache.shows = {}
  /\ cache' = Nothing
  /\ UNCHANGED <<replica, alone, database, starting, post, at, view>>

-----------------------------------------------------------------------------
(* main().                                                                 *)

\* The container is started, or started again.
Boot(a) ==
  /\ pc[a] \in {"down", "exited"}
  /\ Goto(a, "schema")
  /\ UNCHANGED <<replica, alone, database, lock, serving>>

\* CREATE TABLE IF NOT EXISTS.
InitSchema(a) ==
  /\ pc[a] = "schema"
  /\ IF TableAt(Len(log)) THEN UNCHANGED database ELSE Commit("table")
  /\ Step(a, "lock")
  /\ UNCHANGED <<replica, alone, lock, serving>>

SeedLock(a) ==
  /\ pc[a] = "lock" /\ lock = NoApi
  /\ lock' = a
  /\ Step(a, "check")
  /\ UNCHANGED <<replica, alone, database, serving>>

\* Rows found: ROLLBACK, nothing to do.
SeedCheck(a) ==
  /\ pc[a] = "check"
  /\ IF Rows(Len(log)) = {} THEN Step(a, "insert") /\ UNCHANGED lock
                            ELSE Step(a, "rest") /\ Release(a)
  /\ UNCHANGED <<replica, alone, database, serving>>

\* INSERT of the 50 items, COMMIT.
SeedInsert(a) ==
  /\ pc[a] = "insert"
  /\ Commit("seed")
  /\ Release(a) /\ Step(a, "rest")
  /\ UNCHANGED <<replica, alone, serving>>

\* The schemas of the other domains, which nothing here reads.
InitRest(a) ==
  /\ pc[a] = "rest"
  /\ Goto(a, "visible")
  /\ UNCHANGED <<replica, alone, database, lock, serving>>

\* initDb throws somewhere, COMMIT included; 2 s later it starts over.
InitFails(a) ==
  /\ "db" \in Faults /\ pc[a] \in Starting \ {"visible"}
  /\ \/ UNCHANGED database
     \/ pc[a] = "schema" /\ ~TableAt(Len(log)) /\ Commit("table")
     \/ pc[a] = "insert" /\ Commit("seed")
  /\ Release(a) /\ Retry(a, "schema")
  /\ UNCHANGED <<replica, alone, serving>>

\* to_regclass('public.items') on the read pool; then listen().
Visible(a) ==
  /\ pc[a] = "visible" /\ TableAt(applied)
  /\ Goto(a, "serving")
  /\ UNCHANGED <<replica, alone, database, lock, serving>>

NotVisible(a) ==
  /\ pc[a] = "visible" /\ ~TableAt(applied)
  /\ Retry(a, "visible")
  /\ UNCHANGED <<replica, alone, database, lock, serving>>

VisibleFails(a) ==
  /\ "db" \in Faults /\ pc[a] = "visible"
  /\ Retry(a, "visible")
  /\ UNCHANGED <<replica, alone, database, lock, serving>>

Replicate ==
  /\ applied < Len(log)
  /\ applied' = applied + 1
  /\ UNCHANGED <<replica, alone, log, starting, serving>>

\* A dying process: its transaction ends, and with it the lock; its requests too.
Crash(a) ==
  /\ "kill" \in Faults /\ pc[a] \notin {"down", "exited"}
  /\ Goto(a, "down") /\ Release(a)
  /\ post' = [p \in Post |-> IF at[p] = a /\ post[p] \in {"insert", "del"} THEN "failed" ELSE post[p]]
  /\ view' = [view EXCEPT ![a] = Nothing]
  /\ UNCHANGED <<replica, alone, database, at, cache>>

-----------------------------------------------------------------------------
(* GET /items.  Each instance has one GET that missed under way at a time. *)

\* A miss, or a GET of the key that fails, reads the table; a hit changes nothing.
ReadRows(a) ==
  /\ pc[a] = "serving" /\ ~view[a].set /\ MayBegin
  /\ ~cache.set \/ "redis" \in Faults
  /\ view' = [view EXCEPT ![a] = List(Rows(applied))]
  /\ UNCHANGED <<replica, alone, database, starting, post, at, cache>>

\* SET .. EX 30, best effort.
Fill(a) ==
  /\ view[a].set
  /\ cache' = view[a] \/ ("redis" \in Faults /\ UNCHANGED cache)
  /\ view' = [view EXCEPT ![a] = Nothing]
  /\ UNCHANGED <<replica, alone, database, starting, post, at>>

Expire ==
  /\ cache.set
  /\ cache' = Nothing
  /\ UNCHANGED <<replica, alone, database, starting, post, at, view>>

-----------------------------------------------------------------------------
(* POST /items.                                                            *)

BeginPost(a, p) ==
  /\ pc[a] = "serving" /\ post[p] = "new" /\ MayBegin
  /\ post' = [post EXCEPT ![p] = "insert"]
  /\ at' = [at EXCEPT ![p] = a]
  /\ UNCHANGED <<replica, alone, database, starting, cache, view>>

Create(p) ==
  /\ post[p] = "insert"
  /\ Commit(p)
  /\ post' = [post EXCEPT ![p] = "del"]
  /\ UNCHANGED <<replica, alone, starting, at, cache, view>>

CreateFails(p) ==
  /\ "db" \in Faults /\ post[p] = "insert"
  /\ Commit(p) \/ UNCHANGED database
  /\ post' = [post EXCEPT ![p] = "failed"]
  /\ UNCHANGED <<replica, alone, starting, at, cache, view>>

\* DEL, then 201.
DeleteKey(p) ==
  /\ post[p] = "del"
  /\ cache' = Nothing
  /\ post' = [post EXCEPT ![p] = "done"]
  /\ UNCHANGED <<replica, alone, database, starting, at, view>>

\* DEL fails, and the 201 goes out all the same.
DeleteFails(p) ==
  /\ "redis" \in Faults /\ post[p] = "del"
  /\ cache' \in {cache, Nothing}
  /\ post' = [post EXCEPT ![p] = "undeleted"]
  /\ UNCHANGED <<replica, alone, database, starting, at, view>>

-----------------------------------------------------------------------------
Main(a) ==
  InitSchema(a) \/ SeedCheck(a) \/ SeedInsert(a) \/ InitRest(a) \/ Visible(a) \/ NotVisible(a)

Next ==
  \/ \E a \in Api : \/ Boot(a) \/ Main(a) \/ SeedLock(a)
                    \/ InitFails(a) \/ VisibleFails(a) \/ Crash(a)
                    \/ ReadRows(a) \/ Fill(a) \/ \E p \in Post : BeginPost(a, p)
  \/ \E p \in Post : Create(p) \/ CreateFails(p) \/ DeleteKey(p) \/ DeleteFails(p)
  \/ Replicate \/ Expire

Spec == Init /\ [][Next]_vars

\* main() goes on, Postgres grants the lock to whoever has waited long enough,
\* a GET is answered, the replica catches up and the key expires.
Fairness ==
  /\ \A a \in Api : WF_vars(Main(a)) /\ SF_vars(SeedLock(a)) /\ WF_vars(Fill(a))
  /\ WF_vars(Replicate) /\ WF_vars(Expire)
FairSpec == Spec /\ Fairness

-----------------------------------------------------------------------------
(* What start-up is for.                                                   *)

\* However many instances start at one time, with crashes and retries, the seed
\* is committed at most once, and never into a table that has rows.
SeededOnce == \A i \in 1..Len(log) : log[i] = "seed" => Rows(i - 1) = {}

\* An instance that listens finds the table where its GETs read, and the seed on
\* the primary.
ServesVisible ==
  \A a \in Api : pc[a] = "serving" => TableAt(applied) /\ Rows(Len(log)) # {}

\* An instance that starts serves or gives up: none waits for ever, for the lock,
\* the database or the replica.
StartEnds ==
  \A a \in Api : pc[a] \in Starting ~> pc[a] \in {"serving", "exited", "down"}

-----------------------------------------------------------------------------
(* What the cache may and may not do.                                      *)

\* One request at a time and one database: the list shows every row whose POST
\* was answered and whose DEL has worked.
SequentialReads ==
  alone /\ ~replica /\ cache.set =>
    \A p \in Post : post[p] = "done" => p \in cache.shows

\* A list in the cache, or on its way to it, may be old, but it is one that the table
\* showed: all the rows of a moment and none of a later one, however reads, writes,
\* the replica and failing commands overlap.
ShowsThePast ==
  \A list \in {cache} \union {view[a] : a \in Api} :
    list.set => \E n \in 0..applied : list.shows = Rows(n)

\* With requests that overlap, a lagging replica and a failing DEL a list may be
\* stale, but the TTL bounds it: in the end the key shows the table, or nothing.
Converges == <>[](cache.set => cache.shows = Rows(Len(log)))
=============================================================================
