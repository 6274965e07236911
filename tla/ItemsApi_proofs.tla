-------------------------- MODULE ItemsApi_proofs --------------------------
(***************************************************************************)
(* Proofs about ItemsApi, for any instances, requests, number of attempts   *)
(* and faults, with or without a replica.                                   *)
(***************************************************************************)
EXTENDS ItemsApi, TLAPS

Commits == {"table", "seed"} \union Post

\* What the log says after a commit.
LEMMA CommitFacts ==
  ASSUME log \in Seq(Commits), applied \in 0..Len(log), replica \in BOOLEAN,
         NEW x \in Commits, Commit(x)
  PROVE  /\ log' \in Seq(Commits) /\ Len(log') = Len(log) + 1
         /\ \A i \in 1..Len(log) : log'[i] = log[i]
         /\ log'[Len(log) + 1] = x
         /\ applied' \in 0..Len(log') /\ applied' >= applied
<1>1. log' = Append(log, x) /\ applied' = IF replica THEN applied ELSE Len(log) + 1
  BY DEF Commit
<1>2. /\ log' \in Seq(Commits) /\ Len(log') = Len(log) + 1
      /\ \A i \in 1..Len(log) : log'[i] = log[i]
      /\ log'[Len(log) + 1] = x
  BY <1>1
<1> QED BY <1>1, <1>2

-----------------------------------------------------------------------------
(* Type correctness.                                                       *)

LEMMA TypeInit == Init => TypeOK
<1> SUFFICES ASSUME Init PROVE TypeOK
  OBVIOUS
<1>1. log \in Seq({"table", "seed"} \union Post) /\ applied \in 0..Len(log)
  BY DEF Init
<1>2. Nothing \in Lists
  BY DEF Nothing, Lists
<1> QED BY <1>1, <1>2, ItemsApiAssumption DEF Init, TypeOK

LEMMA RowsAreRows ==
  ASSUME TypeOK, NEW n \in 0..Len(log)
  PROVE  List(Rows(n)) \in Lists
<1>1. \A i \in 1..n : log[i] \in {"table", "seed"} \union Post
  BY DEF TypeOK
<1>2. Rows(n) \in SUBSET ({"seed"} \union Post)
  BY <1>1 DEF Rows
<1> QED BY <1>2 DEF List, Lists

\* main() of an instance keeps the types of its own state.
LEMMA StartingTypes ==
  ASSUME TypeOK, NEW a \in Api, NEW l \in Starting \union {"down", "serving"},
         Goto(a, l) \/ Step(a, l) \/ Retry(a, l)
  PROVE  pc' \in [Api -> Starting \union {"down", "serving", "exited"}] /\ attempt' \in [Api -> 1..MaxAttempts]
<1>1. CASE Goto(a, l) \/ Step(a, l)
  <2>1. 1 \in 1..MaxAttempts
    BY ItemsApiAssumption
  <2>2. pc' = [pc EXCEPT ![a] = l] /\ (UNCHANGED attempt \/ attempt' = [attempt EXCEPT ![a] = 1])
    BY <1>1, Zenon DEF Goto, Step
  <2> QED BY <2>1, <2>2 DEF TypeOK
<1>2. CASE Retry(a, l)
  <2>1. attempt[a] \in 1..MaxAttempts /\ MaxAttempts \in Nat
    BY ItemsApiAssumption DEF TypeOK
  <2>2. CASE attempt[a] < MaxAttempts
    <3>1. attempt[a] + 1 \in 1..MaxAttempts
      BY <2>1, <2>2
    <3> QED BY <1>2, <2>2, <3>1 DEF Retry, TypeOK
  <2>3. CASE ~(attempt[a] < MaxAttempts)
    BY <1>2, <2>3 DEF Retry, TypeOK
  <2> QED BY <2>2, <2>3
<1> QED BY <1>1, <1>2

LEMMA CommitTypes ==
  ASSUME TypeOK, NEW x \in Commits, Commit(x)
  PROVE  log' \in Seq({"table", "seed"} \union Post) /\ applied' \in 0..Len(log')
<1>1. log \in Seq(Commits) /\ applied \in 0..Len(log) /\ replica \in BOOLEAN
  BY DEF TypeOK, Commits
<1>2. log' \in Seq(Commits) /\ applied' \in 0..Len(log')
  BY <1>1, CommitFacts
<1> QED BY <1>2 DEF Commits

LEMMA ReleaseTypes ==
  ASSUME TypeOK, NEW a \in Api, Release(a)
  PROVE  lock' \in Api \union {NoApi}
BY DEF Release, TypeOK

LEMMA TypeMain ==
  ASSUME TypeOK, NEW a \in Api,
         Boot(a) \/ Main(a) \/ SeedLock(a) \/ InitFails(a) \/ VisibleFails(a) \/ Crash(a)
  PROVE  TypeOK'
<1>1. pc' \in [Api -> Starting \union {"down", "serving", "exited"}] /\ attempt' \in [Api -> 1..MaxAttempts]
  <2>1. CASE Boot(a) \/ Main(a) \/ SeedLock(a) \/ VisibleFails(a)
    BY <2>1, StartingTypes DEF Boot, Main, SeedLock, VisibleFails, InitSchema, SeedCheck, SeedInsert, InitRest,
                               Visible, NotVisible, Starting
  <2>2. CASE InitFails(a) \/ Crash(a)
    BY <2>2, StartingTypes DEF InitFails, Crash, Starting
  <2> QED BY <2>1, <2>2
<1>2. log' \in Seq({"table", "seed"} \union Post) /\ applied' \in 0..Len(log')
  <2>1. UNCHANGED database \/ Commit("table") \/ Commit("seed")
    BY DEF Boot, Main, SeedLock, InitFails, VisibleFails, Crash, InitSchema, SeedCheck, SeedInsert, InitRest,
           Visible, NotVisible
  <2>2. CASE UNCHANGED database
    BY <2>2 DEF database, TypeOK
  <2> QED BY <2>1, <2>2, CommitTypes DEF Commits
<1>3. lock' \in Api \union {NoApi}
  <2>1. UNCHANGED lock \/ lock' = a \/ Release(a)
    BY DEF Boot, Main, SeedLock, InitFails, VisibleFails, Crash, InitSchema, SeedCheck, SeedInsert, InitRest,
           Visible, NotVisible
  <2> QED BY <2>1, ReleaseTypes DEF TypeOK
<1>4. UNCHANGED <<replica, alone>>
  BY DEF Boot, Main, SeedLock, InitFails, VisibleFails, Crash, InitSchema, SeedCheck, SeedInsert, InitRest,
         Visible, NotVisible
<1>5. CASE Crash(a)
  <2>1. Nothing \in Lists
    BY DEF Nothing, Lists
  <2>2. post' \in [Post -> {"new", "insert", "del", "done", "undeleted", "failed"}]
    BY <1>5 DEF Crash, TypeOK
  <2>3. UNCHANGED <<at, cache>> /\ view' \in [Api -> Lists]
    BY <1>5, <2>1 DEF Crash, TypeOK
  <2> QED BY <1>1, <1>2, <1>3, <1>4, <2>2, <2>3 DEF TypeOK
<1>6. CASE ~Crash(a)
  <2>1. UNCHANGED serving
    BY <1>6 DEF Boot, Main, SeedLock, InitFails, VisibleFails, InitSchema, SeedCheck, SeedInsert, InitRest,
                Visible, NotVisible
  <2> QED BY <1>1, <1>2, <1>3, <1>4, <2>1 DEF TypeOK, serving
<1> QED BY <1>5, <1>6

LEMMA TypeReads ==
  ASSUME TypeOK, Replicate \/ Expire \/ \E a \in Api : ReadRows(a) \/ Fill(a)
  PROVE  TypeOK'
<1>1. Nothing \in Lists
  BY DEF Nothing, Lists
<1>2. CASE Replicate
  <2>1. applied' \in 0..Len(log)
    <3>1. Len(log) \in Nat
      BY DEF TypeOK
    <3> QED BY <1>2, <3>1 DEF Replicate, TypeOK
  <2> QED BY <1>2, <2>1 DEF Replicate, TypeOK, starting, serving
<1>3. CASE Expire
  BY <1>1, <1>3 DEF Expire, TypeOK, database, starting
<1>4. ASSUME NEW a \in Api, ReadRows(a) PROVE TypeOK'
  <2>1. List(Rows(applied)) \in Lists
    BY RowsAreRows DEF TypeOK
  <2> QED BY <1>4, <2>1 DEF ReadRows, TypeOK, database, starting
<1>5. ASSUME NEW a \in Api, Fill(a) PROVE TypeOK'
  BY <1>1, <1>5 DEF Fill, TypeOK, database, starting
<1> QED BY <1>2, <1>3, <1>4, <1>5

LEMMA TypePosts ==
  ASSUME TypeOK, NEW p \in Post,
         Create(p) \/ CreateFails(p) \/ DeleteKey(p) \/ DeleteFails(p) \/ \E a \in Api : BeginPost(a, p)
  PROVE  TypeOK'
<1>1. Nothing \in Lists
  BY DEF Nothing, Lists
<1>2. CASE Create(p) \/ CreateFails(p)
  <2>1. log' \in Seq({"table", "seed"} \union Post) /\ applied' \in 0..Len(log')
    <3>1. UNCHANGED database \/ Commit(p)
      BY <1>2 DEF Create, CreateFails
    <3> QED BY <3>1, CommitTypes DEF Commits, database, TypeOK
  <2> QED BY <1>2, <2>1 DEF Create, CreateFails, TypeOK, starting
<1>3. CASE DeleteKey(p) \/ DeleteFails(p)
  BY <1>1, <1>3 DEF DeleteKey, DeleteFails, TypeOK, database, starting
<1>4. ASSUME NEW a \in Api, BeginPost(a, p) PROVE TypeOK'
  BY <1>4 DEF BeginPost, TypeOK, database, starting
<1> QED BY <1>2, <1>3, <1>4

LEMMA TypeNext == TypeOK /\ [Next]_vars => TypeOK'
<1> SUFFICES ASSUME TypeOK, [Next]_vars PROVE TypeOK'
  OBVIOUS
<1>1. CASE UNCHANGED vars
  BY <1>1 DEF vars, database, starting, serving, TypeOK
<1>2. CASE Next
  BY <1>2, TypeMain, TypeReads, TypePosts DEF Next
<1> QED BY <1>1, <1>2

\* Type correctness; the read pool shows a prefix of the commits.
THEOREM TypeCorrect == Spec => []TypeOK
BY TypeInit, TypeNext, PTL DEF Spec

-----------------------------------------------------------------------------
(* The seed, and what an instance that listens can rely on.                *)

\* The lock is that of the instance that looks for rows or inserts them.
LockHeld ==
  /\ \A a \in Api : lock = a <=> pc[a] \in {"check", "insert"}
  /\ \A a \in Api : pc[a] = "insert" => Rows(Len(log)) = {}

\* What main() has done so far is there; the read pool has shown the table.
StartKnows ==
  \A a \in Api :
    /\ pc[a] \in (Starting \ {"schema"}) \union {"serving"} => TableAt(Len(log))
    /\ pc[a] \in {"rest", "visible", "serving"} => Rows(Len(log)) # {}
    /\ pc[a] = "serving" => TableAt(applied)

\* A request is handled by an instance that listens.
Handled == \A p \in Post : post[p] \in {"insert", "del"} => at[p] \in Api /\ pc[at[p]] = "serving"

IndInv == TypeOK /\ SeededOnce /\ LockHeld /\ StartKnows /\ Handled

\* What is committed stays: the seed must find no rows.
LEMMA CommitKeeps ==
  ASSUME TypeOK, SeededOnce, NEW x \in Commits, Commit(x), x = "seed" => Rows(Len(log)) = {}
  PROVE  /\ SeededOnce'
         /\ TableAt(Len(log)) => TableAt(Len(log))'
         /\ TableAt(applied) => TableAt(applied)'
         /\ Rows(Len(log)) # {} => Rows(Len(log))' # {}
         /\ x = "table" => TableAt(Len(log))'
         /\ x # "table" => Rows(Len(log))' # {}
         /\ x = "table" => Rows(Len(log))' = Rows(Len(log))
<1>1. /\ log' \in Seq(Commits) /\ Len(log') = Len(log) + 1 /\ Len(log) \in Nat
      /\ \A i \in 1..Len(log) : log'[i] = log[i]
      /\ log'[Len(log) + 1] = x
      /\ applied \in 0..Len(log) /\ applied' \in 0..Len(log') /\ applied' >= applied
  <2>1. log \in Seq(Commits) /\ applied \in 0..Len(log) /\ replica \in BOOLEAN
    BY DEF TypeOK, Commits
  <2>2. Len(log) \in Nat
    BY <2>1
  <2> QED BY <2>1, <2>2, CommitFacts
<1>2. Rows(Len(log))' = Rows(Len(log)) \union ({x} \ {"table"})
  <2>1. 1..Len(log') = 1..Len(log) \union {Len(log) + 1}
    BY <1>1
  <2>2. {log'[i] : i \in 1..Len(log')} = {log[i] : i \in 1..Len(log)} \union {x}
    BY <1>1, <2>1
  <2> QED BY <2>2 DEF Rows
<1>3. SeededOnce'
  <2> SUFFICES ASSUME NEW i \in 1..Len(log'), log'[i] = "seed" PROVE Rows(i - 1)' = {}
    BY DEF SeededOnce
  <2>1. i - 1 \in 0..Len(log) /\ Rows(i - 1)' = {log'[j] : j \in 1..(i - 1)} \ {"table"}
    BY <1>1 DEF Rows
  <2>2. {log'[j] : j \in 1..(i - 1)} = {log[j] : j \in 1..(i - 1)}
    <3>1. \A j \in 1..(i - 1) : log'[j] = log[j]
      BY <1>1
    <3> QED BY <3>1
  <2>3. Rows(i - 1)' = Rows(i - 1)
    BY <2>1, <2>2 DEF Rows
  <2>4. CASE i \in 1..Len(log)
    BY <1>1, <2>3, <2>4 DEF SeededOnce
  <2>5. CASE i = Len(log) + 1
    <3>1. x = "seed" /\ i - 1 = Len(log)
      BY <1>1, <2>5
    <3> QED BY <2>3, <3>1
  <2> QED BY <1>1, <2>4, <2>5
<1>4. ASSUME NEW n \in 0..Len(log), NEW m \in 0..Len(log'), m >= n, TableAt(n)
      PROVE  "table" \in {log'[i] : i \in 1..m}
  <2>1. PICK i \in 1..n : log[i] = "table"
    BY <1>4 DEF TableAt
  <2>2. i \in 1..m /\ log'[i] = "table"
    BY <1>1, <1>4, <2>1
  <2> QED BY <2>2
<1>5. TableAt(Len(log)) => TableAt(Len(log))'
  BY <1>1, <1>4 DEF TableAt
<1>6. TableAt(applied) => TableAt(applied)'
  BY <1>1, <1>4 DEF TableAt
<1>7. x = "table" => TableAt(Len(log))'
  <2>1. Len(log) + 1 \in 1..Len(log')
    BY <1>1
  <2> QED BY <1>1, <2>1 DEF TableAt
<1> QED BY <1>2, <1>3, <1>5, <1>6, <1>7

\* Each commit of the program keeps what was there.
LEMMA DatabaseStep ==
  ASSUME TypeOK, SeededOnce,
         \/ UNCHANGED database \/ Replicate \/ Commit("table")
         \/ Commit("seed") /\ Rows(Len(log)) = {}
         \/ \E p \in Post : Commit(p)
  PROVE  /\ SeededOnce'
         /\ TableAt(Len(log)) => TableAt(Len(log))'
         /\ TableAt(applied) => TableAt(applied)'
         /\ Rows(Len(log)) # {} => Rows(Len(log))' # {}
<1>1. CASE UNCHANGED database
  BY <1>1 DEF database, SeededOnce, TableAt, Rows
<1>2. CASE Replicate
  <2>1. log' = log /\ applied' = applied + 1 /\ applied \in Nat
    BY <1>2 DEF Replicate, TypeOK
  <2>2. 1..applied \subseteq 1..(applied + 1)
    BY <2>1
  <2>3. TableAt(applied) => TableAt(applied)'
    BY <2>1, <2>2 DEF TableAt
  <2> QED BY <2>1, <2>3 DEF SeededOnce, TableAt, Rows
<1>3. CASE Commit("table")
  BY <1>3, CommitKeeps DEF Commits
<1>4. CASE Commit("seed") /\ Rows(Len(log)) = {}
  BY <1>4, CommitKeeps DEF Commits
<1>5. ASSUME NEW p \in Post, Commit(p) PROVE SeededOnce' /\ (TableAt(Len(log)) => TableAt(Len(log))')
                                             /\ (TableAt(applied) => TableAt(applied)')
                                             /\ (Rows(Len(log)) # {} => Rows(Len(log))' # {})
  <2>1. p \in Commits /\ p # "seed" /\ p # "table"
    BY ItemsApiAssumption DEF Commits
  <2> QED BY <1>5, <2>1, CommitKeeps
<1> QED BY <1>1, <1>2, <1>3, <1>4, <1>5

\* A step of one instance, from what it leaves alone and where it goes.
LEMMA InstanceStep ==
  ASSUME IndInv, TypeOK', NEW a \in Api, pc[a] # "serving" \/ pc'[a] = "serving",
         \A b \in Api : b # a => pc'[b] = pc[b],
         UNCHANGED database \/ (pc[a] = "schema" /\ Commit("table")) \/ (pc[a] = "insert" /\ Commit("seed")),
         UNCHANGED <<post, at>>,
         \/ lock' = lock /\ (pc'[a] \in {"check", "insert"} <=> pc[a] \in {"check", "insert"})
         \/ lock = NoApi /\ lock' = a /\ pc'[a] = "check"
         \/ Release(a) /\ pc'[a] \notin {"check", "insert"},
         pc'[a] = "insert" => UNCHANGED database /\ Rows(Len(log)) = {},
         pc'[a] \in (Starting \ {"schema"}) \union {"serving"} => TableAt(Len(log))',
         pc'[a] \in {"rest", "visible", "serving"} => Rows(Len(log))' # {},
         pc'[a] = "serving" => TableAt(applied)'
  PROVE  IndInv'
<1>1. /\ SeededOnce'
      /\ TableAt(Len(log)) => TableAt(Len(log))'
      /\ TableAt(applied) => TableAt(applied)'
      /\ Rows(Len(log)) # {} => Rows(Len(log))' # {}
  BY DatabaseStep DEF IndInv, LockHeld
<1>2. LockHeld'
  <2>1. \A b \in Api : lock' = b <=> pc'[b] \in {"check", "insert"}
    BY ItemsApiAssumption DEF IndInv, LockHeld, Release
  <2>2. ASSUME NEW b \in Api, pc'[b] = "insert" PROVE Rows(Len(log))' = {}
    <3>1. CASE b = a
      BY <2>2, <3>1 DEF database, Rows
    <3>2. CASE b # a
      <4>1. pc[b] = "insert" /\ pc[a] # "insert" /\ Rows(Len(log)) = {}
        BY <2>2, <3>2 DEF IndInv, LockHeld
      <4>2. CASE UNCHANGED database
        BY <4>1, <4>2 DEF database, Rows
      <4>3. CASE Commit("table")
        BY <4>1, <4>3, CommitKeeps DEF Commits, IndInv
      <4> QED BY <4>1, <4>2, <4>3
    <3> QED BY <3>1, <3>2
  <2> QED BY <2>1, <2>2 DEF LockHeld
<1>3. StartKnows'
  <2>1. \A b \in Api : b # a =>
          /\ pc'[b] \in (Starting \ {"schema"}) \union {"serving"} => TableAt(Len(log))'
          /\ pc'[b] \in {"rest", "visible", "serving"} => Rows(Len(log))' # {}
          /\ pc'[b] = "serving" => TableAt(applied)'
    BY <1>1 DEF IndInv, StartKnows
  <2> QED BY <2>1 DEF StartKnows
<1>4. Handled'
  BY DEF IndInv, Handled
<1> QED BY <1>1, <1>2, <1>3, <1>4 DEF IndInv

LEMMA IndInvInit == Init => IndInv
<1> SUFFICES ASSUME Init PROVE IndInv
  OBVIOUS
<1>1. TypeOK
  BY TypeInit
<1>2. SeededOnce /\ LockHeld /\ StartKnows /\ Handled
  BY ItemsApiAssumption DEF Init, SeededOnce, LockHeld, StartKnows, Handled, Starting
<1> QED BY <1>1, <1>2 DEF IndInv

LEMMA IndInvMain ==
  ASSUME IndInv, NEW a \in Api,
         Boot(a) \/ Main(a) \/ SeedLock(a) \/ InitFails(a) \/ VisibleFails(a)
  PROVE  IndInv'
<1>1. TypeOK /\ TypeOK' /\ SeededOnce /\ LockHeld /\ StartKnows
  BY TypeMain DEF IndInv
<1>2. UNCHANGED <<post, at>>
  BY DEF Boot, Main, SeedLock, InitFails, VisibleFails, InitSchema, SeedCheck, SeedInsert, InitRest,
         Visible, NotVisible, serving
<1>3. /\ pc[a] # "serving"
      /\ \A b \in Api : b # a => pc'[b] = pc[b]
  BY <1>1 DEF TypeOK, Boot, Main, SeedLock, InitFails, VisibleFails, InitSchema, SeedCheck, SeedInsert, InitRest,
              Visible, NotVisible, Goto, Step, Retry, Starting
<1>4. CASE Boot(a)
  <2>1. pc'[a] = "schema" /\ pc[a] \in {"down", "exited"} /\ UNCHANGED <<database, lock>>
    BY <1>1, <1>4 DEF Boot, Goto, TypeOK
  <2> QED BY <1>1, <1>2, <1>3, <2>1, InstanceStep DEF Starting
<1>5. CASE InitSchema(a)
  <2>1. pc'[a] = "lock" /\ pc[a] = "schema" /\ lock' = lock
    BY <1>1, <1>5 DEF InitSchema, Step, TypeOK
  <2>2. (UNCHANGED database /\ TableAt(Len(log))) \/ Commit("table")
    BY <1>5 DEF InitSchema
  <2>3. TableAt(Len(log))'
    <3>1. CASE UNCHANGED database /\ TableAt(Len(log))
      BY <3>1 DEF database, TableAt
    <3>2. CASE Commit("table")
      BY <1>1, <3>2, CommitKeeps DEF Commits
    <3> QED BY <2>2, <3>1, <3>2
  <2> QED BY <1>1, <1>2, <1>3, <2>1, <2>2, <2>3, InstanceStep DEF Starting
<1>6. ASSUME UNCHANGED database
      PROVE  /\ TableAt(Len(log))' <=> TableAt(Len(log))
             /\ TableAt(applied)' <=> TableAt(applied)
             /\ Rows(Len(log))' = Rows(Len(log))
  BY <1>6 DEF database, TableAt, Rows
<1>7. CASE SeedLock(a)
  <2>1. pc'[a] = "check" /\ pc[a] = "lock" /\ lock = NoApi /\ lock' = a /\ UNCHANGED database
    BY <1>1, <1>7 DEF SeedLock, Step, TypeOK
  <2>2. TableAt(Len(log))'
    BY <1>1, <1>6, <2>1 DEF StartKnows, Starting
  <2> QED BY <1>1, <1>2, <1>3, <2>1, <2>2, InstanceStep
<1>8. CASE SeedCheck(a)
  <2>1. pc[a] = "check" /\ UNCHANGED database
    BY <1>8 DEF SeedCheck
  <2>2. \/ Rows(Len(log)) = {} /\ pc'[a] = "insert" /\ lock' = lock
        \/ Rows(Len(log)) # {} /\ pc'[a] = "rest" /\ Release(a)
    BY <1>1, <1>8 DEF SeedCheck, Step, TypeOK
  <2>3. TableAt(Len(log))'
    BY <1>1, <1>6, <2>1 DEF StartKnows, Starting
  <2> QED BY <1>1, <1>2, <1>3, <1>6, <2>1, <2>2, <2>3, InstanceStep
<1>9. CASE SeedInsert(a)
  <2>1. pc[a] = "insert" /\ pc'[a] = "rest" /\ Commit("seed") /\ Release(a)
    BY <1>1, <1>9 DEF SeedInsert, Step, TypeOK
  <2>2. TableAt(Len(log)) /\ Rows(Len(log)) = {}
    BY <1>1, <2>1 DEF StartKnows, LockHeld, Starting
  <2>3. TableAt(Len(log))' /\ Rows(Len(log))' # {}
    BY <1>1, <2>1, <2>2, CommitKeeps DEF Commits
  <2> QED BY <1>1, <1>2, <1>3, <2>1, <2>3, InstanceStep
<1>10. CASE InitRest(a)
  <2>1. pc[a] = "rest" /\ pc'[a] = "visible" /\ UNCHANGED <<database, lock>>
    BY <1>1, <1>10 DEF InitRest, Goto, TypeOK
  <2>2. TableAt(Len(log))' /\ Rows(Len(log))' # {}
    BY <1>1, <1>6, <2>1 DEF StartKnows, Starting
  <2> QED BY <1>1, <1>2, <1>3, <2>1, <2>2, InstanceStep
<1>11. CASE Visible(a)
  <2>1. pc[a] = "visible" /\ pc'[a] = "serving" /\ TableAt(applied) /\ UNCHANGED <<database, lock>>
    BY <1>1, <1>11 DEF Visible, Goto, TypeOK
  <2>2. TableAt(Len(log))' /\ TableAt(applied)' /\ Rows(Len(log))' # {}
    BY <1>1, <1>6, <2>1 DEF StartKnows, Starting
  <2> QED BY <1>1, <1>2, <1>3, <2>1, <2>2, InstanceStep
<1>12. CASE NotVisible(a) \/ VisibleFails(a)
  <2>1. pc[a] = "visible" /\ pc'[a] \in {"visible", "exited"} /\ UNCHANGED <<database, lock>>
    BY <1>1, <1>12 DEF NotVisible, VisibleFails, Retry, TypeOK
  <2>2. TableAt(Len(log))' /\ Rows(Len(log))' # {}
    BY <1>1, <1>6, <2>1 DEF StartKnows, Starting
  <2> QED BY <1>1, <1>2, <1>3, <2>1, <2>2, InstanceStep DEF Starting
<1>13. CASE InitFails(a)
  <2>1. /\ pc'[a] \in {"schema", "exited"} /\ Release(a)
        /\ \/ UNCHANGED database
           \/ pc[a] = "schema" /\ Commit("table")
           \/ pc[a] = "insert" /\ Commit("seed")
    BY <1>1, <1>13 DEF InitFails, Retry, TypeOK
  <2> QED BY <1>1, <1>2, <1>3, <2>1, InstanceStep DEF Starting
<1> QED BY <1>4, <1>5, <1>7, <1>8, <1>9, <1>10, <1>11, <1>12, <1>13 DEF Main

\* The requests that a dying instance was handling die with it.
LEMMA IndInvCrash ==
  ASSUME IndInv, NEW a \in Api, Crash(a)
  PROVE  IndInv'
<1>1. TypeOK /\ TypeOK'
  BY TypeMain DEF IndInv
<1>2. /\ pc'[a] = "down" /\ \A b \in Api : b # a => pc'[b] = pc[b]
      /\ Release(a) /\ UNCHANGED <<database, at>>
  BY <1>1 DEF Crash, Goto, TypeOK
<1>3. SeededOnce'
  BY <1>2 DEF IndInv, SeededOnce, database, Rows
<1>4. LockHeld'
  <2>1. \A b \in Api : lock' = b <=> pc'[b] \in {"check", "insert"}
    BY <1>2, ItemsApiAssumption DEF IndInv, LockHeld, Release
  <2>2. \A b \in Api : pc'[b] = "insert" => Rows(Len(log))' = {}
    BY <1>2 DEF IndInv, LockHeld, database, Rows
  <2> QED BY <2>1, <2>2 DEF LockHeld
<1>5. StartKnows'
  <2>1. UNCHANGED <<TableAt(Len(log)), Rows(Len(log)), TableAt(applied)>>
    BY <1>2 DEF database, TableAt, Rows
  <2>2. pc'[a] \notin Starting \union {"serving"}
    BY <1>2 DEF Starting
  <2> QED BY <1>2, <2>1, <2>2 DEF IndInv, StartKnows, Starting
<1>6. Handled'
  <2>1. \A p \in Post : post'[p] = IF at[p] = a /\ post[p] \in {"insert", "del"} THEN "failed" ELSE post[p]
    BY DEF Crash
  <2> QED BY <1>2, <2>1 DEF IndInv, Handled
<1> QED BY <1>1, <1>3, <1>4, <1>5, <1>6 DEF IndInv

\* Requests and the replica do not touch main().
LEMMA IndInvServing ==
  ASSUME IndInv,
         \/ Replicate \/ Expire
         \/ \E a \in Api : ReadRows(a) \/ Fill(a) \/ \E p \in Post : BeginPost(a, p)
         \/ \E p \in Post : Create(p) \/ CreateFails(p) \/ DeleteKey(p) \/ DeleteFails(p)
  PROVE  IndInv'
<1>1. TypeOK /\ TypeOK' /\ SeededOnce
  BY TypeReads, TypePosts DEF IndInv
<1>2. UNCHANGED <<lock, pc>>
  BY DEF Replicate, Expire, ReadRows, Fill, BeginPost, Create, CreateFails, DeleteKey, DeleteFails, starting
<1>3. \/ UNCHANGED database \/ Replicate
      \/ \E p \in Post : post[p] = "insert" /\ Commit(p)
  BY DEF Replicate, Expire, ReadRows, Fill, BeginPost, Create, CreateFails, DeleteKey, DeleteFails
<1>4. /\ SeededOnce'
      /\ TableAt(Len(log)) => TableAt(Len(log))'
      /\ TableAt(applied) => TableAt(applied)'
      /\ Rows(Len(log)) # {} => Rows(Len(log))' # {}
  BY <1>1, <1>3, DatabaseStep
<1>5. LockHeld'
  <2>1. CASE UNCHANGED log
    BY <1>2, <2>1 DEF IndInv, LockHeld, Rows
  <2>2. ASSUME NEW p \in Post, post[p] = "insert" PROVE LockHeld'
    <3>1. Rows(Len(log)) # {}
      BY <2>2 DEF IndInv, Handled, StartKnows
    <3>2. \A a \in Api : pc[a] # "insert"
      BY <3>1 DEF IndInv, LockHeld
    <3> QED BY <1>2, <3>2 DEF IndInv, LockHeld
  <2> QED BY <1>3, <2>1, <2>2 DEF database, Replicate
<1>6. StartKnows'
  BY <1>2, <1>4 DEF IndInv, StartKnows
<1>7. Handled'
  <2>1. CASE \E a \in Api, p \in Post : BeginPost(a, p)
    BY <1>1, <1>2, <2>1 DEF BeginPost, IndInv, Handled, TypeOK
  <2>2. CASE ~ \E a \in Api, p \in Post : BeginPost(a, p)
    <3>1. UNCHANGED at /\ \A p \in Post : post'[p] \in {"insert", "del"} => post[p] \in {"insert", "del"}
      BY <1>1, <2>2 DEF Replicate, Expire, ReadRows, Fill, Create, CreateFails, DeleteKey, DeleteFails, serving, TypeOK
    <3> QED BY <1>2, <3>1 DEF IndInv, Handled
  <2> QED BY <2>1, <2>2
<1> QED BY <1>1, <1>4, <1>5, <1>6, <1>7 DEF IndInv

LEMMA IndInvNext == IndInv /\ [Next]_vars => IndInv'
<1> SUFFICES ASSUME IndInv, [Next]_vars PROVE IndInv'
  OBVIOUS
<1>1. CASE UNCHANGED vars
  <2>1. TypeOK'
    BY <1>1, TypeNext DEF IndInv
  <2>2. UNCHANGED <<log, applied, lock, pc, post, at>>
    BY <1>1 DEF vars, database, starting, serving
  <2>3. UNCHANGED <<TableAt(Len(log)), Rows(Len(log)), TableAt(applied)>>
    BY <2>2 DEF TableAt, Rows
  <2>4. SeededOnce'
    BY <2>2 DEF IndInv, SeededOnce, Rows
  <2> QED BY <2>1, <2>2, <2>3, <2>4 DEF IndInv, LockHeld, StartKnows, Handled
<1>2. CASE Next
  BY <1>2, IndInvMain, IndInvCrash, IndInvServing DEF Next
<1> QED BY <1>1, <1>2

\* The advisory lock does its work, whoever crashes, retries or loses its COMMIT.
THEOREM IndInvHolds == Spec => []IndInv
BY IndInvInit, IndInvNext, PTL DEF Spec

\* The seed is committed at most once and never beside other rows, however many
\* instances start together.
THEOREM SeededOnceHolds == Spec => []SeededOnce
<1>1. IndInv => SeededOnce
  BY DEF IndInv
<1> QED BY <1>1, IndInvHolds, PTL

\* An instance that listens finds its table where it reads, and rows on the primary.
THEOREM ServesVisibleHolds == Spec => []ServesVisible
<1>1. IndInv => ServesVisible
  BY DEF IndInv, StartKnows, ServesVisible
<1> QED BY <1>1, IndInvHolds, PTL

-----------------------------------------------------------------------------
(* The cache, when requests do not overlap and nothing lags.               *)

\* What a GET is about to cache shows every row answered so far: none is added
\* before it does.
ViewsAreFresh ==
  /\ applied = Len(log)
  /\ \A p \in Post : post[p] \in {"del", "done"} => p \in Rows(Len(log))
  /\ \A a \in Api : view[a].set =>
       \A p \in Post : post[p] \notin {"insert", "del"} /\ (post[p] = "done" => p \in view[a].shows)
  /\ cache.set => \A p \in Post : post[p] = "done" => p \in cache.shows

InTurn == alone /\ ~replica => ViewsAreFresh

\* Rows only come.
LEMMA RowsGrow ==
  ASSUME TypeOK, ~replica, applied = Len(log), UNCHANGED database \/ \E x \in Commits : Commit(x)
  PROVE  /\ applied' = Len(log')
         /\ Rows(Len(log)) \subseteq Rows(Len(log))'
         /\ \A x \in Post : Commit(x) => x \in Rows(Len(log))'
<1>1. CASE UNCHANGED database
  <2>1. \A x \in Post : ~Commit(x)
    BY <1>1 DEF database, Commit, TypeOK
  <2> QED BY <1>1, <2>1 DEF database, Rows
<1>2. ASSUME NEW x \in Commits, Commit(x)
      PROVE  /\ applied' = Len(log') /\ Rows(Len(log)) \subseteq Rows(Len(log))'
             /\ x \in Post => x \in Rows(Len(log))'
  <2>1. /\ Len(log') = Len(log) + 1 /\ Len(log) \in Nat
        /\ \A i \in 1..Len(log) : log'[i] = log[i]
        /\ log'[Len(log) + 1] = x
    BY <1>2, CommitFacts DEF TypeOK, Commits
  <2>2. applied' = Len(log')
    BY <1>2, <2>1 DEF Commit
  <2>3. Rows(Len(log))' = {log'[i] : i \in 1..Len(log')} \ {"table"}
    BY DEF Rows
  <2>4. Rows(Len(log)) \subseteq Rows(Len(log))'
    BY <2>1, <2>3 DEF Rows
  <2>5. x \in Post => x \in Rows(Len(log))'
    BY <2>1, <2>3, ItemsApiAssumption
  <2> QED BY <2>2, <2>4, <2>5
<1> QED BY <1>1, <1>2 DEF Commits

LEMMA InTurnNext == TypeOK /\ InTurn /\ [Next]_vars => InTurn'
<1> SUFFICES ASSUME TypeOK, InTurn, [Next]_vars, alone', ~replica' PROVE ViewsAreFresh'
  BY DEF InTurn
<1>1. UNCHANGED <<replica, alone>>
  BY DEF Next, Boot, Main, SeedLock, InitFails, VisibleFails, Crash, InitSchema, SeedCheck, SeedInsert, InitRest,
         Visible, NotVisible, ReadRows, Fill, BeginPost, Create, CreateFails, DeleteKey, DeleteFails, Replicate,
         Expire, vars
<1>2. alone /\ ~replica /\ ViewsAreFresh
  BY <1>1 DEF InTurn
<1>3. ASSUME UNCHANGED database \/ \E x \in Commits : Commit(x)
      PROVE  /\ applied' = Len(log')
             /\ Rows(Len(log)) \subseteq Rows(Len(log))'
             /\ \A x \in Post : Commit(x) => x \in Rows(Len(log))'
  BY <1>2, <1>3, RowsGrow DEF ViewsAreFresh
<1>4. ASSUME UNCHANGED serving, UNCHANGED database \/ \E x \in Commits : Commit(x) PROVE ViewsAreFresh'
  BY <1>2, <1>3, <1>4 DEF ViewsAreFresh, serving
<1>5. CASE UNCHANGED vars
  BY <1>4, <1>5 DEF vars
<1>6. ASSUME NEW a \in Api, Boot(a) \/ Main(a) \/ SeedLock(a) \/ InitFails(a) \/ VisibleFails(a) PROVE ViewsAreFresh'
  <2>1. UNCHANGED serving
    BY <1>6 DEF Boot, Main, SeedLock, InitFails, VisibleFails, InitSchema, SeedCheck, SeedInsert, InitRest,
                Visible, NotVisible
  <2>2. UNCHANGED database \/ Commit("table") \/ Commit("seed")
    BY <1>6 DEF Boot, Main, SeedLock, InitFails, VisibleFails, InitSchema, SeedCheck, SeedInsert, InitRest,
                Visible, NotVisible
  <2> QED BY <1>4, <2>1, <2>2 DEF Commits
<1>7. ASSUME NEW a \in Api, Crash(a) PROVE ViewsAreFresh'
  <2>1. UNCHANGED <<database, cache>>
    BY <1>7 DEF Crash
  <2>2. \A p \in Post : post'[p] = post[p] \/ post'[p] = "failed"
    BY <1>7 DEF Crash
  <2>3. \A b \in Api : view'[b] = view[b] \/ ~view'[b].set
    BY <1>7 DEF Crash, Nothing, TypeOK
  <2> QED BY <1>2, <1>3, <2>1, <2>2, <2>3 DEF ViewsAreFresh
<1>8. ASSUME NEW a \in Api, ReadRows(a) PROVE ViewsAreFresh'
  <2>1. UNCHANGED <<database, post, cache>> /\ ~Busy
    BY <1>2, <1>8 DEF ReadRows, MayBegin
  <2>2. \A b \in Api : view'[b] = IF b = a THEN List(Rows(Len(log))) ELSE view[b]
    BY <1>2, <1>8 DEF ReadRows, ViewsAreFresh, TypeOK
  <2>3. \A p \in Post : post[p] \notin {"insert", "del"} /\ (post[p] = "done" => p \in Rows(Len(log)))
    BY <1>2, <2>1 DEF Busy, ViewsAreFresh
  <2> QED BY <1>2, <1>3, <2>1, <2>2, <2>3 DEF ViewsAreFresh, List
<1>9. ASSUME NEW a \in Api, Fill(a) PROVE ViewsAreFresh'
  <2>1. UNCHANGED <<database, post>> /\ view[a].set /\ cache' \in {view[a], cache}
    BY <1>9 DEF Fill
  <2>2. \A b \in Api : view'[b] = view[b] \/ ~view'[b].set
    BY <1>9 DEF Fill, Nothing, TypeOK
  <2> QED BY <1>2, <1>3, <2>1, <2>2 DEF ViewsAreFresh
<1>10. ASSUME NEW a \in Api, NEW p \in Post, BeginPost(a, p) PROVE ViewsAreFresh'
  <2>1. UNCHANGED <<database, view, cache>> /\ ~Busy
    BY <1>2, <1>10 DEF BeginPost, MayBegin
  <2>2. \A q \in Post : post'[q] = post[q] \/ post'[q] = "insert"
    BY <1>10 DEF BeginPost, TypeOK
  <2> QED BY <1>2, <1>3, <2>1, <2>2 DEF ViewsAreFresh, Busy
<1>11. ASSUME NEW p \in Post, Create(p) \/ CreateFails(p) PROVE ViewsAreFresh'
  <2>1. UNCHANGED <<view, cache>> /\ (UNCHANGED database \/ Commit(p)) /\ post[p] = "insert"
    BY <1>11 DEF Create, CreateFails
  <2>2. \A q \in Post : q # p => post'[q] = post[q]
    BY <1>11 DEF Create, CreateFails, TypeOK
  <2>3. post'[p] = "failed" \/ (post'[p] = "del" /\ Commit(p))
    BY <1>11 DEF Create, CreateFails, TypeOK
  <2> QED BY <1>2, <1>3, <2>1, <2>2, <2>3 DEF ViewsAreFresh, Commits
<1>12. ASSUME NEW p \in Post, DeleteKey(p) \/ DeleteFails(p) PROVE ViewsAreFresh'
  <2>1. UNCHANGED <<database, view>> /\ post[p] = "del"
    BY <1>12 DEF DeleteKey, DeleteFails
  <2>2. \A q \in Post : q # p => post'[q] = post[q]
    BY <1>12 DEF DeleteKey, DeleteFails, TypeOK
  <2>3. \/ post'[p] = "done" /\ ~cache'.set
        \/ post'[p] = "undeleted" /\ (cache' = cache \/ ~cache'.set)
    <3>1. ~Nothing.set
      BY DEF Nothing
    <3>2. CASE DeleteKey(p)
      BY <3>1, <3>2 DEF DeleteKey, TypeOK
    <3>3. CASE DeleteFails(p)
      BY <3>1, <3>3 DEF DeleteFails, TypeOK
    <3> QED BY <1>12, <3>2, <3>3
  <2> QED BY <1>2, <1>3, <2>1, <2>2, <2>3 DEF ViewsAreFresh
<1>13. CASE Replicate
  BY <1>2, <1>13 DEF Replicate, ViewsAreFresh, TypeOK
<1>14. CASE Expire
  <2>1. UNCHANGED <<database, post, view>> /\ ~cache'.set
    BY <1>14 DEF Expire, Nothing
  <2> QED BY <1>2, <1>3, <2>1 DEF ViewsAreFresh
<1> QED BY <1>5, <1>6, <1>7, <1>8, <1>9, <1>10, <1>11, <1>12, <1>13, <1>14 DEF Next

\* With one request at a time and one database, crashes and lost answers included, a
\* list in the cache shows every row that was answered and whose DEL has worked.
THEOREM SequentialReadsHolds == Spec => []SequentialReads
<1>1. Init => InTurn
  BY DEF Init, InTurn, ViewsAreFresh, Nothing
<1>2. InTurn => SequentialReads
  BY DEF InTurn, ViewsAreFresh, SequentialReads
<1> QED BY <1>1, <1>2, InTurnNext, TypeInit, TypeNext, PTL DEF Spec

-----------------------------------------------------------------------------
(* The cache, whatever overlaps.                                           *)

\* What the read pool has shown once stays as it was.
LEMMA PastStays ==
  ASSUME TypeOK, UNCHANGED database \/ Replicate \/ \E x \in Commits : Commit(x),
         NEW n \in 0..applied
  PROVE  n \in 0..applied' /\ Rows(n)' = Rows(n)
<1>1. log \in Seq(Commits) /\ applied \in 0..Len(log) /\ Len(log) \in Nat
  BY DEF TypeOK, Commits
<1>2. CASE UNCHANGED database
  BY <1>2 DEF database, Rows
<1>3. CASE Replicate
  BY <1>1, <1>3 DEF Replicate, Rows
<1>4. ASSUME NEW x \in Commits, Commit(x) PROVE n \in 0..applied' /\ Rows(n)' = Rows(n)
  <2>1. /\ applied' \in Nat /\ applied' >= applied
        /\ \A i \in 1..Len(log) : log'[i] = log[i]
    BY <1>1, <1>4, CommitFacts DEF TypeOK
  <2>2. \A i \in 1..n : log'[i] = log[i]
    BY <1>1, <2>1
  <2>3. {log'[i] : i \in 1..n} = {log[i] : i \in 1..n}
    BY <2>2
  <2> QED BY <1>1, <2>1, <2>3 DEF Rows
<1> QED BY <1>2, <1>3, <1>4

LEMMA ShowsThePastNext == TypeOK /\ ShowsThePast /\ [Next]_vars => ShowsThePast'
<1> SUFFICES ASSUME TypeOK, ShowsThePast, [Next]_vars PROVE ShowsThePast'
  OBVIOUS
<1> DEFINE Past(list) == list.set => \E n \in 0..applied : list.shows = Rows(n)
<1>1. Past(cache) /\ \A a \in Api : Past(view[a])
  BY DEF ShowsThePast
<1>2. ~Nothing.set
  BY DEF Nothing
<1>3. UNCHANGED database \/ Replicate \/ \E x \in Commits : Commit(x)
  <2>1. CASE UNCHANGED vars
    BY <2>1 DEF vars
  <2>2. ASSUME NEW a \in Api,
               Boot(a) \/ Main(a) \/ SeedLock(a) \/ InitFails(a) \/ VisibleFails(a) \/ Crash(a)
               \/ ReadRows(a) \/ Fill(a) \/ \E p \in Post : BeginPost(a, p)
        PROVE  UNCHANGED database \/ Commit("table") \/ Commit("seed")
    BY <2>2 DEF Boot, Main, SeedLock, InitFails, VisibleFails, Crash, InitSchema, SeedCheck, SeedInsert,
                InitRest, Visible, NotVisible, ReadRows, Fill, BeginPost
  <2>3. ASSUME NEW p \in Post, Create(p) \/ CreateFails(p) \/ DeleteKey(p) \/ DeleteFails(p)
        PROVE  UNCHANGED database \/ Commit(p)
    BY <2>3 DEF Create, CreateFails, DeleteKey, DeleteFails
  <2>4. CASE Expire
    BY <2>4 DEF Expire
  <2> QED BY <2>1, <2>2, <2>3, <2>4 DEF Next, Commits
<1>4. \A n \in 0..applied : n \in 0..applied' /\ Rows(n)' = Rows(n)
  BY <1>3, PastStays
<1>5. \* A list is an old one, empty, or read just now.
      /\ cache' \in {cache, Nothing} \union {view[a] : a \in Api}
      /\ \A b \in Api : view'[b] \in {view[b], Nothing} \/ (UNCHANGED database /\ view'[b] = List(Rows(applied)))
  <2>1. CASE UNCHANGED serving
    BY <2>1 DEF serving
  <2>2. ASSUME NEW a \in Api, Boot(a) \/ Main(a) \/ SeedLock(a) \/ InitFails(a) \/ VisibleFails(a)
        PROVE  UNCHANGED serving
    BY <2>2 DEF Boot, Main, SeedLock, InitFails, VisibleFails, InitSchema, SeedCheck, SeedInsert, InitRest,
                Visible, NotVisible
  <2>3. ASSUME NEW a \in Api, Crash(a) \/ ReadRows(a) \/ Fill(a) \/ \E p \in Post : BeginPost(a, p) PROVE <1>5
    <3>1. CASE Crash(a)
      BY <3>1 DEF Crash, TypeOK
    <3>2. CASE ReadRows(a)
      BY <3>2 DEF ReadRows, TypeOK
    <3>3. CASE Fill(a)
      BY <3>3 DEF Fill, TypeOK
    <3>4. CASE \E p \in Post : BeginPost(a, p)
      BY <3>4 DEF BeginPost
    <3> QED BY <2>3, <3>1, <3>2, <3>3, <3>4
  <2>4. ASSUME NEW p \in Post, Create(p) \/ CreateFails(p) \/ DeleteKey(p) \/ DeleteFails(p) PROVE <1>5
    BY <2>4 DEF Create, CreateFails, DeleteKey, DeleteFails
  <2>5. CASE Replicate
    BY <2>5 DEF Replicate, serving
  <2>6. CASE Expire
    BY <2>6 DEF Expire
  <2>7. CASE UNCHANGED vars
    BY <2>7 DEF vars, serving
  <2> QED BY <2>1, <2>2, <2>3, <2>4, <2>5, <2>6, <2>7 DEF Next
<1>6. Past(cache)'
  BY <1>1, <1>2, <1>4, <1>5
<1>7. ASSUME NEW b \in Api PROVE Past(view[b])'
  <2>1. CASE view'[b] \in {view[b], Nothing}
    BY <1>1, <1>2, <1>4, <2>1
  <2>2. CASE UNCHANGED database /\ view'[b] = List(Rows(applied))
    <3>1. applied \in 0..applied
      BY DEF TypeOK
    <3>2. List(Rows(applied)).shows = Rows(applied)
      BY DEF List
    <3> QED BY <1>4, <2>2, <3>1, <3>2
  <2> QED BY <1>5, <2>1, <2>2
<1> QED BY <1>6, <1>7 DEF ShowsThePast

\* With any overlap, lag, expiry and failing command, with a replica or without: a list in
\* the cache, or on its way to it, is one that the read pool showed at some moment.
THEOREM ShowsThePastHolds == Spec => []ShowsThePast
<1>1. Init => ShowsThePast
  BY DEF Init, ShowsThePast, Nothing
<1> QED BY <1>1, ShowsThePastNext, TypeInit, TypeNext, PTL DEF Spec
=============================================================================
