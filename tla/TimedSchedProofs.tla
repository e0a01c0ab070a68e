--------------------------- MODULE TimedSchedProofs ---------------------------
(***************************************************************************)
(* Theorems about TimedSched: for any number of workers and tasks, any delays *)
(* and however late a worker comes to a timer that fired.                     *)
(***************************************************************************)
EXTENDS TimedSched, FiniteSetTheorems, SequenceTheorems, WellFoundedInduction, TLAPS

(* The inductive invariant *)

QueueType ==
    /\ prependTasks \in Seq(Tasks) /\ tasks \in Seq(Tasks)
    /\ notify \in 0..1 /\ client \in {"idle", "notify"}

WorkerType ==
    /\ heap \in [Workers -> SUBSET Tasks]
    /\ pc \in [Workers -> {"select", "due", "execute", "notify"}]
    /\ running \in [Workers -> Tasks \cup {None}]
    /\ \A w \in Workers : pc[w] = "execute" <=> running[w] # None
    /\ back \in [Workers -> {"select", "due"}]

TimeType ==
    /\ ts \in [Tasks -> Int] /\ \A t \in Tasks : ts[t] >= -MaxLate - 1
    /\ timer \in [Workers -> {"armed", "fired", "off"}]
    /\ at \in [Workers -> Int] /\ \A w \in Workers : at[w] >= -MaxLate

\* A timer whose value was received is known to be off.
DrainKnown ==
    /\ drained \in [Workers -> BOOLEAN]
    /\ \A w \in Workers : timer[w] = "off" => drained[w]

\* No queue, heap or worker has a task twice ...
Injective(s) == \A i, j \in DOMAIN s : s[i] = s[j] => i = j
Once ==
    /\ Injective(prependTasks) /\ Injective(tasks)
    /\ \A w, v \in Workers : heap[w] \cap heap[v] # {} => w = v
    /\ \A w, v \in Workers : running[w] = running[v] /\ running[w] # None => w = v

\* ... and no two of them have the same.
Apart ==
    /\ Items(prependTasks) \cap Items(tasks) = {}
    /\ \A w \in Workers : heap[w] \cap (Items(prependTasks) \cup Items(tasks)) = {}
    /\ \A w \in Workers : running[w] \notin Items(prependTasks) \cup Items(tasks)
    /\ \A w, v \in Workers : running[w] \notin heap[v]

\* Worker w is at its select, or will be there when the task that came has run.
Waits(w) == pc[w] = "select" \/ (pc[w] \in {"execute", "notify"} /\ back[w] = "select")

\* What TimerCoversHeap says, of a worker that executes as well.
Covered ==
    \A w \in Workers : Waits(w) /\ heap[w] # {} =>
        \/ timer[w] = "fired"
        \/ /\ timer[w] = "armed"
           /\ at[w] <= MaxLate \/ at[w] <= ts[Soonest(heap[w])] + MaxLate

Types == QueueType /\ WorkerType /\ TimeType
Places == Once /\ Apart
Inv == Types /\ DrainKnown /\ Places /\ Covered

-----------------------------------------------------------------------------
(* Queues *)

LEMMA AppendItems ==
    ASSUME NEW S, NEW s \in Seq(S), NEW x \in S
    PROVE  /\ Append(s, x) \in Seq(S)
           /\ Items(Append(s, x)) = Items(s) \cup {x}
           /\ Injective(s) /\ x \notin Items(s) => Injective(Append(s, x))
<1> DEFINE n == Len(s)
           u == Append(s, x)
<1>1. /\ u \in Seq(S) /\ n \in Nat /\ DOMAIN s = 1 .. n /\ DOMAIN u = 1 .. n + 1
      /\ u[n + 1] = x /\ \A i \in 1 .. n : u[i] = s[i]
  OBVIOUS
<1> HIDE DEF n, u
<1>2. \A i \in 1 .. n + 1 : i \in 1 .. n \/ i = n + 1
  BY <1>1
<1>3. n + 1 \in 1 .. n + 1 /\ \A i \in 1 .. n : i \in 1 .. n + 1
  BY <1>1
<1>4. Items(u) = Items(s) \cup {x}
  BY <1>1, <1>2, <1>3 DEF Items
<1>5. Injective(s) /\ x \notin Items(s) => Injective(u)
  BY <1>1, <1>2 DEF Items, Injective
<1> QED
  BY <1>1, <1>4, <1>5 DEF u

LEMMA TailItems ==
    ASSUME NEW S, NEW s \in Seq(S), s # <<>>
    PROVE  /\ Tail(s) \in Seq(S) /\ Head(s) \in Items(s) /\ Head(s) \in S
           /\ Items(Tail(s)) \subseteq Items(s)
           /\ Injective(s) => Injective(Tail(s)) /\ Head(s) \notin Items(Tail(s))
<1> DEFINE n == Len(s)
           u == Tail(s)
<1>1. /\ u \in Seq(S) /\ n \in Nat \ {0} /\ DOMAIN s = 1 .. n /\ DOMAIN u = 1 .. n - 1
      /\ \A i \in 1 .. n - 1 : u[i] = s[i + 1]
      /\ Head(s) = s[1] /\ s[1] \in S
  OBVIOUS
<1> HIDE DEF n, u
<1>2. 1 \in 1 .. n /\ \A i \in 1 .. n - 1 : i + 1 \in 1 .. n /\ i + 1 # 1
  BY <1>1
<1>3. Items(u) \subseteq Items(s) /\ Head(s) \in Items(s)
  BY <1>1, <1>2 DEF Items
<1>4. ASSUME Injective(s) PROVE Injective(u) /\ Head(s) \notin Items(u)
  <2>1. Head(s) \notin Items(u)
    <3> SUFFICES ASSUME NEW i \in 1 .. n - 1, u[i] = Head(s) PROVE FALSE
        BY <1>1 DEF Items
    <3>1. s[i + 1] = s[1] /\ i + 1 \in 1 .. n /\ i + 1 # 1
      BY <1>1, <1>2
    <3> QED
      BY <1>1, <1>2, <1>4, <3>1 DEF Injective
  <2>2. ASSUME NEW i \in 1 .. n - 1, NEW j \in 1 .. n - 1, u[i] = u[j] PROVE i = j
    <3>1. s[i + 1] = s[j + 1] /\ i + 1 \in 1 .. n /\ j + 1 \in 1 .. n
      BY <1>1, <1>2, <2>2
    <3>2. i + 1 = j + 1
      BY <1>1, <1>4, <3>1 DEF Injective
    <3> QED
      BY <3>2
  <2> QED
    BY <1>1, <2>1, <2>2 DEF Injective
<1> QED
  BY <1>1, <1>3, <1>4 DEF u

LEMMA NoItems == Items(<<>>) = {} /\ Injective(<<>>)
  BY DEF Items, Injective

-----------------------------------------------------------------------------
(* Copies *)

LEMMA AtMostOne ==
    ASSUME NEW S, \A x, y \in S : x = y
    PROVE  Cardinality(S) \in {0, 1} /\ (S = {} => Cardinality(S) = 0)
<1>1. CASE S = {}
  BY <1>1, FS_EmptySet
<1>2. CASE S # {}
  <2>1. PICK x : S = {x}
    BY <1>2
  <2> QED
    BY <2>1, FS_Singleton
<1> QED
  BY <1>1, <1>2

\* The four terms of Copies.
Put(t) == {i \in DOMAIN prependTasks : prependTasks[i] = t}
Taken(t) == {i \in DOMAIN tasks : tasks[i] = t}
Heaps(t) == {w \in Workers : t \in heap[w]}
Runners(t) == {w \in Workers : running[w] = t}

LEMMA CopiesAre ==
    \A t : Copies(t) = Cardinality(Put(t)) + Cardinality(Taken(t))
                       + Cardinality(Heaps(t)) + Cardinality(Runners(t))
  BY DEF Copies, Put, Taken, Heaps, Runners

LEMMA OneCopy == Types /\ Places => EachTaskOnce
<1> SUFFICES ASSUME Types, Places, NEW t \in Tasks PROVE Copies(t) <= 1
    BY DEF EachTaskOnce
<1>1. /\ \A x, y \in Put(t) : x = y
      /\ \A x, y \in Taken(t) : x = y
      /\ \A x, y \in Heaps(t) : x = y
      /\ \A x, y \in Runners(t) : x = y
  BY NamesAssumption DEF Places, Once, Injective, Put, Taken, Heaps, Runners
<1>2. /\ Put(t) # {} => t \in Items(prependTasks)
      /\ Taken(t) # {} => t \in Items(tasks)
  BY DEF Put, Taken, Items
<1>3. /\ Put(t) = {} \/ (Taken(t) = {} /\ Heaps(t) = {} /\ Runners(t) = {})
      /\ Taken(t) = {} \/ (Heaps(t) = {} /\ Runners(t) = {})
      /\ Heaps(t) = {} \/ Runners(t) = {}
  BY <1>2 DEF Places, Apart, Heaps, Runners
<1>4. /\ Cardinality(Put(t)) \in {0, 1} /\ (Put(t) = {} => Cardinality(Put(t)) = 0)
      /\ Cardinality(Taken(t)) \in {0, 1} /\ (Taken(t) = {} => Cardinality(Taken(t)) = 0)
      /\ Cardinality(Heaps(t)) \in {0, 1} /\ (Heaps(t) = {} => Cardinality(Heaps(t)) = 0)
      /\ Cardinality(Runners(t)) \in {0, 1} /\ (Runners(t) = {} => Cardinality(Runners(t)) = 0)
  BY <1>1, AtMostOne
<1> QED
  BY <1>3, <1>4, CopiesAre

LEMMA NoCopy ==
    ASSUME Types, NEW t \in Tasks, Copies(t) = 0
    PROVE  /\ t \notin Items(prependTasks) \cup Items(tasks)
           /\ \A w \in Workers : t \notin heap[w] /\ running[w] # t
<1>1. IsFiniteSet(DOMAIN prependTasks) /\ IsFiniteSet(DOMAIN tasks) /\ IsFiniteSet(Workers)
  <2>1. Len(prependTasks) \in Nat /\ DOMAIN prependTasks = 1 .. Len(prependTasks)
        /\ Len(tasks) \in Nat /\ DOMAIN tasks = 1 .. Len(tasks)
    BY DEF Types, QueueType
  <2> QED
    BY <2>1, FS_Interval, NamesAssumption
<1>2. IsFiniteSet(Put(t)) /\ IsFiniteSet(Taken(t)) /\ IsFiniteSet(Heaps(t)) /\ IsFiniteSet(Runners(t))
  BY <1>1, FS_Subset DEF Put, Taken, Heaps, Runners
<1>3. /\ Cardinality(Put(t)) \in Nat /\ Cardinality(Taken(t)) \in Nat
      /\ Cardinality(Heaps(t)) \in Nat /\ Cardinality(Runners(t)) \in Nat
  BY <1>2, FS_CardinalityType
<1>4. /\ Cardinality(Put(t)) = 0 /\ Cardinality(Taken(t)) = 0
      /\ Cardinality(Heaps(t)) = 0 /\ Cardinality(Runners(t)) = 0
  BY <1>3, CopiesAre
<1>5. Put(t) = {} /\ Taken(t) = {} /\ Heaps(t) = {} /\ Runners(t) = {}
  BY <1>2, <1>4, FS_EmptySet
<1> QED
  BY <1>5 DEF Put, Taken, Heaps, Runners, Items

-----------------------------------------------------------------------------
(* The first task of a heap *)

LEMMA Lowest ==
    ASSUME NEW T, T \subseteq Nat, T # {}
    PROVE  \E i \in T : \A j \in T : i <= j
<1> DEFINE Less == {p \in Nat \X Nat : p[1] < p[2]}
<1>1. IsWellFoundedOn(Less, Nat)
  <2>1. Less = OpToRel(<, Nat)
    BY Zenon DEF OpToRel
  <2> HIDE DEF Less
  <2> QED
    BY <2>1, NatLessThanWellFounded, Zenon
<1>2. PICK i \in T : \A j \in T : ~ (<<j, i>> \in Less)
  <2> HIDE DEF Less
  <2> QED
    BY <1>1, WFMin
<1>3. \A j \in T : <<j, i>> \in Less <=> j < i
  OBVIOUS
<1>4. \A j \in T : i <= j
  <2> HIDE DEF Less
  <2> TAKE j \in T
  <2>1. ~ (j < i) /\ j \in Nat /\ i \in Nat
    BY <1>2, <1>3
  <2> QED
    BY <2>1
<1> QED
  BY <1>4

\* Deadlines are bounded below, so that every heap has a first task.
LEMMA FirstIs ==
    ASSUME NEW f \in [Tasks -> Int], \A t \in Tasks : f[t] >= -MaxLate - 1,
           NEW tt, tt \subseteq Tasks, tt # {}
    PROVE  LET first == CHOOSE t \in tt : \A u \in tt : f[t] <= f[u]
           IN  first \in tt /\ \A u \in tt : f[first] <= f[u]
<1> DEFINE T == {f[u] + MaxLate + 1 : u \in tt}
<1>1. MaxLate \in Nat /\ \A u \in tt : f[u] \in Int /\ f[u] >= -MaxLate - 1
  BY SchedAssumption
<1>2. T \subseteq Nat /\ T # {}
  BY <1>1
<1>3. PICK i \in T : \A j \in T : i <= j
  <2> HIDE DEF T
  <2> QED
    BY <1>2, Lowest
<1>4. PICK t \in tt : i = f[t] + MaxLate + 1
  BY <1>3
<1>5. \A u \in tt : f[t] <= f[u]
  <2> TAKE u \in tt
  <2>1. i <= f[u] + MaxLate + 1
    BY <1>3
  <2> QED
    BY <1>1, <1>4, <2>1
<1> HIDE DEF T
<1> QED
  BY <1>4, <1>5

LEMMA SoonestIs ==
    ASSUME TimeType, NEW tt, tt \subseteq Tasks, tt # {}
    PROVE  Soonest(tt) \in tt /\ \A u \in tt : ts[Soonest(tt)] <= ts[u]
  BY FirstIs, Zenon DEF TimeType, Soonest

-----------------------------------------------------------------------------
(* Types *)

LEMMA ResetTypes ==
    ASSUME TimeType, DrainKnown, NEW w \in Workers, NEW d \in Int, Reset(w, d)
    PROVE  /\ timer' \in [Workers -> {"armed", "fired", "off"}] /\ timer'[w] = "armed"
           /\ \A v \in Workers : v # w => timer'[v] = timer[v] /\ at'[v] = at[v]
           /\ at' \in [Workers -> Int] /\ \A v \in Workers : at'[v] >= -MaxLate
           /\ at'[w] = IF d < 0 THEN 0 ELSE d
           /\ DrainKnown'
<1> DEFINE a == IF d < 0 THEN 0 ELSE d
<1>1. a \in Int /\ MaxLate \in Nat /\ a >= -MaxLate
  BY SchedAssumption
<1>2. at' = [at EXCEPT ![w] = a]
  BY DEF Reset
<1> HIDE DEF a
<1>3. at' \in [Workers -> Int] /\ at'[w] = a /\ \A v \in Workers : v # w => at'[v] = at[v]
  BY <1>1, <1>2 DEF TimeType
<1>4. \A v \in Workers : at'[v] >= -MaxLate
  BY <1>1, <1>3 DEF TimeType
<1>5. timer' \in [Workers -> {"armed", "fired", "off"}] /\ timer'[w] = "armed"
      /\ \A v \in Workers : v # w => timer'[v] = timer[v]
  BY DEF Reset, TimeType
<1>6. DrainKnown'
  BY <1>5 DEF Reset, DrainKnown
<1> QED
  BY <1>3, <1>4, <1>5, <1>6 DEF a

LEMMA PushShape ==
    ASSUME Types, DrainKnown, NEW w \in Workers, NEW t \in Tasks, Push(w, t)
    PROVE  /\ heap' = [heap EXCEPT ![w] = @ \cup {t}] /\ UNCHANGED pc
           /\ Soonest(heap[w] \cup {t}) \in Tasks
           /\ Reset(w, ts[Soonest(heap[w] \cup {t})])
<1>1. heap[w] \cup {t} \subseteq Tasks
  BY DEF Types, WorkerType
<1>2. Soonest(heap[w] \cup {t}) \in Tasks
  BY <1>1, SoonestIs DEF Types
<1>3. timer[w] = "off" => drained[w]
  BY DEF DrainKnown
<1> QED
  BY <1>2, <1>3 DEF Push

\* What ReceiveTask and Due do, in the parts the invariant is about.
LEMMA ReceiveTaskShape ==
    ASSUME Types, DrainKnown, NEW w \in Workers, ReceiveTask(w)
    PROVE  LET t == Head(tasks) IN
           /\ tasks # <<>> /\ tasks' = Tail(tasks) /\ pc[w] = "select" /\ running[w] = None
           /\ t \in Tasks /\ UNCHANGED <<ts, prependTasks, notify, client>>
           /\ \/ Execute(w, t, "select") /\ UNCHANGED workVars
              \/ /\ heap' = [heap EXCEPT ![w] = @ \cup {t}] /\ UNCHANGED runVars
                 /\ Soonest(heap[w] \cup {t}) \in Tasks
                 /\ Reset(w, ts[Soonest(heap[w] \cup {t})])
<1>1. tasks # <<>> /\ tasks' = Tail(tasks) /\ pc[w] = "select"
      /\ UNCHANGED <<ts, prependTasks, notify, client>>
  BY DEF ReceiveTask
<1>2. Head(tasks) \in Tasks /\ running[w] = None
  BY <1>1, TailItems DEF Types, QueueType, WorkerType
<1>3. \/ Execute(w, Head(tasks), "select") /\ UNCHANGED workVars
      \/ Push(w, Head(tasks)) /\ UNCHANGED <<running, back>>
  BY DEF ReceiveTask
<1> QED
  BY <1>1, <1>2, <1>3, PushShape DEF runVars

LEMMA DueShape ==
    ASSUME Types, NEW w \in Workers, Due(w)
    PROVE  /\ pc[w] = "due" /\ running[w] = None /\ UNCHANGED <<ts, frontVars, client>>
           /\ \/ /\ heap[w] = {} /\ pc' = [pc EXCEPT ![w] = "select"]
                 /\ UNCHANGED <<workVars, running, back>>
              \/ \E t \in heap[w] :
                    /\ t \in Tasks /\ t = Soonest(heap[w])
                    /\ \/ /\ heap' = [heap EXCEPT ![w] = @ \ {t}]
                          /\ Execute(w, t, "due")
                          /\ UNCHANGED <<timer, at, drained>>
                       \/ /\ at[w] <= ts[t] /\ Reset(w, ts[t] - at[w])
                          /\ pc' = [pc EXCEPT ![w] = "select"]
                          /\ UNCHANGED <<heap, running, back>>
<1>1. pc[w] = "due" /\ running[w] = None /\ UNCHANGED <<ts, frontVars, client>>
  BY DEF Due, Types, WorkerType
<1>2. CASE heap[w] = {}
  BY <1>1, <1>2 DEF Due
<1>3. CASE heap[w] # {}
  <2> DEFINE t == Soonest(heap[w])
  <2>1. t \in heap[w] /\ t \in Tasks
    BY <1>3, SoonestIs DEF Types, WorkerType
  <2>2. ts[t] \in Int /\ at[w] \in Int
    BY <2>1 DEF Types, TimeType
  <2>3. \/ /\ heap' = [heap EXCEPT ![w] = @ \ {t}]
           /\ Execute(w, t, "due")
           /\ UNCHANGED <<timer, at, drained>>
        \/ /\ ~(at[w] > ts[t]) /\ Reset(w, ts[t] - at[w])
           /\ pc' = [pc EXCEPT ![w] = "select"]
           /\ UNCHANGED <<heap, running, back>>
    BY <1>3 DEF Due
  <2>4. ~(at[w] > ts[t]) => at[w] <= ts[t]
    BY <2>2
  <2> QED
    BY <1>1, <2>1, <2>3, <2>4
<1> QED
  BY <1>2, <1>3

-----------------------------------------------------------------------------
(* Each part of the invariant is kept by every step *)

LEMMA NextQueueType == Inv /\ [Next]_vars => QueueType'
<1> SUFFICES ASSUME Types, DrainKnown, QueueType, WorkerType, [Next]_vars PROVE QueueType'
    BY DEF Inv, Types
<1>1. ASSUME NEW t \in Tasks, NEW d, Append_(t, d), UNCHANGED <<tasks, notify>>,
             client' \in {"idle", "notify"}
      PROVE  QueueType'
  BY <1>1, AppendItems DEF Append_, QueueType
<1>2. ASSUME NEW t \in Tasks, ClientPut(t) PROVE QueueType'
  BY <1>1, <1>2 DEF ClientPut
<1>3. CASE ClientNotify \/ Take
  BY <1>3 DEF ClientNotify, Take, QueueType
<1>4. ASSUME NEW w \in Workers, ReceiveTask(w) PROVE QueueType'
  <2>1. tasks # <<>> /\ tasks' = Tail(tasks) /\ UNCHANGED <<prependTasks, notify, client>>
    BY <1>4 DEF ReceiveTask
  <2>2. Tail(tasks) \in Seq(Tasks)
    BY <2>1, TailItems DEF QueueType
  <2> QED
    BY <2>1, <2>2 DEF QueueType
<1>5. ASSUME NEW w \in Workers, Due(w) PROVE QueueType'
  BY <1>5, DueShape DEF QueueType, frontVars
<1>6. ASSUME NEW w \in Workers, Executed(w) PROVE QueueType'
  <2>1. running[w] \in Tasks
    BY <1>6 DEF Executed, WorkerType
  <2> QED
    BY <1>1, <1>6, <2>1 DEF Executed, QueueType
<1>7. ASSUME NEW w \in Workers, WorkerNotify(w) PROVE QueueType'
  BY <1>7 DEF WorkerNotify, QueueType
<1>8. ASSUME NEW w \in Workers, ReceiveTimer(w) \/ Fire(w) PROVE QueueType'
  BY <1>8 DEF ReceiveTimer, Fire, QueueType, frontVars
<1>9. CASE Tick \/ UNCHANGED vars
  BY <1>9 DEF Tick, vars, QueueType, frontVars
<1> QED
  BY <1>2, <1>3, <1>4, <1>5, <1>6, <1>7, <1>8, <1>9 DEF Next, sched

LEMMA ExecuteType ==
    ASSUME WorkerType, NEW w \in Workers, NEW t \in Tasks, NEW b \in {"select", "due"},
           Execute(w, t, b), heap' \in [Workers -> SUBSET Tasks]
    PROVE  WorkerType'
<1>1. t # None
  BY NamesAssumption
<1> QED
  BY <1>1 DEF Execute, WorkerType

LEMMA NextWorkerType == Inv /\ [Next]_vars => WorkerType'
<1> SUFFICES ASSUME Types, DrainKnown, WorkerType, [Next]_vars PROVE WorkerType'
    BY DEF Inv, Types
<1>1. ASSUME UNCHANGED <<heap, runVars>> PROVE WorkerType'
  BY <1>1 DEF WorkerType, runVars
<1>2. ASSUME NEW w \in Workers, ReceiveTask(w) PROVE WorkerType'
  <2>1. Head(tasks) \in Tasks /\ heap[w] \subseteq Tasks
    BY <1>2, ReceiveTaskShape DEF WorkerType
  <2>2. CASE Execute(w, Head(tasks), "select") /\ UNCHANGED workVars
    BY <2>1, <2>2, ExecuteType DEF workVars, WorkerType
  <2>3. CASE heap' = [heap EXCEPT ![w] = @ \cup {Head(tasks)}] /\ UNCHANGED runVars
    BY <2>1, <2>3 DEF WorkerType, runVars
  <2> QED
    BY <1>2, <2>2, <2>3, ReceiveTaskShape
<1>3. ASSUME NEW w \in Workers, ReceiveTimer(w) PROVE WorkerType'
  BY <1>3 DEF ReceiveTimer, WorkerType
<1>4. ASSUME NEW w \in Workers, Due(w) PROVE WorkerType'
  <2>1. pc[w] = "due" /\ running[w] = None
    BY <1>4, DueShape
  <2>2. CASE pc' = [pc EXCEPT ![w] = "select"] /\ UNCHANGED <<heap, running, back>>
    BY <2>1, <2>2 DEF WorkerType
  <2>3. ASSUME NEW t \in Tasks, heap' = [heap EXCEPT ![w] = @ \ {t}], Execute(w, t, "due")
        PROVE  WorkerType'
    <3>1. heap' \in [Workers -> SUBSET Tasks]
      BY <2>3 DEF WorkerType
    <3> QED
      BY <2>3, <3>1, ExecuteType
  <2> QED
    BY <1>4, <2>2, <2>3, DueShape DEF workVars
<1>5. ASSUME NEW w \in Workers, Executed(w) PROVE WorkerType'
  <2>1. /\ running' = [running EXCEPT ![w] = None] /\ UNCHANGED <<heap, back>>
        /\ pc' = [pc EXCEPT ![w] = "notify"] \/ pc' = [pc EXCEPT ![w] = back[w]]
    BY <1>5 DEF Executed, workVars
  <2>2. back[w] \in {"select", "due"}
    BY DEF WorkerType
  <2>3. pc'[w] # "execute" /\ pc'[w] \in {"select", "due", "notify"} /\ running'[w] = None
        /\ \A v \in Workers : v # w => pc'[v] = pc[v] /\ running'[v] = running[v]
    BY <2>1, <2>2 DEF WorkerType
  <2>4. \A v \in Workers : pc'[v] = "execute" <=> running'[v] # None
    BY <2>3 DEF WorkerType
  <2> QED
    BY <2>1, <2>2, <2>4 DEF WorkerType
<1>6. ASSUME NEW w \in Workers, WorkerNotify(w) PROVE WorkerType'
  BY <1>6 DEF WorkerNotify, workVars, WorkerType
<1>7. ASSUME NEW w \in Workers, Fire(w) PROVE UNCHANGED <<heap, runVars>>
  BY <1>7 DEF Fire
<1>8. (\E t \in Tasks : ClientPut(t)) \/ ClientNotify \/ Take \/ Tick \/ UNCHANGED vars
        => UNCHANGED <<heap, runVars>>
  BY DEF ClientPut, ClientNotify, Take, Tick, vars, workVars
<1> QED
  BY <1>1, <1>2, <1>3, <1>4, <1>5, <1>6, <1>7, <1>8 DEF Next, sched

LEMMA NextTimeType == Inv /\ [Next]_vars => TimeType' /\ DrainKnown'
<1> SUFFICES ASSUME Types, DrainKnown, WorkerType, TimeType, [Next]_vars
             PROVE  TimeType' /\ DrainKnown'
    BY DEF Inv, Types
<1> USE SchedAssumption
<1>1. ASSUME NEW t \in Tasks, NEW d \in Nat, Append_(t, d), UNCHANGED workVars
      PROVE  TimeType' /\ DrainKnown'
  BY <1>1 DEF Append_, TimeType, DrainKnown, workVars
<1>2. ASSUME NEW t \in Tasks, ClientPut(t) PROVE TimeType' /\ DrainKnown'
  BY <1>1, <1>2 DEF ClientPut
<1>3. ASSUME NEW w \in Workers, ReceiveTask(w) PROVE TimeType' /\ DrainKnown'
  <2> DEFINE u == Soonest(heap[w] \cup {Head(tasks)})
  <2>1. UNCHANGED ts
    BY <1>3, ReceiveTaskShape
  <2>2. CASE UNCHANGED workVars
    BY <2>1, <2>2 DEF TimeType, DrainKnown, workVars
  <2>3. CASE u \in Tasks /\ Reset(w, ts[u])
    <3>1. ts[u] \in Int
      BY <2>3 DEF TimeType
    <3> HIDE DEF u
    <3>2. DrainKnown' /\ timer' \in [Workers -> {"armed", "fired", "off"}]
          /\ at' \in [Workers -> Int] /\ \A v \in Workers : at'[v] >= -MaxLate
      BY <2>3, <3>1, ResetTypes
    <3> QED
      BY <2>1, <3>2 DEF TimeType
  <2> QED
    BY <1>3, <2>2, <2>3, ReceiveTaskShape
<1>4. ASSUME NEW w \in Workers, ReceiveTimer(w) PROVE TimeType' /\ DrainKnown'
  BY <1>4 DEF ReceiveTimer, TimeType, DrainKnown
<1>5. ASSUME NEW w \in Workers, Due(w) PROVE TimeType' /\ DrainKnown'
  <2>1. UNCHANGED ts
    BY <1>5, DueShape
  <2>2. CASE UNCHANGED <<timer, at, drained>>
    BY <2>1, <2>2 DEF TimeType, DrainKnown
  <2>3. ASSUME NEW t \in Tasks, Reset(w, ts[t] - at[w]) PROVE TimeType' /\ DrainKnown'
    <3>1. ts[t] - at[w] \in Int
      BY DEF TimeType
    <3>2. DrainKnown' /\ timer' \in [Workers -> {"armed", "fired", "off"}]
          /\ at' \in [Workers -> Int] /\ \A v \in Workers : at'[v] >= -MaxLate
      BY <2>3, <3>1, ResetTypes
    <3> QED
      BY <2>1, <3>2 DEF TimeType
  <2> QED
    BY <1>5, <2>2, <2>3, DueShape DEF workVars
<1>6. ASSUME NEW w \in Workers, Executed(w) PROVE TimeType' /\ DrainKnown'
  <2>1. running[w] \in Tasks /\ UNCHANGED workVars
    BY <1>6 DEF Executed, WorkerType
  <2>2. CASE \E d \in Delays : Append_(running[w], d)
    BY <1>1, <2>1, <2>2
  <2>3. CASE ts' = [ts EXCEPT ![running[w]] = 0]
    BY <2>1, <2>3 DEF TimeType, DrainKnown, workVars
  <2> QED
    BY <1>6, <2>2, <2>3 DEF Executed
<1>7. ASSUME NEW w \in Workers, Fire(w) PROVE TimeType' /\ DrainKnown'
  BY <1>7 DEF Fire, TimeType, DrainKnown
<1>8. CASE Tick
  <2>1. ts' \in [Tasks -> Int] /\ \A t \in Tasks : ts'[t] >= -MaxLate - 1
    BY <1>8 DEF Tick, TimeType
  <2>2. at' \in [Workers -> Int]
    BY <1>8 DEF Tick, TimeType
  <2>3. ASSUME NEW w \in Workers PROVE at'[w] >= -MaxLate
    <3>1. at'[w] = at[w] \/ (at'[w] = at[w] - 1 /\ (at[w] > -MaxLate \/ at[w] > 0))
      BY <1>8 DEF Tick
    <3>2. at[w] \in Int /\ at[w] >= -MaxLate
      BY DEF TimeType
    <3> QED
      BY <3>1, <3>2
  <2>4. UNCHANGED <<timer, drained>>
    BY <1>8 DEF Tick
  <2> QED
    BY <2>1, <2>2, <2>3, <2>4 DEF TimeType, DrainKnown
<1>9. ClientNotify \/ Take \/ (\E w \in Workers : WorkerNotify(w)) \/ UNCHANGED vars
        => UNCHANGED <<ts, workVars>>
  BY DEF ClientNotify, Take, WorkerNotify, vars
<1>10. UNCHANGED <<ts, workVars>> => TimeType' /\ DrainKnown'
  BY DEF TimeType, DrainKnown, workVars
<1> QED
  BY <1>2, <1>3, <1>4, <1>5, <1>6, <1>7, <1>8, <1>9, <1>10 DEF Next, sched

\* A worker takes a task that nobody else has and runs it.
LEMMA TakesUp ==
    ASSUME WorkerType, Places, NEW w \in Workers, NEW t \in Tasks, NEW b, running[w] = None,
           Execute(w, t, b), UNCHANGED prependTasks,
           heap' \in [Workers -> SUBSET Tasks], \A v \in Workers : heap'[v] \subseteq heap[v],
           Items(tasks') \subseteq Items(tasks), Injective(tasks'),
           t \notin Items(prependTasks) \cup Items(tasks'),
           \A v \in Workers : t \notin heap'[v] /\ running[v] # t
    PROVE  Places'
<1>1. /\ running'[w] = t /\ t # None
      /\ \A v \in Workers : v # w => running'[v] = running[v]
  BY NamesAssumption DEF Execute, WorkerType
<1>2. Once'
  BY <1>1 DEF Places, Once
<1>3. Apart'
  BY <1>1 DEF Places, Apart
<1> QED
  BY <1>2, <1>3 DEF Places

LEMMA NextPlaces == Inv /\ [Next]_vars => Places'
<1> SUFFICES ASSUME Types, DrainKnown, QueueType, WorkerType, Places, [Next]_vars PROVE Places'
    BY DEF Inv, Types
<1>1. ASSUME UNCHANGED <<prependTasks, tasks, heap, running>> PROVE Places'
  BY <1>1 DEF Places, Once, Apart
<1>2. ASSUME NEW t \in Tasks, ClientPut(t) PROVE Places'
  <2>1. /\ prependTasks' = Append(prependTasks, t) /\ Copies(t) = 0
        /\ UNCHANGED <<tasks, heap, running>>
    BY <1>2 DEF ClientPut, Append_, workVars, runVars
  <2>2. /\ t \notin Items(prependTasks) \cup Items(tasks)
        /\ \A w \in Workers : t \notin heap[w] /\ running[w] # t
    BY <2>1, NoCopy
  <2>3. Items(prependTasks') = Items(prependTasks) \cup {t} /\ Injective(prependTasks')
    BY <2>1, <2>2, AppendItems DEF QueueType, Places, Once
  <2>4. Once'
    BY <2>1, <2>3 DEF Places, Once
  <2>5. Apart'
    BY <2>1, <2>2, <2>3 DEF Places, Apart
  <2> QED
    BY <2>4, <2>5 DEF Places
<1>3. CASE Take
  <2>1. tasks = <<>> /\ tasks' = prependTasks /\ prependTasks' = <<>> /\ UNCHANGED <<heap, running>>
    BY <1>3 DEF Take, workVars, runVars
  <2>2. Items(prependTasks') = {} /\ Injective(prependTasks') /\ Items(tasks') = Items(prependTasks)
        /\ Injective(tasks')
    BY <2>1, NoItems DEF Places, Once
  <2>3. Once'
    BY <2>1, <2>2 DEF Places, Once
  <2>4. Apart'
    BY <2>1, <2>2 DEF Places, Apart
  <2> QED
    BY <2>3, <2>4 DEF Places
<1>4. ASSUME NEW w \in Workers, ReceiveTask(w) PROVE Places'
  <2> DEFINE t == Head(tasks)
  <2>1. /\ tasks # <<>> /\ tasks' = Tail(tasks) /\ running[w] = None /\ t \in Tasks
        /\ UNCHANGED prependTasks
    BY <1>4, ReceiveTaskShape
  <2>2. /\ t \in Items(tasks) /\ Items(tasks') \subseteq Items(tasks)
        /\ Injective(tasks') /\ t \notin Items(tasks')
    BY <2>1, TailItems DEF QueueType, Places, Once
  <2> HIDE DEF t
  <2>3. /\ t \notin Items(prependTasks)
        /\ \A v \in Workers : t \notin heap[v] /\ running[v] # t
    BY <2>2 DEF Places, Apart
  <2>4. CASE Execute(w, t, "select") /\ UNCHANGED workVars
    <3>1. UNCHANGED heap
      BY <2>4 DEF workVars
    <3> QED
      BY <2>1, <2>2, <2>3, <2>4, <3>1, TakesUp DEF WorkerType
  <2>5. CASE heap' = [heap EXCEPT ![w] = @ \cup {t}] /\ UNCHANGED runVars
    <3>1. /\ heap'[w] = heap[w] \cup {t} /\ \A v \in Workers : v # w => heap'[v] = heap[v]
          /\ UNCHANGED running
      BY <2>5 DEF WorkerType, runVars
    <3>2. Once'
      BY <2>1, <2>2, <2>3, <3>1 DEF Places, Once
    <3>3. Apart'
      BY <2>1, <2>2, <2>3, <3>1 DEF Places, Apart
    <3> QED
      BY <3>2, <3>3 DEF Places
  <2> QED
    BY <1>4, <2>4, <2>5, ReceiveTaskShape DEF t
<1>5. ASSUME NEW w \in Workers, Due(w) PROVE Places'
  <2>1. running[w] = None /\ UNCHANGED <<prependTasks, tasks>>
    BY <1>5, DueShape DEF frontVars
  <2>2. CASE UNCHANGED <<heap, running>>
    BY <1>1, <2>1, <2>2
  <2>3. ASSUME NEW t \in Tasks, t \in heap[w], heap' = [heap EXCEPT ![w] = @ \ {t}],
               Execute(w, t, "due")
        PROVE  Places'
    <3>1. /\ heap' \in [Workers -> SUBSET Tasks] /\ heap'[w] = heap[w] \ {t}
          /\ \A v \in Workers : v # w => heap'[v] = heap[v]
      BY <2>3 DEF WorkerType
    <3>2. t \notin Items(prependTasks) \cup Items(tasks) /\ \A v \in Workers : running[v] # t
      BY <2>3 DEF Places, Apart
    <3>3. \A v \in Workers : t \notin heap'[v] /\ heap'[v] \subseteq heap[v]
      BY <2>3, <3>1 DEF Places, Once
    <3>4. Items(tasks') = Items(tasks) /\ Injective(tasks')
      BY <2>1 DEF Places, Once
    <3> QED
      BY <2>1, <2>3, <3>1, <3>2, <3>3, <3>4, TakesUp
  <2> QED
    BY <1>5, <2>2, <2>3, DueShape DEF workVars
<1>6. ASSUME NEW w \in Workers, Executed(w) PROVE Places'
  <2> DEFINE t == running[w]
  <2>1. t \in Tasks /\ t # None
    BY <1>6 DEF Executed, WorkerType
  <2>2. UNCHANGED <<tasks, heap>> /\ running' = [running EXCEPT ![w] = None]
        /\ (prependTasks' = Append(prependTasks, t) \/ UNCHANGED prependTasks)
    BY <1>6 DEF Executed, Append_, workVars
  <2>3. /\ t \notin Items(prependTasks) \cup Items(tasks)
        /\ \A v \in Workers : t \notin heap[v] /\ (v # w => running[v] # t)
    BY <2>1 DEF Places, Apart, Once
  <2>4. running'[w] = None /\ \A v \in Workers : v # w => running'[v] = running[v]
    BY <2>2 DEF WorkerType
  <2> HIDE DEF t
  <2>5. Injective(prependTasks') /\ Items(prependTasks') \subseteq Items(prependTasks) \cup {t}
        /\ Items(prependTasks') \subseteq Tasks
    <3>1. Items(prependTasks) \subseteq Tasks /\ Injective(prependTasks)
      BY DEF QueueType, Items, Places, Once
    <3>2. CASE UNCHANGED prependTasks
      BY <3>1, <3>2
    <3>3. CASE prependTasks' = Append(prependTasks, t)
      BY <2>1, <2>3, <3>1, <3>3, AppendItems DEF QueueType
    <3> QED
      BY <2>2, <3>2, <3>3
  <2>6. Items(tasks) \subseteq Tasks /\ \A v \in Workers : heap[v] \subseteq Tasks
    BY DEF QueueType, Items, WorkerType
  <2>7. Once'
    BY <2>2, <2>4, <2>5 DEF Places, Once
  <2>8. Apart'
    BY <2>2, <2>3, <2>4, <2>5, <2>6, NamesAssumption DEF Places, Apart
  <2> QED
    BY <2>7, <2>8 DEF Places
<1>7. ClientNotify \/ Tick \/ UNCHANGED vars
      \/ (\E w \in Workers : ReceiveTimer(w) \/ WorkerNotify(w) \/ Fire(w))
        => UNCHANGED <<prependTasks, tasks, heap, running>>
  BY DEF ClientNotify, Tick, vars, ReceiveTimer, WorkerNotify, Fire, frontVars, workVars, runVars
<1> QED
  BY <1>1, <1>2, <1>3, <1>4, <1>5, <1>6, <1>7 DEF Next, sched

-----------------------------------------------------------------------------
(* The timer covers the heap *)

\* What Covered says of one worker whose heap is not empty.
CoveredAt(w) ==
    \/ timer[w] = "fired"
    \/ /\ timer[w] = "armed"
       /\ at[w] <= MaxLate \/ at[w] <= ts[Soonest(heap[w])] + MaxLate

\* The clock takes the same from the timer as from the first deadline, at most.
LEMMA StaysCovered ==
    ASSUME TimeType, TimeType', NEW w \in Workers, NEW d \in {0, 1},
           heap[w] \subseteq Tasks, heap[w] # {}, CoveredAt(w),
           heap'[w] = heap[w], timer'[w] = timer[w],
           \A u \in heap[w] : ts'[u] >= ts[u] - d,
           at'[w] <= MaxLate \/ at'[w] = at[w] - d
    PROVE  CoveredAt(w)'
<1> DEFINE s == Soonest(heap[w])
           z == CHOOSE t \in heap'[w] : \A u \in heap'[w] : ts'[t] <= ts'[u]
<1>1. s \in heap[w] /\ \A u \in heap[w] : ts[s] <= ts[u]
  BY SoonestIs
<1>2. z \in heap'[w]
  BY FirstIs, Zenon DEF TimeType
<1>3. Soonest(heap[w])' = z
  BY DEF Soonest
<1> HIDE DEF s, z
<1>4. ts[s] \in Int /\ ts[z] \in Int /\ ts'[z] \in Int /\ at[w] \in Int /\ at'[w] \in Int
      /\ MaxLate \in Nat
  BY <1>1, <1>2, SchedAssumption DEF TimeType
<1>5. ts'[z] >= ts[s] - d
  <2>1. ts'[z] >= ts[z] - d /\ ts[s] <= ts[z]
    BY <1>1, <1>2
  <2> QED
    BY <1>4, <2>1
<1>6. CASE timer[w] = "fired"
  BY <1>6 DEF CoveredAt
<1>7. CASE timer[w] = "armed"
  <2>1. at[w] <= MaxLate \/ at[w] <= ts[s] + MaxLate
    BY <1>7 DEF CoveredAt, s
  <2>2. at'[w] <= MaxLate \/ at'[w] <= ts'[z] + MaxLate
    BY <1>4, <1>5, <2>1
  <2> QED
    BY <1>3, <1>7, <2>2 DEF CoveredAt
<1> QED
  BY <1>6, <1>7 DEF CoveredAt

LEMMA NextCovered == Inv /\ [Next]_vars => Covered'
<1> SUFFICES ASSUME Inv, Types, DrainKnown, WorkerType, TimeType, TimeType', Apart, [Next]_vars,
                    NEW v \in Workers, Waits(v)', heap'[v] # {}
             PROVE  CoveredAt(v)'
    BY NextTimeType DEF Inv, Types, Places, Covered, CoveredAt
<1>a. heap[v] \subseteq Tasks
  BY DEF WorkerType
<1>b. Waits(v) /\ heap[v] # {} => CoveredAt(v)
  BY DEF Inv, Covered, CoveredAt
\* A step that leaves worker v and the deadlines in its heap alone.
<1>1. ASSUME UNCHANGED <<heap[v], timer[v], at[v]>>, Waits(v),
             \A u \in heap[v] : ts'[u] = ts[u]
      PROVE  CoveredAt(v)'
  <2>1. \A u \in heap[v] : ts'[u] >= ts[u] - 0
    BY <1>a, <1>1 DEF TimeType
  <2>2. at'[v] = at[v] - 0
    BY <1>1 DEF TimeType
  <2> QED
    BY <1>a, <1>b, <1>1, <2>1, <2>2, StaysCovered
<1>2. ASSUME NEW t \in Tasks, ClientPut(t) PROVE CoveredAt(v)'
  <2>1. Copies(t) = 0 /\ ts' = [ts EXCEPT ![t] = 0] /\ UNCHANGED <<heap, timer, at, pc, back>>
    BY <1>2 DEF ClientPut, Append_, workVars, runVars
  <2>2. t \notin heap[v]
    BY <2>1, NoCopy
  <2> QED
    BY <1>a, <1>1, <2>1, <2>2 DEF Waits, TimeType
<1>3. ASSUME UNCHANGED <<ts, workVars>>, Waits(v) PROVE CoveredAt(v)'
  BY <1>1, <1>3 DEF workVars
<1>4. ASSUME NEW w \in Workers, ReceiveTask(w) PROVE CoveredAt(v)'
  <2> DEFINE h == heap[w] \cup {Head(tasks)}
  <2>1. pc[w] = "select" /\ UNCHANGED ts /\ Head(tasks) \in Tasks
    BY <1>4, ReceiveTaskShape
  <2>2. CASE Execute(w, Head(tasks), "select") /\ UNCHANGED workVars
    <3>1. Waits(v)
      BY <2>1, <2>2 DEF Execute, Waits, WorkerType
    <3> QED
      BY <1>3, <2>1, <2>2, <3>1
  <2>3. CASE /\ heap' = [heap EXCEPT ![w] = @ \cup {Head(tasks)}] /\ UNCHANGED runVars
             /\ Soonest(h) \in Tasks /\ Reset(w, ts[Soonest(h)])
    <3>1. ts[Soonest(h)] \in Int
      BY <2>3 DEF TimeType
    <3>2. /\ timer'[w] = "armed" /\ at'[w] = IF ts[Soonest(h)] < 0 THEN 0 ELSE ts[Soonest(h)]
          /\ \A x \in Workers : x # w => timer'[x] = timer[x] /\ at'[x] = at[x]
      BY <2>3, <3>1, ResetTypes
    <3>3. heap'[w] = h /\ \A x \in Workers : x # w => heap'[x] = heap[x]
      BY <2>3 DEF WorkerType
    <3>4. CASE v = w
      <4>1. Soonest(heap[w])' = Soonest(h)
        BY <2>1, <3>3 DEF Soonest
      <4> HIDE DEF h
      <4>2. at'[w] <= MaxLate \/ at'[w] <= ts[Soonest(h)] + MaxLate
        BY <3>1, <3>2, SchedAssumption
      <4> QED
        BY <2>1, <3>2, <3>4, <4>1, <4>2 DEF CoveredAt
    <3>5. CASE v # w
      BY <1>1, <2>1, <2>3, <3>2, <3>3, <3>5 DEF Waits, runVars
    <3> QED
      BY <3>4, <3>5
  <2> QED
    BY <1>4, <2>2, <2>3, ReceiveTaskShape
<1>5. ASSUME NEW w \in Workers, ReceiveTimer(w) PROVE CoveredAt(v)'
  <2>1. v # w
    BY <1>5 DEF ReceiveTimer, Waits, WorkerType
  <2> QED
    BY <1>1, <1>5, <2>1 DEF ReceiveTimer, Waits, WorkerType, TimeType
<1>6. ASSUME NEW w \in Workers, Due(w) PROVE CoveredAt(v)'
  <2>1. pc[w] = "due" /\ UNCHANGED ts
    BY <1>6, DueShape
  <2>2. CASE heap[w] = {} /\ pc' = [pc EXCEPT ![w] = "select"] /\ UNCHANGED <<workVars, running, back>>
    <3>1. v # w
      BY <2>2 DEF workVars
    <3> QED
      BY <1>1, <2>1, <2>2, <3>1 DEF workVars, Waits, WorkerType
  <2>3. ASSUME NEW t \in Tasks, heap' = [heap EXCEPT ![w] = @ \ {t}], Execute(w, t, "due"),
               UNCHANGED <<timer, at, drained>>
        PROVE  CoveredAt(v)'
    <3>1. v # w
      BY <2>3 DEF Execute, Waits, WorkerType
    <3> QED
      BY <1>1, <2>1, <2>3, <3>1 DEF Execute, Waits, WorkerType
  <2>4. ASSUME NEW t \in Tasks, t = Soonest(heap[w]), at[w] <= ts[t], Reset(w, ts[t] - at[w]),
               pc' = [pc EXCEPT ![w] = "select"], UNCHANGED <<heap, running, back>>
        PROVE  CoveredAt(v)'
    <3>1. ts[t] \in Int /\ at[w] \in Int /\ at[w] >= -MaxLate /\ MaxLate \in Nat
      BY SchedAssumption DEF TimeType
    <3>2. /\ timer'[w] = "armed"
          /\ at'[w] = IF ts[t] - at[w] < 0 THEN 0 ELSE ts[t] - at[w]
          /\ \A x \in Workers : x # w => timer'[x] = timer[x] /\ at'[x] = at[x]
      BY <2>4, <3>1, ResetTypes
    <3>3. CASE v = w
      <4>1. Soonest(heap[w])' = t
        BY <2>1, <2>4 DEF Soonest
      <4>2. at'[w] <= ts[t] + MaxLate
        BY <2>4, <3>1, <3>2
      <4> QED
        BY <2>1, <3>2, <3>3, <4>1, <4>2 DEF CoveredAt
    <3>4. CASE v # w
      BY <1>1, <2>1, <2>4, <3>2, <3>4 DEF Waits, WorkerType
    <3> QED
      BY <3>3, <3>4
  <2> QED
    BY <1>6, <2>2, <2>3, <2>4, DueShape
<1>7. ASSUME NEW w \in Workers, Executed(w) PROVE CoveredAt(v)'
  <2>1. /\ UNCHANGED <<heap, timer, at, back>> /\ running[w] \in Tasks
        /\ \A u \in Tasks : u # running[w] => ts'[u] = ts[u]
    BY <1>7 DEF Executed, Append_, workVars, WorkerType, TimeType
  <2>2. running[w] \notin heap[v]
    BY DEF Apart
  <2>3. Waits(v)
    BY <1>7 DEF Executed, Waits, WorkerType
  <2> QED
    BY <1>a, <1>1, <2>1, <2>2, <2>3
<1>8. ASSUME NEW w \in Workers, WorkerNotify(w) PROVE CoveredAt(v)'
  <2>1. Waits(v) /\ UNCHANGED <<ts, workVars>>
    BY <1>8 DEF WorkerNotify, Waits, WorkerType
  <2> QED
    BY <1>3, <2>1
<1>9. ASSUME NEW w \in Workers, Fire(w) PROVE CoveredAt(v)'
  <2>1. UNCHANGED <<ts, heap, pc, back>> /\ timer' = [timer EXCEPT ![w] = "fired"]
        /\ at' = [at EXCEPT ![w] = 0]
    BY <1>9 DEF Fire, runVars
  <2>2. CASE v = w
    BY <2>1, <2>2 DEF CoveredAt, TimeType
  <2>3. CASE v # w
    BY <1>1, <2>1, <2>3 DEF Waits, TimeType
  <2> QED
    BY <2>2, <2>3
<1>10. CASE Tick
  <2>1. UNCHANGED <<heap, timer, pc, back>>
    BY <1>10 DEF Tick, runVars
  <2>2. \A u \in heap[v] : ts'[u] >= ts[u] - 1
    <3> SUFFICES ASSUME NEW u \in heap[v] PROVE ts'[u] >= ts[u] - 1
        OBVIOUS
    <3>1. u \in Tasks /\ ts[u] \in Int /\ (ts'[u] = ts[u] - 1 \/ ts'[u] = ts[u])
      BY <1>a, <1>10 DEF Tick, TimeType
    <3> QED
      BY <3>1
  <2>3. CoveredAt(v)
    BY <1>b, <2>1 DEF Waits
  <2>4. CASE timer[v] = "fired"
    BY <2>1, <2>4 DEF CoveredAt
  <2>5. CASE timer[v] = "armed"
    <3>1. at'[v] = at[v] - 1 \/ (at'[v] = at[v] /\ ~(at[v] > 0))
      BY <1>10, <2>5 DEF Tick
    <3>2. at'[v] <= MaxLate \/ at'[v] = at[v] - 1
      BY <3>1, SchedAssumption DEF TimeType
    <3> QED
      BY <1>a, <2>1, <2>2, <2>3, <3>2, StaysCovered
  <2> QED
    BY <2>3, <2>4, <2>5 DEF CoveredAt
<1>11. ASSUME ClientNotify \/ Take \/ UNCHANGED vars PROVE CoveredAt(v)'
  <2>1. Waits(v) /\ UNCHANGED <<ts, workVars>>
    BY <1>11 DEF ClientNotify, Take, vars, Waits, runVars
  <2> QED
    BY <1>3, <2>1
<1> QED
  BY <1>2, <1>4, <1>5, <1>6, <1>7, <1>8, <1>9, <1>10, <1>11 DEF Next, sched

-----------------------------------------------------------------------------
(* Theorems *)

LEMMA Initially == NewTimedSched => Inv
<1> SUFFICES ASSUME NewTimedSched PROVE Inv
    OBVIOUS
<1> USE DEF NewTimedSched
<1>1. Types
  BY SchedAssumption, NamesAssumption DEF Types, QueueType, WorkerType, TimeType
<1>2. DrainKnown /\ Covered
  BY DEF DrainKnown, Covered
<1>3. Places
  BY NoItems, NamesAssumption DEF Places, Once, Apart
<1> QED
  BY <1>1, <1>2, <1>3 DEF Inv

LEMMA Consecution == Inv /\ [Next]_vars => Inv'
  BY NextQueueType, NextWorkerType, NextTimeType, NextPlaces, NextCovered DEF Inv, Types

LEMMA Invariance == Spec => []Inv
<1> QED
  BY Initially, Consecution, PTL DEF Spec

\* Every variable has its type; no worker is ever at the drain.
THEOREM TypeCorrect == Spec => []TypeOK
<1>1. Inv => TypeOK
  <2> SUFFICES ASSUME QueueType, WorkerType, TimeType, DrainKnown PROVE TypeOK
      BY DEF Inv, Types
  <2>1. Items(prependTasks) \cup Items(tasks) \subseteq Tasks
    BY DEF QueueType, Items
  <2> QED
    BY <2>1 DEF QueueType, WorkerType, TimeType, DrainKnown, TypeOK
<1> QED
  BY <1>1, Invariance, PTL

\* A task is in one place at a time.
THEOREM TasksOnce == Spec => []EachTaskOnce
<1>1. Inv => EachTaskOnce
  BY OneCopy DEF Inv
<1> QED
  BY <1>1, Invariance, PTL

\* A worker that waits has its timer running for the first of its tasks, and never
\* blocks on a value its timer will not send.
THEOREM TimersCover == Spec => []TimerCoversHeap
<1>1. Inv => TimerCoversHeap
  BY DEF Inv, Types, WorkerType, Covered, Waits, TimerCoversHeap
<1> QED
  BY <1>1, Invariance, PTL
=============================================================================
