------------------------------ MODULE TimedSched ------------------------------
(***************************************************************************)
(* The timed scheduler of timedsched.go, which runs the update of every      *)
(* session: clients Put tasks, one goroutine (prepend) hands them to the     *)
(* workers (sched), each with a heap and a timer of its own.  A task that    *)
(* runs puts itself back, until its session is closed.                       *)
(*                                                                         *)
(* Instants are kept relative to the clock: Tick makes every one of them     *)
(* smaller.  Timers are those of Go 1.23, which go.mod     *)
(* names: Stop returns true as long as the value has not been received.      *)
(* The scheduler of the package is never closed, so ts.die is left out.      *)
(***************************************************************************)
EXTENDS Integers, Sequences, FiniteSets

CONSTANTS
    Workers,
    Tasks,      \* at most one instance of each is pending
    Delays,     \* after how long a task that ran is to run again
    MaxLate     \* bound: how long after a timer fired what was due is done

None == "none"

ASSUME SchedAssumption == Delays \subseteq Nat /\ MaxLate \in Nat \ {0}
ASSUME NamesAssumption == IsFiniteSet(Workers) /\ None \notin Tasks

VARIABLES
    ts,             \* task -> its deadline
    prependTasks,   \* tasks put
    notify,         \* chPrependNotify, of capacity 1
    tasks,          \* those prepend has taken and not yet handed on
    heap,           \* worker -> its tasks
    timer,          \* worker -> its timer is "armed", "fired" or "off"
    at,             \* worker -> when it fires or fired, or was last received
    drained,        \* worker -> drained
    pc,             \* worker -> where it is
    running,        \* worker -> the task it executes
    back,           \* worker -> where it goes on after that
    client          \* where a client is in Put

frontVars == <<prependTasks, notify, tasks>>
workVars == <<heap, timer, at, drained>>
runVars == <<pc, running, back>>
vars == <<ts, frontVars, workVars, runVars, client>>

Items(s) == {s[i] : i \in DOMAIN s}

NewTimedSched ==
    /\ ts = [t \in Tasks |-> 0]
    /\ prependTasks = <<>> /\ notify = 0 /\ tasks = <<>>
    /\ heap = [w \in Workers |-> {}]
    /\ timer = [w \in Workers |-> "armed"] /\ at = [w \in Workers |-> 0]
    /\ drained = [w \in Workers |-> FALSE]
    /\ pc = [w \in Workers |-> "select"]
    /\ running = [w \in Workers |-> None] /\ back = [w \in Workers |-> "select"]
    /\ client = "idle"

\* Where a task is, however often.
Copies(t) ==
    Cardinality({i \in DOMAIN prependTasks : prependTasks[i] = t})
    + Cardinality({i \in DOMAIN tasks : tasks[i] = t})
    + Cardinality({w \in Workers : t \in heap[w]})
    + Cardinality({w \in Workers : running[w] = t})

-----------------------------------------------------------------------------
(* Put: append under the lock, then a token that is dropped when one is there. *)

Append_(t, deadline) ==
    /\ prependTasks' = Append(prependTasks, t)
    /\ ts' = [ts EXCEPT ![t] = deadline]

ClientPut(t) ==
    /\ client = "idle" /\ Copies(t) = 0
    /\ Append_(t, 0)
    /\ client' = "notify"
    /\ UNCHANGED <<notify, tasks, workVars, runVars>>

ClientNotify ==
    /\ client = "notify"
    /\ notify' = 1
    /\ client' = "idle"
    /\ UNCHANGED <<ts, prependTasks, tasks, workVars, runVars>>

-----------------------------------------------------------------------------
(* prepend *)

\* Mutant: the batch is taken and the list not emptied.
Take_Keep ==
    /\ tasks = <<>> /\ notify = 1
    /\ notify' = 0
    /\ tasks' = prependTasks
    /\ UNCHANGED <<prependTasks, ts, workVars, runVars, client>>

Take ==
    /\ tasks = <<>> /\ notify = 1
    /\ notify' = 0
    /\ tasks' = prependTasks
    /\ prependTasks' = <<>>
    /\ UNCHANGED <<ts, workVars, runVars, client>>

-----------------------------------------------------------------------------
(* sched *)

Soonest(tt) == CHOOSE t \in tt : \A u \in tt : ts[t] <= ts[u]

Reset(w, d) ==
    /\ timer' = [timer EXCEPT ![w] = "armed"]
    /\ at' = [at EXCEPT ![w] = IF d < 0 THEN 0 ELSE d]
    /\ drained' = [drained EXCEPT ![w] = FALSE]

Execute(w, t, next) ==
    /\ running' = [running EXCEPT ![w] = t]
    /\ pc' = [pc EXCEPT ![w] = "execute"]
    /\ back' = [back EXCEPT ![w] = next]

\* Mutant: the timer is set for the task that came, not for the first one.
Push_ForNew(w, t) ==
    /\ heap' = [heap EXCEPT ![w] = @ \cup {t}]
    /\ Reset(w, ts[t])
    /\ UNCHANGED pc

\* A task for the heap: the timer is stopped, or its value received, which
\* must be there then, and set anew.
Push(w, t) ==
    /\ heap' = [heap EXCEPT ![w] = @ \cup {t}]
    /\ IF timer[w] = "off" /\ ~drained[w]
       THEN pc' = [pc EXCEPT ![w] = "drain"] /\ UNCHANGED <<timer, at, drained>>
       ELSE Reset(w, ts[Soonest(heap[w] \cup {t})]) /\ UNCHANGED pc

\* case task := <-ts.chTask, an unbuffered channel.
ReceiveTask(w) ==
    /\ pc[w] = "select" /\ tasks # <<>>
    /\ LET t == Head(tasks)
       IN  IF ts[t] < 0
           THEN Execute(w, t, "select") /\ UNCHANGED workVars
           ELSE Push(w, t) /\ UNCHANGED <<running, back>>
    /\ tasks' = Tail(tasks)
    /\ UNCHANGED <<ts, prependTasks, notify, client>>

\* case now := <-timer.C
ReceiveTimer(w) ==
    /\ pc[w] = "select" /\ timer[w] = "fired"
    /\ timer' = [timer EXCEPT ![w] = "off"]
    /\ drained' = [drained EXCEPT ![w] = TRUE]
    /\ pc' = [pc EXCEPT ![w] = "due"]
    /\ UNCHANGED <<ts, frontVars, heap, at, running, back, client>>

\* Mutant: the timer is not set for the next task.
Due_NoReset(w) ==
    /\ pc[w] = "due"
    /\ IF heap[w] = {} \/ at[w] <= ts[Soonest(heap[w])]
       THEN pc' = [pc EXCEPT ![w] = "select"] /\ UNCHANGED <<workVars, running, back>>
       ELSE LET t == Soonest(heap[w])
            IN  /\ heap' = [heap EXCEPT ![w] = @ \ {t}]
                /\ Execute(w, t, "due")
                /\ UNCHANGED <<timer, at, drained>>
    /\ UNCHANGED <<ts, frontVars, client>>

\* What is due is executed, then the timer set for the next; now is the instant
\* that came through the channel.
Due(w) ==
    /\ pc[w] = "due"
    /\ IF heap[w] = {}
       THEN pc' = [pc EXCEPT ![w] = "select"] /\ UNCHANGED <<workVars, running, back>>
       ELSE LET t == Soonest(heap[w])
            IN  IF at[w] > ts[t]
                THEN /\ heap' = [heap EXCEPT ![w] = @ \ {t}]
                     /\ Execute(w, t, "due")
                     /\ UNCHANGED <<timer, at, drained>>
                ELSE /\ Reset(w, ts[t] - at[w])
                     /\ pc' = [pc EXCEPT ![w] = "select"]
                     /\ UNCHANGED <<heap, running, back>>
    /\ UNCHANGED <<ts, frontVars, client>>

\* The task is done; that of an open session puts itself back.
Executed(w) ==
    /\ pc[w] = "execute"
    /\ running' = [running EXCEPT ![w] = None]
    /\ \/ /\ \E d \in Delays : Append_(running[w], d)
          /\ pc' = [pc EXCEPT ![w] = "notify"]
       \/ /\ pc' = [pc EXCEPT ![w] = back[w]]
          /\ ts' = [ts EXCEPT ![running[w]] = 0]
          /\ UNCHANGED prependTasks
    /\ UNCHANGED <<notify, tasks, workVars, back, client>>

WorkerNotify(w) ==
    /\ pc[w] = "notify"
    /\ notify' = 1
    /\ pc' = [pc EXCEPT ![w] = back[w]]
    /\ UNCHANGED <<ts, prependTasks, tasks, workVars, running, back, client>>

-----------------------------------------------------------------------------
(* The runtime: timers and the clock. *)

Fire(w) ==
    /\ timer[w] = "armed" /\ at[w] <= 0
    /\ timer' = [timer EXCEPT ![w] = "fired"]
    /\ at' = [at EXCEPT ![w] = 0]
    /\ UNCHANGED <<ts, frontVars, heap, drained, runVars, client>>

\* The instant worker w will compare deadlines with is on its way to it, or in use.
NowUsed(w) ==
    \/ timer[w] = "fired" \/ pc[w] = "due"
    \/ pc[w] \in {"execute", "notify"} /\ back[w] = "due"

\* Deadlines older than any such instant need not be told apart.
Tick ==
    /\ \A w \in Workers : NowUsed(w) => at[w] > -MaxLate
    /\ ts' = [t \in Tasks |-> IF Copies(t) > 0 /\ ts[t] >= -MaxLate THEN ts[t] - 1 ELSE ts[t]]
    /\ at' = [w \in Workers |-> IF NowUsed(w) \/ (timer[w] = "armed" /\ at[w] > 0)
                                THEN at[w] - 1 ELSE at[w]]
    /\ UNCHANGED <<frontVars, heap, timer, drained, runVars, client>>

-----------------------------------------------------------------------------
sched(w) ==
    ReceiveTask(w) \/ ReceiveTimer(w) \/ Due(w) \/ Executed(w) \/ WorkerNotify(w)

Next ==
    \/ \E t \in Tasks : ClientPut(t)
    \/ ClientNotify \/ Take
    \/ \E w \in Workers : sched(w) \/ Fire(w)
    \/ Tick

Spec == NewTimedSched /\ [][Next]_vars

\* Goroutines run, select picks a case that is ready again and again, timers
\* fire and the clock goes on.
FairSpec ==
    /\ Spec
    /\ WF_vars(ClientNotify) /\ WF_vars(Take) /\ WF_vars(Tick)
    /\ \A w \in Workers :
        /\ SF_vars(ReceiveTimer(w)) /\ WF_vars(Fire(w))
        /\ WF_vars(Due(w) \/ Executed(w) \/ WorkerNotify(w))
    /\ SF_vars(\E w \in Workers : ReceiveTask(w))

-----------------------------------------------------------------------------
(* Properties *)

\* Types, with the drain that may block: a worker never waits for a value its
\* timer will not send.
TypeOK ==
    /\ \A t \in Tasks : ts[t] >= -MaxLate - 1
    /\ Items(prependTasks) \cup Items(tasks) \subseteq Tasks
    /\ notify \in 0..1
    /\ heap \in [Workers -> SUBSET Tasks]
    /\ timer \in [Workers -> {"armed", "fired", "off"}]
    /\ \A w \in Workers : at[w] >= -MaxLate
    /\ drained \in [Workers -> BOOLEAN]
    /\ pc \in [Workers -> {"select", "due", "execute", "notify"}]
    /\ running \in [Workers -> Tasks \cup {None}]
    /\ \A w \in Workers : pc[w] = "execute" <=> running[w] # None
    /\ back \in [Workers -> {"select", "due"}]
    /\ client \in {"idle", "notify"}

\* A task is in one place at a time: it is never run twice for one Put.
EachTaskOnce == \A t \in Tasks : Copies(t) <= 1

\* Tasks put while prepend hands out others are not forgotten: a token is
\* there, or the one who put them is about to leave it.
PutIsNoticed ==
    prependTasks # <<>> =>
        notify = 1 \/ client = "notify" \/ \E w \in Workers : pc[w] = "notify"

\* A worker that waits is woken for the first of its tasks: its timer runs, and
\* is late by no more than the instant it was set from.  No worker waits for a
\* value that its timer will not send.
TimerCoversHeap ==
    \A w \in Workers :
        /\ pc[w] # "drain"
        /\ pc[w] = "select" /\ heap[w] # {} =>
            \/ timer[w] = "fired"
            \/ /\ timer[w] = "armed"
               /\ at[w] <= MaxLate \/ at[w] <= ts[Soonest(heap[w])] + MaxLate

\* Every task that is put is run.
TasksRun ==
    \A t \in Tasks : (Copies(t) > 0) ~> (\E w \in Workers : running[w] = t)
=============================================================================
