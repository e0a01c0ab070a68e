------------------------------ MODULE UdpSession ------------------------------
(***************************************************************************)
(* The goroutines around one session of sess.go: the application, which      *)
(* calls Write, SetReadDeadline, Read and Close in any order; the monitor,   *)
(* which reads the socket; a worker of the timed scheduler, which runs       *)
(* update; and postProcess, which sends what KCP put out.                    *)
(*                                                                         *)
(* The KCP state (module Kcp) is reduced to what the waiting is about:       *)
(* messages ready to be read, and whether WaitSnd() is below both windows;   *)
(* an Input changes them in any way it may.  A buffer always holds the whole *)
(* message and no write deadline is ever set, as in the programs, so bufptr  *)
(* and wd are left out.                                                      *)
(***************************************************************************)
EXTENDS Integers

CONSTANTS
    RcvWnd,     \* messages the receive queue holds
    PostCap,    \* capacity of chPostProcessing
    MaxOut      \* bound: packets one flush puts out

ASSUME SessionAssumption ==
    /\ RcvWnd \in Nat \ {0} /\ PostCap \in Nat \ {0}
    /\ MaxOut \in Nat

Threads == {"app", "monitor", "update"}
Free == "free"

VARIABLES
    pc,         \* thread -> where it is
    mu,         \* the thread that holds s.mu, or Free
    out,        \* packets the holder's flush has still to hand to output
    die, readError, writeError,     \* closed channels
    readEvent, writeEvent,          \* channels of capacity 1
    rd,         \* a read deadline has been set; a Read then has a timer
    ready,      \* messages Read could return
    window,     \* WaitSnd() is below snd_wnd and rmt_wnd
    chPostProcessing, chCork, txqueue,  \* lengths; of txqueue only whether 0
    post,       \* where postProcess is
    chDie       \* postProcess listens to die

kcpVars == <<ready, window>>
postVars == <<chCork, txqueue, post, chDie>>
lockVars == <<mu, out>>
eventVars == <<readEvent, writeEvent>>
endVars == <<die, readError, writeError>>
vars == <<pc, lockVars, endVars, eventVars, rd, kcpVars, chPostProcessing, postVars>>

newUDPSession ==
    /\ pc = [t \in Threads |-> IF t = "update" THEN "queued" ELSE "idle"]
    /\ mu = Free /\ out = 0
    /\ die = FALSE /\ readError = FALSE /\ writeError = FALSE
    /\ readEvent = 0 /\ writeEvent = 0
    /\ rd = FALSE
    /\ ready = 0 /\ window = TRUE
    /\ chPostProcessing = 0 /\ chCork = 0 /\ txqueue = FALSE
    /\ post = "select" /\ chDie = TRUE

Goto(t, l) == pc' = [pc EXCEPT ![t] = l]
At(t, l) == pc[t] = l

\* t takes s.mu and starts a flush; Output empties it, then t goes on.
LockAndFlush(t) == mu = Free /\ mu' = t /\ out' \in 0..MaxOut

Flushed(t) == mu = t /\ out = 0
Unlock == mu' = Free /\ UNCHANGED out

\* Mutant: output waits for room only.
Output_NoDie(t) ==
    /\ mu = t /\ out > 0
    /\ chPostProcessing < PostCap
    /\ chPostProcessing' = chPostProcessing + 1
    /\ out' = out - 1
    /\ UNCHANGED <<pc, mu, endVars, eventVars, rd, kcpVars, postVars>>

\* KCP's output callback: a packet to chPostProcessing, or none once closed.
Output(t) ==
    /\ mu = t /\ out > 0
    /\ \/ /\ chPostProcessing < PostCap
          /\ chPostProcessing' = chPostProcessing + 1
       \/ die /\ UNCHANGED chPostProcessing
    /\ out' = out - 1
    /\ UNCHANGED <<pc, mu, endVars, eventVars, rd, kcpVars, postVars>>

-----------------------------------------------------------------------------
(* Read *)

SetReadDeadline ==
    /\ At("app", "idle") /\ mu = Free
    /\ rd' = TRUE
    /\ readEvent' = 1
    /\ UNCHANGED <<pc, lockVars, endVars, writeEvent, kcpVars, chPostProcessing, postVars>>

Read ==
    /\ At("app", "idle")
    /\ Goto("app", "read")
    /\ UNCHANGED <<lockVars, endVars, eventVars, rd, kcpVars, chPostProcessing, postVars>>

ReadLocked ==
    /\ At("app", "read") /\ mu = Free
    /\ IF ready > 0 THEN ready' = ready - 1 /\ Goto("app", "idle")
       ELSE Goto("app", "readWait") /\ UNCHANGED ready
    /\ UNCHANGED <<lockVars, endVars, eventVars, rd, window,
                   chPostProcessing, postVars>>

ReadWake ==
    /\ At("app", "readWait") /\ readEvent = 1
    /\ readEvent' = 0
    /\ Goto("app", "read")
    /\ UNCHANGED <<lockVars, endVars, writeEvent, rd, kcpVars, chPostProcessing, postVars>>

ReadTimeout ==
    /\ At("app", "readWait") /\ rd
    /\ Goto("app", "idle")
    /\ UNCHANGED <<lockVars, endVars, eventVars, rd, kcpVars, chPostProcessing, postVars>>

ReadFail ==
    /\ At("app", "readWait") /\ (readError \/ die)
    /\ Goto("app", "idle")
    /\ UNCHANGED <<lockVars, endVars, eventVars, rd, kcpVars, chPostProcessing, postVars>>

-----------------------------------------------------------------------------
(* WriteBuffers *)

\* At the start of a call and after each wake-up.
CheckWrite == Goto("app", IF writeError \/ die THEN "idle" ELSE "write")

Write ==
    /\ At("app", "idle") /\ ~writeError /\ ~die
    /\ CheckWrite
    /\ UNCHANGED <<lockVars, endVars, eventVars, rd, kcpVars, chPostProcessing, postVars>>

WriteLocked ==
    /\ At("app", "write") /\ mu = Free
    /\ IF window
       THEN LockAndFlush("app") /\ window' \in BOOLEAN /\ Goto("app", "writeFlush")
       ELSE Goto("app", "writeWait") /\ UNCHANGED <<lockVars, window>>
    /\ UNCHANGED <<endVars, eventVars, rd, ready, chPostProcessing, postVars>>

WriteDone ==
    /\ At("app", "writeFlush") /\ Flushed("app")
    /\ Unlock
    /\ Goto("app", "idle")
    /\ UNCHANGED <<endVars, eventVars, rd, kcpVars, chPostProcessing, postVars>>

WriteWake ==
    /\ At("app", "writeWait") /\ writeEvent = 1
    /\ writeEvent' = 0
    /\ CheckWrite
    /\ UNCHANGED <<lockVars, endVars, readEvent, rd, kcpVars, chPostProcessing, postVars>>

WriteFail ==
    /\ At("app", "writeWait") /\ (writeError \/ die)
    /\ Goto("app", "idle")
    /\ UNCHANGED <<lockVars, endVars, eventVars, rd, kcpVars, chPostProcessing, postVars>>

-----------------------------------------------------------------------------
(* Close, by the application or by the listener's monitor.  A second Close   *)
(* finds dieOnce done and returns at once.                                    *)

Close(t) ==
    /\ t \in {"app", "monitor"} /\ At(t, "idle") /\ ~die
    /\ die' = TRUE
    /\ Goto(t, "close")
    /\ UNCHANGED <<lockVars, readError, writeError, eventVars, rd, kcpVars,
                   chPostProcessing, postVars>>

CloseLocked(t) ==
    /\ At(t, "close") /\ LockAndFlush(t)
    /\ Goto(t, "closeFlush")
    /\ UNCHANGED <<endVars, eventVars, rd, kcpVars, chPostProcessing, postVars>>

\* ReleaseTX drops what has not been acknowledged.
CloseDone(t) ==
    /\ At(t, "closeFlush") /\ Flushed(t)
    /\ window' \in {window, TRUE}
    /\ Unlock
    /\ Goto(t, "idle")
    /\ UNCHANGED <<endVars, eventVars, rd, ready, chPostProcessing, postVars>>

-----------------------------------------------------------------------------
(* The monitor: packetInput and kcpInput. *)

\* A packet has been read, and the session is not closed yet.  (Where packets
\* are read in batches, those of one batch are a packet here.)
ReadLoop ==
    /\ At("monitor", "idle") /\ ~die
    /\ Goto("monitor", "input")
    /\ UNCHANGED <<lockVars, endVars, eventVars, rd, kcpVars, chPostProcessing, postVars>>

notifyReadError ==
    /\ At("monitor", "idle")
    /\ readError' = TRUE
    /\ Goto("monitor", "done")
    /\ UNCHANGED <<lockVars, die, writeError, eventVars, rd, kcpVars,
                   chPostProcessing, postVars>>

Input ==
    /\ At("monitor", "input") /\ LockAndFlush("monitor")
    /\ ready' \in ready..RcvWnd
    /\ window' \in BOOLEAN
    /\ Goto("monitor", "inputFlush")
    /\ UNCHANGED <<endVars, eventVars, rd, chPostProcessing, postVars>>

\* Mutant: "else if": a token for the writer only when there is none to read.
InputDone_OneToken ==
    /\ At("monitor", "inputFlush") /\ Flushed("monitor")
    /\ readEvent' = IF ready > 0 THEN 1 ELSE readEvent
    /\ writeEvent' = IF ready = 0 /\ window THEN 1 ELSE writeEvent
    /\ Unlock
    /\ Goto("monitor", "idle")
    /\ UNCHANGED <<endVars, rd, kcpVars, chPostProcessing, postVars>>

\* Still under the lock: a token for the reader and one for the writer.
InputDone ==
    /\ At("monitor", "inputFlush") /\ Flushed("monitor")
    /\ readEvent' = IF ready > 0 THEN 1 ELSE readEvent
    /\ writeEvent' = IF window THEN 1 ELSE writeEvent
    /\ Unlock
    /\ Goto("monitor", "idle")
    /\ UNCHANGED <<endVars, rd, kcpVars, chPostProcessing, postVars>>

-----------------------------------------------------------------------------
(* update, run by the timed scheduler, which it asks for the next run. *)

Update ==
    /\ At("update", "queued")
    /\ Goto("update", IF die THEN "done" ELSE "lock")
    /\ UNCHANGED <<lockVars, endVars, eventVars, rd, kcpVars, chPostProcessing, postVars>>

UpdateLocked ==
    /\ At("update", "lock") /\ LockAndFlush("update")
    /\ Goto("update", "flush")
    /\ UNCHANGED <<endVars, eventVars, rd, kcpVars, chPostProcessing, postVars>>

UpdateDone ==
    /\ At("update", "flush") /\ Flushed("update")
    /\ writeEvent' = IF window THEN 1 ELSE writeEvent
    /\ Unlock
    /\ Goto("update", "queued")
    /\ UNCHANGED <<endVars, readEvent, rd, kcpVars, chPostProcessing, postVars>>

-----------------------------------------------------------------------------
(* postProcess *)

PostTake ==
    /\ post = "select" /\ chPostProcessing > 0
    /\ chPostProcessing' = chPostProcessing - 1
    /\ txqueue' = TRUE
    /\ post' = "cork"
    /\ UNCHANGED <<pc, lockVars, endVars, eventVars, rd, kcpVars, chCork, chDie>>

\* chCork is told only when nothing more is waiting.
PostCork ==
    /\ post = "cork"
    /\ chCork' = IF chPostProcessing = 0 THEN 1 ELSE chCork
    /\ chDie' = TRUE
    /\ post' = "select"
    /\ UNCHANGED <<pc, lockVars, endVars, eventVars, rd, kcpVars, chPostProcessing, txqueue>>

\* tx: the whole queue is sent, unless the socket fails, which closes
\* chSocketWriteError.
tx ==
    /\ txqueue' = FALSE
    /\ writeError' \in (IF txqueue THEN {writeError, TRUE} ELSE {writeError})

\* Mutant: die is not listened to again after sending.
PostTx_DieStaysOff ==
    /\ post = "select" /\ chCork = 1
    /\ chCork' = 0
    /\ tx
    /\ UNCHANGED <<pc, lockVars, die, readError, eventVars, rd, kcpVars, chPostProcessing,
                   post, chDie>>

PostTx ==
    /\ post = "select" /\ chCork = 1
    /\ chCork' = 0
    /\ tx
    /\ chDie' = TRUE
    /\ UNCHANGED <<pc, lockVars, die, readError, eventVars, rd, kcpVars, chPostProcessing, post>>

\* Mutant: die ends postProcess at once.
PostDie_AtOnce ==
    /\ post = "select" /\ chDie /\ die
    /\ post' = "done" /\ UNCHANGED chDie
    /\ UNCHANGED <<pc, lockVars, endVars, eventVars, rd, kcpVars, chPostProcessing, chCork, txqueue>>

PostDie ==
    /\ post = "select" /\ chDie /\ die
    /\ IF chCork > 0 \/ chPostProcessing > 0
       THEN chDie' = FALSE /\ UNCHANGED post
       ELSE post' = "done" /\ UNCHANGED chDie
    /\ UNCHANGED <<pc, lockVars, endVars, eventVars, rd, kcpVars, chPostProcessing, chCork, txqueue>>

-----------------------------------------------------------------------------
ApplicationInCall ==
    \/ ReadLocked \/ ReadWake \/ ReadTimeout \/ ReadFail
    \/ WriteLocked \/ WriteDone \/ WriteWake \/ WriteFail
    \/ CloseLocked("app") \/ CloseDone("app")

Application == SetReadDeadline \/ Read \/ Write \/ Close("app") \/ ApplicationInCall

MonitorBusy == Input \/ InputDone \/ CloseLocked("monitor") \/ CloseDone("monitor")

Monitor == ReadLoop \/ notifyReadError \/ Close("monitor") \/ MonitorBusy

Updater == Update \/ UpdateLocked \/ UpdateDone

postProcess == PostTake \/ PostCork \/ PostTx \/ PostDie

Next ==
    \/ Application \/ Monitor \/ Updater \/ postProcess
    \/ \E t \in Threads : Output(t)

Spec == newUDPSession /\ [][Next]_vars

\* A goroutine that can go on does.  A mutex that is free again and again and a
\* select with several cases ready starve nobody; the scheduler (TimedSched)
\* runs every task.  When the application calls, and when packets or errors
\* come, is not assumed.
FairSpec ==
    /\ Spec
    /\ WF_vars(\E t \in Threads : Output(t))
    /\ SF_vars(ApplicationInCall)
    /\ SF_vars(MonitorBusy)
    /\ SF_vars(Updater)
    /\ WF_vars(postProcess)

-----------------------------------------------------------------------------
(* Properties *)

\* Types; the holder of s.mu is where it flushes, and nobody else is.
Flushing(t) == pc[t] \in {"writeFlush", "inputFlush", "flush", "closeFlush"}

AppPlaces == {"idle", "read", "readWait", "write", "writeFlush", "writeWait", "close",
              "closeFlush"}
MonitorPlaces == {"idle", "input", "inputFlush", "close", "closeFlush", "done"}
UpdatePlaces == {"queued", "lock", "flush", "done"}

ProgramType ==
    /\ pc \in [Threads -> AppPlaces \cup MonitorPlaces \cup UpdatePlaces]
    /\ pc["app"] \in AppPlaces /\ pc["monitor"] \in MonitorPlaces
    /\ pc["update"] \in UpdatePlaces
    /\ post \in {"select", "cork", "done"}

LockType ==
    /\ mu \in Threads \cup {Free}
    /\ \A t \in Threads : Flushing(t) <=> mu = t
    /\ out \in 0..MaxOut /\ (mu = Free => out = 0)

FlagType ==
    /\ die \in BOOLEAN /\ readError \in BOOLEAN /\ writeError \in BOOLEAN
    /\ rd \in BOOLEAN /\ window \in BOOLEAN
    /\ txqueue \in BOOLEAN /\ chDie \in BOOLEAN

CountType ==
    /\ readEvent \in 0..1 /\ writeEvent \in 0..1 /\ chCork \in 0..1
    /\ ready \in 0..RcvWnd
    /\ chPostProcessing \in 0..PostCap

TypeOK == ProgramType /\ LockType /\ FlagType /\ CountType

\* "to notify the readers ... to notify the writers": a caller that waits for
\* what is there already has a token waiting for it, or the monitor is about
\* to leave one.
NoLostWakeup ==
    mu # "monitor" /\ ~die =>
        /\ At("app", "readWait") /\ ready > 0 => readEvent = 1
        /\ At("app", "writeWait") /\ window => writeEvent = 1

\* "remaining packets in txqueue should be sent out": what postProcess holds
\* back it will be reminded of, it does not end before that is sent, and it
\* does not turn its back on die without something else to wake it.
NothingStranded ==
    /\ post = "select" /\ txqueue => chCork = 1 \/ chPostProcessing > 0
    /\ post = "select" /\ ~chDie => chCork = 1 \/ chPostProcessing > 0
    /\ post = "done" => ~txqueue

\* A Read that has something to return, a deadline, or a dead session returns;
\* so does a Write on a dead session, and every Close, whoever holds the lock.
MustReturn(t) ==
    \/ pc[t] \in {"read", "readWait"} /\ (ready > 0 \/ rd \/ readError \/ die)
    \/ pc[t] \in {"write", "writeWait"} /\ (writeError \/ die)
    \/ pc[t] \in {"close", "closeFlush"}

CallsReturn == \A t \in {"app", "monitor"} : MustReturn(t) ~> At(t, "idle")

\* Of a closed session neither the postProcess goroutine nor the update task is left.
\* (A client's readLoop ends with its socket, which Close closes last.)
GoroutinesEnd == die ~> (post = "done" /\ At("update", "done"))
=============================================================================
