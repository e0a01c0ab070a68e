--------------------------- MODULE UdpSessionProofs ---------------------------
(***************************************************************************)
(* Theorems about UdpSession, for every capacity of its channels and queues,   *)
(* and about Crypt, for every block cipher, length of blocks and packet.       *)
(***************************************************************************)
EXTENDS UdpSession, Crypt, SequenceTheorems, TLAPS

\* Who is closing the session has closed die.
CloserDied == \A t \in Threads : pc[t] \in {"close", "closeFlush"} => die

TypeInv == TypeOK /\ CloserDied

-----------------------------------------------------------------------------
(* Types, and who holds s.mu *)

LEMMA InitType == newUDPSession => TypeInv
<1> SUFFICES ASSUME newUDPSession PROVE TypeInv
    OBVIOUS
<1> USE DEF newUDPSession
<1>1. ProgramType
  BY DEF ProgramType, Threads, AppPlaces, MonitorPlaces, UpdatePlaces
<1>2. LockType
  BY SessionAssumption DEF LockType, Threads, Free, Flushing
<1>3. FlagType
  BY DEF FlagType
<1>4. CountType
  BY SessionAssumption DEF CountType
<1>5. CloserDied
  BY DEF CloserDied, Threads
<1> QED
  BY <1>1, <1>2, <1>3, <1>4, <1>5 DEF TypeInv, TypeOK

LEMMA NextProgram == TypeInv /\ [Next]_vars => ProgramType'
<1> SUFFICES ASSUME ProgramType, [Next]_vars PROVE ProgramType'
    BY DEF TypeInv, TypeOK
<1> USE DEF ProgramType, AppPlaces, MonitorPlaces, UpdatePlaces, Threads, At, Goto
<1>1. CASE SetReadDeadline \/ Read \/ ReadLocked \/ ReadWake \/ ReadTimeout \/ ReadFail
  BY <1>1 DEF SetReadDeadline, Read, ReadLocked, ReadWake, ReadTimeout, ReadFail, postVars
<1>2. CASE Write \/ WriteLocked \/ WriteDone \/ WriteWake \/ WriteFail
  BY <1>2 DEF Write, WriteLocked, WriteDone, WriteWake, WriteFail, CheckWrite, postVars
<1>3. ASSUME NEW t \in {"app", "monitor"}, Close(t) \/ CloseLocked(t) \/ CloseDone(t)
      PROVE  ProgramType'
  <2>1. pc' = [pc EXCEPT ![t] = "close"] \/ pc' = [pc EXCEPT ![t] = "closeFlush"]
        \/ pc' = [pc EXCEPT ![t] = "idle"]
    BY <1>3 DEF Close, CloseLocked, CloseDone
  <2>2. post' = post
    BY <1>3 DEF Close, CloseLocked, CloseDone, postVars
  <2> QED
    BY <2>1, <2>2
<1>4. CASE ReadLoop \/ notifyReadError \/ Input \/ InputDone
  BY <1>4 DEF ReadLoop, notifyReadError, Input, InputDone, postVars
<1>5. CASE Updater
  BY <1>5 DEF Updater, Update, UpdateLocked, UpdateDone, postVars
<1>6. CASE postProcess
  BY <1>6 DEF postProcess, PostTake, PostCork, PostTx, PostDie
<1>7. ASSUME NEW t \in Threads, Output(t) PROVE ProgramType'
  BY <1>7 DEF Output, postVars
<1>8. CASE UNCHANGED vars
  BY <1>8 DEF vars, postVars
<1> QED
  BY <1>1, <1>2, <1>3, <1>4, <1>5, <1>6, <1>7, <1>8
  DEF Next, Application, ApplicationInCall, Monitor, MonitorBusy
LEMMA NextLock == TypeInv /\ [Next]_vars => LockType'
<1> SUFFICES ASSUME ProgramType, LockType, [Next]_vars PROVE LockType'
    BY DEF TypeInv, TypeOK
<1> USE SessionAssumption DEF LockType, Flushing, Threads, Free, At, Goto, lockVars,
        ProgramType, AppPlaces, MonitorPlaces, UpdatePlaces
<1>1. CASE SetReadDeadline \/ Read \/ ReadLocked \/ ReadWake \/ ReadTimeout \/ ReadFail
  BY <1>1 DEF SetReadDeadline, Read, ReadLocked, ReadWake, ReadTimeout, ReadFail
<1>2. CASE Write \/ WriteWake \/ WriteFail
  BY <1>2 DEF Write, WriteWake, WriteFail, CheckWrite
<1>3. CASE WriteLocked \/ WriteDone
  BY <1>3 DEF WriteLocked, WriteDone, LockAndFlush, Flushed, Unlock
<1>4. ASSUME NEW t \in {"app", "monitor"}, Close(t) \/ CloseLocked(t) \/ CloseDone(t)
      PROVE  LockType'
  <2>1. CASE Close(t)
    BY <1>4, <2>1 DEF Close
  <2>2. CASE CloseLocked(t)
    BY <1>4, <2>2 DEF CloseLocked, LockAndFlush
  <2>3. CASE CloseDone(t)
    BY <1>4, <2>3 DEF CloseDone, Flushed, Unlock
  <2> QED
    BY <1>4, <2>1, <2>2, <2>3
<1>5. CASE ReadLoop \/ notifyReadError \/ Input \/ InputDone
  BY <1>5 DEF ReadLoop, notifyReadError, Input, InputDone, LockAndFlush, Flushed, Unlock
<1>6. CASE Updater
  BY <1>6 DEF Updater, Update, UpdateLocked, UpdateDone, LockAndFlush, Flushed, Unlock
<1>7. CASE postProcess
  BY <1>7 DEF postProcess, PostTake, PostCork, PostTx, PostDie
<1>8. ASSUME NEW t \in Threads, Output(t) PROVE LockType'
  BY <1>8 DEF Output
<1>9. CASE UNCHANGED vars
  BY <1>9 DEF vars
<1> QED
  BY <1>1, <1>2, <1>3, <1>4, <1>5, <1>6, <1>7, <1>8, <1>9
  DEF Next, Application, ApplicationInCall, Monitor, MonitorBusy

LEMMA NextFlags == TypeInv /\ [Next]_vars => FlagType'
<1> SUFFICES ASSUME FlagType, [Next]_vars PROVE FlagType'
    BY DEF TypeInv, TypeOK
<1> USE DEF FlagType, endVars, kcpVars, postVars
<1>1. CASE SetReadDeadline \/ Read \/ ReadLocked \/ ReadWake \/ ReadTimeout \/ ReadFail
  BY <1>1 DEF SetReadDeadline, Read, ReadLocked, ReadWake, ReadTimeout, ReadFail
<1>2. CASE Write \/ WriteLocked \/ WriteDone \/ WriteWake \/ WriteFail
  BY <1>2 DEF Write, WriteLocked, WriteDone, WriteWake, WriteFail
<1>3. ASSUME NEW t \in {"app", "monitor"}, Close(t) \/ CloseLocked(t) \/ CloseDone(t)
      PROVE  FlagType'
  BY <1>3 DEF Close, CloseLocked, CloseDone
<1>4. CASE ReadLoop \/ notifyReadError \/ Input \/ InputDone
  BY <1>4 DEF ReadLoop, notifyReadError, Input, InputDone
<1>5. CASE Updater
  BY <1>5 DEF Updater, Update, UpdateLocked, UpdateDone
<1>6. CASE postProcess
  BY <1>6 DEF postProcess, PostTake, PostCork, PostTx, PostDie, tx
<1>7. ASSUME NEW t \in Threads, Output(t) PROVE FlagType'
  BY <1>7 DEF Output
<1>8. CASE UNCHANGED vars
  BY <1>8 DEF vars
<1> QED
  BY <1>1, <1>2, <1>3, <1>4, <1>5, <1>6, <1>7, <1>8
  DEF Next, Application, ApplicationInCall, Monitor, MonitorBusy

LEMMA NextCounts == TypeInv /\ [Next]_vars => CountType'
<1> SUFFICES ASSUME CountType, [Next]_vars PROVE CountType'
    BY DEF TypeInv, TypeOK
<1> USE SessionAssumption DEF CountType, eventVars, kcpVars, postVars
<1>1. CASE SetReadDeadline \/ Read \/ ReadLocked \/ ReadWake \/ ReadTimeout \/ ReadFail
  BY <1>1 DEF SetReadDeadline, Read, ReadLocked, ReadWake, ReadTimeout, ReadFail
<1>2. CASE Write \/ WriteLocked \/ WriteDone \/ WriteWake \/ WriteFail
  BY <1>2 DEF Write, WriteLocked, WriteDone, WriteWake, WriteFail
<1>3. ASSUME NEW t \in {"app", "monitor"}, Close(t) \/ CloseLocked(t) \/ CloseDone(t)
      PROVE  CountType'
  BY <1>3 DEF Close, CloseLocked, CloseDone
<1>4. CASE ReadLoop \/ notifyReadError \/ Input \/ InputDone
  BY <1>4 DEF ReadLoop, notifyReadError, Input, InputDone
<1>5. CASE Updater
  BY <1>5 DEF Updater, Update, UpdateLocked, UpdateDone
<1>6. CASE postProcess
  BY <1>6 DEF postProcess, PostTake, PostCork, PostTx, PostDie
<1>7. ASSUME NEW t \in Threads, Output(t) PROVE CountType'
  BY <1>7 DEF Output
<1>8. CASE UNCHANGED vars
  BY <1>8 DEF vars
<1> QED
  BY <1>1, <1>2, <1>3, <1>4, <1>5, <1>6, <1>7, <1>8
  DEF Next, Application, ApplicationInCall, Monitor, MonitorBusy
LEMMA NextCloser == TypeInv /\ [Next]_vars => CloserDied'
<1> SUFFICES ASSUME ProgramType, CloserDied, [Next]_vars PROVE CloserDied'
    BY DEF TypeInv, TypeOK
<1> USE DEF CloserDied, ProgramType, AppPlaces, MonitorPlaces, UpdatePlaces, Threads, At, Goto,
        endVars
<1>1. CASE SetReadDeadline \/ Read \/ ReadLocked \/ ReadWake \/ ReadTimeout \/ ReadFail
  BY <1>1 DEF SetReadDeadline, Read, ReadLocked, ReadWake, ReadTimeout, ReadFail
<1>2. CASE Write \/ WriteLocked \/ WriteDone \/ WriteWake \/ WriteFail
  BY <1>2 DEF Write, WriteLocked, WriteDone, WriteWake, WriteFail, CheckWrite
<1>3. ASSUME NEW t \in {"app", "monitor"}, Close(t) \/ CloseLocked(t) \/ CloseDone(t)
      PROVE  CloserDied'
  <2>1. CASE Close(t)
    BY <2>1 DEF Close
  <2>2. CASE CloseLocked(t)
    BY <2>2 DEF CloseLocked
  <2>3. CASE CloseDone(t)
    BY <2>3 DEF CloseDone
  <2> QED
    BY <1>3, <2>1, <2>2, <2>3
<1>4. CASE ReadLoop \/ notifyReadError \/ Input \/ InputDone
  BY <1>4 DEF ReadLoop, notifyReadError, Input, InputDone
<1>5. CASE Updater
  BY <1>5 DEF Updater, Update, UpdateLocked, UpdateDone
<1>6. CASE postProcess
  BY <1>6 DEF postProcess, PostTake, PostCork, PostTx, PostDie
<1>7. ASSUME NEW t \in Threads, Output(t) PROVE CloserDied'
  BY <1>7 DEF Output
<1>8. CASE UNCHANGED vars
  BY <1>8 DEF vars
<1> QED
  BY <1>1, <1>2, <1>3, <1>4, <1>5, <1>6, <1>7, <1>8
  DEF Next, Application, ApplicationInCall, Monitor, MonitorBusy

LEMMA NextType == TypeInv /\ [Next]_vars => TypeInv'
  BY NextProgram, NextLock, NextFlags, NextCounts, NextCloser DEF TypeInv, TypeOK

\* The goroutines of a session keep their types, and s.mu is held exactly by the one
\* that is in a flush.
THEOREM TypeCorrect == Spec => []TypeInv
  BY InitType, NextType, PTL DEF Spec

-----------------------------------------------------------------------------
(* Wake-ups *)

LEMMA NextWakeup == TypeInv /\ NoLostWakeup /\ [Next]_vars => NoLostWakeup'
<1> SUFFICES ASSUME TypeInv, NoLostWakeup, [Next]_vars PROVE NoLostWakeup'
    OBVIOUS
<1> USE DEF TypeInv, TypeOK, ProgramType, AppPlaces, MonitorPlaces, UpdatePlaces,
        NoLostWakeup, Threads, Free, At, Goto, eventVars, lockVars, endVars, kcpVars
\* Read waits after it has found nothing under the lock, and Write a shut window.
<1>1. CASE SetReadDeadline \/ Read \/ ReadLocked \/ ReadWake \/ ReadTimeout \/ ReadFail
  BY <1>1 DEF CountType, SetReadDeadline, Read, ReadLocked, ReadWake, ReadTimeout, ReadFail
<1>2. CASE Write \/ WriteLocked \/ WriteDone \/ WriteWake \/ WriteFail
  BY <1>2 DEF Write, WriteLocked, WriteDone, WriteWake, WriteFail, CheckWrite, LockAndFlush,
              Flushed, Unlock
\* Close opens the window without a token, but die is closed then.
<1>3. ASSUME NEW t \in {"app", "monitor"}, Close(t) \/ CloseLocked(t) \/ CloseDone(t)
      PROVE  NoLostWakeup'
  <2>1. CASE Close(t)
    BY <2>1 DEF Close
  <2>2. CASE CloseLocked(t)
    BY <2>2 DEF CloseLocked, CloserDied
  <2>3. CASE CloseDone(t)
    BY <2>3 DEF CloseDone, CloserDied
  <2> QED
    BY <1>3, <2>1, <2>2, <2>3
\* What Input changes is covered while the monitor holds the lock, and by InputDone's
\* tokens after.
<1>4. CASE ReadLoop \/ notifyReadError
  BY <1>4 DEF ReadLoop, notifyReadError
<1>5. CASE Input
  BY <1>5 DEF Input, LockAndFlush
<1>6. CASE InputDone
  BY <1>6 DEF InputDone, CountType
<1>7. CASE Updater
  BY <1>7 DEF Updater, Update, UpdateLocked, UpdateDone, LockAndFlush, Flushed, Unlock
<1>8. CASE postProcess
  BY <1>8 DEF postProcess, PostTake, PostCork, PostTx, PostDie, tx
<1>9. ASSUME NEW t \in Threads, Output(t) PROVE NoLostWakeup'
  BY <1>9 DEF Output
<1>10. CASE UNCHANGED vars
  BY <1>10 DEF vars
<1> QED
  BY <1>1, <1>2, <1>3, <1>4, <1>5, <1>6, <1>7, <1>8, <1>9, <1>10
  DEF Next, Application, ApplicationInCall, Monitor, MonitorBusy

\* No wake-up is lost: a Read that waits although there is a message, and a Write that
\* waits although the window is open, find their token in the event channel, however
\* the monitor, the update and the callback with its full channel interleave with them.
THEOREM WakeupsKept == Spec => []NoLostWakeup
<1>1. newUDPSession => NoLostWakeup
  BY DEF newUDPSession, NoLostWakeup, At, Threads
<1> QED
  BY <1>1, NextWakeup, TypeCorrect, PTL DEF Spec

-----------------------------------------------------------------------------
(* postProcess *)

LEMMA NextStranded == TypeInv /\ NothingStranded /\ [Next]_vars => NothingStranded'
<1> SUFFICES ASSUME FlagType, CountType, NothingStranded, [Next]_vars PROVE NothingStranded'
    BY DEF TypeInv, TypeOK
<1> USE SessionAssumption DEF CountType, NothingStranded, postVars
<1>1. CASE SetReadDeadline \/ Read \/ ReadLocked \/ ReadWake \/ ReadTimeout \/ ReadFail
  BY <1>1 DEF SetReadDeadline, Read, ReadLocked, ReadWake, ReadTimeout, ReadFail
<1>2. CASE Write \/ WriteLocked \/ WriteDone \/ WriteWake \/ WriteFail
  BY <1>2 DEF Write, WriteLocked, WriteDone, WriteWake, WriteFail
<1>3. ASSUME NEW t \in {"app", "monitor"}, Close(t) \/ CloseLocked(t) \/ CloseDone(t)
      PROVE  NothingStranded'
  <2>1. UNCHANGED <<chPostProcessing, postVars>>
    BY <1>3 DEF Close, CloseLocked, CloseDone
  <2> QED
    BY <2>1
<1>4. CASE ReadLoop \/ notifyReadError \/ Input \/ InputDone
  BY <1>4 DEF ReadLoop, notifyReadError, Input, InputDone
<1>5. CASE Updater
  BY <1>5 DEF Updater, Update, UpdateLocked, UpdateDone
<1>6. CASE PostTake \/ PostTx
  BY <1>6 DEF PostTake, PostTx, tx
\* A cork that finds the channel empty tells itself to send.
<1>7. CASE PostCork
  BY <1>7 DEF PostCork
\* die ends the goroutine only when nothing is on its way.
<1>8. CASE PostDie
  <2>1. CASE chCork > 0 \/ chPostProcessing > 0
    <3>1. post' = post /\ UNCHANGED <<chCork, chPostProcessing, txqueue>> /\ post = "select"
      BY <1>8, <2>1 DEF PostDie
    <3>2. chCork = 1 \/ chPostProcessing > 0
      BY <2>1 DEF CountType
    <3> QED
      BY <3>1, <3>2
  <2>2. CASE ~(chCork > 0 \/ chPostProcessing > 0)
    <3>1. ~txqueue /\ txqueue' = txqueue
      BY <1>8, <2>2 DEF PostDie
    <3> QED
      BY <1>8, <2>2, <3>1 DEF PostDie
  <2> QED
    BY <2>1, <2>2
<1>9. ASSUME NEW t \in Threads, Output(t) PROVE NothingStranded'
  BY <1>9 DEF Output
<1>10. CASE UNCHANGED vars
  BY <1>10 DEF vars
<1> QED
  BY <1>1, <1>2, <1>3, <1>4, <1>5, <1>6, <1>7, <1>8, <1>9, <1>10
  DEF Next, Application, ApplicationInCall, Monitor, MonitorBusy, postProcess

\* postProcess never stops with packets in txqueue, and has something to wake it for
\* those it holds back and whenever it does not listen to die.
THEOREM PacketsNotStranded == Spec => []NothingStranded
<1>1. newUDPSession => NothingStranded
  BY DEF newUDPSession, NothingStranded
<1> QED
  BY <1>1, NextStranded, TypeCorrect, PTL DEF Spec

-----------------------------------------------------------------------------
(* Crypt: the inductive invariant *)

\* As many pieces as were given, each of the length it was given with.
Shape(d) ==
    /\ d \in Seq(Pieces) /\ Len(d) = Len(given)
    /\ \A i \in 1..Len(given) : Len(d[i]) = Len(given[i])

CryptType ==
    /\ method \in Methods /\ same \in BOOLEAN
    /\ given \in Messages[method]
    /\ turn \in {"encrypt", "decrypt", "done"}
    /\ Shape(src) /\ Shape(dst)
    /\ same => src = dst
    /\ method \in BlockMethods => base \in 0..Len(given) - 1

\* Half way through Encrypt.
Encrypting ==
    turn = "encrypt" =>
        IF method \in BlockMethods
        THEN /\ tbl = Key(dst, base + 1)
             /\ \A i \in 1..base : dst[i] = xorBytes(given[i], Key(dst, i))
             /\ \A i \in base + 1..Len(given) : src[i] = given[i]
        ELSE src = given

\* What Encrypt makes of the packet.
Sealed ==
    turn # "encrypt" =>
        /\ Shape(sealed)
        /\ method \in BlockMethods =>
               \A i \in 1..Len(given) : sealed[i] = xorBytes(given[i], Key(sealed, i))
        /\ method = "salsa20" =>
               sealed = <<given[1], xorBytes(given[2], Stream(given[1]))>>
        /\ method = "simpleXOR" => sealed = <<xorBytes(given[1], Table)>>
        /\ method = "none" => sealed = given

\* Half way through Decrypt; the rounds take two blocks a step.
Decrypting ==
    turn = "decrypt" =>
        /\ ~same \/ method \notin BlockMethods => src = sealed
        /\ method \in BlockMethods =>
               /\ tbl = Key(sealed, base + 1)
               /\ \A i \in base + 1..Len(given) : src[i] = sealed[i]
               /\ \A i \in 1..base : dst[i] = given[i]
               /\ base % 2 = 0 \/ Rounds <= base

Decrypted == turn = "done" => dst = given /\ (~same => src = sealed)

CryptInv == CryptType /\ Encrypting /\ Sealed /\ Decrypting /\ Decrypted

-----------------------------------------------------------------------------
LEMMA XorTwice ==
    ASSUME NEW a \in Pieces, NEW k \in Pieces, Len(a) <= Len(k)
    PROVE  /\ xorBytes(a, k) \in Pieces /\ Len(xorBytes(a, k)) = Len(a)
           /\ xorBytes(xorBytes(a, k), k) = a
<1> DEFINE x == xorBytes(a, k)
<1>1. x = [i \in 1..Len(a) |-> Xor(a[i], k[i])]
  BY DEF xorBytes, Pieces
<1>2. \A i \in 1..Len(a) : Xor(a[i], k[i]) \in Bit /\ Xor(Xor(a[i], k[i]), k[i]) = a[i]
  BY DEF Xor, Bit, Pieces
<1>3. x \in Pieces /\ Len(x) = Len(a)
  BY <1>1, <1>2 DEF Pieces
<1> HIDE DEF x
<1>4. xorBytes(x, k) = [i \in 1..Len(a) |-> Xor(x[i], k[i])]
  BY <1>3 DEF xorBytes, Pieces
<1>5. \A i \in 1..Len(a) : Xor(x[i], k[i]) = a[i]
  BY <1>1, <1>2
<1>6. a = [i \in 1..Len(a) |-> a[i]]
  BY DEF Pieces
<1>7. xorBytes(x, k) = a
  BY <1>4, <1>5, <1>6
<1> QED
  BY <1>3, <1>7 DEF x

LEMMA EvenRounds ==
    ASSUME NEW B \in Nat
    PROVE  /\ (B \div Unroll) * Unroll \in Nat
           /\ (B \div Unroll) * Unroll <= B
           /\ ((B \div Unroll) * Unroll) % 2 = 0
<1>1. Unroll \in Nat /\ Unroll > 0 /\ Unroll % 2 = 0
  BY CryptAssumption
<1> DEFINE q == B \div Unroll
           h == Unroll \div 2
<1>2. q \in Nat /\ h \in Nat /\ Unroll = 2 * h
  BY <1>1
<1>3. q * Unroll \in Nat /\ q * Unroll <= B
  BY <1>1
<1>4. q * Unroll = 2 * (q * h) /\ q * h \in Nat
  <2> HIDE DEF q, h
  <2> QED  BY <1>2
<1>5. (2 * (q * h)) % 2 = 0
  <2> DEFINE m == q * h
  <2>1. m \in Nat
    BY <1>4
  <2> HIDE DEF m
  <2>2. (2 * m) % 2 = 0
    BY <2>1
  <2> QED  BY <2>2 DEF m
<1> QED
  BY <1>3, <1>4, <1>5

\* The key streams are as long as a block, and the pieces no longer.
LEMMA KeyLength ==
    ASSUME method \in BlockMethods, given \in Messages[method],
           NEW c, Shape(c), NEW i \in 1..Len(given)
    PROVE  /\ Key(c, i) \in Pieces
           /\ Len(given[i]) <= Len(Key(c, i))
<1> DEFINE n == BlockLen[method]
<1>1. given \in Seq(Pieces) /\ n \in Nat /\ Len(given) \in Nat
  BY CryptAssumption DEF Methods
<1>2. /\ \A j \in 1..Len(given) - 1 : Len(given[j]) = n
      /\ Len(given[Len(given)]) < n
  BY CryptAssumption
<1>3. \A b \in Block(n) : Cipher(b) \in Block(n)
  BY CryptAssumption
<1>4. initialVector(method) \in Block(n)
  BY <1>1 DEF initialVector, Block, Bit
<1>7. \A b \in Block(n) : b \in Pieces /\ Len(b) = n
  <2> SUFFICES ASSUME NEW b \in Block(n) PROVE b \in Pieces /\ Len(b) = n
    OBVIOUS
  <2>1. b \in [1..n -> Bit] /\ b \in Pieces
    <3>1. b \in [1..n -> Bit]
      BY DEF Block
    <3>2. \A S, m : m \in Nat => [1..m -> S] \subseteq Seq(S)
      BY SeqDef
    <3> QED  BY <3>1, <3>2, <1>1 DEF Pieces
  <2>2. DOMAIN b = 1..n /\ Len(b) \in Nat /\ DOMAIN b = 1..Len(b)
    BY <2>1, LenProperties DEF Pieces
  <2> QED  BY <2>1, <2>2, <1>1
<1>8. Len(given[i]) <= n
  <2>1. CASE i = Len(given)
    <3>1. given[i] \in Pieces
      BY <1>1, ElementOfSeq
    <3>2. Len(given[i]) \in Nat
      BY <3>1 DEF Pieces
    <3> QED  BY <3>2, <2>1, <1>1, <1>2
  <2>2. CASE i # Len(given)
    BY <2>2, <1>1, <1>2
  <2> QED  BY <2>1, <2>2
<1>5. CASE i = 1
  <2>1. Key(c, i) \in Block(n)
    BY <1>3, <1>4, <1>5 DEF Key
  <2> QED
    BY <2>1, <1>7, <1>8
<1>6. CASE i # 1
  <2>1. i - 1 \in 1..Len(given) - 1 /\ i - 1 \in 1..Len(given)
    BY <1>1, <1>6
  <2>2. c[i - 1] \in Pieces /\ Len(c[i - 1]) = n
    BY <2>1, <1>2 DEF Shape
  <2>3. c[i - 1] \in Block(n)
    BY <2>2, <1>1 DEF Block, Pieces
  <2>4. Key(c, i) \in Block(n)
    BY <1>3, <1>6, <2>3 DEF Key
  <2> QED
    BY <2>4, <1>7, <1>8
<1> QED
  BY <1>5, <1>6

-----------------------------------------------------------------------------
\* A piece of the right length put into the packet.
LEMMA PutShape ==
    ASSUME given \in Seq(Pieces), NEW d, Shape(d), NEW i \in 1..Len(given),
           NEW x \in Pieces, Len(x) = Len(given[i])
    PROVE  /\ Shape([d EXCEPT ![i] = x])
           /\ [d EXCEPT ![i] = x][i] = x
           /\ \A j \in 1..Len(given) : j # i => [d EXCEPT ![i] = x][j] = d[j]
<1>1. d \in Seq(Pieces) /\ i \in 1..Len(d) /\ Len(d) = Len(given)
  BY DEF Shape
<1>2. /\ [d EXCEPT ![i] = x] \in Seq(Pieces) /\ Len([d EXCEPT ![i] = x]) = Len(d)
      /\ \A j \in 1..Len(d) : [d EXCEPT ![i] = x][j] = IF j = i THEN x ELSE d[j]
  BY <1>1, ExceptSeq
<1> QED
  BY <1>1, <1>2 DEF Shape

LEMMA BlankShape ==
    ASSUME given \in Seq(Pieces), NEW d, Shape(d)
    PROVE  Shape(Blank(d))
<1>1. d \in Seq(Pieces) /\ Len(d) = Len(given) /\ Len(given) \in Nat
      /\ \A i \in 1..Len(given) : d[i] \in Seq(Bit) /\ Len(d[i]) = Len(given[i])
  BY DEF Shape, Pieces
<1>2. Blank(d) = [i \in 1..Len(given) |-> [j \in 1..Len(d[i]) |-> 0]]
  BY <1>1 DEF Blank
<1>3. \A i \in 1..Len(given) :
          LET z == [j \in 1..Len(d[i]) |-> 0] IN z \in Pieces /\ Len(z) = Len(d[i])
  BY <1>1 DEF Bit, Pieces
<1>4. Blank(d) \in Seq(Pieces) /\ Len(Blank(d)) = Len(given)
  BY <1>1, <1>2, <1>3
<1> QED
  BY <1>1, <1>2, <1>3, <1>4 DEF Shape

LEMMA GivenType ==
    ASSUME CryptType
    PROVE  /\ given \in Seq(Pieces) /\ Len(given) \in Nat
           /\ method \in BlockMethods => Len(given) > 0
<1>1. given \in Seq(Pieces)
  BY CryptAssumption DEF CryptType
<1>2. method \in BlockMethods => given # <<>>
  BY CryptAssumption DEF CryptType
<1> QED
  BY <1>1, <1>2, EmptySeq

LEMMA CryptStart == CryptInit => CryptInv
<1> SUFFICES ASSUME CryptInit PROVE CryptInv
    OBVIOUS
<1>1. given \in Seq(Pieces) /\ given \in Messages[method] /\ Len(given) \in Nat
  BY CryptAssumption DEF CryptInit
<1>2. Shape(given)
  BY <1>1 DEF Shape
<1>3. Shape(src) /\ Shape(dst)
  BY <1>1, <1>2, BlankShape DEF CryptInit
<1>4. method \in BlockMethods => Len(given) > 0
  BY <1>1, CryptAssumption, EmptySeq
<1>5. CryptType
  BY <1>1, <1>3, <1>4 DEF CryptInit, CryptType
<1>6. Encrypting
  BY <1>1 DEF CryptInit, Encrypting, Key
<1> QED
  BY <1>5, <1>6 DEF CryptInit, CryptInv, Sealed, Decrypting, Decrypted

-----------------------------------------------------------------------------
(* Encryption *)

LEMMA EncryptKeeps ==
    ASSUME CryptInv, method \in BlockMethods, turn = "encrypt", EncryptBlock
    PROVE  CryptInv'
<1> DEFINE i == base + 1
           x == xorBytes(src[i], tbl)
           d == [dst EXCEPT ![i] = x]
<1>1. given \in Seq(Pieces) /\ Len(given) \in Nat /\ Len(given) > 0
  BY GivenType DEF CryptInv
<1>2. Shape(src) /\ Shape(dst) /\ base \in 0..Len(given) - 1 /\ (same => src = dst)
  BY DEF CryptInv, CryptType
<1>3. base < Len(given) - 1 /\ i \in 1..Len(given) - 1 /\ i \in 1..Len(given)
  BY <1>1, <1>2 DEF EncryptBlock, Blocks, Shape
<1>4. tbl = Key(dst, i) /\ src[i] = given[i] /\ given[i] \in Pieces
  BY <1>1, <1>2, <1>3, ElementOfSeq DEF CryptInv, Encrypting
<1>5. Key(dst, i) \in Pieces /\ Len(given[i]) <= Len(Key(dst, i))
  BY <1>2, <1>3, KeyLength DEF CryptInv, CryptType
<1>6. x \in Pieces /\ Len(x) = Len(given[i]) /\ x = xorBytes(given[i], Key(dst, i))
  BY <1>4, <1>5, XorTwice
<1>7. /\ dst' = d /\ src' = (IF same THEN d ELSE src) /\ tbl' = Cipher(dst'[i])
      /\ base' = i /\ UNCHANGED <<method, same, given, sealed, next, turn>>
  BY DEF EncryptBlock, Put, Store
<1> HIDE DEF x
<1>8. Shape(d) /\ d[i] = x /\ \A j \in 1..Len(given) : j # i => d[j] = dst[j]
  BY <1>1, <1>2, <1>3, <1>6, PutShape
<1> HIDE DEF d
<1>9. Shape(src)' /\ Shape(dst)'
  BY <1>2, <1>7, <1>8 DEF Shape
<1>10. CryptType'
  BY <1>1, <1>3, <1>7, <1>9 DEF CryptInv, CryptType
<1>11. Key(d, i) = Key(dst, i) /\ \A j \in 1..base : Key(d, j) = Key(dst, j)
  BY <1>1, <1>2, <1>3, <1>8 DEF Key
<1>12. Encrypting'
  <2>1. i + 1 # 1 /\ (i + 1) - 1 = i
    BY <1>3
  <2>2. tbl' = Key(dst, base + 1)'
    BY <1>7, <2>1 DEF Key
  <2>3. \A j \in 1..base : d[j] = xorBytes(given[j], Key(d, j))
    BY <1>1, <1>2, <1>3, <1>8, <1>11 DEF CryptInv, Encrypting
  <2>4. \A j \in 1..i : d[j] = xorBytes(given[j], Key(d, j))
    BY <1>2, <1>6, <1>8, <1>11, <2>3
  <2>6. (\A j \in 1..base : dst[j] = xorBytes(given[j], Key(dst, j)))'
    BY <1>7, <2>4 DEF Key
  <2>7. (\A j \in base + 1..Len(given) : src[j] = given[j])'
    <3>1. \A j \in i + 1..Len(given) : j \in base + 1..Len(given) /\ j \in 1..Len(given) /\ j # i
      BY <1>1, <1>2
    <3>2. \A j \in i + 1..Len(given) : src[j] = given[j]
      BY <3>1 DEF CryptInv, Encrypting
    <3> QED
      BY <1>2, <1>7, <1>8, <3>1, <3>2
  <2> QED
    BY <1>7, <2>2, <2>6, <2>7 DEF Encrypting
<1> QED
  BY <1>7, <1>10, <1>12 DEF CryptInv, Sealed, Decrypting, Decrypted

LEMMA SealKeeps ==
    ASSUME CryptInv, method \in BlockMethods, turn = "encrypt", LastPiece
    PROVE  CryptInv'
<1> DEFINE i == base + 1
           x == xorBytes(src[i], tbl)
           d == [dst EXCEPT ![i] = x]
<1>1. given \in Seq(Pieces) /\ Len(given) \in Nat /\ Len(given) > 0
  BY GivenType DEF CryptInv
<1>2. Shape(src) /\ Shape(dst) /\ base \in 0..Len(given) - 1 /\ (same => src = dst)
  BY DEF CryptInv, CryptType
<1>3. i = Len(given) /\ i \in 1..Len(given)
  BY <1>1, <1>2 DEF LastPiece, Blocks, Shape
<1>4. tbl = Key(dst, i) /\ src[i] = given[i] /\ given[i] \in Pieces
  BY <1>1, <1>2, <1>3, ElementOfSeq DEF CryptInv, Encrypting
<1>5. Key(dst, i) \in Pieces /\ Len(given[i]) <= Len(Key(dst, i))
  BY <1>2, <1>3, KeyLength DEF CryptInv, CryptType
<1>6. x \in Pieces /\ Len(x) = Len(given[i]) /\ x = xorBytes(given[i], Key(dst, i))
  BY <1>4, <1>5, XorTwice
<1>7. Finish(d)
  BY DEF LastPiece
<1> HIDE DEF x
<1>8. Shape(d) /\ d[i] = x /\ \A j \in 1..Len(given) : j # i => d[j] = dst[j]
  BY <1>1, <1>2, <1>3, <1>6, PutShape
<1> HIDE DEF d
<1>9. /\ sealed' = d /\ src' = d /\ dst' = (IF same THEN d ELSE Blank(d)) /\ base' = 0
      /\ tbl' = Cipher(initialVector(method)) /\ turn' = "decrypt"
      /\ UNCHANGED <<method, same, given, next>>
  BY <1>7 DEF Finish
<1>10. Shape(Blank(d))
  BY <1>1, <1>8, BlankShape
<1>11. Shape(src)' /\ Shape(dst)' /\ Shape(sealed)'
  BY <1>8, <1>9, <1>10 DEF Shape
<1>12. CryptType'
  BY <1>1, <1>9, <1>11 DEF CryptInv, CryptType
<1>13. Key(d, i) = Key(dst, i) /\ \A j \in 1..base : Key(d, j) = Key(dst, j)
  BY <1>1, <1>2, <1>3, <1>8 DEF Key
<1>14. \A j \in 1..base : d[j] = xorBytes(given[j], Key(d, j))
  BY <1>1, <1>2, <1>3, <1>8, <1>13 DEF CryptInv, Encrypting
<1>15. \A j \in 1..Len(given) : d[j] = xorBytes(given[j], Key(d, j))
  BY <1>2, <1>3, <1>6, <1>8, <1>13, <1>14
<1>16. method \notin {"salsa20", "simpleXOR", "none"}
  BY DEF BlockMethods
<1>17. Sealed'
  BY <1>9, <1>11, <1>15, <1>16 DEF Sealed, Key
<1>18. Decrypting'
  BY <1>9 DEF Decrypting, Key
<1> QED
  BY <1>9, <1>12, <1>17, <1>18 DEF CryptInv, Encrypting, Decrypted

-----------------------------------------------------------------------------
(* Decryption *)

\* Block i of the packet comes out of the sealed block and its key stream.
LEMMA Opens ==
    ASSUME CryptInv, method \in BlockMethods, turn = "decrypt",
           NEW i \in 1..Len(given)
    PROVE  /\ xorBytes(sealed[i], Key(sealed, i)) = given[i]
           /\ given[i] \in Pieces
<1>1. given \in Seq(Pieces) /\ given \in Messages[method] /\ Shape(sealed)
  BY GivenType DEF CryptInv, CryptType, Sealed
<1>2. given[i] \in Pieces
  BY <1>1, ElementOfSeq
<1>3. Key(sealed, i) \in Pieces /\ Len(given[i]) <= Len(Key(sealed, i))
  BY <1>1, KeyLength
<1>4. sealed[i] = xorBytes(given[i], Key(sealed, i))
  BY DEF CryptInv, Sealed
<1> QED
  BY <1>2, <1>3, <1>4, XorTwice

LEMMA DecryptKeeps ==
    ASSUME CryptInv, method \in BlockMethods, turn = "decrypt", DecryptBlock
    PROVE  CryptInv'
<1> DEFINE i == base + 1
           x == xorBytes(src[i], tbl)
           d == [dst EXCEPT ![i] = x]
<1>1. given \in Seq(Pieces) /\ Len(given) \in Nat /\ Len(given) > 0
  BY GivenType DEF CryptInv
<1>2. Shape(src) /\ Shape(dst) /\ base \in 0..Len(given) - 1 /\ (same => src = dst)
  BY DEF CryptInv, CryptType
<1>3. base < Len(given) - 1 /\ i \in 1..Len(given) - 1 /\ i \in 1..Len(given)
  BY <1>1, <1>2 DEF DecryptBlock, Blocks, Shape
<1>4. tbl = Key(sealed, i) /\ src[i] = sealed[i]
  BY <1>1, <1>2, <1>3 DEF CryptInv, Decrypting
<1>5. x = given[i] /\ x \in Pieces
  BY <1>3, <1>4, Opens
<1>6. /\ dst' = d /\ src' = (IF same THEN d ELSE src) /\ tbl' = Cipher(src[i])
      /\ base' = i /\ UNCHANGED <<method, same, given, sealed, turn>> /\ Rounds <= base
  BY DEF DecryptBlock, Put, Store
<1> HIDE DEF x
<1>7. Shape(d) /\ d[i] = x /\ \A j \in 1..Len(given) : j # i => d[j] = dst[j]
  BY <1>1, <1>2, <1>3, <1>5, PutShape
<1> HIDE DEF d
<1>8. Shape(src)' /\ Shape(dst)'
  BY <1>2, <1>6, <1>7 DEF Shape
<1>9. CryptType'
  BY <1>1, <1>3, <1>6, <1>8 DEF CryptInv, CryptType
<1>10. Decrypting'
  <2>1. (~same \/ method \notin BlockMethods => src = sealed)'
    BY <1>6 DEF CryptInv, Decrypting
  <2>2. tbl' = Key(sealed, base + 1)'
    <3>1. i + 1 # 1 /\ (i + 1) - 1 = i
      BY <1>3
    <3> QED  BY <1>4, <1>6, <3>1 DEF Key
  <2>3. \A j \in i + 1..Len(given) : j \in base + 1..Len(given) /\ j \in 1..Len(given) /\ j # i
    BY <1>1, <1>2
  <2>4. \A j \in i + 1..Len(given) : src[j] = sealed[j]
    BY <2>3 DEF CryptInv, Decrypting
  <2>5. (\A j \in base + 1..Len(given) : src[j] = sealed[j])'
    BY <1>2, <1>6, <1>7, <2>3, <2>4
  <2>6. \A j \in 1..base : dst[j] = given[j]
    BY DEF CryptInv, Decrypting
  <2>7. (\A j \in 1..base : dst[j] = given[j])'
    BY <1>1, <1>2, <1>3, <1>5, <1>6, <1>7, <2>6
  <2>8. Len(src') = Len(src) /\ Len(src) \in Nat
    BY <1>2, <1>8, <1>1, <1>6 DEF Shape
  <2>9. Rounds' = Rounds
    BY <2>8 DEF Rounds, Blocks
  <2>10. Rounds \in Int
    <3>1. Blocks \in Nat
      BY <1>1, <1>2 DEF Shape, Blocks
    <3> QED  BY <3>1, EvenRounds DEF Rounds
  <2>11. (Rounds <= base)'
    BY <1>2, <1>6, <2>9, <2>10
  <2> QED
    BY <1>6, <2>1, <2>2, <2>5, <2>7, <2>11 DEF Decrypting
<1>11. Sealed'
  BY <1>6 DEF CryptInv, Sealed, Shape, Key
<1> QED
  BY <1>6, <1>9, <1>10, <1>11 DEF CryptInv, Encrypting, Decrypted

LEMMA OpenKeeps ==
    ASSUME CryptInv, method \in BlockMethods, turn = "decrypt", LastPiece
    PROVE  CryptInv'
<1> DEFINE i == base + 1
           x == xorBytes(src[i], tbl)
           d == [dst EXCEPT ![i] = x]
<1>1. given \in Seq(Pieces) /\ Len(given) \in Nat /\ Len(given) > 0
  BY GivenType DEF CryptInv
<1>2. Shape(src) /\ Shape(dst) /\ base \in 0..Len(given) - 1 /\ (same => src = dst)
  BY DEF CryptInv, CryptType
<1>3. i = Len(given) /\ i \in 1..Len(given)
  BY <1>1, <1>2 DEF LastPiece, Blocks, Shape
<1>4. tbl = Key(sealed, i) /\ src[i] = sealed[i]
  BY <1>1, <1>2, <1>3 DEF CryptInv, Decrypting
<1>5. x = given[i] /\ x \in Pieces
  BY <1>3, <1>4, Opens
<1>6. /\ dst' = d /\ src' = (IF same THEN d ELSE src) /\ turn' = "done"
      /\ UNCHANGED <<method, same, given, sealed, tbl, next, base>>
  BY DEF LastPiece, Finish, Store
<1> HIDE DEF x
<1>7. Shape(d) /\ d[i] = x /\ \A j \in 1..Len(given) : j # i => d[j] = dst[j]
  BY <1>1, <1>2, <1>3, <1>5, PutShape
<1> HIDE DEF d
<1>8. Shape(src)' /\ Shape(dst)'
  BY <1>2, <1>6, <1>7 DEF Shape
<1>9. CryptType'
  BY <1>1, <1>2, <1>3, <1>6, <1>8 DEF CryptInv, CryptType
<1>10. \A j \in 1..base : dst[j] = given[j]
  BY DEF CryptInv, Decrypting
<1>11. \A j \in 1..Len(given) : d[j] = given[j]
  BY <1>1, <1>2, <1>3, <1>5, <1>7, <1>10
<1>12. d = given
  BY <1>1, <1>7, <1>11, SeqEqual DEF Shape
<1>13. ~same => src = sealed
  BY DEF CryptInv, Decrypting
<1>14. Decrypted'
  BY <1>6, <1>12, <1>13 DEF Decrypted
<1>15. Sealed'
  BY <1>6 DEF CryptInv, Sealed, Shape, Key
<1> QED
  BY <1>6, <1>9, <1>14, <1>15 DEF CryptInv, Encrypting, Decrypting

LEMMA PairKeeps ==
    ASSUME CryptInv, method \in BlockMethods, turn = "decrypt", DecryptPair
    PROVE  CryptInv'
<1> DEFINE i == base + 1
           k == base + 2
           x == xorBytes(src[i], tbl)
           y == xorBytes(src[k], next')
           c == [dst EXCEPT ![i] = x]
           d == [c EXCEPT ![k] = y]
<1>1. given \in Seq(Pieces) /\ Len(given) \in Nat /\ Len(given) > 0
  BY GivenType DEF CryptInv
<1>2. Shape(src) /\ Shape(dst) /\ base \in 0..Len(given) - 1 /\ (same => src = dst)
  BY DEF CryptInv, CryptType
<1>3. Rounds \in Nat /\ Rounds <= Len(given) - 1 /\ Rounds % 2 = 0
  <2>1. Blocks \in Nat /\ Blocks = Len(given) - 1
    BY <1>1, <1>2 DEF Shape, Blocks
  <2> QED  BY <2>1, EvenRounds DEF Rounds
<1>4. base < Rounds /\ base % 2 = 0
  BY <1>2, <1>3 DEF DecryptPair, CryptInv, Decrypting
<1>5. k <= Rounds /\ k % 2 = 0
  BY <1>2, <1>3, <1>4
<1>6. i \in 1..Len(given) /\ k \in 1..Len(given) /\ k <= Len(given) - 1 /\ k = i + 1
  BY <1>1, <1>2, <1>3, <1>5
<1>7. tbl = Key(sealed, i) /\ src[i] = sealed[i] /\ src[k] = sealed[k]
  BY <1>1, <1>2, <1>6 DEF CryptInv, Decrypting
<1>8. /\ next' = Cipher(src[i]) /\ tbl' = Cipher(src[k])
      /\ base' = k /\ UNCHANGED <<method, same, given, sealed, turn>>
  BY DEF DecryptPair
<1>9. next' = Key(sealed, k)
  <2>1. k # 1 /\ k - 1 = i
    BY <1>2
  <2> QED  BY <1>7, <1>8, <2>1 DEF Key
<1>10. x = given[i] /\ x \in Pieces /\ y = given[k] /\ y \in Pieces
  BY <1>6, <1>7, <1>9, Opens
<1>11. dst' = d /\ src' = (IF same THEN d ELSE src)
  BY DEF DecryptPair, Store
<1> HIDE DEF x, y
<1>18. x \in Pieces /\ Len(x) = Len(given[i]) /\ y \in Pieces /\ Len(y) = Len(given[k])
  BY <1>10
<1>19. i \in 1..Len(given) /\ k \in 1..Len(given) /\ Shape(dst) /\ given \in Seq(Pieces)
  BY <1>1, <1>2, <1>6
<1> HIDE DEF i, k
<1>12. Shape(c) /\ c[i] = x /\ \A j \in 1..Len(given) : j # i => c[j] = dst[j]
  BY <1>18, <1>19, PutShape
<1> HIDE DEF c
<1>13. Shape(d) /\ d[k] = y /\ \A j \in 1..Len(given) : j # k => d[j] = c[j]
  BY <1>12, <1>18, <1>19, PutShape
<1> HIDE DEF d
<1> USE DEF i, k
<1>14. Shape(src)' /\ Shape(dst)'
  BY <1>2, <1>8, <1>11, <1>13 DEF Shape
<1>15. CryptType'
  BY <1>1, <1>6, <1>8, <1>11, <1>14 DEF CryptInv, CryptType
<1>16. Decrypting'
  <2>1. (~same \/ method \notin BlockMethods => src = sealed)'
    BY <1>8, <1>11 DEF CryptInv, Decrypting
  <2>2. tbl' = Key(sealed, base + 1)'
    <3>1. k + 1 # 1 /\ (k + 1) - 1 = k
      BY <1>6
    <3> QED  BY <1>7, <1>8, <3>1 DEF Key
  <2>3. \A j \in k + 1..Len(given) :
            j \in base + 1..Len(given) /\ j \in 1..Len(given) /\ j # i /\ j # k
    BY <1>1, <1>2
  <2>4. \A j \in k + 1..Len(given) : src[j] = sealed[j]
    BY <2>3 DEF CryptInv, Decrypting
  <2>5. (\A j \in base + 1..Len(given) : src[j] = sealed[j])'
    BY <1>2, <1>8, <1>11, <1>12, <1>13, <2>3, <2>4
  <2>6. \A j \in 1..base : dst[j] = given[j]
    BY DEF CryptInv, Decrypting
  <2>7. \A j \in 1..k : j \in 1..Len(given) /\ (j = i \/ j = k \/ (j \in 1..base /\ j # i /\ j # k))
    BY <1>1, <1>2, <1>6
  <2>8. i # k
    BY <1>2
  <2>9. (\A j \in 1..base : dst[j] = given[j])'
    BY <1>6, <1>8, <1>10, <1>11, <1>12, <1>13, <2>6, <2>7, <2>8
  <2> QED
    BY <1>5, <1>8, <2>1, <2>2, <2>5, <2>9 DEF Decrypting
<1>17. Sealed'
  BY <1>8 DEF CryptInv, Sealed, Shape, Key
<1> QED
  BY <1>8, <1>15, <1>16, <1>17 DEF CryptInv, Encrypting, Decrypted

-----------------------------------------------------------------------------
(* The others *)

\* A call that makes d of the whole packet, one way or the other.
LEMMA WholeKeeps ==
    ASSUME CryptInv, method \notin BlockMethods, turn # "done", NEW d, Finish(d), Shape(d),
           turn = "encrypt" =>
               /\ method = "salsa20" => d = <<given[1], xorBytes(given[2], Stream(given[1]))>>
               /\ method = "simpleXOR" => d = <<xorBytes(given[1], Table)>>
               /\ method = "none" => d = given,
           turn = "decrypt" => d = given
    PROVE  CryptInv'
<1>1. given \in Seq(Pieces) /\ Shape(src) /\ Shape(dst) /\ (same => src = dst)
  BY GivenType DEF CryptInv, CryptType
<1>2. CASE turn = "encrypt"
  <2>1. /\ sealed' = d /\ src' = d /\ dst' = (IF same THEN d ELSE Blank(d))
        /\ turn' = "decrypt" /\ UNCHANGED <<method, same, given, next>>
    BY <1>2 DEF Finish
  <2>2. Shape(Blank(d))
    BY <1>1, BlankShape
  <2>3. Shape(src)' /\ Shape(dst)' /\ Shape(sealed)'
    BY <2>1, <2>2 DEF Shape
  <2>4. CryptType'
    BY <2>1, <2>3 DEF CryptInv, CryptType
  <2>5. Sealed'
    BY <1>2, <2>1, <2>3 DEF Sealed
  <2> QED
    BY <2>1, <2>4, <2>5 DEF CryptInv, Encrypting, Decrypting, Decrypted
<1>3. CASE turn = "decrypt"
  <2>1. /\ dst' = d /\ src' = (IF same THEN d ELSE src) /\ turn' = "done"
        /\ UNCHANGED <<method, same, given, sealed, tbl, next, base>>
    BY <1>3 DEF Finish, Store
  <2>2. Shape(src)' /\ Shape(dst)'
    BY <1>1, <2>1 DEF Shape
  <2>3. CryptType'
    BY <2>1, <2>2 DEF CryptInv, CryptType
  <2>4. Sealed'
    BY <1>3, <2>1 DEF CryptInv, Sealed, Shape
  <2>5. src = sealed
    BY <1>3 DEF CryptInv, Decrypting
  <2> QED
    BY <1>3, <2>1, <2>3, <2>4, <2>5 DEF CryptInv, Encrypting, Decrypting, Decrypted
<1> QED
  BY <1>2, <1>3 DEF CryptInv, CryptType

LEMMA StreamKeeps == ASSUME CryptInv, salsa20 PROVE CryptInv'
<1> DEFINE a == given[1]
           b == given[2]
           z == xorBytes(b, Stream(a))
           d == <<src[1], xorBytes(src[2], Stream(src[1]))>>
<1>1. /\ method = "salsa20" /\ method \notin BlockMethods /\ turn # "done"
      /\ given \in Seq(Pieces) /\ Finish(d)
  BY GivenType DEF CryptInv, salsa20, BlockMethods
<1>2. Len(given) = 2 /\ Stream(a) \in Pieces /\ Len(Stream(a)) >= Len(b)
  BY <1>1, CryptAssumption DEF CryptInv, CryptType
<1>3. a \in Pieces /\ b \in Pieces
  BY <1>1, <1>2, ElementOfSeq
<1>4. Len(b) \in Nat /\ Len(Stream(a)) \in Nat
  BY <1>2, <1>3 DEF Pieces
<1>5. Len(b) <= Len(Stream(a))
  BY <1>2, <1>4
<1>6. z \in Pieces /\ Len(z) = Len(b) /\ xorBytes(z, Stream(a)) = b
  BY <1>2, <1>3, <1>5, XorTwice
<1>7. given = <<a, b>>
  BY <1>1, <1>2
<1> HIDE DEF z
<1>8. Shape(<<a, z>>) /\ Shape(given)
  <2>1. <<a, z>> \in Seq(Pieces) /\ Len(<<a, z>>) = 2
    BY <1>3, <1>6
  <2>2. <<a, z>>[1] = a /\ <<a, z>>[2] = z
    OBVIOUS
  <2>3. \A i \in 1..2 : i = 1 \/ i = 2
    OBVIOUS
  <2>4. \A i \in 1..2 : Len(<<a, z>>[i]) = Len(given[i])
    BY <2>2, <2>3, <1>6
  <2> QED  BY <1>1, <1>2, <2>1, <2>4 DEF Shape
<1>9. CASE turn = "encrypt"
  <2>1. src = given
    BY <1>1, <1>9 DEF CryptInv, Encrypting
  <2>2. d = <<a, z>>
    BY <2>1 DEF z
  <2> QED
    BY <1>1, <1>8, <1>9, <2>2, WholeKeeps DEF z
<1>10. CASE turn = "decrypt"
  <2>1. src = <<a, z>>
    BY <1>1, <1>10 DEF CryptInv, Decrypting, Sealed, z
  <2>2. src[1] = a /\ src[2] = z
    BY <2>1
  <2>3. d = given
    BY <1>6, <1>7, <2>2
  <2> QED
    BY <1>1, <1>8, <1>10, <2>3, WholeKeeps
<1> QED
  BY <1>1, <1>9, <1>10 DEF CryptInv, CryptType

LEMMA TableKeeps == ASSUME CryptInv, simpleXOR PROVE CryptInv'
<1> DEFINE a == given[1]
           z == xorBytes(a, Table)
           d == <<xorBytes(src[1], Table)>>
<1>1. /\ method = "simpleXOR" /\ method \notin BlockMethods /\ turn # "done"
      /\ given \in Seq(Pieces) /\ Finish(d)
  BY GivenType DEF CryptInv, simpleXOR, BlockMethods
<1>2. Len(given) = 1 /\ Table \in Pieces /\ Len(a) <= Len(Table)
  BY <1>1, CryptAssumption DEF CryptInv, CryptType
<1>3. a \in Pieces
  BY <1>1, <1>2, ElementOfSeq
<1>4. z \in Pieces /\ Len(z) = Len(a) /\ xorBytes(z, Table) = a
  BY <1>2, <1>3, XorTwice
<1>5. given = <<a>>
  BY <1>1, <1>2
<1> HIDE DEF z
<1>6. Shape(<<z>>) /\ Shape(given)
  <2>1. <<z>> \in Seq(Pieces) /\ Len(<<z>>) = 1 /\ <<z>>[1] = z
    BY <1>4
  <2>2. \A i \in 1..1 : i = 1
    OBVIOUS
  <2> QED  BY <1>1, <1>2, <1>4, <2>1, <2>2 DEF Shape
<1>7. CASE turn = "encrypt"
  <2>1. src = given
    BY <1>1, <1>7 DEF CryptInv, Encrypting
  <2>2. d = <<z>>
    BY <2>1 DEF z
  <2> QED
    BY <1>1, <1>6, <1>7, <2>2, WholeKeeps DEF z
<1>8. CASE turn = "decrypt"
  <2>1. src = <<z>>
    BY <1>1, <1>8 DEF CryptInv, Decrypting, Sealed, z
  <2>2. d = given
    BY <1>4, <1>5, <2>1
  <2> QED
    BY <1>1, <1>6, <1>8, <2>2, WholeKeeps
<1> QED
  BY <1>1, <1>7, <1>8 DEF CryptInv, CryptType

LEMMA CopyKeeps == ASSUME CryptInv, none PROVE CryptInv'
<1>1. /\ method = "none" /\ method \notin BlockMethods /\ turn # "done"
      /\ given \in Seq(Pieces) /\ Finish(src)
  BY GivenType DEF CryptInv, none, BlockMethods
<1>2. Shape(given)
  BY <1>1 DEF Shape
<1>3. src = given
  BY <1>1 DEF CryptInv, CryptType, Encrypting, Decrypting, Sealed
<1> QED
  BY <1>1, <1>2, <1>3, WholeKeeps

LEMMA CryptSteps == ASSUME CryptInv, [CryptNext]_cryptVars PROVE CryptInv'
<1>1. CASE encrypt8 \/ encrypt16
  BY <1>1, EncryptKeeps, SealKeeps DEF encrypt8, encrypt16, BlockMethods
<1>2. CASE decrypt8 \/ decrypt16
  BY <1>2, DecryptKeeps, PairKeeps, OpenKeeps DEF decrypt8, decrypt16, BlockMethods
<1>3. CASE salsa20 \/ simpleXOR \/ none
  BY <1>3, StreamKeeps, TableKeeps, CopyKeeps
<1>4. CASE UNCHANGED cryptVars
  <2>1. CryptType' /\ Encrypting'
    BY <1>4 DEF cryptVars, CryptInv, CryptType, Encrypting, Shape, Key
  <2>2. Sealed' /\ Decrypted'
    BY <1>4 DEF cryptVars, CryptInv, Sealed, Decrypted, Shape, Key
  <2>3. Decrypting'
    BY <1>4 DEF cryptVars, CryptInv, Decrypting, Key, Rounds, Blocks
  <2> QED  BY <2>1, <2>2, <2>3 DEF CryptInv
<1> QED
  BY <1>1, <1>2, <1>3, <1>4 DEF CryptNext

LEMMA CryptInvariance == CryptSpec => []CryptInv
  BY CryptStart, CryptSteps, PTL DEF CryptSpec

\* For any block cipher, any length of blocks and rounds and any packets, encryption
\* is cipher feedback, in place or not.
THEOREM Feedback == CryptSpec => []CipherFeedback
<1>1. CryptInv => CipherFeedback
  <2> SUFFICES ASSUME CryptInv, method \in BlockMethods PROVE CipherFeedback
    BY DEF CipherFeedback
  <2>1. CASE turn = "encrypt"
    BY <2>1 DEF CryptInv, Encrypting, CipherFeedback
  <2>2. CASE turn # "encrypt"
    BY <2>2 DEF CryptInv, Sealed, CipherFeedback
  <2> QED  BY <2>1, <2>2
<1> QED
  BY <1>1, CryptInvariance, PTL

\* And decryption gives back what was encrypted, with every method.
THEOREM PacketsRestored == CryptSpec => []Restored
<1>1. CryptInv => Restored
  BY DEF CryptInv, Decrypting, Decrypted, Restored
<1> QED
  BY <1>1, CryptInvariance, PTL
=============================================================================
