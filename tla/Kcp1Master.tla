----------------------------- MODULE Kcp1Master -----------------------------
(***************************************************************************)
(* The master side of kcp1 and kcp2 (kcp1/elevio.go, kcp1/echo.go; kcp2 has  *)
(* the same code).  ReadFromSlave accepts a session, starts its handler and  *)
(* then passes on what that handler reads, itself, until the handler's       *)
(* channel is closed - which nothing does.                                   *)
(*                                                                         *)
(* The slaves run SendToMaster: write a report, wait two seconds for an      *)
(* answer, start again.  A session is a reliable FIFO in each direction.     *)
(***************************************************************************)
EXTENDS Naturals, Sequences, FiniteSets

CONSTANTS
    Conns,       \* the KCP sessions dialled
    MaxReports,  \* bound: reports a session sends
    MaxBreaks    \* bound: sessions whose socket fails

ASSUME ConnsAssumption == IsFiniteSet(Conns)
ASSUME ReportsAssumption == MaxReports \in Nat /\ MaxBreaks \in Nat

VARIABLES
    chAccepts,  \* the listener's sessions not yet accepted, oldest first
    accepted,   \* sessions AcceptKCP has returned
    relay,      \* <<>>, or <<c>>: ReadFromSlave ranges over the channel of c
    handler,    \* session -> where HandleConnections is
    reader,     \* "receiver <- data": <<>> or the session whose report waits
    up, down,   \* session -> messages in flight
    deaf,       \* sessions no packet reaches any more: Read fails once drained
    mute,       \* sessions whose Write fails
    slave,      \* session -> where SendToMaster is
    sent,       \* session -> reports written
    answered,   \* history: session -> answers received
    spins       \* history: sessions whose handler went round on an error

masterVars == <<chAccepts, accepted, relay, handler, reader, up, down, deaf, mute,
                slave, sent, answered, spins>>

MasterInit ==
    /\ chAccepts = <<>>
    /\ accepted = {}
    /\ relay = <<>>
    /\ handler = [c \in Conns |-> "none"]
    /\ reader = <<>>
    /\ up = [c \in Conns |-> 0]
    /\ down = [c \in Conns |-> 0]
    /\ deaf = {} /\ mute = {}
    /\ slave = [c \in Conns |-> "write"]
    /\ sent = [c \in Conns |-> 0]
    /\ answered = [c \in Conns |-> 0]
    /\ spins = {}

-----------------------------------------------------------------------------
(* SendToMaster.  The listener makes a session of a first packet. *)

SlaveWrite(c) ==
    /\ slave[c] = "write"
    /\ sent[c] < MaxReports
    /\ sent' = [sent EXCEPT ![c] = @ + 1]
    /\ up' = IF c \in deaf THEN up ELSE [up EXCEPT ![c] = @ + 1]
    /\ chAccepts' = IF sent[c] = 0 /\ c \notin deaf THEN Append(chAccepts, c) ELSE chAccepts
    /\ slave' = [slave EXCEPT ![c] = "read"]
    /\ UNCHANGED <<accepted, relay, handler, reader, down, deaf, mute, answered, spins>>

SlaveRead(c) ==
    /\ slave[c] = "read"
    /\ down[c] > 0
    /\ down' = [down EXCEPT ![c] = @ - 1]
    /\ answered' = [answered EXCEPT ![c] = @ + 1]
    /\ slave' = [slave EXCEPT ![c] = "write"]
    /\ UNCHANGED <<chAccepts, accepted, relay, handler, reader, up, deaf, mute,
                   sent, spins>>

SlaveTimeout(c) ==
    /\ slave[c] = "read"
    /\ down[c] = 0
    /\ slave' = [slave EXCEPT ![c] = "write"]
    /\ UNCHANGED <<chAccepts, accepted, relay, handler, reader, up, down, deaf, mute,
                   sent, answered, spins>>

-----------------------------------------------------------------------------
(* ReadFromSlave *)

\* The reports of a session are passed on by a goroutine of its own.
Accept_Concurrent ==
    /\ chAccepts # <<>>
    /\ relay' = <<Head(chAccepts)>>
    /\ chAccepts' = Tail(chAccepts)
    /\ accepted' = accepted \cup {Head(chAccepts)}
    /\ handler' = [handler EXCEPT ![Head(chAccepts)] = "read"]
    /\ UNCHANGED <<reader, up, down, deaf, mute, slave,
                   sent, answered, spins>>

\* The range loop is entered before the handler is started.
Accept_LoopFirst ==
    /\ relay = <<>>
    /\ chAccepts # <<>>
    /\ relay' = <<Head(chAccepts)>>
    /\ chAccepts' = Tail(chAccepts)
    /\ accepted' = accepted \cup {Head(chAccepts)}
    /\ UNCHANGED <<handler, reader, up, down, deaf, mute, slave, sent, answered, spins>>

\* AcceptKCP, then "go HandleConnections", then the range loop begins.
Accept ==
    /\ relay = <<>>
    /\ chAccepts # <<>>
    /\ relay' = <<Head(chAccepts)>>
    /\ chAccepts' = Tail(chAccepts)
    /\ accepted' = accepted \cup {Head(chAccepts)}
    /\ handler' = [handler EXCEPT ![Head(chAccepts)] = "read"]
    /\ UNCHANGED <<reader, up, down, deaf, mute, slave,
                   sent, answered, spins>>

\* for data := range receive: the handler's send and the loop's receive meet.
RelayTake(c) ==
    /\ relay = <<c>>
    /\ reader = <<>>
    /\ handler[c] = "send"
    /\ reader' = <<c>>
    /\ handler' = [handler EXCEPT ![c] = "write"]
    /\ UNCHANGED <<chAccepts, accepted, relay, up, down, deaf, mute, slave,
                   sent, answered, spins>>

\* receiver <- data: the main loop prints it.
MainRead ==
    /\ reader # <<>>
    /\ reader' = <<>>
    /\ UNCHANGED <<chAccepts, accepted, relay, handler, up, down, deaf, mute, slave,
                   sent, answered, spins>>

-----------------------------------------------------------------------------
(* HandleConnections *)

HandlerRead(c) ==
    /\ handler[c] = "read"
    /\ up[c] > 0
    /\ up' = [up EXCEPT ![c] = @ - 1]
    /\ handler' = [handler EXCEPT ![c] = "send"]
    /\ UNCHANGED <<chAccepts, accepted, relay, reader, down, deaf, mute, slave, sent,
                   answered, spins>>

\* No error of a KCP session is io.EOF, so every one means "continue // Don't exit
\* on minor errors": the loop reads again.
HandlerReadError(c) ==
    /\ handler[c] = "read"
    /\ up[c] = 0 /\ c \in deaf
    /\ spins' = spins \cup {c}
    /\ UNCHANGED <<chAccepts, accepted, relay, handler, reader, up, down, deaf, mute,
                   slave, sent, answered>>

HandlerWrite(c) ==
    /\ handler[c] = "write"
    /\ c \notin mute
    /\ down' = [down EXCEPT ![c] = @ + 1]
    /\ handler' = [handler EXCEPT ![c] = "read"]
    /\ UNCHANGED <<chAccepts, accepted, relay, reader, up, deaf, mute, slave, sent,
                   answered, spins>>

\* conn.Write fails: the handler returns, its channel stays open.
HandlerReturn(c) ==
    /\ handler[c] = "write"
    /\ c \in mute
    /\ handler' = [handler EXCEPT ![c] = "done"]
    /\ UNCHANGED <<chAccepts, accepted, relay, reader, up, down, deaf, mute, slave, sent,
                   answered, spins>>

-----------------------------------------------------------------------------
(* The KCP sessions (external) *)

\* Reading the listener's socket failed: what has arrived can still be read.
BreakRead(c) ==
    /\ c \notin deaf
    /\ Cardinality(deaf \cup mute) < MaxBreaks
    /\ deaf' = deaf \cup {c}
    /\ \E k \in 0 .. up[c] : up' = [up EXCEPT ![c] = k]
    /\ UNCHANGED <<chAccepts, accepted, relay, handler, reader, down, mute, slave, sent,
                   answered, spins>>

\* Writing to it failed.
BreakWrite(c) ==
    /\ c \notin mute
    /\ Cardinality(deaf \cup mute) < MaxBreaks
    /\ mute' = mute \cup {c}
    /\ UNCHANGED <<chAccepts, accepted, relay, handler, reader, up, down, deaf, slave,
                   sent, answered, spins>>

-----------------------------------------------------------------------------
MasterNext ==
    \/ \E c \in Conns :
          \/ SlaveWrite(c) \/ SlaveRead(c) \/ SlaveTimeout(c)
          \/ RelayTake(c)
          \/ HandlerRead(c) \/ HandlerReadError(c) \/ HandlerWrite(c) \/ HandlerReturn(c)
          \/ BreakRead(c) \/ BreakWrite(c)
    \/ Accept
    \/ MainRead

MasterSpec == MasterInit /\ [][MasterNext]_masterVars

\* The Go scheduler runs every goroutine that can go on; slaves keep reporting.
MasterFairness ==
    /\ WF_masterVars(Accept) /\ WF_masterVars(MainRead)
    /\ \A c \in Conns :
          /\ WF_masterVars(SlaveWrite(c)) /\ WF_masterVars(SlaveRead(c))
          /\ WF_masterVars(SlaveTimeout(c))
          /\ WF_masterVars(RelayTake(c))
          /\ WF_masterVars(HandlerRead(c)) /\ WF_masterVars(HandlerReadError(c))
          /\ WF_masterVars(HandlerWrite(c) \/ HandlerReturn(c))

MasterFairSpec == MasterSpec /\ MasterFairness

-----------------------------------------------------------------------------
(* Properties *)

MasterTypeOK ==
    /\ chAccepts \in Seq(Conns) /\ accepted \subseteq Conns
    /\ relay \in {<<>>} \cup {<<c>> : c \in Conns}
    /\ reader \in {<<>>} \cup {<<c>> : c \in Conns}
    /\ handler \in [Conns -> {"none", "read", "send", "write", "done"}]
    /\ up \in [Conns -> 0 .. MaxReports] /\ down \in [Conns -> 0 .. MaxReports]
    /\ deaf \subseteq Conns /\ mute \subseteq Conns /\ spins \subseteq Conns
    /\ slave \in [Conns -> {"write", "read"}]
    /\ sent \in [Conns -> 0 .. MaxReports]
    /\ answered \in [Conns -> 0 .. MaxReports]

\* Only one slave is ever served: the accept loop is stuck in the range loop of the
\* first session, also when that session broke or its handler returned.
OnlyFirstServed == Cardinality({c \in Conns : answered[c] > 0 \/ down[c] > 0}) <= 1

\* A handler answers only what it read: answers written are never more than
\* reports taken from the session, even when reads start to fail.
AnswersFollowReports ==
    \A c \in Conns :
        answered[c] + down[c] + up[c]
          + (IF handler[c] \in {"send", "write"} THEN 1 ELSE 0) <= sent[c]

\* The first slave is answered, unless its session breaks before: then its handler
\* has failed to write, or goes round on the read error for ever.
FirstServed ==
    \A c \in Conns :
        (relay = <<c>>) ~> (answered[c] + down[c] > 0 \/ c \in mute \/ c \in spins)
=============================================================================
