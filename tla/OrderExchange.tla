---------------------------- MODULE OrderExchange ----------------------------
(***************************************************************************)
(* The report/order exchange between the master and its slaves             *)
(* (kcp-go-master/elevio.go and kcp-go-master/echo.go).                     *)
(*                                                                         *)
(* A slave (SendToMaster) writes a report of its elevator, waits at most   *)
(* two seconds for an answer, hands the answer to its own main loop and     *)
(* starts again.  At the master ReadFromSlave accepts sessions; for each    *)
(* session a HandleConnections goroutine reads a report, passes it on over  *)
(* "receive" and waits 100 ms for an order on "orderChan" before it answers *)
(* with "0"; a relay goroutine moves reports from "receive" to the main     *)
(* loop, which computes an order and posts it on the channel registered for *)
(* the slave's ID.                                                          *)
(*                                                                         *)
(* A report is its number on its session.  An order is the report that      *)
(* triggered it and the kind of its first entry for the slave: a hall-up    *)
(* call (even), a hall-down call (odd) or no entry.  A session is a         *)
(* reliable FIFO in each direction, which is what KCP promises.             *)
(***************************************************************************)
EXTENDS Naturals, Sequences, FiniteSets

CONSTANTS
    Hosts,       \* the IP addresses slaves run on
    Conns,       \* the KCP sessions dialled during a run
    HostOf,      \* the host each session is dialled from
    ReceiveCap,  \* capacity of "receive": 10
    OrderCap,    \* capacity of "orderChan": 10
    ELSLen,      \* length of ELS: 3
    FirstCalls,  \* what the first entry of an order may be
    MaxReports,  \* bound: reports a session sends
    MaxStops,    \* bound: slaves that stop
    MaxErrors    \* bound: handlers that meet a session error

Calls == {"up", "down", "none"}

ASSUME HostsAssumption == IsFiniteSet(Hosts) /\ Cardinality(Hosts) < 100
ASSUME ConnsAssumption == HostOf \in [Conns -> Hosts]
ASSUME CapsAssumption ==
    /\ ReceiveCap \in Nat \ {0} /\ OrderCap \in Nat \ {0}
    /\ ELSLen \in Nat \ {0}
    /\ MaxReports \in Nat /\ MaxStops \in Nat /\ MaxErrors \in Nat
ASSUME CallsAssumption == FirstCalls \subseteq Calls

VARIABLES
    slaveMap,         \* ID of a host, 0 when it has none
    IDCounter,        \* last ID given out
    slaveOrderChans,  \* ID -> session whose orderChan is registered for it
    receive,          \* session -> reports on their way to the relay
    relay,            \* session -> the report the relay goroutine holds
    mainLoop,         \* the report the master's main loop is working on
    orderChan,        \* session -> orders not yet taken by its handler
    handler,          \* session -> where HandleConnections is
    data,             \* session -> number of the last report it read
    response,         \* session -> the answer it is about to write
    panicked,         \* the master process died on ELS[slaveID]
    up, down,         \* session -> reports / answers in flight
    slave,            \* session -> where SendToMaster is
    sent,             \* session -> number of reports written
    answer,           \* session -> the answer being handed to the slave's main
    motorUp,          \* session -> TakeRequest has started the motor upwards
    timedOut,         \* history: session -> rounds answered without an order
    dropped,          \* history: session -> orders skipped, channel full
    gaveUp            \* history: session -> reads the slave abandoned

masterVars == <<slaveMap, IDCounter, slaveOrderChans, receive, relay, mainLoop,
                orderChan, handler, data, response, panicked, timedOut, dropped>>
slaveVars  == <<slave, sent, answer, motorUp, gaveUp>>
vars == <<masterVars, slaveVars, up, down>>

Report == [conn : Conns, n : 1 .. MaxReports]
Order  == [conn : Conns, n : 1 .. MaxReports, first : Calls]

\* "0", sent when no order came in time.
Default == [first |-> "default"]

\* make(chan T, cap): a send goes through while the buffer is not full.
HasRoom(chan, cap) == Len(chan) < cap

-----------------------------------------------------------------------------
Init ==
    /\ slaveMap = [h \in Hosts |-> 0]
    /\ IDCounter = 0
    /\ slaveOrderChans = <<>>
    /\ receive = [c \in Conns |-> <<>>]
    /\ relay = [c \in Conns |-> <<>>]
    /\ mainLoop = <<>>
    /\ orderChan = [c \in Conns |-> <<>>]
    /\ handler = [c \in Conns |-> "none"]
    /\ data = [c \in Conns |-> 0]
    /\ response = [c \in Conns |-> Default]
    /\ panicked = FALSE
    /\ up = [c \in Conns |-> <<>>]
    /\ down = [c \in Conns |-> <<>>]
    /\ slave = [c \in Conns |-> "write"]
    /\ sent = [c \in Conns |-> 0]
    /\ answer = [c \in Conns |-> Default]
    /\ motorUp = [c \in Conns |-> FALSE]
    /\ timedOut = [c \in Conns |-> 0]
    /\ dropped = [c \in Conns |-> 0]
    /\ gaveUp = [c \in Conns |-> 0]

-----------------------------------------------------------------------------
(* SendToMaster, one process per session *)

\* conn.Write of the two packages, then SetReadDeadline.
SlaveWrite(c) ==
    /\ slave[c] = "write"
    /\ sent[c] < MaxReports
    /\ sent' = [sent EXCEPT ![c] = @ + 1]
    /\ up' = [up EXCEPT ![c] = Append(@, sent[c] + 1)]
    /\ slave' = [slave EXCEPT ![c] = "read"]
    /\ UNCHANGED <<masterVars, down, answer, motorUp, gaveUp>>

\* conn.Read finds nothing to return and blocks with its timer armed.
SlaveBlock(c) ==
    /\ slave[c] = "read"
    /\ down[c] = <<>>
    /\ slave' = [slave EXCEPT ![c] = "wait"]
    /\ UNCHANGED <<masterVars, up, down, sent, answer, motorUp, gaveUp>>

SlaveRead(c) ==
    /\ slave[c] \in {"read", "wait"}
    /\ down[c] # <<>>
    /\ answer' = [answer EXCEPT ![c] = Head(down[c])]
    /\ down' = [down EXCEPT ![c] = Tail(@)]
    /\ slave' = [slave EXCEPT ![c] = "hand"]
    /\ UNCHANGED <<masterVars, up, sent, motorUp, gaveUp>>

\* The two seconds are over: "continue", that is, write the next report.  An
\* answer that came in meanwhile stays on the session for the next Read.
SlaveTimeout(c) ==
    /\ slave[c] = "wait"
    /\ slave' = [slave EXCEPT ![c] = "write"]
    /\ gaveUp' = [gaveUp EXCEPT ![c] = @ + 1]
    /\ UNCHANGED <<masterVars, up, down, sent, answer, motorUp>>

\* receiver <- answer: the slave's main loop takes it and runs TakeRequest,
\* which starts the motor upwards on every even value, "0" included.
SlaveTakeRequest(c) ==
    /\ slave[c] = "hand"
    /\ LET even == answer[c].first \in {"up", "none", "default"}
       IN motorUp' = [motorUp EXCEPT ![c] = @ \/ even]
    /\ answer' = [answer EXCEPT ![c] = Default]
    /\ slave' = [slave EXCEPT ![c] = "write"]
    /\ UNCHANGED <<masterVars, up, down, sent, gaveUp>>

\* The slave's process ends, or its Write fails and SendToMaster returns.
\* Reports not yet acknowledged by the peer are lost with the process.
SlaveStop(c) ==
    /\ slave[c] # "dead"
    /\ Cardinality({d \in Conns : slave[d] = "dead"}) < MaxStops
    /\ slave' = [slave EXCEPT ![c] = "dead"]
    /\ \E k \in 0 .. Len(up[c]) : up' = [up EXCEPT ![c] = SubSeq(@, 1, k)]
    /\ UNCHANGED <<masterVars, down, sent, answer, motorUp, gaveUp>>

-----------------------------------------------------------------------------
(* ReadFromSlave: accept, give the host an ID, register the order channel.  *)
(* The listener makes a session out of the first packet of a new address.   *)

NewHost_Always(host) == TRUE

\* id, exists := slaveMap[host]
NewHost(host) == slaveMap[host] = 0

Accept(c) ==
    /\ ~panicked
    /\ handler[c] = "none"
    /\ up[c] # <<>>
    /\ LET host == HostOf[c]
           new  == NewHost(host)
           id   == IF new THEN IDCounter + 1 ELSE slaveMap[host]
       IN /\ IDCounter' = IF new THEN IDCounter + 1 ELSE IDCounter
          /\ slaveMap' = [slaveMap EXCEPT ![host] = id]
          /\ slaveOrderChans' =
                [i \in DOMAIN slaveOrderChans \cup {id} |->
                    IF i = id THEN c ELSE slaveOrderChans[i]]
    /\ handler' = [handler EXCEPT ![c] = "read"]
    /\ UNCHANGED <<receive, relay, mainLoop, orderChan, data, response, panicked,
                   timedOut, dropped, slaveVars, up, down>>

-----------------------------------------------------------------------------
(* HandleConnections, one goroutine per accepted session *)

HandlerRead(c) ==
    /\ ~panicked
    /\ handler[c] = "read"
    /\ up[c] # <<>>
    /\ data' = [data EXCEPT ![c] = Head(up[c])]
    /\ up' = [up EXCEPT ![c] = Tail(@)]
    /\ handler' = [handler EXCEPT ![c] = "enqueue"]
    /\ UNCHANGED <<slaveMap, IDCounter, slaveOrderChans, receive, relay, mainLoop,
                   orderChan, response, panicked, timedOut, dropped, slaveVars, down>>

\* A send that gives up when "receive" is full.
HandlerEnqueue_NonBlocking(c) ==
    /\ ~panicked
    /\ handler[c] = "enqueue"
    /\ receive' = IF HasRoom(receive[c], ReceiveCap)
                  THEN [receive EXCEPT ![c] = Append(@, data[c])] ELSE receive
    /\ handler' = [handler EXCEPT ![c] = "select"]
    /\ UNCHANGED <<slaveMap, IDCounter, slaveOrderChans, relay, mainLoop, orderChan,
                   data, response, panicked, timedOut, dropped, slaveVars, up, down>>

\* receive <- data
HandlerEnqueue(c) ==
    /\ ~panicked
    /\ handler[c] = "enqueue"
    /\ HasRoom(receive[c], ReceiveCap)
    /\ receive' = [receive EXCEPT ![c] = Append(@, data[c])]
    /\ handler' = [handler EXCEPT ![c] = "select"]
    /\ UNCHANGED <<slaveMap, IDCounter, slaveOrderChans, relay, mainLoop, orderChan,
                   data, response, panicked, timedOut, dropped, slaveVars, up, down>>

\* The order stays in the channel.
HandlerOrder_Peek(c) ==
    /\ ~panicked
    /\ handler[c] = "select"
    /\ orderChan[c] # <<>>
    /\ response' = [response EXCEPT ![c] = Head(orderChan[c])]
    /\ handler' = [handler EXCEPT ![c] = "write"]
    /\ UNCHANGED <<slaveMap, IDCounter, slaveOrderChans, receive, relay, mainLoop,
                   orderChan, data, panicked, timedOut, dropped, slaveVars, up, down>>

\* case masterOrder := <-orderChan
HandlerOrder(c) ==
    /\ ~panicked
    /\ handler[c] = "select"
    /\ orderChan[c] # <<>>
    /\ response' = [response EXCEPT ![c] = Head(orderChan[c])]
    /\ orderChan' = [orderChan EXCEPT ![c] = Tail(@)]
    /\ handler' = [handler EXCEPT ![c] = "write"]
    /\ UNCHANGED <<slaveMap, IDCounter, slaveOrderChans, receive, relay, mainLoop,
                   data, panicked, timedOut, dropped, slaveVars, up, down>>

\* After the timeout the next report is read, without an answer.
HandlerTimeout_NoAnswer(c) ==
    /\ ~panicked
    /\ handler[c] = "select"
    /\ orderChan[c] = <<>>
    /\ timedOut' = [timedOut EXCEPT ![c] = @ + 1]
    /\ handler' = [handler EXCEPT ![c] = "read"]
    /\ UNCHANGED <<slaveMap, IDCounter, slaveOrderChans, receive, relay, mainLoop,
                   orderChan, data, response, panicked, dropped, slaveVars, up, down>>

\* case <-time.After(100 ms): possible only while no order is there.
HandlerTimeout(c) ==
    /\ ~panicked
    /\ handler[c] = "select"
    /\ orderChan[c] = <<>>
    /\ response' = [response EXCEPT ![c] = Default]
    /\ timedOut' = [timedOut EXCEPT ![c] = @ + 1]
    /\ handler' = [handler EXCEPT ![c] = "write"]
    /\ UNCHANGED <<slaveMap, IDCounter, slaveOrderChans, receive, relay, mainLoop,
                   orderChan, data, panicked, dropped, slaveVars, up, down>>

HandlerWrite(c) ==
    /\ ~panicked
    /\ handler[c] = "write"
    /\ down' = [down EXCEPT ![c] = Append(@, response[c])]
    /\ response' = [response EXCEPT ![c] = Default]
    /\ handler' = [handler EXCEPT ![c] = "read"]
    /\ UNCHANGED <<slaveMap, IDCounter, slaveOrderChans, receive, relay, mainLoop,
                   orderChan, data, panicked, timedOut, dropped, slaveVars, up>>

\* Read or Write returns an error: the handler returns, everything it created
\* stays registered.
HandlerReturn(c) ==
    /\ ~panicked
    /\ handler[c] \in {"read", "write"}
    /\ Cardinality({d \in Conns : handler[d] = "done"}) < MaxErrors
    /\ handler' = [handler EXCEPT ![c] = "done"]
    /\ UNCHANGED <<slaveMap, IDCounter, slaveOrderChans, receive, relay, mainLoop,
                   orderChan, data, response, panicked, timedOut, dropped,
                   slaveVars, up, down>>

-----------------------------------------------------------------------------
(* The relay goroutine and the master's main loop *)

\* Mutant: the relay goroutine ends after the first report.
RelayTake_Once(c) ==
    /\ ~panicked
    /\ relay[c] = <<>>
    /\ receive[c] # <<>> /\ Head(receive[c]) = 1
    /\ relay' = [relay EXCEPT ![c] = <<Head(receive[c])>>]
    /\ receive' = [receive EXCEPT ![c] = Tail(@)]
    /\ UNCHANGED <<slaveMap, IDCounter, slaveOrderChans, mainLoop, orderChan, handler,
                   data, response, panicked, timedOut, dropped, slaveVars, up, down>>

\* for data := range receive
RelayTake(c) ==
    /\ ~panicked
    /\ relay[c] = <<>>
    /\ receive[c] # <<>>
    /\ relay' = [relay EXCEPT ![c] = <<Head(receive[c])>>]
    /\ receive' = [receive EXCEPT ![c] = Tail(@)]
    /\ UNCHANGED <<slaveMap, IDCounter, slaveOrderChans, mainLoop, orderChan, handler,
                   data, response, panicked, timedOut, dropped, slaveVars, up, down>>

\* receiver <- data + id meets "case a := <-Read" of the main loop.
MainReceive(c) ==
    /\ ~panicked
    /\ mainLoop = <<>>
    /\ relay[c] # <<>>
    /\ mainLoop' = <<[conn |-> c, n |-> Head(relay[c])]>>
    /\ relay' = [relay EXCEPT ![c] = <<>>]
    /\ UNCHANGED <<slaveMap, IDCounter, slaveOrderChans, receive, orderChan, handler,
                   data, response, panicked, timedOut, dropped, slaveVars, up, down>>

\* Another position of the message, where every host has the same digit.
FirstDigit_WrongPosition(id) == 1

\* a[16]: the first digit of the decimal ID the relay appended.
FirstDigit(id) == IF id < 10 THEN id ELSE id \div 10

MainSlaveID == FirstDigit(slaveMap[HostOf[mainLoop[1].conn]])

\* ELS[slaveID] = MakeElevator(a) with slaveID out of range.
MainPanic ==
    /\ ~panicked
    /\ mainLoop # <<>>
    /\ MainSlaveID >= ELSLen
    /\ panicked' = TRUE
    /\ UNCHANGED <<slaveMap, IDCounter, slaveOrderChans, receive, relay, mainLoop,
                   orderChan, handler, data, response, timedOut, dropped,
                   slaveVars, up, down>>

\* MakeRequest, then a send on the registered channel that never blocks.
MainDispatch ==
    /\ ~panicked
    /\ mainLoop # <<>>
    /\ MainSlaveID < ELSLen
    /\ mainLoop' = <<>>
    /\ IF MainSlaveID \in DOMAIN slaveOrderChans
       THEN LET ch == slaveOrderChans[MainSlaveID]
            IN IF HasRoom(orderChan[ch], OrderCap)
               THEN /\ \E first \in FirstCalls :
                          orderChan' = [orderChan EXCEPT ![ch] =
                              Append(@, [conn |-> mainLoop[1].conn,
                                         n |-> mainLoop[1].n, first |-> first])]
                    /\ UNCHANGED dropped
               ELSE /\ dropped' = [dropped EXCEPT ![ch] = @ + 1]
                    /\ UNCHANGED orderChan
       ELSE UNCHANGED <<orderChan, dropped>>
    /\ UNCHANGED <<slaveMap, IDCounter, slaveOrderChans, receive, relay, handler,
                   data, response, panicked, timedOut, slaveVars, up, down>>

-----------------------------------------------------------------------------
SendToMaster(c) ==
    \/ SlaveWrite(c) \/ SlaveBlock(c) \/ SlaveRead(c)
    \/ SlaveTimeout(c) \/ SlaveTakeRequest(c) \/ SlaveStop(c)

HandleConnections(c) ==
    \/ HandlerRead(c) \/ HandlerEnqueue(c) \/ HandlerOrder(c)
    \/ HandlerTimeout(c) \/ HandlerWrite(c) \/ HandlerReturn(c)

Next ==
    \/ \E c \in Conns :
          \/ SendToMaster(c) \/ Accept(c) \/ HandleConnections(c)
          \/ RelayTake(c) \/ MainReceive(c)
    \/ MainPanic
    \/ MainDispatch

Spec == Init /\ [][Next]_vars

\* The Go scheduler runs every goroutine that can go on, and the main loop's
\* select picks each ready relay sooner or later.
Fairness ==
    /\ WF_vars(MainPanic \/ MainDispatch)
    /\ \A c \in Conns :
          /\ WF_vars(Accept(c))
          /\ WF_vars(HandlerRead(c) \/ HandlerEnqueue(c) \/ HandlerOrder(c)
                     \/ HandlerTimeout(c) \/ HandlerWrite(c))
          /\ WF_vars(RelayTake(c))
          /\ SF_vars(MainReceive(c))

FairSpec == Spec /\ Fairness

-----------------------------------------------------------------------------
(* Properties *)

IDType ==
    /\ slaveMap \in [Hosts -> Nat]
    /\ IDCounter \in Nat
    /\ DOMAIN slaveOrderChans \subseteq 1 .. IDCounter
    /\ slaveOrderChans \in [DOMAIN slaveOrderChans -> Conns]

PipelineType ==
    /\ receive \in [Conns -> Seq(1 .. MaxReports)]
    /\ relay \in [Conns -> Seq(1 .. MaxReports)]
    /\ mainLoop \in Seq(Report)
    /\ orderChan \in [Conns -> Seq(Order)]
    /\ Len(mainLoop) <= 1
    /\ \A c \in Conns :
          /\ Len(relay[c]) <= 1
          /\ Len(receive[c]) <= ReceiveCap
          /\ Len(orderChan[c]) <= OrderCap

HandlerType ==
    /\ handler \in [Conns -> {"none", "read", "enqueue", "select", "write", "done"}]
    /\ data \in [Conns -> 0 .. MaxReports]
    /\ \A c \in Conns : handler[c] = "enqueue" => data[c] # 0
    /\ response \in [Conns -> Order \cup {Default}]
    /\ panicked \in BOOLEAN

SessionType ==
    /\ up \in [Conns -> Seq(1 .. MaxReports)]
    /\ down \in [Conns -> Seq(Order \cup {Default})]

SlaveType ==
    /\ slave \in [Conns -> {"write", "read", "wait", "hand", "dead"}]
    /\ sent \in [Conns -> 0 .. MaxReports]
    /\ answer \in [Conns -> Order \cup {Default}]
    /\ motorUp \in [Conns -> BOOLEAN]

HistoryType ==
    /\ timedOut \in [Conns -> Nat]
    /\ dropped \in [Conns -> Nat]
    /\ gaveUp \in [Conns -> Nat]

\* Every variable keeps its type; the queues keep to the channels' capacities.
TypeOK ==
    /\ IDType /\ PipelineType /\ HandlerType
    /\ SessionType /\ SlaveType /\ HistoryType

Items(s) == {s[i] : i \in 1 .. Len(s)}

\* Answers on their way to the slave of session c, wherever they are.
AnswersToward(c) ==
    Items(orderChan[c]) \cup {response[c]} \cup Items(down[c]) \cup {answer[c]}

\* The channel of session c is the one registered for its host's ID.
Current(c) == \E id \in DOMAIN slaveOrderChans : slaveOrderChans[id] = c

\* "slaveMap": an ID stands for one host.  An order that reaches a slave was
\* computed for a report from the slave's own host, whatever sessions come, go and
\* are replaced meanwhile; and it was for a report of that very session, unless the
\* session that sent the report has been replaced by a later one of the host.
OrderIsolation ==
    \A c \in Conns : \A a \in AnswersToward(c) :
        a # Default => /\ HostOf[a.conn] = HostOf[c]
                       /\ Current(a.conn) => a.conn = c

\* "Send the order to the specific slave's dedicated channel" (echo.go:59): the
\* orders in a session's channel are for reports of that session.
DedicatedChannel ==
    \A c \in Conns : \A i \in 1 .. Len(orderChan[c]) : orderChan[c][i].conn = c

\* The hosts ReadFromSlave has given an ID.
Identified == {h \in Hosts : slaveMap[h] # 0}

\* The master dies on "ELS[slaveID]" only after ELSLen hosts have connected:
\* no restart, reconnect or error of fewer hosts ever makes an ID too large.
PanicOnlyByCrowd ==
    panicked => Cardinality(Identified) >= ELSLen

\* The host of session c dials no other session.
Sole(c) == \A d \in Conns : HostOf[d] = HostOf[c] => d = c

\* The order HandleConnections takes is that of the report it has just read only
\* if it never timed out before: each timeout leaves an order behind in
\* "orderChan", and from then on every answer is as many reports old as rounds
\* timed out (less the orders skipped because the channel was full).
AnswerLag ==
    \A c \in Conns :
        Sole(c) /\ handler[c] = "write" /\ response[c] # Default =>
            /\ response[c].n <= data[c]
            /\ data[c] - response[c].n <= timedOut[c]
            /\ dropped[c] = 0 => data[c] - response[c].n = timedOut[c]

\* SendToMaster takes the next answer on the session for the answer to the report
\* it sent last.  Reports unanswered plus answers unread are exactly the reads it
\* gave up plus the one it waits in: after one timeout the slave stays one
\* answer behind for good, and no report is answered twice or not at all.
OneAnswerPerReport ==
    \A c \in Conns :
        slave[c] # "dead" /\ handler[c] # "done" =>
            Len(up[c]) + Len(down[c])
              + (IF handler[c] \in {"enqueue", "select", "write"} THEN 1 ELSE 0)
            = gaveUp[c] + (IF slave[c] \in {"read", "wait"} THEN 1 ELSE 0)

\* Orders produced for c and neither taken by its handler nor skipped, and
\* reports that will still produce one.
Backlog(c) ==
    Len(receive[c]) + Len(relay[c]) + Len(orderChan[c])
      + (IF mainLoop # <<>> /\ mainLoop[1].conn = c THEN 1 ELSE 0)

\* HandleConnections takes at most one order per report, so what a timeout leaves
\* in the pipeline is never caught up: the backlog of a session is the number of
\* its timeouts, less the orders skipped, from the first timeout to the end.
BacklogNeverDrains ==
    \A c \in Conns :
        Sole(c) => Backlog(c) + dropped[c]
                     = timedOut[c] + (IF handler[c] = "select" THEN 1 ELSE 0)

\* A report that reaches a living master on a session without errors is answered,
\* with an order or with the default, even if the slave has long given up.
ReportsAnswered ==
    \A c \in Conns : \A k \in 1 .. MaxReports :
        (sent[c] >= k) ~>
            \/ data[c] >= k /\ handler[c] = "read"
            \/ handler[c] = "done" \/ slave[c] = "dead" \/ panicked
=============================================================================
