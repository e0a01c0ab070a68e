------------------------- MODULE OrderExchangeProofs -------------------------
(***************************************************************************)
(* Theorems about OrderExchange, for every set of hosts and sessions and    *)
(* every capacity.                                                          *)
(***************************************************************************)
EXTENDS OrderExchange, FiniteSetTheorems, SequenceTheorems, TLAPS

\* IDs are handed out one by one: each host with an ID has one of 1 .. IDCounter.
IDsGiven ==
    /\ \A h \in Hosts : slaveMap[h] <= IDCounter
    /\ IDCounter = Cardinality(Identified)

TypeInv == TypeOK /\ IDsGiven

-----------------------------------------------------------------------------
(* Types *)

LEMMA InitType == Init => TypeInv
<1> SUFFICES ASSUME Init PROVE TypeInv
    OBVIOUS
<1> USE CapsAssumption, ConnsAssumption DEF Init
<1>1. IDType
  BY DEF IDType
<1>2. PipelineType
  BY DEF PipelineType
<1>3. HandlerType
  <2>1. data \in [Conns -> 0 .. MaxReports]
    OBVIOUS
  <2>3. panicked \in BOOLEAN
    OBVIOUS
  <2>2. response \in [Conns -> Order \cup {Default}]
    OBVIOUS
  <2> QED
    BY <2>1, <2>2, <2>3 DEF HandlerType
<1>9. SessionType
  BY DEF SessionType
<1>7. SlaveType
  BY DEF SlaveType
<1>8. HistoryType
  BY DEF HistoryType
<1>4. Identified = {}
  BY DEF Identified
<1>5. Cardinality(Identified) = 0
  BY <1>4, FS_EmptySet
<1>6. IDsGiven
  BY <1>5 DEF IDsGiven
<1> QED
  BY <1>1, <1>2, <1>3, <1>6, <1>7, <1>8, <1>9 DEF TypeInv, TypeOK

\* What ReadFromSlave does to the IDs: a host that has one keeps it, a new host
\* gets the next.
LEMMA AcceptIDs ==
    ASSUME TypeInv, NEW c \in Conns, Accept(c)
    PROVE  IDType' /\ IDsGiven'
<1> DEFINE host == HostOf[c]
<1>1. host \in Hosts /\ IDType /\ IDCounter = Cardinality(Identified)
      /\ slaveMap[host] <= IDCounter
  BY ConnsAssumption DEF TypeInv, TypeOK, IDsGiven
<1>2. IsFiniteSet(Identified)
  BY HostsAssumption, FS_Subset DEF Identified
<1>3. CASE slaveMap[host] = 0
  <2>1. /\ slaveMap' = [slaveMap EXCEPT ![host] = IDCounter + 1]
        /\ IDCounter' = IDCounter + 1
        /\ slaveOrderChans' = [i \in DOMAIN slaveOrderChans \cup {IDCounter + 1} |->
                                  IF i = IDCounter + 1 THEN c ELSE slaveOrderChans[i]]
    BY <1>3 DEF Accept, NewHost
  <2>2. IDType'
    BY <1>1, <2>1 DEF IDType
  <2>3. Identified' = Identified \cup {host} /\ host \notin Identified
    BY <1>1, <1>3, <2>1 DEF Identified, IDType
  <2>4. Cardinality(Identified') = Cardinality(Identified) + 1
    BY <1>2, <2>3, FS_AddElement
  <2>5. \A h \in Hosts : slaveMap'[h] <= IDCounter'
    BY <1>1, <2>1 DEF IDType, TypeInv, IDsGiven
  <2> QED
    BY <1>1, <2>1, <2>2, <2>4, <2>5 DEF IDsGiven
<1>4. CASE slaveMap[host] # 0
  <2>1. /\ slaveMap' = slaveMap /\ IDCounter' = IDCounter
        /\ slaveOrderChans' = [i \in DOMAIN slaveOrderChans \cup {slaveMap[host]} |->
                                  IF i = slaveMap[host] THEN c ELSE slaveOrderChans[i]]
    BY <1>1, <1>4 DEF Accept, NewHost, IDType
  <2>2. slaveMap[host] \in 1 .. IDCounter
    BY <1>1, <1>4 DEF IDType
  <2>3. IDType'
    BY <1>1, <2>1, <2>2 DEF IDType
  <2> QED
    BY <2>1, <2>3 DEF TypeInv, IDsGiven, Identified
<1> QED
  BY <1>1, <1>3, <1>4

\* A counter per session stays one when a session's is raised.
LEMMA Raised ==
    ASSUME NEW f \in [Conns -> Nat], NEW c \in Conns
    PROVE  [f EXCEPT ![c] = @ + 1] \in [Conns -> Nat]
  OBVIOUS

LEMMA NextType == TypeInv /\ [Next]_vars => TypeInv'
<1> SUFFICES ASSUME TypeInv, [Next]_vars PROVE TypeInv'
    OBVIOUS
<1> USE CapsAssumption, ConnsAssumption
<1>1. ASSUME NEW c \in Conns, SlaveWrite(c) PROVE TypeInv'
  <2>1. SessionType'
    BY <1>1 DEF SlaveWrite, TypeInv, TypeOK, SessionType, SlaveType
  <2>2. SlaveType'
    BY <1>1 DEF SlaveWrite, TypeInv, TypeOK, SlaveType
  <2>3. IDType' /\ PipelineType' /\ HandlerType' /\ HistoryType' /\ IDsGiven'
    BY <1>1 DEF SlaveWrite, masterVars, TypeInv, TypeOK, IDsGiven, Identified,
       IDType, PipelineType, HandlerType, HistoryType
  <2> QED
    BY <2>1, <2>2, <2>3 DEF TypeInv, TypeOK
<1>2. ASSUME NEW c \in Conns, SlaveBlock(c) PROVE TypeInv'
  <2>1. SlaveType'
    BY <1>2 DEF SlaveBlock, TypeInv, TypeOK, SlaveType
  <2>2. IDType' /\ PipelineType' /\ HandlerType' /\ SessionType' /\ HistoryType' /\ IDsGiven'
    BY <1>2 DEF SlaveBlock, masterVars, TypeInv, TypeOK, IDsGiven, Identified,
       IDType, PipelineType, HandlerType, SessionType, HistoryType
  <2> QED
    BY <2>1, <2>2 DEF TypeInv, TypeOK
<1>3. ASSUME NEW c \in Conns, SlaveRead(c) PROVE TypeInv'
  <2>1. SessionType'
    BY <1>3 DEF SlaveRead, TypeInv, TypeOK, SessionType
  <2>2. SlaveType'
    BY <1>3 DEF SlaveRead, TypeInv, TypeOK, SlaveType, SessionType
  <2>3. IDType' /\ PipelineType' /\ HandlerType' /\ HistoryType' /\ IDsGiven'
    BY <1>3 DEF SlaveRead, masterVars, TypeInv, TypeOK, IDsGiven, Identified,
       IDType, PipelineType, HandlerType, HistoryType
  <2> QED
    BY <2>1, <2>2, <2>3 DEF TypeInv, TypeOK
<1>4. ASSUME NEW c \in Conns, SlaveTimeout(c) PROVE TypeInv'
  <2>1. SlaveType'
    BY <1>4 DEF SlaveTimeout, TypeInv, TypeOK, SlaveType
  <2>2. HistoryType'
    <3>1. gaveUp \in [Conns -> Nat]
      BY DEF TypeInv, TypeOK, HistoryType
    <3>2. gaveUp' \in [Conns -> Nat]
      BY <1>4, <3>1, Raised DEF SlaveTimeout
    <3> QED
      BY <1>4, <3>2 DEF SlaveTimeout, TypeInv, TypeOK, HistoryType, masterVars, slaveVars
  <2>3. IDType' /\ PipelineType' /\ HandlerType' /\ SessionType' /\ IDsGiven'
    BY <1>4 DEF SlaveTimeout, masterVars, TypeInv, TypeOK, IDsGiven, Identified,
       IDType, PipelineType, HandlerType, SessionType
  <2> QED
    BY <2>1, <2>2, <2>3 DEF TypeInv, TypeOK
<1>5. ASSUME NEW c \in Conns, SlaveTakeRequest(c) PROVE TypeInv'
  <2>1. SlaveType'
    BY <1>5 DEF SlaveTakeRequest, TypeInv, TypeOK, SlaveType
  <2>2. IDType' /\ PipelineType' /\ HandlerType' /\ SessionType' /\ HistoryType' /\ IDsGiven'
    BY <1>5 DEF SlaveTakeRequest, masterVars, TypeInv, TypeOK, IDsGiven, Identified,
       IDType, PipelineType, HandlerType, SessionType, HistoryType
  <2> QED
    BY <2>1, <2>2 DEF TypeInv, TypeOK
<1>6. ASSUME NEW c \in Conns, SlaveStop(c) PROVE TypeInv'
  <2>1. SessionType'
    BY <1>6 DEF SlaveStop, TypeInv, TypeOK, SessionType
  <2>2. SlaveType'
    BY <1>6 DEF SlaveStop, TypeInv, TypeOK, SlaveType
  <2>3. IDType' /\ PipelineType' /\ HandlerType' /\ HistoryType' /\ IDsGiven'
    BY <1>6 DEF SlaveStop, masterVars, TypeInv, TypeOK, IDsGiven, Identified,
       IDType, PipelineType, HandlerType, HistoryType
  <2> QED
    BY <2>1, <2>2, <2>3 DEF TypeInv, TypeOK
<1>7. ASSUME NEW c \in Conns, Accept(c) PROVE TypeInv'
  <2>1. IDType' /\ IDsGiven'
    BY <1>7, AcceptIDs
  <2>2. HandlerType'
    BY <1>7 DEF Accept, TypeInv, TypeOK, HandlerType
  <2>3. PipelineType' /\ SessionType' /\ SlaveType' /\ HistoryType'
    BY <1>7 DEF Accept, slaveVars, TypeInv, TypeOK, PipelineType, SessionType, SlaveType, HistoryType
  <2> QED
    BY <2>1, <2>2, <2>3 DEF TypeInv, TypeOK
<1>8. ASSUME NEW c \in Conns, HandlerRead(c) PROVE TypeInv'
  <2>1. HandlerType'
    BY <1>8 DEF HandlerRead, TypeInv, TypeOK, HandlerType, SessionType
  <2>2. SessionType'
    BY <1>8 DEF HandlerRead, TypeInv, TypeOK, SessionType
  <2>3. IDType' /\ PipelineType' /\ SlaveType' /\ HistoryType' /\ IDsGiven'
    BY <1>8 DEF HandlerRead, slaveVars, TypeInv, TypeOK, IDsGiven, Identified,
       IDType, PipelineType, SlaveType, HistoryType
  <2> QED
    BY <2>1, <2>2, <2>3 DEF TypeInv, TypeOK
<1>9. ASSUME NEW c \in Conns, HandlerEnqueue(c) PROVE TypeInv'
  <2>1. PipelineType'
    BY <1>9 DEF HandlerEnqueue, TypeInv, TypeOK, PipelineType, HasRoom, HandlerType
  <2>2. HandlerType'
    BY <1>9 DEF HandlerEnqueue, TypeInv, TypeOK, HandlerType
  <2>3. IDType' /\ SessionType' /\ SlaveType' /\ HistoryType' /\ IDsGiven'
    BY <1>9 DEF HandlerEnqueue, slaveVars, TypeInv, TypeOK, IDsGiven, Identified,
       IDType, SessionType, SlaveType, HistoryType
  <2> QED
    BY <2>1, <2>2, <2>3 DEF TypeInv, TypeOK
<1>10. ASSUME NEW c \in Conns, HandlerOrder(c) PROVE TypeInv'
  <2>1. PipelineType'
    BY <1>10 DEF HandlerOrder, TypeInv, TypeOK, PipelineType
  <2>2. HandlerType'
    BY <1>10 DEF HandlerOrder, TypeInv, TypeOK, HandlerType, PipelineType
  <2>3. IDType' /\ SessionType' /\ SlaveType' /\ HistoryType' /\ IDsGiven'
    BY <1>10 DEF HandlerOrder, slaveVars, TypeInv, TypeOK, IDsGiven, Identified,
       IDType, SessionType, SlaveType, HistoryType
  <2> QED
    BY <2>1, <2>2, <2>3 DEF TypeInv, TypeOK
<1>11. ASSUME NEW c \in Conns, HandlerTimeout(c) PROVE TypeInv'
  <2>1. HandlerType'
    BY <1>11 DEF HandlerTimeout, TypeInv, TypeOK, HandlerType
  <2>2. HistoryType'
    <3>1. timedOut \in [Conns -> Nat]
      BY DEF TypeInv, TypeOK, HistoryType
    <3>2. timedOut' \in [Conns -> Nat]
      BY <1>11, <3>1, Raised DEF HandlerTimeout
    <3> QED
      BY <1>11, <3>2 DEF HandlerTimeout, TypeInv, TypeOK, HistoryType, masterVars, slaveVars
  <2>3. IDType' /\ PipelineType' /\ SessionType' /\ SlaveType' /\ IDsGiven'
    BY <1>11 DEF HandlerTimeout, slaveVars, TypeInv, TypeOK, IDsGiven, Identified,
       IDType, PipelineType, SessionType, SlaveType
  <2> QED
    BY <2>1, <2>2, <2>3 DEF TypeInv, TypeOK
<1>12. ASSUME NEW c \in Conns, HandlerWrite(c) PROVE TypeInv'
  <2>1. HandlerType'
    BY <1>12 DEF HandlerWrite, TypeInv, TypeOK, HandlerType
  <2>2. SessionType'
    BY <1>12 DEF HandlerWrite, TypeInv, TypeOK, SessionType, HandlerType
  <2>3. IDType' /\ PipelineType' /\ SlaveType' /\ HistoryType' /\ IDsGiven'
    BY <1>12 DEF HandlerWrite, slaveVars, TypeInv, TypeOK, IDsGiven, Identified,
       IDType, PipelineType, SlaveType, HistoryType
  <2> QED
    BY <2>1, <2>2, <2>3 DEF TypeInv, TypeOK
<1>13. ASSUME NEW c \in Conns, HandlerReturn(c) PROVE TypeInv'
  <2>1. HandlerType'
    BY <1>13 DEF HandlerReturn, TypeInv, TypeOK, HandlerType
  <2>2. IDType' /\ PipelineType' /\ SessionType' /\ SlaveType' /\ HistoryType' /\ IDsGiven'
    BY <1>13 DEF HandlerReturn, slaveVars, TypeInv, TypeOK, IDsGiven, Identified,
       IDType, PipelineType, SessionType, SlaveType, HistoryType
  <2> QED
    BY <2>1, <2>2 DEF TypeInv, TypeOK
<1>14. ASSUME NEW c \in Conns, RelayTake(c) PROVE TypeInv'
  <2>1. PipelineType'
    BY <1>14 DEF RelayTake, TypeInv, TypeOK, PipelineType
  <2>2. IDType' /\ HandlerType' /\ SessionType' /\ SlaveType' /\ HistoryType' /\ IDsGiven'
    BY <1>14 DEF RelayTake, slaveVars, TypeInv, TypeOK, IDsGiven, Identified,
       IDType, HandlerType, SessionType, SlaveType, HistoryType
  <2> QED
    BY <2>1, <2>2 DEF TypeInv, TypeOK
<1>15. ASSUME NEW c \in Conns, MainReceive(c) PROVE TypeInv'
  <2>1. PipelineType'
    BY <1>15 DEF MainReceive, TypeInv, TypeOK, PipelineType, Report
  <2>2. IDType' /\ HandlerType' /\ SessionType' /\ SlaveType' /\ HistoryType' /\ IDsGiven'
    BY <1>15 DEF MainReceive, slaveVars, TypeInv, TypeOK, IDsGiven, Identified,
       IDType, HandlerType, SessionType, SlaveType, HistoryType
  <2> QED
    BY <2>1, <2>2 DEF TypeInv, TypeOK
<1>16. ASSUME MainPanic PROVE TypeInv'
  <2>1. HandlerType'
    BY <1>16 DEF MainPanic, TypeInv, TypeOK, HandlerType
  <2>2. IDType' /\ PipelineType' /\ SessionType' /\ SlaveType' /\ HistoryType' /\ IDsGiven'
    BY <1>16 DEF MainPanic, slaveVars, TypeInv, TypeOK, IDsGiven, Identified,
       IDType, PipelineType, SessionType, SlaveType, HistoryType
  <2> QED
    BY <2>1, <2>2 DEF TypeInv, TypeOK
<1>17. ASSUME MainDispatch PROVE TypeInv'
  <2> DEFINE ch == slaveOrderChans[MainSlaveID]
  <2>1. PipelineType' /\ HistoryType'
    <3>1. CASE UNCHANGED <<orderChan, dropped>>
      BY <1>17, <3>1 DEF MainDispatch, TypeInv, TypeOK, PipelineType, HistoryType, slaveVars
    <3>2. CASE /\ ch \in Conns /\ Len(orderChan[ch]) < OrderCap
               /\ \E first \in FirstCalls :
                     orderChan' = [orderChan EXCEPT ![ch] =
                         Append(@, [conn |-> mainLoop[1].conn,
                                    n |-> mainLoop[1].n, first |-> first])]
               /\ UNCHANGED dropped
      <4>1. mainLoop[1] \in Report
        BY <1>17 DEF MainDispatch, TypeInv, TypeOK, PipelineType
      <4>2. PICK o \in Order : orderChan' = [orderChan EXCEPT ![ch] = Append(@, o)]
        BY <3>2, <4>1, CallsAssumption DEF Order, Report
      <4>3. PipelineType'
        BY <1>17, <3>2, <4>2 DEF MainDispatch, TypeInv, TypeOK, PipelineType
      <4> QED
        BY <1>17, <3>2, <4>3 DEF MainDispatch, TypeInv, TypeOK, HistoryType, slaveVars
    <3>3. CASE /\ ch \in Conns /\ UNCHANGED orderChan
               /\ dropped' = [dropped EXCEPT ![ch] = @ + 1]
      <4>1. dropped \in [Conns -> Nat]
        BY DEF TypeInv, TypeOK, HistoryType
      <4>2. dropped' \in [Conns -> Nat]
        BY <3>3, <4>1, Raised
      <4> QED
        BY <1>17, <3>3, <4>2 DEF MainDispatch, TypeInv, TypeOK, PipelineType, HistoryType,
           slaveVars
    <3>4. MainSlaveID \in DOMAIN slaveOrderChans => ch \in Conns
      BY DEF TypeInv, TypeOK, IDType
    <3> QED
      BY <1>17, <3>1, <3>2, <3>3, <3>4 DEF MainDispatch, HasRoom
  <2>3. IDType' /\ HandlerType' /\ SessionType' /\ SlaveType' /\ IDsGiven'
    BY <1>17 DEF MainDispatch, slaveVars, TypeInv, TypeOK, IDsGiven, Identified,
       IDType, HandlerType, SessionType, SlaveType
  <2> QED
    BY <2>1, <2>3 DEF TypeInv, TypeOK
<1>18. CASE UNCHANGED vars
  BY <1>18 DEF vars, masterVars, slaveVars, TypeInv, TypeOK, IDsGiven, Identified, IDType,
     PipelineType, HandlerType, SessionType, SlaveType, HistoryType
<1> QED
  BY <1>1, <1>2, <1>3, <1>4, <1>5, <1>6, <1>7, <1>8, <1>9, <1>10, <1>11, <1>12,
     <1>13, <1>14, <1>15, <1>16, <1>17, <1>18
     DEF Next, SendToMaster, HandleConnections

\* Every variable keeps its type, and no queue outgrows its channel's capacity.
THEOREM TypeCorrect == Spec => []TypeOK
<1>1. Spec => []TypeInv
  BY InitType, NextType, PTL DEF Spec
<1>2. TypeInv => TypeOK
  BY DEF TypeInv
<1> QED
  BY <1>1, <1>2, PTL

-----------------------------------------------------------------------------
(* Who can make the main loop index ELS out of range *)

\* a[16] is never more than the ID it is a digit of.
LEMMA FirstDigitBound ==
    ASSUME NEW id \in Nat
    PROVE  FirstDigit(id) \in Nat /\ FirstDigit(id) <= id
  BY DEF FirstDigit

PanicInv == TypeInv /\ (panicked => IDCounter >= ELSLen)

LEMMA NextPanic == PanicInv /\ TypeInv' /\ [Next]_vars => PanicInv'
<1> SUFFICES ASSUME PanicInv, TypeInv', [Next]_vars PROVE PanicInv'
    OBVIOUS
<1>1. CASE MainPanic
  <2>1. mainLoop[1] \in Report
    BY <1>1 DEF MainPanic, PanicInv, TypeInv, TypeOK, PipelineType
  <2>2. HostOf[mainLoop[1].conn] \in Hosts
    BY <2>1, ConnsAssumption DEF Report
  <2>3. /\ slaveMap[HostOf[mainLoop[1].conn]] \in Nat
        /\ slaveMap[HostOf[mainLoop[1].conn]] <= IDCounter
        /\ IDCounter \in Nat
    BY <2>2 DEF PanicInv, TypeInv, TypeOK, IDType, IDsGiven
  <2>4. MainSlaveID <= IDCounter /\ MainSlaveID \in Nat
    BY <2>3, FirstDigitBound DEF MainSlaveID
  <2>5. IDCounter >= ELSLen
    BY <1>1, <2>3, <2>4, CapsAssumption DEF MainPanic
  <2> QED
    BY <1>1, <2>5 DEF MainPanic, PanicInv
<1>2. CASE \E c \in Conns : Accept(c)
  <2>1. PICK c \in Conns : Accept(c)
    BY <1>2
  <2>2. panicked' = panicked /\ IDCounter' >= IDCounter
    BY <2>1 DEF Accept, PanicInv, TypeInv, TypeOK, IDType
  <2> QED
    BY <2>2, CapsAssumption DEF PanicInv, TypeInv, TypeOK, IDType
<1>3. CASE UNCHANGED <<panicked, IDCounter>>
  BY <1>3 DEF PanicInv
<1>4. ASSUME NEW c \in Conns, SendToMaster(c) PROVE UNCHANGED <<panicked, IDCounter>>
  BY <1>4 DEF SendToMaster, SlaveWrite, SlaveBlock, SlaveRead, SlaveTimeout,
     SlaveTakeRequest, SlaveStop, masterVars
<1>5. ASSUME NEW c \in Conns, HandleConnections(c) PROVE UNCHANGED <<panicked, IDCounter>>
  BY <1>5 DEF HandleConnections, HandlerRead, HandlerEnqueue, HandlerOrder,
     HandlerTimeout, HandlerWrite, HandlerReturn
<1>6. ASSUME NEW c \in Conns, RelayTake(c) \/ MainReceive(c)
      PROVE  UNCHANGED <<panicked, IDCounter>>
  BY <1>6 DEF RelayTake, MainReceive
<1>7. MainDispatch \/ UNCHANGED vars => UNCHANGED <<panicked, IDCounter>>
  BY DEF MainDispatch, vars, masterVars
<1> QED
  BY <1>1, <1>2, <1>3, <1>4, <1>5, <1>6, <1>7 DEF Next

\* The master can only die on "ELS[slaveID]" once as many hosts have connected as
\* ELS has elements: no reconnect, restart or error of fewer hosts does it.
THEOREM OnlyACrowdPanics == Spec => []PanicOnlyByCrowd
<1>1. Init => PanicInv
  BY InitType DEF Init, PanicInv
<1>2. PanicInv /\ [Next]_vars => PanicInv'
  BY NextType, NextPanic DEF PanicInv
<1>3. PanicInv => PanicOnlyByCrowd
  BY DEF PanicInv, TypeInv, IDsGiven, PanicOnlyByCrowd
<1> QED
  BY <1>1, <1>2, <1>3, PTL DEF Spec

-----------------------------------------------------------------------------
(* The account of reports and answers *)

PairInv == TypeInv /\ OneAnswerPerReport

\* The two sides of the account of session d.
Owed(d) == Len(up[d]) + Len(down[d])
             + (IF handler[d] \in {"enqueue", "select", "write"} THEN 1 ELSE 0)
Awaited(d) == gaveUp[d] + (IF slave[d] \in {"read", "wait"} THEN 1 ELSE 0)

LEMMA NextPaired == PairInv /\ [Next]_vars => OneAnswerPerReport'
<1> SUFFICES ASSUME PairInv, [Next]_vars, NEW d \in Conns,
                    slave'[d] # "dead", handler'[d] # "done"
             PROVE  Owed(d)' = Awaited(d)'
    BY DEF OneAnswerPerReport, Owed, Awaited
<1> DEFINE Others(c) == d # c => Owed(d)' = Owed(d) /\ Awaited(d)' = Awaited(d)
                                 /\ slave'[d] = slave[d] /\ handler'[d] = handler[d]
<1>a. slave[d] # "dead" /\ handler[d] # "done" => Owed(d) = Awaited(d)
  BY DEF PairInv, OneAnswerPerReport, Owed, Awaited
<1>b. /\ up \in [Conns -> Seq(1 .. MaxReports)] /\ down \in [Conns -> Seq(Order \cup {Default})]
      /\ gaveUp \in [Conns -> Nat] /\ DOMAIN slave = Conns /\ DOMAIN handler = Conns
  BY DEF PairInv, TypeInv, TypeOK, SessionType, HistoryType, SlaveType, HandlerType
<1>c. /\ up' \in [Conns -> Seq(1 .. MaxReports)] /\ down' \in [Conns -> Seq(Order \cup {Default})]
      /\ gaveUp' \in [Conns -> Nat] /\ DOMAIN slave' = Conns /\ DOMAIN handler' = Conns
  BY NextType DEF PairInv, TypeInv, TypeOK, SessionType, HistoryType, SlaveType, HandlerType
<1>d. /\ Owed(d) \in Nat /\ Awaited(d) \in Nat
      /\ Owed(d)' \in Nat /\ Awaited(d)' \in Nat
  BY <1>b, <1>c DEF Owed, Awaited
<1>1. ASSUME NEW c \in Conns, SlaveWrite(c) PROVE Owed(d)' = Awaited(d)'
  <2>1. Others(c)
    BY <1>1, <1>b DEF SlaveWrite, masterVars, Owed, Awaited
  <2>2. CASE d = c
    <3>1. /\ slave[d] = "write" /\ slave'[d] = "read"
          /\ Len(up'[d]) = Len(up[d]) + 1
          /\ down' = down /\ handler' = handler /\ gaveUp' = gaveUp
      BY <1>1, <1>b, <2>2 DEF SlaveWrite, masterVars
    <3>2. Owed(d)' = Owed(d) + 1
      BY <1>b, <1>c, <3>1 DEF Owed
    <3>3. Awaited(d)' = Awaited(d) + 1
      BY <1>b, <1>c, <3>1 DEF Awaited
    <3> QED
      BY <1>a, <1>d, <3>1, <3>2, <3>3
  <2> QED
    BY <1>a, <2>1, <2>2
<1>2. ASSUME NEW c \in Conns, SlaveBlock(c) PROVE Owed(d)' = Awaited(d)'
  <2>1. Others(c)
    BY <1>2, <1>b DEF SlaveBlock, masterVars, Owed, Awaited
  <2>2. d = c => 
      /\ slave[d] = "read" /\ slave'[d] = "wait"
      /\ up' = up /\ down' = down /\ handler' = handler /\ gaveUp' = gaveUp
    BY <1>2, <1>b DEF SlaveBlock, masterVars
  <2> QED
    BY <1>a, <1>b, <1>c, <2>1, <2>2 DEF Owed, Awaited
<1>3. ASSUME NEW c \in Conns, SlaveRead(c) PROVE Owed(d)' = Awaited(d)'
  <2>1. Others(c)
    BY <1>3, <1>b DEF SlaveRead, masterVars, Owed, Awaited
  <2>2. CASE d = c
    <3>1. /\ slave[d] \in {"read", "wait"} /\ slave'[d] = "hand"
          /\ Len(down[d]) = Len(down'[d]) + 1
          /\ up' = up /\ handler' = handler /\ gaveUp' = gaveUp
      BY <1>3, <1>b, <2>2 DEF SlaveRead, masterVars
    <3>2. Owed(d) = Owed(d)' + 1
      BY <1>b, <1>c, <3>1 DEF Owed
    <3>3. Awaited(d) = Awaited(d)' + 1
      BY <1>b, <1>c, <3>1 DEF Awaited
    <3> QED
      BY <1>a, <1>d, <3>1, <3>2, <3>3
  <2> QED
    BY <1>a, <2>1, <2>2
<1>4. ASSUME NEW c \in Conns, SlaveTimeout(c) PROVE Owed(d)' = Awaited(d)'
  <2>1. Others(c)
    BY <1>4, <1>b DEF SlaveTimeout, masterVars, Owed, Awaited
  <2>2. CASE d = c
    <3>1. /\ slave[d] = "wait" /\ slave'[d] = "write"
          /\ gaveUp'[d] = gaveUp[d] + 1
          /\ up' = up /\ down' = down /\ handler' = handler
      BY <1>4, <1>b, <2>2 DEF SlaveTimeout, masterVars
    <3>2. Owed(d)' = Owed(d)
      BY <1>b, <1>c, <3>1 DEF Owed
    <3>3. Awaited(d)' = Awaited(d)
      BY <1>b, <1>c, <3>1 DEF Awaited
    <3> QED
      BY <1>a, <1>d, <3>1, <3>2, <3>3
  <2> QED
    BY <1>a, <2>1, <2>2
<1>5. ASSUME NEW c \in Conns, SlaveTakeRequest(c) PROVE Owed(d)' = Awaited(d)'
  <2>1. Others(c)
    BY <1>5, <1>b DEF SlaveTakeRequest, masterVars, Owed, Awaited
  <2>2. d = c => 
      /\ slave[d] = "hand" /\ slave'[d] = "write"
      /\ up' = up /\ down' = down /\ handler' = handler /\ gaveUp' = gaveUp
    BY <1>5, <1>b DEF SlaveTakeRequest, masterVars
  <2> QED
    BY <1>a, <1>b, <1>c, <2>1, <2>2 DEF Owed, Awaited
<1>6. ASSUME NEW c \in Conns, SlaveStop(c) PROVE Owed(d)' = Awaited(d)'
  <2>1. Others(c)
    BY <1>6, <1>b DEF SlaveStop, masterVars, Owed, Awaited
  <2>2. d = c => 
      /\ slave'[d] = "dead"
    BY <1>6, <1>b DEF SlaveStop, masterVars
  <2> QED
    BY <1>a, <1>b, <1>c, <2>1, <2>2 DEF Owed, Awaited
<1>7. ASSUME NEW c \in Conns, HandlerRead(c) PROVE Owed(d)' = Awaited(d)'
  <2>1. Others(c)
    BY <1>7, <1>b DEF HandlerRead, slaveVars, Owed, Awaited
  <2>2. CASE d = c
    <3>1. /\ handler[d] = "read" /\ handler'[d] = "enqueue"
          /\ Len(up[d]) = Len(up'[d]) + 1
          /\ down' = down /\ slave' = slave /\ gaveUp' = gaveUp
      BY <1>7, <1>b, <2>2 DEF HandlerRead, slaveVars
    <3>2. Owed(d)' = Owed(d)
      BY <1>b, <1>c, <3>1 DEF Owed
    <3>3. Awaited(d)' = Awaited(d)
      BY <1>b, <1>c, <3>1 DEF Awaited
    <3> QED
      BY <1>a, <1>d, <3>1, <3>2, <3>3
  <2> QED
    BY <1>a, <2>1, <2>2
<1>8. ASSUME NEW c \in Conns, HandlerEnqueue(c) PROVE Owed(d)' = Awaited(d)'
  <2>1. Others(c)
    BY <1>8, <1>b DEF HandlerEnqueue, slaveVars, Owed, Awaited
  <2>2. d = c => 
      /\ handler[d] = "enqueue" /\ handler'[d] = "select"
      /\ up' = up /\ down' = down /\ slave' = slave /\ gaveUp' = gaveUp
    BY <1>8, <1>b DEF HandlerEnqueue, slaveVars
  <2> QED
    BY <1>a, <1>b, <1>c, <2>1, <2>2 DEF Owed, Awaited
<1>9. ASSUME NEW c \in Conns, HandlerOrder(c) PROVE Owed(d)' = Awaited(d)'
  <2>1. Others(c)
    BY <1>9, <1>b DEF HandlerOrder, slaveVars, Owed, Awaited
  <2>2. d = c => 
      /\ handler[d] = "select" /\ handler'[d] = "write"
      /\ up' = up /\ down' = down /\ slave' = slave /\ gaveUp' = gaveUp
    BY <1>9, <1>b DEF HandlerOrder, slaveVars
  <2> QED
    BY <1>a, <1>b, <1>c, <2>1, <2>2 DEF Owed, Awaited
<1>10. ASSUME NEW c \in Conns, HandlerTimeout(c) PROVE Owed(d)' = Awaited(d)'
  <2>1. Others(c)
    BY <1>10, <1>b DEF HandlerTimeout, slaveVars, Owed, Awaited
  <2>2. d = c => 
      /\ handler[d] = "select" /\ handler'[d] = "write"
      /\ up' = up /\ down' = down /\ slave' = slave /\ gaveUp' = gaveUp
    BY <1>10, <1>b DEF HandlerTimeout, slaveVars
  <2> QED
    BY <1>a, <1>b, <1>c, <2>1, <2>2 DEF Owed, Awaited
<1>11. ASSUME NEW c \in Conns, HandlerWrite(c) PROVE Owed(d)' = Awaited(d)'
  <2>1. Others(c)
    BY <1>11, <1>b DEF HandlerWrite, slaveVars, Owed, Awaited
  <2>2. CASE d = c
    <3>1. /\ handler[d] = "write" /\ handler'[d] = "read"
          /\ Len(down'[d]) = Len(down[d]) + 1
          /\ up' = up /\ slave' = slave /\ gaveUp' = gaveUp
      BY <1>11, <1>b, <2>2 DEF HandlerWrite, slaveVars
    <3>2. Owed(d)' = Owed(d)
      BY <1>b, <1>c, <3>1 DEF Owed
    <3>3. Awaited(d)' = Awaited(d)
      BY <1>b, <1>c, <3>1 DEF Awaited
    <3> QED
      BY <1>a, <1>d, <3>1, <3>2, <3>3
  <2> QED
    BY <1>a, <2>1, <2>2
<1>12. ASSUME NEW c \in Conns, HandlerReturn(c) PROVE Owed(d)' = Awaited(d)'
  <2>1. Others(c)
    BY <1>12, <1>b DEF HandlerReturn, slaveVars, Owed, Awaited
  <2>2. d = c => 
      /\ handler'[d] = "done"
    BY <1>12, <1>b DEF HandlerReturn, slaveVars
  <2> QED
    BY <1>a, <1>b, <1>c, <2>1, <2>2 DEF Owed, Awaited
<1>13. ASSUME NEW c \in Conns, Accept(c) PROVE Owed(d)' = Awaited(d)'
  <2>1. Others(c)
    BY <1>13, <1>b DEF Accept, slaveVars, Owed, Awaited
  <2>2. d = c => 
      /\ handler[d] = "none" /\ handler'[d] = "read"
      /\ up' = up /\ down' = down /\ slave' = slave /\ gaveUp' = gaveUp
    BY <1>13, <1>b DEF Accept, slaveVars
  <2> QED
    BY <1>a, <1>b, <1>c, <2>1, <2>2 DEF Owed, Awaited
<1>14. CASE UNCHANGED <<up, down, handler, slave, gaveUp>>
  BY <1>14, <1>a DEF Owed, Awaited
<1>15. ASSUME NEW c \in Conns, RelayTake(c) \/ MainReceive(c)
       PROVE  UNCHANGED <<up, down, handler, slave, gaveUp>>
  BY <1>15 DEF RelayTake, MainReceive, slaveVars
<1>16. MainPanic \/ MainDispatch \/ UNCHANGED vars
         => UNCHANGED <<up, down, handler, slave, gaveUp>>
  BY DEF MainPanic, MainDispatch, vars, slaveVars, masterVars
<1> QED
  BY <1>1, <1>2, <1>3, <1>4, <1>5, <1>6, <1>7, <1>8, <1>9, <1>10, <1>11, <1>12, <1>13,
     <1>14, <1>15, <1>16 DEF Next, SendToMaster, HandleConnections

\* Whatever the timing, the reports still unanswered and the answers still unread
\* of a slave are as many as the reads it gave up and the one it waits in.
THEOREM AnswersPaired == Spec => []OneAnswerPerReport
<1>1. Init => PairInv
  BY InitType DEF Init, PairInv, OneAnswerPerReport
<1>2. PairInv /\ [Next]_vars => PairInv'
  BY NextType, NextPaired DEF PairInv
<1>3. PairInv => OneAnswerPerReport
  BY DEF PairInv
<1> QED
  BY <1>1, <1>2, <1>3, PTL DEF Spec

-----------------------------------------------------------------------------
(* IDs, and answers as they move along *)

LEMMA ItemsOfAppend ==
    ASSUME NEW S, NEW s \in Seq(S), NEW e \in S
    PROVE  Items(Append(s, e)) \subseteq Items(s) \cup {e}
  BY DEF Items

LEMMA ItemsOfTail ==
    ASSUME NEW S, NEW s \in Seq(S), s # <<>>
    PROVE  Head(s) \in Items(s) /\ Items(Tail(s)) \subseteq Items(s)
<1>1. Head(s) = s[1] /\ 1 \in 1 .. Len(s)
  OBVIOUS
<1>2. \A i \in 1 .. Len(Tail(s)) : Tail(s)[i] = s[i + 1] /\ i + 1 \in 1 .. Len(s)
  OBVIOUS
<1> QED
  BY <1>1, <1>2 DEF Items

\* An ID has one host, and the channel registered for it belongs to that host.
IDsUnique ==
    /\ \A g, h \in Hosts : slaveMap[g] # 0 /\ slaveMap[g] = slaveMap[h] => g = h
    /\ \A i \in DOMAIN slaveOrderChans : slaveMap[HostOf[slaveOrderChans[i]]] = i

LEMMA NextUnique == TypeInv /\ IDsUnique /\ [Next]_vars => IDsUnique'
<1> SUFFICES ASSUME TypeInv, IDsUnique, [Next]_vars PROVE IDsUnique'
    OBVIOUS
<1>1. ASSUME NEW c \in Conns, Accept(c) PROVE IDsUnique'
  <2> DEFINE host == HostOf[c]
  <2>1. /\ host \in Hosts /\ IDType /\ IDCounter \in Nat
        /\ \A h \in Hosts : slaveMap[h] \in Nat /\ slaveMap[h] <= IDCounter
        /\ DOMAIN slaveOrderChans \subseteq 1 .. IDCounter
    BY ConnsAssumption DEF TypeInv, TypeOK, IDType, IDsGiven
  <2>2. CASE slaveMap[host] = 0
    <3>1. /\ slaveMap' = [slaveMap EXCEPT ![host] = IDCounter + 1]
          /\ slaveOrderChans' = [i \in DOMAIN slaveOrderChans \cup {IDCounter + 1} |->
                                    IF i = IDCounter + 1 THEN c ELSE slaveOrderChans[i]]
      BY <1>1, <2>2 DEF Accept, NewHost
    <3>2. \A g, h \in Hosts : slaveMap'[g] # 0 /\ slaveMap'[g] = slaveMap'[h] => g = h
      BY <2>1, <3>1 DEF IDsUnique, IDType
    <3>3. ASSUME NEW i \in DOMAIN slaveOrderChans'
          PROVE  slaveMap'[HostOf[slaveOrderChans'[i]]] = i
      <4>1. CASE i = IDCounter + 1
        BY <2>1, <3>1, <4>1 DEF IDType
      <4>2. CASE i \in DOMAIN slaveOrderChans /\ i # IDCounter + 1
        <5>1. HostOf[slaveOrderChans[i]] \in Hosts /\ i # 0
          BY <2>1, <4>2, ConnsAssumption DEF IDType
        <5> QED
          BY <2>1, <2>2, <3>1, <4>2, <5>1 DEF IDsUnique, IDType
      <4> QED
        BY <3>1, <3>3, <4>1, <4>2
    <3> QED
      BY <3>2, <3>3 DEF IDsUnique
  <2>3. CASE slaveMap[host] # 0
    <3>1. /\ slaveMap' = slaveMap
          /\ slaveOrderChans' = [i \in DOMAIN slaveOrderChans \cup {slaveMap[host]} |->
                                    IF i = slaveMap[host] THEN c ELSE slaveOrderChans[i]]
      BY <1>1, <2>1, <2>3 DEF Accept, NewHost, IDType
    <3> QED
      BY <3>1 DEF IDsUnique
  <2> QED
    BY <2>2, <2>3
<1>2. CASE UNCHANGED <<slaveMap, slaveOrderChans>>
  BY <1>2 DEF IDsUnique
<1>3. ASSUME NEW c \in Conns,
             SendToMaster(c) \/ HandleConnections(c) \/ RelayTake(c) \/ MainReceive(c)
      PROVE  UNCHANGED <<slaveMap, slaveOrderChans>>
  BY <1>3 DEF SendToMaster, SlaveWrite, SlaveBlock, SlaveRead, SlaveTimeout,
     SlaveTakeRequest, SlaveStop, HandleConnections, HandlerRead, HandlerEnqueue,
     HandlerOrder, HandlerTimeout, HandlerWrite, HandlerReturn, RelayTake, MainReceive,
     masterVars
<1>4. MainPanic \/ MainDispatch \/ UNCHANGED vars => UNCHANGED <<slaveMap, slaveOrderChans>>
  BY DEF MainPanic, MainDispatch, vars, masterVars
<1> QED
  BY <1>1, <1>2, <1>3, <1>4 DEF Next

\* With fewer than ten hosts a[16] is the whole ID.
LEMMA WholeID ==
    ASSUME TypeInv, Cardinality(Hosts) < 10, NEW h \in Hosts
    PROVE  FirstDigit(slaveMap[h]) = slaveMap[h]
<1>1. Cardinality(Identified) <= Cardinality(Hosts)
  BY HostsAssumption, FS_Subset DEF Identified
<1>2. Cardinality(Hosts) \in Nat /\ Cardinality(Identified) \in Nat
  BY HostsAssumption, FS_CardinalityType, FS_Subset DEF Identified
<1>3. slaveMap[h] \in Nat /\ slaveMap[h] < 10
  BY <1>1, <1>2 DEF TypeInv, TypeOK, IDType, IDsGiven
<1> QED
  BY <1>3 DEF FirstDigit

\* Every step but a dispatch moves answers along or drops them.
LEMMA AnswersMove ==
    ASSUME TypeInv, [Next]_vars, ~MainDispatch, NEW d \in Conns
    PROVE  AnswersToward(d)' \subseteq AnswersToward(d) \cup {Default}
<1>1. /\ orderChan \in [Conns -> Seq(Order)]
      /\ down \in [Conns -> Seq(Order \cup {Default})]
      /\ response \in [Conns -> Order \cup {Default}]
      /\ answer \in [Conns -> Order \cup {Default}]
  BY DEF TypeInv, TypeOK, PipelineType, SessionType, HandlerType, SlaveType
<1>2. ASSUME NEW c \in Conns, SlaveRead(c)
      PROVE  AnswersToward(d)' \subseteq AnswersToward(d) \cup {Default}
  <2>1. down[c] # <<>> /\ UNCHANGED <<orderChan, response>>
    BY <1>2 DEF SlaveRead, masterVars
  <2>2. Head(down[c]) \in Items(down[c]) /\ Items(Tail(down[c])) \subseteq Items(down[c])
    BY <1>1, <2>1, ItemsOfTail
  <2>3. d = c => answer'[d] = Head(down[c]) /\ down'[d] = Tail(down[c])
    BY <1>1, <1>2 DEF SlaveRead
  <2>4. d # c => answer'[d] = answer[d] /\ down'[d] = down[d]
    BY <1>1, <1>2 DEF SlaveRead
  <2> QED
    BY <2>1, <2>2, <2>3, <2>4 DEF AnswersToward
<1>3. ASSUME NEW c \in Conns, SlaveTakeRequest(c)
      PROVE  AnswersToward(d)' \subseteq AnswersToward(d) \cup {Default}
  BY <1>1, <1>3 DEF SlaveTakeRequest, masterVars, AnswersToward
<1>4. ASSUME NEW c \in Conns, HandlerOrder(c)
      PROVE  AnswersToward(d)' \subseteq AnswersToward(d) \cup {Default}
  <2>1. orderChan[c] # <<>> /\ UNCHANGED <<down, answer>>
    BY <1>4 DEF HandlerOrder, slaveVars
  <2>2. Head(orderChan[c]) \in Items(orderChan[c])
        /\ Items(Tail(orderChan[c])) \subseteq Items(orderChan[c])
    BY <1>1, <2>1, ItemsOfTail
  <2>3. d = c => response'[d] = Head(orderChan[c]) /\ orderChan'[d] = Tail(orderChan[c])
    BY <1>1, <1>4 DEF HandlerOrder
  <2>4. d # c => response'[d] = response[d] /\ orderChan'[d] = orderChan[d]
    BY <1>1, <1>4 DEF HandlerOrder
  <2> QED
    BY <2>1, <2>2, <2>3, <2>4 DEF AnswersToward
<1>5. ASSUME NEW c \in Conns, HandlerTimeout(c)
      PROVE  AnswersToward(d)' \subseteq AnswersToward(d) \cup {Default}
  BY <1>1, <1>5 DEF HandlerTimeout, slaveVars, AnswersToward
<1>6. ASSUME NEW c \in Conns, HandlerWrite(c)
      PROVE  AnswersToward(d)' \subseteq AnswersToward(d) \cup {Default}
  <2>1. UNCHANGED <<orderChan, answer>>
    BY <1>6 DEF HandlerWrite, slaveVars
  <2>2. Items(Append(down[c], response[c])) \subseteq Items(down[c]) \cup {response[c]}
    BY <1>1, ItemsOfAppend
  <2>3. d = c => response'[d] = Default /\ down'[d] = Append(down[c], response[c])
    BY <1>1, <1>6 DEF HandlerWrite
  <2>4. d # c => response'[d] = response[d] /\ down'[d] = down[d]
    BY <1>1, <1>6 DEF HandlerWrite
  <2> QED
    BY <2>1, <2>2, <2>3, <2>4 DEF AnswersToward
<1>7. CASE UNCHANGED <<orderChan, response, down, answer>>
  BY <1>7 DEF AnswersToward
<1>8. ASSUME NEW c \in Conns,
             SlaveWrite(c) \/ SlaveBlock(c) \/ SlaveTimeout(c) \/ SlaveStop(c)
      PROVE  UNCHANGED <<orderChan, response, down, answer>>
  BY <1>8 DEF SlaveWrite, SlaveBlock, SlaveTimeout, SlaveStop, masterVars
<1>9. ASSUME NEW c \in Conns,
             \/ Accept(c) \/ HandlerRead(c) \/ HandlerEnqueue(c) \/ HandlerReturn(c)
             \/ RelayTake(c) \/ MainReceive(c)
      PROVE  UNCHANGED <<orderChan, response, down, answer>>
  BY <1>9 DEF Accept, HandlerRead, HandlerEnqueue, HandlerReturn, RelayTake, MainReceive,
     slaveVars
<1>10. MainPanic \/ UNCHANGED vars => UNCHANGED <<orderChan, response, down, answer>>
  BY DEF MainPanic, vars, masterVars, slaveVars
<1> QED
  BY <1>2, <1>3, <1>4, <1>5, <1>6, <1>7, <1>8, <1>9, <1>10
     DEF Next, SendToMaster, HandleConnections

-----------------------------------------------------------------------------
(* What a timeout leaves in the pipeline *)

\* Every host with an ID has a channel, and every accepted session's host an ID.
Registered ==
    /\ \A h \in Hosts : slaveMap[h] # 0 => slaveMap[h] \in DOMAIN slaveOrderChans
    /\ \A c \in Conns : handler[c] # "none" => slaveMap[HostOf[c]] # 0

\* The main loop is working on a report of session c.
InMain(c) == mainLoop # <<>> /\ mainLoop[1].conn = c

\* A session nobody has accepted has no report at the master.
Quiet(c) ==
    handler[c] = "none" =>
        receive[c] = <<>> /\ relay[c] = <<>> /\ ~InMain(c)

\* BacklogNeverDrains, for one session.
Balance(c) ==
    Backlog(c) + dropped[c] = timedOut[c] + (IF handler[c] = "select" THEN 1 ELSE 0)

\* The master's variables that are about session d.
Same(d) ==
    /\ receive'[d] = receive[d] /\ relay'[d] = relay[d] /\ orderChan'[d] = orderChan[d]
    /\ handler'[d] = handler[d] /\ data'[d] = data[d] /\ response'[d] = response[d]
    /\ timedOut'[d] = timedOut[d] /\ dropped'[d] = dropped[d]
    /\ InMain(d)' <=> InMain(d)
    /\ InMain(d) => mainLoop' = mainLoop

\* The steps of session d at the master.
MasterStep(d) ==
    \/ Accept(d) \/ HandleConnections(d) \/ RelayTake(d) \/ MainReceive(d)

\* Only its own steps and the dispatch of an order touch what the master keeps
\* for a session.
LEMMA Untouched ==
    ASSUME TypeInv, [Next]_vars, NEW d \in Conns, ~MasterStep(d), ~MainDispatch
    PROVE  Same(d)
<1>1. /\ receive \in [Conns -> Seq(1 .. MaxReports)]
      /\ relay \in [Conns -> Seq(1 .. MaxReports)]
      /\ orderChan \in [Conns -> Seq(Order)]
      /\ handler \in [Conns -> {"none", "read", "enqueue", "select", "write", "done"}]
      /\ data \in [Conns -> 0 .. MaxReports]
      /\ response \in [Conns -> Order \cup {Default}]
      /\ timedOut \in [Conns -> Nat] /\ dropped \in [Conns -> Nat]
  BY DEF TypeInv, TypeOK, PipelineType, HandlerType, HistoryType
<1>2. ASSUME NEW c \in Conns, SendToMaster(c) PROVE Same(d)
  <2>1. UNCHANGED masterVars
    BY <1>2 DEF SendToMaster, SlaveWrite, SlaveBlock, SlaveRead, SlaveTimeout,
       SlaveTakeRequest, SlaveStop
  <2>2. /\ UNCHANGED <<receive, relay, mainLoop, orderChan>>
        /\ UNCHANGED <<handler, data, response, timedOut, dropped>>
    BY <2>1 DEF masterVars
  <2> QED
    BY <2>2 DEF Same, InMain
<1>3. ASSUME NEW c \in Conns, c # d, Accept(c) \/ RelayTake(c) PROVE Same(d)
  BY <1>1, <1>3 DEF Accept, RelayTake, Same, InMain
<1>4. ASSUME NEW c \in Conns, c # d, MainReceive(c) PROVE Same(d)
  <2>1. mainLoop = <<>> /\ mainLoop'[1].conn = c
    BY <1>4 DEF MainReceive
  <2>2. ~InMain(d) /\ ~InMain(d)'
    BY <1>4, <2>1 DEF InMain
  <2> QED
    BY <1>1, <1>4, <2>2 DEF MainReceive, Same
<1>5. ASSUME NEW c \in Conns, c # d, HandleConnections(c) PROVE Same(d)
  <2>1. HandlerRead(c) => Same(d)
    BY <1>1, <1>5 DEF HandlerRead, Same, InMain
  <2>2. HandlerEnqueue(c) => Same(d)
    BY <1>1, <1>5 DEF HandlerEnqueue, Same, InMain
  <2>3. HandlerOrder(c) => Same(d)
    BY <1>1, <1>5 DEF HandlerOrder, Same, InMain
  <2>4. HandlerTimeout(c) => Same(d)
    BY <1>1, <1>5 DEF HandlerTimeout, Same, InMain
  <2>5. HandlerWrite(c) => Same(d)
    BY <1>1, <1>5 DEF HandlerWrite, Same, InMain
  <2>6. HandlerReturn(c) => Same(d)
    BY <1>1, <1>5 DEF HandlerReturn, Same, InMain
  <2> QED
    BY <1>5, <2>1, <2>2, <2>3, <2>4, <2>5, <2>6 DEF HandleConnections
<1>6. MainPanic \/ UNCHANGED vars => Same(d)
  BY DEF MainPanic, vars, masterVars, Same, InMain
<1> QED
  BY <1>2, <1>3, <1>4, <1>5, <1>6 DEF Next, MasterStep

-----------------------------------------------------------------------------
\* Once a host has an ID it keeps it, with a channel.
LEMMA NextRegistered ==
    ASSUME TypeInv, Registered, [Next]_vars
    PROVE  Registered'
<1>1. /\ slaveMap \in [Hosts -> Nat] /\ IDCounter \in Nat
      /\ handler \in [Conns -> {"none", "read", "enqueue", "select", "write", "done"}]
      /\ \A c \in Conns : HostOf[c] \in Hosts
  BY ConnsAssumption DEF TypeInv, TypeOK, IDType, HandlerType
<1>2. ASSUME NEW c \in Conns, Accept(c) PROVE Registered'
  <2> DEFINE id == IF slaveMap[HostOf[c]] = 0 THEN IDCounter + 1 ELSE slaveMap[HostOf[c]]
  <2>1. /\ slaveMap' = [slaveMap EXCEPT ![HostOf[c]] = id]
        /\ DOMAIN slaveOrderChans' = DOMAIN slaveOrderChans \cup {id}
        /\ handler' = [handler EXCEPT ![c] = "read"]
    BY <1>2 DEF Accept, NewHost
  <2>2. id # 0
    BY <1>1
  <2> HIDE DEF id
  <2>3. \A h \in Hosts : slaveMap'[h] # 0 => slaveMap'[h] \in DOMAIN slaveOrderChans'
    BY <1>1, <2>1 DEF Registered
  <2>4. \A d \in Conns : handler'[d] # "none" => slaveMap'[HostOf[d]] # 0
    BY <1>1, <2>1, <2>2 DEF Registered
  <2> QED
    BY <2>3, <2>4 DEF Registered
<1>3. ASSUME NEW c \in Conns, HandleConnections(c) PROVE Registered'
  <2>1. handler[c] # "none" /\ UNCHANGED <<slaveMap, slaveOrderChans>>
    BY <1>3 DEF HandleConnections, HandlerRead, HandlerEnqueue, HandlerOrder,
       HandlerTimeout, HandlerWrite, HandlerReturn
  <2>2. \A d \in Conns : d # c => handler'[d] = handler[d]
    BY <1>1, <1>3 DEF HandleConnections, HandlerRead, HandlerEnqueue, HandlerOrder,
       HandlerTimeout, HandlerWrite, HandlerReturn
  <2> QED
    BY <2>1, <2>2 DEF Registered
<1>4. CASE UNCHANGED <<slaveMap, slaveOrderChans, handler>>
  BY <1>4 DEF Registered
<1>5. ASSUME NEW c \in Conns, SendToMaster(c) \/ RelayTake(c) \/ MainReceive(c)
      PROVE  UNCHANGED <<slaveMap, slaveOrderChans, handler>>
  BY <1>5 DEF SendToMaster, SlaveWrite, SlaveBlock, SlaveRead, SlaveTimeout,
     SlaveTakeRequest, SlaveStop, RelayTake, MainReceive, masterVars
<1>6. MainPanic \/ MainDispatch \/ UNCHANGED vars
        => UNCHANGED <<slaveMap, slaveOrderChans, handler>>
  BY DEF MainPanic, MainDispatch, vars, masterVars
<1> QED
  BY <1>2, <1>3, <1>4, <1>5, <1>6 DEF Next

\* Where the main loop sends: on the channel registered for the report's host.
LEMMA DispatchTarget ==
    ASSUME TypeInv, IDsUnique, Registered, Cardinality(Hosts) < 10, MainDispatch,
           \A c \in Conns : Quiet(c)
    PROVE  LET ch == slaveOrderChans[MainSlaveID]
           IN  /\ mainLoop[1] \in Report
               /\ MainSlaveID \in DOMAIN slaveOrderChans
               /\ ch \in Conns
               /\ HostOf[ch] = HostOf[mainLoop[1].conn]
<1> DEFINE m == mainLoop[1].conn
           ch == slaveOrderChans[MainSlaveID]
<1>1. mainLoop # <<>> /\ mainLoop[1] \in Report
  BY DEF MainDispatch, TypeInv, TypeOK, PipelineType
<1>2. m \in Conns /\ HostOf[m] \in Hosts
  BY <1>1, ConnsAssumption DEF Report
<1>3. slaveMap[HostOf[m]] # 0
  BY <1>1, <1>2 DEF Quiet, InMain, Registered
<1>4. MainSlaveID = slaveMap[HostOf[m]]
  BY <1>2, WholeID DEF MainSlaveID
<1>5. MainSlaveID \in DOMAIN slaveOrderChans
  BY <1>2, <1>3, <1>4 DEF Registered
<1>6. ch \in Conns
  BY <1>5 DEF TypeInv, TypeOK, IDType
<1>7. HostOf[ch] \in Hosts /\ slaveMap[HostOf[ch]] = slaveMap[HostOf[m]]
  BY <1>4, <1>5, <1>6, ConnsAssumption DEF IDsUnique
<1>8. HostOf[ch] = HostOf[m]
  BY <1>2, <1>3, <1>7 DEF IDsUnique
<1> QED
  BY <1>1, <1>5, <1>6, <1>8

\* What a dispatch does for a session without rivals: nothing, unless the report is
\* its own; then the report leaves the main loop for the end of the session's
\* channel, or is dropped.
Posted(d) ==
    /\ InMain(d) /\ mainLoop' = <<>>
    /\ receive'[d] = receive[d] /\ relay'[d] = relay[d]
    /\ handler'[d] = handler[d] /\ data'[d] = data[d] /\ response'[d] = response[d]
    /\ timedOut'[d] = timedOut[d]
    /\ \/ /\ \E o \in Order : /\ o.n = mainLoop[1].n
                              /\ orderChan'[d] = Append(orderChan[d], o)
          /\ dropped'[d] = dropped[d]
       \/ /\ orderChan'[d] = orderChan[d]
          /\ dropped'[d] = dropped[d] + 1

LEMMA DispatchFor ==
    ASSUME TypeInv, IDsUnique, Registered, Cardinality(Hosts) < 10, MainDispatch,
           \A c \in Conns : Quiet(c),
           NEW d \in Conns, Sole(d)
    PROVE  Same(d) \/ Posted(d)
<1> DEFINE m == mainLoop[1].conn
           ch == slaveOrderChans[MainSlaveID]
<1>1. /\ mainLoop[1] \in Report /\ MainSlaveID \in DOMAIN slaveOrderChans
      /\ ch \in Conns /\ HostOf[ch] = HostOf[m]
  BY DispatchTarget
<1>2. m \in Conns /\ mainLoop # <<>> /\ mainLoop' = <<>>
  BY <1>1 DEF Report, MainDispatch
<1>3. /\ UNCHANGED <<receive, relay, handler, data, response, timedOut>>
      /\ orderChan \in [Conns -> Seq(Order)] /\ dropped \in [Conns -> Nat]
  BY DEF MainDispatch, TypeInv, TypeOK, PipelineType, HistoryType
<1>4. \/ /\ \E o \in Order : /\ o.n = mainLoop[1].n
                             /\ orderChan' = [orderChan EXCEPT ![ch] = Append(@, o)]
         /\ dropped' = dropped
      \/ /\ orderChan' = orderChan
         /\ dropped' = [dropped EXCEPT ![ch] = @ + 1]
  <2>1. CASE HasRoom(orderChan[ch], OrderCap)
    <3>1. PICK first \in FirstCalls :
              orderChan' = [orderChan EXCEPT ![ch] =
                  Append(@, [conn |-> m, n |-> mainLoop[1].n, first |-> first])]
      BY <1>1, <2>1 DEF MainDispatch
    <3>2. /\ [conn |-> m, n |-> mainLoop[1].n, first |-> first] \in Order
          /\ [conn |-> m, n |-> mainLoop[1].n, first |-> first].n = mainLoop[1].n
      BY <1>1, CallsAssumption DEF Order, Report
    <3>3. dropped' = dropped
      BY <1>1, <2>1 DEF MainDispatch
    <3> QED
      BY <3>1, <3>2, <3>3
  <2>2. CASE ~HasRoom(orderChan[ch], OrderCap)
    BY <1>1, <2>2 DEF MainDispatch
  <2> QED
    BY <2>1, <2>2
<1>5. CASE ch = d
  <2>1. m = d
    BY <1>1, <1>2, <1>5 DEF Sole
  <2>2. InMain(d)
    BY <1>2, <2>1 DEF InMain
  <2> HIDE DEF ch
  <2> QED
    BY <1>2, <1>3, <1>4, <1>5, <2>2 DEF Posted
<1>6. CASE ch # d
  <2>1. m # d
    BY <1>1, <1>6 DEF Sole
  <2>2. ~InMain(d) /\ ~InMain(d)'
    BY <1>2, <2>1 DEF InMain
  <2> HIDE DEF ch
  <2>3. orderChan'[d] = orderChan[d] /\ dropped'[d] = dropped[d]
    BY <1>1, <1>3, <1>4, <1>6
  <2> QED
    BY <1>3, <2>2, <2>3 DEF Same
<1> QED
  BY <1>5, <1>6

LEMMA NextQuiet ==
    ASSUME TypeInv, [Next]_vars, NEW d \in Conns, Quiet(d)
    PROVE  Quiet(d)'
<1>1. /\ receive \in [Conns -> Seq(1 .. MaxReports)]
      /\ relay \in [Conns -> Seq(1 .. MaxReports)]
      /\ handler \in [Conns -> {"none", "read", "enqueue", "select", "write", "done"}]
  BY DEF TypeInv, TypeOK, PipelineType, HandlerType
<1>2. Accept(d) \/ HandleConnections(d) => handler'[d] # "none"
  BY <1>1 DEF Accept, HandleConnections, HandlerRead, HandlerEnqueue, HandlerOrder,
     HandlerTimeout, HandlerWrite, HandlerReturn
<1>3. RelayTake(d) \/ MainReceive(d) => handler'[d] # "none"
  BY <1>1 DEF RelayTake, MainReceive, Quiet
<1>4. MainDispatch => mainLoop' = <<>> /\ UNCHANGED <<receive, relay, handler>>
  BY DEF MainDispatch
<1>5. MasterStep(d) => Quiet(d)'
  BY <1>2, <1>3 DEF MasterStep, Quiet
<1>6. MainDispatch => Quiet(d)'
  BY <1>4 DEF Quiet, InMain
<1>7. CASE Same(d)
  BY <1>7 DEF Same, Quiet
<1> QED
  BY <1>5, <1>6, <1>7, Untouched

-----------------------------------------------------------------------------
(* Orders reach the session they were computed for, or its successor *)

\* An answer for the slave of session c: what OrderIsolation says of it, and that the
\* session whose report it is for has been accepted.
RightPlace(c, a) ==
    a # Default => /\ HostOf[a.conn] = HostOf[c]
                   /\ Current(a.conn) => a.conn = c
                   /\ handler[a.conn] # "none"

IsolationInv ==
    /\ TypeInv /\ IDsUnique
    /\ \A c \in Conns : Quiet(c)
    /\ \A c \in Conns : \A a \in AnswersToward(c) : RightPlace(c, a)

LEMMA AnswersType ==
    ASSUME TypeInv, NEW c \in Conns, NEW a \in AnswersToward(c)
    PROVE  a \in Order \cup {Default}
<1>1. /\ orderChan[c] \in Seq(Order) /\ down[c] \in Seq(Order \cup {Default})
      /\ response[c] \in Order \cup {Default} /\ answer[c] \in Order \cup {Default}
  BY DEF TypeInv, TypeOK, PipelineType, SessionType, HandlerType, SlaveType
<1> QED
  BY <1>1 DEF AnswersToward, Items

\* A session comes to be registered only when it is accepted, and then for good
\* counts as accepted.
LEMMA NextCurrent ==
    ASSUME TypeInv, [Next]_vars, NEW e \in Conns, handler[e] # "none"
    PROVE  handler'[e] # "none" /\ (Current(e)' => Current(e))
<1>1. handler \in [Conns -> {"none", "read", "enqueue", "select", "write", "done"}]
  BY DEF TypeInv, TypeOK, HandlerType
<1>2. ASSUME NEW c \in Conns, Accept(c)
      PROVE  handler'[e] # "none" /\ (Current(e)' => Current(e))
  <2>1. handler' = [handler EXCEPT ![c] = "read"] /\ handler[c] = "none"
    BY <1>2 DEF Accept
  <2>2. PICK id : slaveOrderChans' = [i \in DOMAIN slaveOrderChans \cup {id} |->
                                         IF i = id THEN c ELSE slaveOrderChans[i]]
    BY <1>2 DEF Accept
  <2>3. Current(e)' => Current(e)
    BY <2>1, <2>2 DEF Current
  <2> QED
    BY <1>1, <2>1, <2>3
<1>3. ASSUME NEW c \in Conns, HandleConnections(c)
      PROVE  handler'[e] # "none" /\ UNCHANGED slaveOrderChans
  BY <1>1, <1>3 DEF HandleConnections, HandlerRead, HandlerEnqueue, HandlerOrder,
     HandlerTimeout, HandlerWrite, HandlerReturn
<1>4. ASSUME NEW c \in Conns, SendToMaster(c) \/ RelayTake(c) \/ MainReceive(c)
      PROVE  UNCHANGED <<slaveOrderChans, handler>>
  BY <1>4 DEF SendToMaster, SlaveWrite, SlaveBlock, SlaveRead, SlaveTimeout,
     SlaveTakeRequest, SlaveStop, RelayTake, MainReceive, masterVars
<1>5. MainPanic \/ MainDispatch \/ UNCHANGED vars => UNCHANGED <<slaveOrderChans, handler>>
  BY DEF MainPanic, MainDispatch, vars, masterVars
<1> QED
  BY <1>2, <1>3, <1>4, <1>5 DEF Next, Current

\* The one step that makes an order posts it on the channel of the session whose report
\* it is for, if that is registered, or else on that of the same host's session
\* that is.
LEMMA DispatchIsolated ==
    ASSUME IsolationInv, Cardinality(Hosts) < 10, MainDispatch
    PROVE  \A c \in Conns : \A a \in AnswersToward(c)' : RightPlace(c, a)'
<1> DEFINE m == mainLoop[1].conn
           host == HostOf[m]
           ch   == slaveOrderChans[MainSlaveID]
<1>1. mainLoop # <<>> /\ mainLoop[1] \in Report
  BY DEF MainDispatch, IsolationInv, TypeInv, TypeOK, PipelineType
<1>2. m \in Conns /\ host \in Hosts /\ handler[m] # "none"
  <2>1. m \in Conns /\ host \in Hosts
    BY <1>1, ConnsAssumption DEF Report
  <2>2. InMain(m) /\ Quiet(m)
    BY <1>1, <2>1 DEF InMain, IsolationInv
  <2> QED
    BY <2>1, <2>2 DEF Quiet
<1>3. MainSlaveID = slaveMap[host]
  BY <1>2, WholeID DEF MainSlaveID, IsolationInv
<1>4. UNCHANGED <<slaveOrderChans, handler, response, down, answer>>
  BY DEF MainDispatch, slaveVars
<1>5. \A c, a : RightPlace(c, a)' <=> RightPlace(c, a)
  BY <1>4 DEF RightPlace, Current
<1>6. CASE UNCHANGED orderChan
  <2>1. \A c \in Conns : AnswersToward(c)' = AnswersToward(c)
    BY <1>4, <1>6 DEF AnswersToward
  <2> QED
    BY <1>5, <2>1 DEF IsolationInv
<1>7. CASE /\ MainSlaveID \in DOMAIN slaveOrderChans
           /\ \E first \in FirstCalls :
                 orderChan' = [orderChan EXCEPT ![ch] =
                     Append(@, [conn |-> m, n |-> mainLoop[1].n, first |-> first])]
  <2>1. PICK o \in Order : o.conn = m /\ orderChan' = [orderChan EXCEPT ![ch] = Append(@, o)]
    BY <1>1, <1>7, CallsAssumption DEF Order, Report
  <2>2. ch \in Conns /\ MainSlaveID # 0
    BY <1>7 DEF IsolationInv, TypeInv, TypeOK, IDType
  <2>3. HostOf[ch] = host
    <3>1. slaveMap[HostOf[ch]] = slaveMap[host] /\ slaveMap[host] # 0
      BY <1>3, <1>7, <2>2 DEF IsolationInv, IDsUnique
    <3>2. HostOf[ch] \in Hosts
      BY <2>2, ConnsAssumption
    <3> QED
      BY <1>2, <3>1, <3>2 DEF IsolationInv, IDsUnique
  <2>4. Current(m) => m = ch
    BY <1>3 DEF Current, IsolationInv, IDsUnique
  <2>5. RightPlace(ch, o)
    BY <1>2, <2>1, <2>3, <2>4 DEF RightPlace
  <2>6. orderChan \in [Conns -> Seq(Order)]
    BY DEF IsolationInv, TypeInv, TypeOK, PipelineType
  <2>7. \A c \in Conns : Items(orderChan'[c]) \subseteq Items(orderChan[c])
                           \cup (IF c = ch THEN {o} ELSE {})
    BY <2>1, <2>2, <2>6, ItemsOfAppend
  <2> HIDE DEF ch
  <2>8. \A c \in Conns : AnswersToward(c)' \subseteq AnswersToward(c)
                           \cup (IF c = ch THEN {o} ELSE {})
    BY <1>4, <2>7 DEF AnswersToward
  <2> QED
    BY <1>5, <2>5, <2>8 DEF IsolationInv
<1> QED
  BY <1>6, <1>7 DEF MainDispatch

LEMMA NextIsolated ==
    ASSUME IsolationInv, Cardinality(Hosts) < 10, [Next]_vars
    PROVE  \A c \in Conns : \A a \in AnswersToward(c)' : RightPlace(c, a)'
<1>1. CASE MainDispatch
  BY <1>1, DispatchIsolated
<1>2. CASE ~MainDispatch
  <2> SUFFICES ASSUME NEW c \in Conns, NEW a \in AnswersToward(c)', a # Default
               PROVE  RightPlace(c, a)'
      BY DEF RightPlace
  <2>1. a \in AnswersToward(c)
    BY <1>2, AnswersMove DEF IsolationInv
  <2>2. a.conn \in Conns
    BY <2>1, AnswersType DEF IsolationInv, Order
  <2>3. RightPlace(c, a)
    BY <2>1 DEF IsolationInv
  <2>4. handler'[a.conn] # "none" /\ (Current(a.conn)' => Current(a.conn))
    BY <2>2, <2>3, NextCurrent DEF IsolationInv, RightPlace
  <2> QED
    BY <2>3, <2>4 DEF RightPlace
<1> QED
  BY <1>1, <1>2

\* With fewer than ten hosts an order only ever reaches the host whose report it was
\* computed for, whatever sessions are opened, abandoned and replaced, and another
\* session of that host only if the one that reported has been replaced.
THEOREM OrdersIsolated ==
    ASSUME Cardinality(Hosts) < 10
    PROVE  Spec => []OrderIsolation
<1>1. Init => IsolationInv
  <2> SUFFICES ASSUME Init PROVE IsolationInv
      OBVIOUS
  <2>1. TypeInv
    BY InitType
  <2>2. IDsUnique
    BY DEF Init, IDsUnique
  <2>3. \A c \in Conns : Quiet(c)
    BY DEF Init, Quiet, InMain
  <2>4. \A c \in Conns : \A a \in AnswersToward(c) : a = Default
    BY DEF Init, AnswersToward, Items
  <2> QED
    BY <2>1, <2>2, <2>3, <2>4 DEF IsolationInv, RightPlace
<1>2. IsolationInv /\ [Next]_vars => IsolationInv'
  BY NextType, NextUnique, NextQuiet, NextIsolated DEF IsolationInv
<1>3. IsolationInv => OrderIsolation
  BY DEF IsolationInv, OrderIsolation, RightPlace
<1> QED
  BY <1>1, <1>2, <1>3, PTL DEF Spec

-----------------------------------------------------------------------------
(* The steps of a session, for what a timeout leaves *)

\* The steps of a session at the master, seen from that session.
LEMMA OwnStep ==
    ASSUME TypeInv, NEW d \in Conns, HandleConnections(d)
    PROVE  /\ relay'[d] = relay[d] /\ dropped'[d] = dropped[d] /\ mainLoop' = mainLoop
           /\ \/ /\ handler[d] = "read" /\ handler'[d] = "enqueue"
                 /\ up[d] # <<>> /\ data'[d] = Head(up[d]) /\ up'[d] = Tail(up[d])
                 /\ receive'[d] = receive[d] /\ orderChan'[d] = orderChan[d]
                 /\ response'[d] = response[d] /\ timedOut'[d] = timedOut[d]
              \/ /\ handler[d] = "enqueue" /\ handler'[d] = "select"
                 /\ receive'[d] = Append(receive[d], data[d])
                 /\ orderChan'[d] = orderChan[d] /\ up'[d] = up[d] /\ data'[d] = data[d]
                 /\ response'[d] = response[d] /\ timedOut'[d] = timedOut[d]
              \/ /\ handler[d] = "select" /\ handler'[d] = "write"
                 /\ orderChan[d] # <<>> /\ response'[d] = Head(orderChan[d])
                 /\ orderChan'[d] = Tail(orderChan[d]) /\ timedOut'[d] = timedOut[d]
                 /\ receive'[d] = receive[d] /\ up'[d] = up[d] /\ data'[d] = data[d]
              \/ /\ handler[d] = "select" /\ handler'[d] = "write"
                 /\ orderChan[d] = <<>> /\ response'[d] = Default
                 /\ orderChan'[d] = orderChan[d] /\ timedOut'[d] = timedOut[d] + 1
                 /\ receive'[d] = receive[d] /\ up'[d] = up[d] /\ data'[d] = data[d]
              \/ /\ handler[d] \in {"read", "write"} /\ handler'[d] \in {"read", "done"}
                 /\ receive'[d] = receive[d] /\ orderChan'[d] = orderChan[d]
                 /\ up'[d] = up[d] /\ data'[d] = data[d] /\ timedOut'[d] = timedOut[d]
<1>1. /\ receive \in [Conns -> Seq(1 .. MaxReports)]
      /\ orderChan \in [Conns -> Seq(Order)]
      /\ handler \in [Conns -> {"none", "read", "enqueue", "select", "write", "done"}]
      /\ data \in [Conns -> 0 .. MaxReports]
      /\ response \in [Conns -> Order \cup {Default}]
      /\ timedOut \in [Conns -> Nat]
      /\ up \in [Conns -> Seq(1 .. MaxReports)]
  BY DEF TypeInv, TypeOK, PipelineType, HandlerType, HistoryType, SessionType
<1>2. CASE HandlerRead(d)
  BY <1>1, <1>2 DEF HandlerRead
<1>3. CASE HandlerEnqueue(d)
  BY <1>1, <1>3 DEF HandlerEnqueue
<1>4. CASE HandlerOrder(d)
  BY <1>1, <1>4 DEF HandlerOrder
<1>5. CASE HandlerTimeout(d)
  BY <1>1, <1>5 DEF HandlerTimeout
<1>6. CASE HandlerWrite(d)
  BY <1>1, <1>6 DEF HandlerWrite
<1>7. CASE HandlerReturn(d)
  BY <1>1, <1>7 DEF HandlerReturn
<1> QED
  BY <1>2, <1>3, <1>4, <1>5, <1>6, <1>7 DEF HandleConnections

\* The same for the steps that move a report from "receive" to the main loop.
LEMMA OwnMove ==
    ASSUME TypeInv, NEW d \in Conns, RelayTake(d) \/ MainReceive(d)
    PROVE  /\ handler'[d] = handler[d] /\ data'[d] = data[d] /\ response'[d] = response[d]
           /\ orderChan'[d] = orderChan[d] /\ timedOut'[d] = timedOut[d]
           /\ dropped'[d] = dropped[d]
           /\ \/ /\ relay[d] = <<>> /\ receive[d] # <<>>
                 /\ relay'[d] = <<Head(receive[d])>> /\ receive'[d] = Tail(receive[d])
                 /\ mainLoop' = mainLoop
              \/ /\ mainLoop = <<>> /\ relay[d] # <<>> /\ relay'[d] = <<>>
                 /\ receive'[d] = receive[d]
                 /\ mainLoop' = <<[conn |-> d, n |-> Head(relay[d])]>>
<1>1. /\ receive \in [Conns -> Seq(1 .. MaxReports)]
      /\ relay \in [Conns -> Seq(1 .. MaxReports)]
  BY DEF TypeInv, TypeOK, PipelineType
<1>2. CASE RelayTake(d)
  BY <1>1, <1>2 DEF RelayTake
<1>3. CASE MainReceive(d)
  BY <1>1, <1>3 DEF MainReceive
<1> QED
  BY <1>2, <1>3

\* The numbers Balance adds up.
LEMMA Counts ==
    ASSUME TypeInv, NEW d \in Conns
    PROVE  /\ Len(receive[d]) \in Nat /\ Len(relay[d]) \in Nat /\ Len(orderChan[d]) \in Nat
           /\ timedOut[d] \in Nat /\ dropped[d] \in Nat /\ data[d] \in Nat
           /\ receive[d] \in Seq(1 .. MaxReports) /\ relay[d] \in Seq(1 .. MaxReports)
           /\ orderChan[d] \in Seq(Order) /\ up[d] \in Seq(1 .. MaxReports)
           /\ handler[d] \in {"none", "read", "enqueue", "select", "write", "done"}
           /\ handler[d] = "enqueue" => data[d] # 0
           /\ InMain(d) => mainLoop[1] \in Report
<1>1. /\ receive[d] \in Seq(1 .. MaxReports) /\ relay[d] \in Seq(1 .. MaxReports)
      /\ orderChan[d] \in Seq(Order) /\ up[d] \in Seq(1 .. MaxReports)
      /\ Len(relay[d]) <= 1
  BY DEF TypeInv, TypeOK, PipelineType, SessionType
<1>2. /\ timedOut[d] \in Nat /\ dropped[d] \in Nat
  BY DEF TypeInv, TypeOK, HistoryType
<1>3. /\ data[d] \in Nat
      /\ handler[d] \in {"none", "read", "enqueue", "select", "write", "done"}
      /\ handler[d] = "enqueue" => data[d] # 0
  BY DEF TypeInv, TypeOK, HandlerType
<1>4. InMain(d) => mainLoop[1] \in Report
  BY DEF TypeInv, TypeOK, PipelineType, InMain
<1>5. Len(receive[d]) \in Nat /\ Len(relay[d]) \in Nat /\ Len(orderChan[d]) \in Nat
  BY <1>1, LenProperties
<1> QED
  BY <1>1, <1>2, <1>3, <1>4, <1>5

LEMMA NextBalance ==
    ASSUME TypeInv, TypeInv', IDsUnique, Registered, Cardinality(Hosts) < 10, [Next]_vars,
           \A c \in Conns : Quiet(c),
           NEW d \in Conns, Sole(d), Balance(d)
    PROVE  Balance(d)'
<1> DEFINE held  == IF InMain(d) THEN 1 ELSE 0
           waits == IF handler[d] = "select" THEN 1 ELSE 0
           queue == Len(receive[d])
           hand  == Len(relay[d])
           chan  == Len(orderChan[d])
<1>1. queue + hand + chan + held + dropped[d] = timedOut[d] + waits
  BY Zenon DEF Balance, Backlog, InMain
<1>2. queue' + hand' + chan' + held' + dropped'[d] = timedOut'[d] + waits' => Balance(d)'
  BY Zenon DEF Balance, Backlog, InMain
<1>3. /\ receive[d] \in Seq(1 .. MaxReports) /\ relay[d] \in Seq(1 .. MaxReports)
      /\ orderChan[d] \in Seq(Order)
      /\ queue \in Nat /\ hand \in Nat /\ chan \in Nat /\ held \in Nat /\ waits \in Nat
      /\ timedOut[d] \in Nat /\ dropped[d] \in Nat
  <2>1. held \in Nat /\ waits \in Nat
    OBVIOUS
  <2> QED
    BY <2>1, Counts
<1>a. queue' \in Nat /\ hand' \in Nat /\ chan' \in Nat
  <2>1. /\ receive'[d] \in Seq(1 .. MaxReports) /\ relay'[d] \in Seq(1 .. MaxReports)
        /\ orderChan'[d] \in Seq(Order)
    BY DEF TypeInv, TypeOK, PipelineType, Order
  <2> QED
    BY <2>1, LenProperties
<1>4. ASSUME Same(d) PROVE Balance(d)'
  <2>1. /\ queue' = queue /\ hand' = hand /\ chan' = chan /\ held' = held /\ waits' = waits
        /\ dropped'[d] = dropped[d] /\ timedOut'[d] = timedOut[d]
    BY <1>4 DEF Same
  <2> HIDE DEF held, waits, queue, hand, chan
  <2> QED
    BY <1>1, <1>2, <2>1
<1>5. ASSUME Posted(d) PROVE Balance(d)'
  <2>1. held = 1 /\ held' = 0
    BY <1>5 DEF Posted, InMain
  <2>2. queue' = queue /\ hand' = hand /\ waits' = waits /\ timedOut'[d] = timedOut[d]
    BY <1>5 DEF Posted
  <2>3. \/ chan' = chan + 1 /\ dropped'[d] = dropped[d]
        \/ chan' = chan /\ dropped'[d] = dropped[d] + 1
    <3>1. ASSUME NEW o \in Order, orderChan'[d] = Append(orderChan[d], o)
          PROVE  chan' = chan + 1
      BY <1>3, <3>1, AppendProperties
    <3> HIDE DEF chan
    <3>2. orderChan'[d] = orderChan[d] => chan' = chan
      BY DEF chan
    <3> QED
      BY <1>5, <3>1, <3>2 DEF Posted
  <2> HIDE DEF held, waits, queue, hand, chan
  <2> QED
    BY <1>1, <1>2, <1>3, <2>1, <2>2, <2>3
<1>6. ASSUME Accept(d) PROVE Balance(d)'
  <2>1. /\ handler[d] = "none" /\ handler'[d] = "read"
        /\ UNCHANGED <<receive, relay, mainLoop, orderChan, timedOut, dropped>>
    BY <1>6 DEF Accept, TypeInv, TypeOK, HandlerType
  <2>2. queue' = queue /\ hand' = hand /\ chan' = chan /\ held' = held /\ waits' = waits
    BY <2>1 DEF InMain
  <2> HIDE DEF held, waits, queue, hand, chan
  <2> QED
    BY <1>1, <1>2, <2>1, <2>2
<1>7. ASSUME HandleConnections(d) PROVE Balance(d)'
  <2>1. held' = held /\ hand' = hand /\ dropped'[d] = dropped[d]
    BY <1>7, OwnStep DEF InMain
  <2>2. CASE /\ handler[d] = "enqueue" /\ handler'[d] = "select"
             /\ receive'[d] = Append(receive[d], data[d])
             /\ orderChan'[d] = orderChan[d] /\ timedOut'[d] = timedOut[d]
    <3>1. queue' = queue + 1 /\ chan' = chan /\ waits = 0 /\ waits' = 1
      BY <1>3, <2>2
    <3> HIDE DEF held, waits, queue, hand, chan
    <3> QED
      BY <1>1, <1>2, <1>3, <2>1, <2>2, <3>1
  <2>3. CASE /\ handler[d] = "select" /\ handler'[d] = "write" /\ orderChan[d] # <<>>
             /\ orderChan'[d] = Tail(orderChan[d]) /\ timedOut'[d] = timedOut[d]
             /\ receive'[d] = receive[d]
    <3>1. queue' = queue /\ chan' = chan - 1 /\ waits = 1 /\ waits' = 0
      BY <1>3, <2>3
    <3> HIDE DEF held, waits, queue, hand, chan
    <3> QED
      BY <1>1, <1>2, <1>3, <1>a, <2>1, <2>3, <3>1
  <2>4. CASE /\ handler[d] = "select" /\ handler'[d] = "write"
             /\ orderChan'[d] = orderChan[d] /\ timedOut'[d] = timedOut[d] + 1
             /\ receive'[d] = receive[d]
    <3>1. queue' = queue /\ chan' = chan /\ waits = 1 /\ waits' = 0
      BY <2>4
    <3> HIDE DEF held, waits, queue, hand, chan
    <3> QED
      BY <1>1, <1>2, <1>3, <2>1, <2>4, <3>1
  <2>5. CASE /\ handler[d] # "select" /\ handler'[d] # "select"
             /\ receive'[d] = receive[d] /\ orderChan'[d] = orderChan[d]
             /\ timedOut'[d] = timedOut[d]
    <3>1. queue' = queue /\ chan' = chan /\ waits = 0 /\ waits' = 0
      BY <2>5
    <3> HIDE DEF held, waits, queue, hand, chan
    <3> QED
      BY <1>1, <1>2, <1>3, <2>1, <2>5, <3>1
  <2> QED
    BY <1>7, <2>2, <2>3, <2>4, <2>5, OwnStep
<1>8. ASSUME RelayTake(d) \/ MainReceive(d) PROVE Balance(d)'
  <2>1. \/ queue' = queue - 1 /\ hand' = hand + 1 /\ held' = held
        \/ queue' = queue /\ hand' = hand - 1 /\ held = 0 /\ held' = 1
    <3>1. CASE /\ relay[d] = <<>> /\ receive[d] # <<>>
               /\ relay'[d] = <<Head(receive[d])>> /\ receive'[d] = Tail(receive[d])
               /\ mainLoop' = mainLoop
      BY <1>3, <3>1 DEF InMain
    <3>2. CASE /\ mainLoop = <<>> /\ relay[d] # <<>> /\ relay'[d] = <<>>
               /\ receive'[d] = receive[d]
               /\ mainLoop' = <<[conn |-> d, n |-> Head(relay[d])]>>
      <4>1. held = 0 /\ held' = 1
        BY <3>2 DEF InMain
      <4>2. Len(relay[d]) <= 1
        BY DEF TypeInv, TypeOK, PipelineType
      <4> QED
        BY <1>3, <3>2, <4>1, <4>2
    <3> QED
      BY <1>8, <3>1, <3>2, OwnMove
  <2>2. chan' = chan /\ waits' = waits /\ dropped'[d] = dropped[d] /\ timedOut'[d] = timedOut[d]
    BY <1>8, OwnMove
  <2> HIDE DEF held, waits, queue, hand, chan
  <2>3. CASE queue' = queue - 1 /\ hand' = hand + 1 /\ held' = held
    BY <1>1, <1>2, <1>3, <2>2, <2>3
  <2>4. CASE queue' = queue /\ hand' = hand - 1 /\ held = 0 /\ held' = 1
    BY <1>1, <1>2, <1>3, <2>2, <2>4
  <2> QED
    BY <2>1, <2>3, <2>4
<1>9. MainDispatch => Same(d) \/ Posted(d)
  BY DispatchFor
<1> QED
  BY <1>4, <1>5, <1>6, <1>7, <1>8, <1>9, Untouched DEF MasterStep

BacklogInv ==
    /\ TypeInv /\ IDsUnique /\ Registered
    /\ \A c \in Conns : Quiet(c)
    /\ BacklogNeverDrains

LEMMA InitBacklog == Init => BacklogInv
<1> SUFFICES ASSUME Init PROVE BacklogInv
    OBVIOUS
<1>1. TypeInv
  BY InitType
<1>2. IDsUnique /\ Registered
  BY ConnsAssumption DEF Init, IDsUnique, Registered
<1>3. \A c \in Conns : Quiet(c)
  BY DEF Init, Quiet, InMain
<1>4. BacklogNeverDrains
  BY DEF Init, BacklogNeverDrains, Backlog
<1> QED
  BY <1>1, <1>2, <1>3, <1>4 DEF BacklogInv

LEMMA NextBacklog ==
    ASSUME Cardinality(Hosts) < 10
    PROVE  BacklogInv /\ [Next]_vars => BacklogInv'
<1> SUFFICES ASSUME BacklogInv, [Next]_vars PROVE BacklogInv'
    OBVIOUS
<1>1. TypeInv' /\ IDsUnique'
  BY NextType, NextUnique DEF BacklogInv
<1>2. Registered'
  BY NextRegistered DEF BacklogInv
<1>3. ASSUME NEW c \in Conns PROVE Quiet(c)'
  BY NextQuiet DEF BacklogInv
<1>4. ASSUME NEW d \in Conns, Sole(d) PROVE Balance(d)'
  BY <1>1, <1>4, NextBalance DEF BacklogInv, BacklogNeverDrains, Balance
<1>5. BacklogNeverDrains'
  BY <1>4 DEF BacklogNeverDrains, Balance, Sole
<1> QED
  BY <1>1, <1>2, <1>3, <1>5 DEF BacklogInv

\* With fewer than ten hosts the order of a report that timed out waits for the rest
\* of the session, unless the channel was full: the backlog of a session no other
\* session of its host interferes with is the number of its timeouts less the
\* orders skipped.
THEOREM TimeoutsStay ==
    ASSUME Cardinality(Hosts) < 10
    PROVE  Spec => []BacklogNeverDrains
<1>1. BacklogInv => BacklogNeverDrains
  BY DEF BacklogInv
<1> QED
  BY <1>1, InitBacklog, NextBacklog, PTL DEF Spec

-----------------------------------------------------------------------------
(* How old the orders are *)

\* The reports of session d the relay has been given.
Enqueued(d) == IF handler[d] = "enqueue" THEN data[d] - 1 ELSE data[d]

\* On the session: the reports not yet read, one after the other.
ReportsInOrder(d) ==
    /\ \A i \in 1 .. Len(up[d]) : up[d][i] = data[d] + i
    /\ slave[d] # "dead" => sent[d] = data[d] + Len(up[d])

\* At the master: the reports on their way to the main loop, up to the last one
\* the relay was given.
PipeInOrder(d) ==
    /\ \A i \in 1 .. Len(receive[d]) :
          receive[d][i] + Len(receive[d]) = Enqueued(d) + i
    /\ relay[d] # <<>> => relay[d][1] + Len(receive[d]) = Enqueued(d)
    /\ InMain(d) => mainLoop[1].n + Len(receive[d]) + Len(relay[d]) = Enqueued(d)

LEMMA NextReports ==
    ASSUME TypeInv, [Next]_vars, NEW d \in Conns, ReportsInOrder(d)
    PROVE  ReportsInOrder(d)'
<1>1. /\ up[d] \in Seq(1 .. MaxReports) /\ data[d] \in Nat /\ sent[d] \in Nat
      /\ up \in [Conns -> Seq(1 .. MaxReports)] /\ data \in [Conns -> 0 .. MaxReports]
      /\ sent \in [Conns -> 0 .. MaxReports]
      /\ slave \in [Conns -> {"write", "read", "wait", "hand", "dead"}]
  BY CapsAssumption DEF TypeInv, TypeOK, SessionType, HandlerType, SlaveType
<1>2. CASE /\ up'[d] = up[d] /\ data'[d] = data[d] /\ sent'[d] = sent[d]
           /\ slave'[d] # "dead" => slave[d] # "dead"
  BY <1>2 DEF ReportsInOrder
<1>3. CASE SlaveWrite(d)
  <2>1. /\ up'[d] = Append(up[d], sent[d] + 1) /\ sent'[d] = sent[d] + 1
        /\ data' = data /\ slave[d] # "dead"
    BY <1>1, <1>3 DEF SlaveWrite, masterVars
  <2>2. sent[d] = data[d] + Len(up[d])
    BY <2>1 DEF ReportsInOrder
  <2>3. /\ Len(up'[d]) = Len(up[d]) + 1
        /\ \A i \in 1 .. Len(up[d]) : up'[d][i] = up[d][i]
        /\ up'[d][Len(up[d]) + 1] = sent[d] + 1
    BY <1>1, <2>1
  <2>4. sent'[d] = data'[d] + Len(up'[d])
    BY <1>1, <2>1, <2>2, <2>3
  <2>5. ASSUME NEW i \in 1 .. Len(up'[d]) PROVE up'[d][i] = data'[d] + i
    <3>1. CASE i \in 1 .. Len(up[d])
      BY <2>1, <2>3, <3>1 DEF ReportsInOrder
    <3>2. CASE i = Len(up[d]) + 1
      BY <1>1, <2>1, <2>2, <2>3, <3>2
    <3> QED
      BY <1>1, <2>3, <3>1, <3>2
  <2> QED
    BY <2>4, <2>5 DEF ReportsInOrder
<1>4. CASE SlaveStop(d)
  <2>1. slave'[d] = "dead" /\ data' = data
    BY <1>1, <1>4 DEF SlaveStop, masterVars
  <2>2. PICK k \in 0 .. Len(up[d]) : up'[d] = SubSeq(up[d], 1, k)
    BY <1>1, <1>4 DEF SlaveStop
  <2>3. Len(up'[d]) = k /\ \A i \in 1 .. k : up'[d][i] = up[d][i]
    BY <1>1, <2>2
  <2> QED
    BY <1>1, <2>1, <2>3 DEF ReportsInOrder
<1>5. CASE HandlerRead(d)
  <2>1. /\ up[d] # <<>> /\ data'[d] = Head(up[d]) /\ up'[d] = Tail(up[d])
        /\ sent' = sent /\ slave' = slave
    BY <1>1, <1>5 DEF HandlerRead, slaveVars
  <2>2. Len(up[d]) >= 1 /\ data'[d] = up[d][1]
    BY <1>1, <2>1
  <2>3. data'[d] = data[d] + 1
    BY <1>1, <2>2 DEF ReportsInOrder
  <2>4. Len(up'[d]) = Len(up[d]) - 1 /\ \A i \in 1 .. Len(up'[d]) : up'[d][i] = up[d][i + 1]
    BY <1>1, <2>1
  <2>5. ASSUME NEW i \in 1 .. Len(up'[d]) PROVE up'[d][i] = data'[d] + i
    <3>1. i + 1 \in 1 .. Len(up[d])
      BY <1>1, <2>4
    <3> QED
      BY <1>1, <2>3, <2>4, <3>1 DEF ReportsInOrder
  <2>6. slave'[d] # "dead" => sent'[d] = data'[d] + Len(up'[d])
    BY <1>1, <2>1, <2>3, <2>4 DEF ReportsInOrder
  <2> QED
    BY <2>5, <2>6 DEF ReportsInOrder
<1>6. ASSUME NEW c \in Conns, SendToMaster(c), c # d \/ ~(SlaveWrite(d) \/ SlaveStop(d))
      PROVE  /\ up'[d] = up[d] /\ data'[d] = data[d] /\ sent'[d] = sent[d]
             /\ slave'[d] # "dead" => slave[d] # "dead"
  BY <1>1, <1>6 DEF SendToMaster, SlaveWrite, SlaveBlock, SlaveRead, SlaveTimeout,
     SlaveTakeRequest, SlaveStop, masterVars
<1>7. ASSUME NEW c \in Conns, HandleConnections(c), c # d \/ ~HandlerRead(d)
      PROVE  up'[d] = up[d] /\ data'[d] = data[d] /\ UNCHANGED <<sent, slave>>
  BY <1>1, <1>7 DEF HandleConnections, HandlerRead, HandlerEnqueue, HandlerOrder,
     HandlerTimeout, HandlerWrite, HandlerReturn, slaveVars
<1>8. ASSUME NEW c \in Conns, Accept(c) \/ RelayTake(c) \/ MainReceive(c)
      PROVE  UNCHANGED <<up, data, sent, slave>>
  BY <1>8 DEF Accept, RelayTake, MainReceive, slaveVars
<1>9. MainPanic \/ MainDispatch \/ UNCHANGED vars => UNCHANGED <<up, data, sent, slave>>
  BY DEF MainPanic, MainDispatch, vars, masterVars, slaveVars
<1> QED
  BY <1>2, <1>3, <1>4, <1>5, <1>6, <1>7, <1>8, <1>9 DEF Next

\* One report more or less on the way.
LEMMA OneMore ==
    ASSUME NEW n \in Int, NEW q \in Int, NEW e \in Int, NEW r \in Int
    PROVE  /\ n + q = e + 1 => n + (q - 1) = e
           /\ n + q = e + (r + 1) => n + (q - 1) = e + r
           /\ n + q = e - 1 => n + (q + 1) = e
           /\ n + q + r = e - 1 => n + (q + 1) + r = e
  OBVIOUS

LEMMA NextPipe ==
    ASSUME TypeInv, TypeInv', [Next]_vars, NEW d \in Conns, ReportsInOrder(d), PipeInOrder(d)
    PROVE  PipeInOrder(d)'
<1> DEFINE queue == Len(receive[d])
<1>1. /\ receive[d] \in Seq(1 .. MaxReports) /\ relay[d] \in Seq(1 .. MaxReports)
      /\ up[d] \in Seq(1 .. MaxReports) /\ queue \in Nat
      /\ Len(relay[d]) \in Nat /\ data[d] \in Nat
      /\ InMain(d) => mainLoop[1].n \in Nat
  BY Counts, CapsAssumption DEF Report
<1>2. Enqueued(d) \in Int
  BY <1>1 DEF Enqueued
<1>a. 1 .. MaxReports \subseteq Nat
  BY CapsAssumption
<1>b. \A i \in 1 .. queue : receive[d][i] \in Nat
  BY <1>1, <1>a, ElementOfSeq
<1>c. relay[d] # <<>> => relay[d][1] \in Nat
  <2>1. relay[d] # <<>> => 1 \in 1 .. Len(relay[d])
    BY <1>1
  <2> QED
    BY <1>1, <1>a, <2>1, ElementOfSeq
<1>3. CASE Same(d)
  BY <1>3 DEF Same, PipeInOrder, Enqueued, InMain
<1>4. CASE MainDispatch
  <2>1. mainLoop' = <<>> /\ UNCHANGED <<receive, relay, handler, data>>
    BY <1>4 DEF MainDispatch
  <2> QED
    BY <2>1 DEF PipeInOrder, Enqueued, InMain
<1>5. CASE Accept(d)
  <2>1. /\ handler[d] = "none" /\ handler'[d] = "read"
        /\ UNCHANGED <<receive, relay, mainLoop, data>>
    BY <1>5 DEF Accept, TypeInv, TypeOK, HandlerType
  <2>2. Enqueued(d)' = Enqueued(d)
    BY <2>1 DEF Enqueued
  <2> QED
    BY <2>1, <2>2 DEF PipeInOrder, InMain
<1>6. CASE HandleConnections(d)
  <2>1. relay'[d] = relay[d] /\ mainLoop' = mainLoop
    BY <1>6, OwnStep
  <2>2. CASE Enqueued(d)' = Enqueued(d) /\ receive'[d] = receive[d]
    BY <2>1, <2>2 DEF PipeInOrder, InMain
  <2>3. CASE /\ handler[d] = "read" /\ handler'[d] = "enqueue"
             /\ up[d] # <<>> /\ data'[d] = Head(up[d]) /\ receive'[d] = receive[d]
    <3>1. data'[d] = up[d][1] /\ 1 \in 1 .. Len(up[d])
      BY <1>1, <2>3
    <3>2. data'[d] = data[d] + 1
      BY <3>1 DEF ReportsInOrder
    <3>3. Enqueued(d)' = Enqueued(d)
      <4>1. Enqueued(d)' = (data[d] + 1) - 1 /\ Enqueued(d) = data[d]
        BY <2>3, <3>2 DEF Enqueued
      <4> QED
        BY <1>1, <4>1
    <3> QED
      BY <2>2, <2>3, <3>3
  <2>4. CASE /\ handler[d] = "enqueue" /\ handler'[d] = "select"
             /\ receive'[d] = Append(receive[d], data[d]) /\ data'[d] = data[d]
    <3>1. Enqueued(d)' = data[d] /\ Enqueued(d) = data[d] - 1
      BY <2>4 DEF Enqueued
    <3>2. /\ Len(receive'[d]) = queue + 1
          /\ \A i \in 1 .. queue : receive'[d][i] = receive[d][i]
          /\ receive'[d][queue + 1] = data[d]
      BY <1>1, <2>4
    <3>3. ASSUME NEW i \in 1 .. Len(receive'[d])
          PROVE  receive'[d][i] + Len(receive'[d]) = Enqueued(d)' + i
      <4>1. CASE i \in 1 .. queue
        <5>1. receive[d][i] + queue = Enqueued(d) + i
          BY <4>1 DEF PipeInOrder
        <5>2. receive[d][i] \in Nat /\ queue \in Nat /\ Enqueued(d) \in Int /\ i \in Nat
          BY <1>1, <1>2, <1>b, <4>1
        <5> HIDE DEF queue
        <5>3. receive[d][i] + (queue + 1) = (Enqueued(d) + 1) + i
          BY <5>1, <5>2
        <5>4. Enqueued(d) + 1 = data[d]
          BY <1>1, <3>1
        <5> QED
          BY <3>1, <3>2, <4>1, <5>3, <5>4 DEF queue
      <4>2. CASE i = queue + 1
        BY <1>1, <3>1, <3>2, <4>2
      <4> QED
        BY <1>1, <3>2, <4>1, <4>2
    <3>4. relay[d] # <<>> => relay[d][1] + Len(receive'[d]) = Enqueued(d)'
      <4>1. SUFFICES ASSUME relay[d] # <<>> PROVE relay[d][1] + (queue + 1) = data[d]
        BY <3>1, <3>2
      <4>2. relay[d][1] + queue = data[d] - 1
        BY <3>1, <4>1 DEF PipeInOrder
      <4> HIDE DEF queue
      <4> QED
        <5>1. relay[d][1] \in Int /\ queue \in Int /\ data[d] \in Int
          BY <1>1, <1>c, <4>1
        <5> QED
          BY <4>2, <5>1, OneMore
    <3>5. InMain(d) => mainLoop[1].n + Len(receive'[d]) + Len(relay[d]) = Enqueued(d)'
      <4>1. SUFFICES ASSUME InMain(d)
                     PROVE  mainLoop[1].n + (queue + 1) + Len(relay[d]) = data[d]
        BY <3>1, <3>2
      <4>2. mainLoop[1].n + queue + Len(relay[d]) = data[d] - 1
        BY <3>1, <4>1 DEF PipeInOrder
      <4> HIDE DEF queue
      <4> QED
        <5>1. /\ mainLoop[1].n \in Int /\ queue \in Int /\ Len(relay[d]) \in Int
              /\ data[d] \in Int
          BY <1>1, <4>1
        <5> QED
          BY <4>2, <5>1, OneMore
    <3> QED
      BY <2>1, <3>3, <3>4, <3>5 DEF PipeInOrder, InMain
  <2>5. CASE /\ handler[d] # "enqueue" /\ handler'[d] # "enqueue"
             /\ data'[d] = data[d] /\ receive'[d] = receive[d]
    <3>1. Enqueued(d)' = Enqueued(d)
      BY <2>5 DEF Enqueued
    <3> QED
      BY <2>2, <2>5, <3>1
  <2> QED
    BY <1>6, <2>3, <2>4, <2>5, OwnStep
<1>7. CASE RelayTake(d) \/ MainReceive(d)
  <2>1. Enqueued(d)' = Enqueued(d)
    BY <1>7, OwnMove DEF Enqueued
  <2>2. CASE /\ relay[d] = <<>> /\ receive[d] # <<>>
             /\ relay'[d] = <<Head(receive[d])>> /\ receive'[d] = Tail(receive[d])
             /\ mainLoop' = mainLoop
    <3>1. /\ Len(receive'[d]) = queue - 1 /\ queue >= 1
          /\ \A i \in 1 .. queue - 1 : receive'[d][i] = receive[d][i + 1]
          /\ relay'[d][1] = receive[d][1] /\ Len(relay'[d]) = 1
      BY <1>1, <2>2
    <3>2. ASSUME NEW i \in 1 .. queue
          PROVE  receive[d][i] \in Nat /\ receive[d][i] + queue = Enqueued(d) + i
      BY <1>b DEF PipeInOrder
    <3>3. ASSUME NEW i \in 1 .. Len(receive'[d])
          PROVE  receive'[d][i] + Len(receive'[d]) = Enqueued(d) + i
      <4>1. i \in 1 .. queue - 1 /\ i + 1 \in 1 .. queue
        BY <1>1, <3>1
      <4>2. receive[d][i + 1] \in Nat /\ receive[d][i + 1] + queue = Enqueued(d) + (i + 1)
        BY <3>2, <4>1
      <4> HIDE DEF queue
      <4>3. receive[d][i + 1] + (queue - 1) = Enqueued(d) + i
        <5>1. /\ receive[d][i + 1] \in Int /\ queue \in Int /\ Enqueued(d) \in Int
              /\ i \in Int
          BY <1>1, <1>2, <4>1, <4>2
        <5> QED
          BY <4>2, <5>1, OneMore
      <4> QED
        BY <3>1, <4>1, <4>3 DEF queue
    <3>4. relay'[d][1] + Len(receive'[d]) = Enqueued(d)
      <4>1. receive[d][1] \in Nat /\ receive[d][1] + queue = Enqueued(d) + 1
        <5>1. 1 \in 1 .. queue
          BY <1>1, <3>1
        <5> HIDE DEF queue
        <5> QED
          BY ONLY <3>2, <5>1
      <4> HIDE DEF queue
      <4>2. receive[d][1] + (queue - 1) = Enqueued(d)
        <5>1. receive[d][1] \in Int /\ queue \in Int /\ Enqueued(d) \in Int
          BY <1>1, <1>2, <4>1
        <5> QED
          BY <4>1, <5>1, OneMore
      <4> QED
        BY <3>1, <4>2 DEF queue
    <3>5. InMain(d) => mainLoop[1].n + Len(receive'[d]) + Len(relay'[d]) = Enqueued(d)
      <4>1. InMain(d) => mainLoop[1].n + queue = Enqueued(d)
        BY <1>1, <2>2 DEF PipeInOrder
      <4> HIDE DEF queue
      <4>2. InMain(d) => mainLoop[1].n + (queue - 1) + 1 = Enqueued(d)
        BY <1>1, <1>2, <4>1
      <4> QED
        BY <3>1, <4>2 DEF queue
    <3> QED
      BY <2>1, <2>2, <3>3, <3>4, <3>5 DEF PipeInOrder, InMain
  <2>3. CASE /\ mainLoop = <<>> /\ relay[d] # <<>> /\ relay'[d] = <<>>
             /\ receive'[d] = receive[d]
             /\ mainLoop' = <<[conn |-> d, n |-> Head(relay[d])]>>
    <3>1. mainLoop'[1].n = relay[d][1] /\ relay[d][1] \in Nat
      BY <1>1, <1>c, <2>3
    <3>2. relay[d][1] + queue = Enqueued(d)
      BY <2>3 DEF PipeInOrder
    <3>3. mainLoop'[1].n + Len(receive'[d]) + Len(relay'[d]) = Enqueued(d)
      BY <1>1, <2>3, <3>1, <3>2
    <3> QED
      BY <2>1, <2>3, <3>3 DEF PipeInOrder
  <2> QED
    BY <1>7, <2>2, <2>3, OwnMove
<1> QED
  BY <1>3, <1>4, <1>5, <1>6, <1>7, Untouched DEF MasterStep

\* Order n is the i-th in the channel of a session whose relay was given e reports:
\* "late" orders are behind it, "skipped" at most of them were dropped since.
InTurn(n, i, e, late, skipped) ==
    /\ n <= e
    /\ e + i <= n + late
    /\ n + late <= e + i + skipped

\* The rounds of session d that timed out, and the one that may.
Late(d) == timedOut[d] + (IF handler[d] = "select" THEN 1 ELSE 0)

OrdersInTurn(d) ==
    \A i \in 1 .. Len(orderChan[d]) :
        InTurn(orderChan[d][i].n, i, Enqueued(d), Late(d), dropped[d])

\* AnswerLag, for one session.
LagIs(d) ==
    handler[d] = "write" /\ response[d] # Default =>
        /\ response[d].n <= data[d]
        /\ data[d] - response[d].n <= timedOut[d]
        /\ dropped[d] = 0 => data[d] - response[d].n = timedOut[d]

LEMMA TurnArithmetic ==
    ASSUME NEW n \in Nat, NEW i \in Nat, NEW e \in Nat, NEW late \in Nat,
           NEW skipped \in Nat
    PROVE  /\ InTurn(n, i, e, late, skipped) => InTurn(n, i, e + 1, late + 1, skipped)
           /\ InTurn(n, i, e, late, skipped) => InTurn(n, i, e, late, skipped + 1)
           /\ InTurn(n, i + 1, e, late + 1, skipped) => InTurn(n, i, e, late, skipped)
  BY DEF InTurn

\* The order a handler takes.
LEMMA FirstInTurn ==
    ASSUME NEW n \in Nat, NEW e \in Nat, NEW late \in Nat, NEW skipped \in Nat,
           InTurn(n, 1, e, late + 1, skipped)
    PROVE  n <= e /\ e - n <= late /\ (skipped = 0 => e - n = late)
  BY DEF InTurn

\* An order posted behind "chan" others for a report with "queue" and "hand" behind.
LEMMA PostedInTurn ==
    ASSUME NEW n \in Nat, NEW e \in Nat, NEW late \in Nat, NEW skipped \in Nat,
           NEW queue \in Nat, NEW hand \in Nat, NEW chan \in Nat,
           n + queue + hand = e, queue + hand + chan + 1 + skipped = late
    PROVE  InTurn(n, chan + 1, e, late, skipped)
  BY DEF InTurn

LEMMA NumberTypes ==
    ASSUME TypeInv, NEW d \in Conns
    PROVE  /\ Enqueued(d) \in Nat /\ Late(d) \in Nat /\ dropped[d] \in Nat
           /\ timedOut[d] \in Nat /\ data[d] \in Nat
           /\ \A i \in 1 .. Len(orderChan[d]) :
                 orderChan[d][i] \in Order /\ orderChan[d][i].n \in Nat
           /\ InMain(d) => mainLoop[1].n \in Nat
<1>1. /\ timedOut[d] \in Nat /\ dropped[d] \in Nat /\ data[d] \in Nat
      /\ orderChan[d] \in Seq(Order)
      /\ handler[d] = "enqueue" => data[d] # 0
      /\ InMain(d) => mainLoop[1] \in Report
  BY Counts
<1>2. Enqueued(d) \in Nat /\ Late(d) \in Nat
  BY <1>1 DEF Enqueued, Late
<1>3. ASSUME NEW i \in 1 .. Len(orderChan[d]) PROVE orderChan[d][i] \in Order
  BY <1>1, ElementOfSeq
<1>4. \A o \in Order : o.n \in Nat
  BY CapsAssumption DEF Order
<1>5. \A m \in Report : m.n \in Nat
  BY CapsAssumption DEF Report
<1> QED
  BY <1>1, <1>2, <1>3, <1>4, <1>5

LEMMA NextTurn ==
    ASSUME TypeInv, TypeInv', IDsUnique, Registered, Cardinality(Hosts) < 10, [Next]_vars,
           \A c \in Conns : Quiet(c),
           NEW d \in Conns, Sole(d), Balance(d),
           ReportsInOrder(d), PipeInOrder(d), OrdersInTurn(d), LagIs(d)
    PROVE  OrdersInTurn(d)' /\ LagIs(d)'
<1> DEFINE chan == Len(orderChan[d])
<1>1. /\ Enqueued(d) \in Nat /\ Late(d) \in Nat /\ dropped[d] \in Nat
      /\ timedOut[d] \in Nat /\ data[d] \in Nat
      /\ \A i \in 1 .. chan : orderChan[d][i] \in Order /\ orderChan[d][i].n \in Nat
      /\ InMain(d) => mainLoop[1].n \in Nat
  BY NumberTypes
<1>2. orderChan[d] \in Seq(Order) /\ chan \in Nat
  BY Counts
<1>3. CASE Same(d)
  BY <1>3 DEF Same, OrdersInTurn, Enqueued, Late, LagIs
<1>4. CASE Accept(d)
  <2>1. /\ handler[d] = "none" /\ handler'[d] = "read"
        /\ UNCHANGED <<orderChan, data, timedOut, dropped>>
    BY <1>4 DEF Accept, TypeInv, TypeOK, HandlerType
  <2>2. Enqueued(d)' = Enqueued(d) /\ Late(d)' = Late(d)
    BY <2>1 DEF Enqueued, Late
  <2> QED
    BY <2>1, <2>2 DEF OrdersInTurn, LagIs
<1>5. CASE RelayTake(d) \/ MainReceive(d)
  BY <1>5, OwnMove DEF OrdersInTurn, Enqueued, Late, LagIs
<1>6. CASE Posted(d)
  <2>1. /\ Enqueued(d)' = Enqueued(d) /\ Late(d)' = Late(d)
        /\ dropped'[d] = dropped[d] \/ dropped'[d] = dropped[d] + 1
    BY <1>6 DEF Posted, Enqueued, Late
  <2>2. LagIs(d)'
    <3>1. dropped'[d] = 0 => dropped[d] = 0
      BY <1>1, <2>1
    <3> QED
      BY <1>6, <3>1 DEF Posted, LagIs
  <2>3. ASSUME NEW o \in Order, o.n = mainLoop[1].n, dropped'[d] = dropped[d],
               orderChan'[d] = Append(orderChan[d], o)
        PROVE  OrdersInTurn(d)'
    <3>1. /\ Len(orderChan'[d]) = chan + 1
          /\ \A i \in 1 .. chan : orderChan'[d][i] = orderChan[d][i]
          /\ orderChan'[d][chan + 1] = o
      BY <1>2, <2>3
    <3>2. mainLoop[1].n + Len(receive[d]) + Len(relay[d]) = Enqueued(d)
      BY <1>6 DEF Posted, PipeInOrder
    <3>3. Len(receive[d]) + Len(relay[d]) + chan + 1 + dropped[d] = Late(d)
      <4>1. Backlog(d) = Len(receive[d]) + Len(relay[d]) + chan + 1
        BY <1>6 DEF Posted, InMain, Backlog
      <4> QED
        BY <4>1 DEF Balance, Late
    <3>4. Len(receive[d]) \in Nat /\ Len(relay[d]) \in Nat
      BY Counts
    <3>5. mainLoop[1].n \in Nat
      BY <1>1, <1>6 DEF Posted
    <3>6. InTurn(o.n, chan + 1, Enqueued(d), Late(d), dropped[d])
      <4> HIDE DEF chan
      <4> QED
        BY <1>1, <1>2, <2>3, <3>2, <3>3, <3>4, <3>5, PostedInTurn
    <3>7. ASSUME NEW i \in 1 .. Len(orderChan'[d])
          PROVE  InTurn(orderChan'[d][i].n, i, Enqueued(d), Late(d), dropped[d])
      <4>1. CASE i \in 1 .. chan
        BY <3>1, <4>1 DEF OrdersInTurn
      <4>2. CASE i = chan + 1
        BY <3>1, <3>6, <4>2
      <4> QED
        BY <1>2, <3>1, <4>1, <4>2
    <3> QED
      BY <2>1, <2>3, <3>7 DEF OrdersInTurn
  <2>4. ASSUME orderChan'[d] = orderChan[d], dropped'[d] = dropped[d] + 1
        PROVE  OrdersInTurn(d)'
    <3>1. ASSUME NEW i \in 1 .. chan
          PROVE  InTurn(orderChan[d][i].n, i, Enqueued(d), Late(d), dropped[d] + 1)
      <4>1. InTurn(orderChan[d][i].n, i, Enqueued(d), Late(d), dropped[d])
        BY DEF OrdersInTurn
      <4>2. i \in Nat
        BY <1>2
      <4> QED
        <5>1. /\ orderChan[d][i].n \in Nat /\ Enqueued(d) \in Nat /\ Late(d) \in Nat
              /\ dropped[d] \in Nat
          BY <1>1
        <5> QED
          BY <4>1, <4>2, <5>1, TurnArithmetic, Zenon
    <3> QED
      BY <2>1, <2>4, <3>1 DEF OrdersInTurn
  <2> QED
    BY <1>6, <2>2, <2>3, <2>4 DEF Posted
<1>7. CASE HandleConnections(d)
  <2>1. dropped'[d] = dropped[d]
    BY <1>7, OwnStep
  <2>2. CASE /\ handler[d] = "read" /\ handler'[d] = "enqueue"
             /\ up[d] # <<>> /\ data'[d] = Head(up[d])
             /\ orderChan'[d] = orderChan[d] /\ timedOut'[d] = timedOut[d]
    <3>1. up[d] \in Seq(1 .. MaxReports)
      BY Counts
    <3>2. data'[d] = data[d] + 1
      BY <2>2, <3>1 DEF ReportsInOrder
    <3>3. Enqueued(d)' = Enqueued(d)
      <4>1. Enqueued(d)' = (data[d] + 1) - 1 /\ Enqueued(d) = data[d]
        BY <2>2, <3>2 DEF Enqueued
      <4> QED
        BY <1>1, <4>1
    <3>4. Late(d)' = Late(d)
      BY <2>2 DEF Late
    <3>5. OrdersInTurn(d)'
      BY <2>1, <2>2, <3>3, <3>4 DEF OrdersInTurn
    <3> QED
      BY <2>2, <3>5 DEF LagIs
  <2>3. CASE /\ handler[d] = "enqueue" /\ handler'[d] = "select" /\ data'[d] = data[d]
             /\ orderChan'[d] = orderChan[d] /\ timedOut'[d] = timedOut[d]
    <3>1. Enqueued(d)' = Enqueued(d) + 1
      <4>1. Enqueued(d)' = data[d] /\ Enqueued(d) = data[d] - 1
        BY <2>3 DEF Enqueued
      <4> QED
        BY <1>1, <4>1
    <3>2. Late(d)' = Late(d) + 1
      <4>1. Late(d)' = timedOut[d] + 1 /\ Late(d) = timedOut[d] + 0
        BY <2>3 DEF Late
      <4> QED
        BY <1>1, <4>1
    <3>3. ASSUME NEW i \in 1 .. chan
          PROVE  InTurn(orderChan[d][i].n, i, Enqueued(d) + 1, Late(d) + 1, dropped[d])
      <4>1. InTurn(orderChan[d][i].n, i, Enqueued(d), Late(d), dropped[d])
        BY DEF OrdersInTurn
      <4>2. i \in Nat
        BY <1>2
      <4> QED
        BY <1>1, <4>1, <4>2, TurnArithmetic
    <3>4. OrdersInTurn(d)'
      BY <2>1, <2>3, <3>1, <3>2, <3>3 DEF OrdersInTurn
    <3> QED
      BY <2>3, <3>4 DEF LagIs
  <2>4. CASE /\ handler[d] = "select" /\ handler'[d] = "write" /\ orderChan[d] # <<>>
             /\ response'[d] = Head(orderChan[d]) /\ orderChan'[d] = Tail(orderChan[d])
             /\ timedOut'[d] = timedOut[d] /\ data'[d] = data[d]
    <3>1. /\ response'[d] = orderChan[d][1] /\ chan >= 1
          /\ Len(orderChan'[d]) = chan - 1
          /\ \A i \in 1 .. chan - 1 : orderChan'[d][i] = orderChan[d][i + 1]
      BY <1>2, <2>4
    <3>2. Enqueued(d)' = Enqueued(d) /\ Enqueued(d) = data[d]
      BY <2>4 DEF Enqueued
    <3>3. Late(d) = timedOut[d] + 1 /\ Late(d)' = timedOut[d]
      <4>1. Late(d) = timedOut[d] + 1 /\ Late(d)' = timedOut[d] + 0
        BY <2>4 DEF Late
      <4> QED
        BY <1>1, <4>1
    <3>4. ASSUME NEW i \in 1 .. chan - 1
          PROVE  InTurn(orderChan[d][i + 1].n, i, Enqueued(d), timedOut[d], dropped[d])
      <4>1. i \in Nat /\ i + 1 \in 1 .. chan
        BY <1>2
      <4>2. InTurn(orderChan[d][i + 1].n, i + 1, Enqueued(d), timedOut[d] + 1, dropped[d])
        BY <3>3, <4>1 DEF OrdersInTurn
      <4> QED
        BY <1>1, <4>1, <4>2, TurnArithmetic
    <3>5. OrdersInTurn(d)'
      BY <2>1, <3>1, <3>2, <3>3, <3>4 DEF OrdersInTurn
    <3>6. LagIs(d)'
      <4>1. 1 \in 1 .. chan
        BY <1>2, <3>1
      <4>2. InTurn(orderChan[d][1].n, 1, data[d], timedOut[d] + 1, dropped[d])
        BY <3>2, <3>3, <4>1 DEF OrdersInTurn
      <4> QED
        <5>1. /\ orderChan[d][1].n \in Nat /\ data[d] \in Nat /\ timedOut[d] \in Nat
              /\ dropped[d] \in Nat /\ 1 \in Nat
          BY <1>1, <4>1
        <5>2. /\ orderChan[d][1].n <= data[d]
              /\ data[d] - orderChan[d][1].n <= timedOut[d]
              /\ dropped[d] = 0 => data[d] - orderChan[d][1].n = timedOut[d]
          BY <4>2, <5>1, FirstInTurn
        <5> QED
          BY <2>1, <2>4, <3>1, <5>2 DEF LagIs
    <3> QED
      BY <3>5, <3>6
  <2>5. CASE /\ handler[d] = "select" /\ handler'[d] = "write" /\ orderChan[d] = <<>>
             /\ response'[d] = Default /\ orderChan'[d] = orderChan[d]
    BY <2>5 DEF OrdersInTurn, LagIs
  <2>6. CASE /\ handler[d] \in {"read", "write"} /\ handler'[d] \in {"read", "done"}
             /\ orderChan'[d] = orderChan[d]
             /\ data'[d] = data[d] /\ timedOut'[d] = timedOut[d]
    <3>1. Enqueued(d)' = Enqueued(d) /\ Late(d)' = Late(d)
      BY <2>6 DEF Enqueued, Late
    <3> QED
      BY <2>1, <2>6, <3>1 DEF OrdersInTurn, LagIs
  <2> QED
    BY <1>7, <2>2, <2>3, <2>4, <2>5, <2>6, OwnStep
<1>8. MainDispatch => Same(d) \/ Posted(d)
  BY DispatchFor
<1> QED
  BY <1>3, <1>4, <1>5, <1>6, <1>7, <1>8, Untouched DEF MasterStep

LagInv ==
    /\ BacklogInv
    /\ \A d \in Conns : ReportsInOrder(d) /\ PipeInOrder(d)
    /\ \A d \in Conns : Sole(d) => OrdersInTurn(d) /\ LagIs(d)

\* With fewer than ten hosts, the order a slave is answered with is as many reports
\* old as its session has timed out, less the orders skipped.
THEOREM AnswersLag ==
    ASSUME Cardinality(Hosts) < 10
    PROVE  Spec => []AnswerLag
<1>1. Init => LagInv
  <2> SUFFICES ASSUME Init PROVE LagInv
      OBVIOUS
  <2>1. BacklogInv
    BY InitBacklog
  <2>2. ASSUME NEW d \in Conns
        PROVE  /\ ReportsInOrder(d) /\ PipeInOrder(d)
               /\ OrdersInTurn(d) /\ LagIs(d)
    BY DEF Init, ReportsInOrder, PipeInOrder, OrdersInTurn, LagIs, InMain
  <2> QED
    BY <2>1, <2>2 DEF LagInv
<1>2. LagInv /\ [Next]_vars => LagInv'
  <2> SUFFICES ASSUME LagInv, [Next]_vars PROVE LagInv'
      OBVIOUS
  <2>1. BacklogInv' /\ BacklogInv
    BY NextBacklog DEF LagInv
  <2>2. TypeInv /\ TypeInv'
    BY <2>1 DEF BacklogInv
  <2>3. ASSUME NEW d \in Conns PROVE ReportsInOrder(d)' /\ PipeInOrder(d)'
    BY <2>2, NextReports, NextPipe DEF LagInv
  <2>4. ASSUME NEW d \in Conns, Sole(d) PROVE OrdersInTurn(d)' /\ LagIs(d)'
    <3>1. Balance(d) /\ IDsUnique /\ Registered /\ \A c \in Conns : Quiet(c)
      BY <2>1, <2>4 DEF BacklogInv, BacklogNeverDrains, Balance
    <3> QED
      BY <2>2, <2>4, <3>1, NextTurn DEF LagInv
  <2>5. \A d \in Conns : Sole(d)' => Sole(d)
    BY DEF Sole
  <2> QED
    BY <2>1, <2>3, <2>4, <2>5 DEF LagInv
<1>3. LagInv => AnswerLag
  BY DEF LagInv, LagIs, AnswerLag
<1> QED
  BY <1>1, <1>2, <1>3, PTL DEF Spec
=============================================================================
