---------------------------- MODULE ListenerProofs ----------------------------
(***************************************************************************)
(* Theorems about Listener, for any number of slaves, conversations and      *)
(* sessions and every accept backlog.                                        *)
(***************************************************************************)
EXTENDS Listener, SequenceTheorems, TLAPS

Made == 1 .. Len(made)
States == {"new", "open", "closing", "closed"}
Handling == {"input", "close", "new", "store", "accept"}

NetType ==
    /\ conv \in [Addrs -> 0..MaxConvs] /\ late \in 0..MaxLate
    /\ monitor \in Handling \cup {"read", "done"}
    /\ packet \in Packet \cup {NoPacket}
    /\ monitor \in Handling => packet \in Packet

SessionType ==
    /\ made \in Seq([addr : Addrs, conv : 0..MaxConvs])
    /\ state \in Seq(States) /\ Len(state) = Len(made)
    /\ sessions \in [Addrs -> 0..Len(made)]
    /\ s \in 0..Len(made)
    /\ accepted \subseteq Made /\ readError \subseteq Made /\ beside \subseteq Made

\* Only the monitor appends to chAccepts: the room it saw before it made the session is
\* there when it offers it.
QueueType ==
    /\ chAccepts \in Seq(Made) /\ Len(chAccepts) <= acceptBacklog
    /\ monitor \in {"store", "accept"} => Len(chAccepts) < acceptBacklog

TypeInv == NetType /\ SessionType /\ QueueType

\* What the monitor knows of the session it works on.
MonitorKnows ==
    /\ monitor = "close" => s \in Made /\ state[s] = "closing"
    /\ monitor = "store" => s \in Made /\ state[s] = "new" /\ made[s].addr = packet.addr
    /\ monitor = "accept" => s \in Made

\* The session of a conversation that has its address for itself.
Sole(i) == Open(i) /\ i \notin beside

\* Nobody else's Close is under way at the address of such a session.
SoleIsAlone ==
    \A i, j \in Made :
        Sole(i) /\ j # i /\ made[j].addr = made[i].addr => state[j] \in {"new", "closed"}

\* Before the monitor files a new session the address has no such session any more.
RoomMade ==
    monitor \in {"input", "close", "new", "store"} =>
        \A i \in Made : Sole(i) /\ made[i].addr = packet.addr => monitor = "input" /\ i = s

\* SessionsFiled over Made, and what the end of the monitor adds to it.
Filed == \A i \in Made : Sole(i) => sessions[made[i].addr] = i
Told == monitor = "done" => \A i \in Made : Sole(i) => i \in readError

SessionInv == MonitorKnows /\ SoleIsAlone /\ RoomMade /\ Filed /\ Told

Inv == TypeInv /\ SessionInv

-----------------------------------------------------------------------------
(* Types *)

LEMMA InitInv == serveConn => Inv
<1> SUFFICES ASSUME serveConn PROVE Inv
    OBVIOUS
<1> USE ListenerAssumption DEF serveConn
<1>1. NetType
  BY DEF NetType, Handling
<1>2. SessionType
  BY DEF SessionType, Made
<1>3. QueueType
  BY DEF QueueType
<1>4. SessionInv
  BY DEF SessionInv, MonitorKnows, SoleIsAlone, RoomMade, Filed, Told, Made
<1> QED
  BY <1>1, <1>2, <1>3, <1>4 DEF Inv, TypeInv

LEMMA NextNet == Inv /\ [Next]_vars => NetType'
<1> SUFFICES ASSUME NetType, [Next]_vars PROVE NetType'
    BY DEF Inv, TypeInv
<1> USE ListenerAssumption DEF NetType, Handling, netVars, monitorVars
<1>1. ASSUME NEW a \in Addrs, Dial(a) PROVE NetType'
  BY <1>1 DEF Dial
<1>2. ASSUME NEW p \in Packet, Receive(p) PROVE NetType'
  <2>1. late' \in Nat /\ late' <= MaxLate
    BY <1>2 DEF Receive
  <2> QED
    BY <1>2, <2>1 DEF Receive
<1>3. CASE Input \/ Replace \/ ReplaceDone \/ Ignore
  BY <1>3 DEF Input, Replace, ReplaceDone, Ignore, ReadNext
<1>4. CASE NewSession \/ Store \/ Offer \/ notifyReadError
  BY <1>4 DEF NewSession, Store, Offer, notifyReadError, ReadNext
<1>5. CASE AcceptKCP
  BY <1>5 DEF AcceptKCP
<1>6. ASSUME NEW i \in DOMAIN made, Close(i) \/ CloseDone(i) PROVE NetType'
  BY <1>6 DEF Close, CloseDone
<1>7. CASE UNCHANGED vars
  BY <1>7 DEF vars
<1> QED
  BY <1>1, <1>2, <1>3, <1>4, <1>5, <1>6, <1>7 DEF Next, packetInput

\* A session moves on in its life.
LEMMA Moved ==
    ASSUME SessionType, NEW i \in Made, NEW x \in States, state' = [state EXCEPT ![i] = x]
    PROVE  /\ state' \in Seq(States) /\ Len(state') = Len(state)
           /\ \A j \in Made : state'[j] = IF j = i THEN x ELSE state[j]
  BY ExceptSeq DEF SessionType, Made

\* closeSession changes one entry of each.
LEMMA Closed ==
    ASSUME SessionType, NEW i \in Made, closeSession(i)
    PROVE  /\ state' \in Seq(States) /\ Len(state') = Len(state)
           /\ \A j \in Made : state'[j] = IF j = i THEN "closed" ELSE state[j]
           /\ made[i].addr \in Addrs
           /\ sessions' \in [Addrs -> 0..Len(made)]
           /\ \A a \in Addrs : sessions'[a] = IF a = made[i].addr THEN 0 ELSE sessions[a]
<1>1. i \in 1 .. Len(state) /\ state' = [state EXCEPT ![i] = "closed"] /\ "closed" \in States
  BY DEF closeSession, SessionType, Made, States
<1>2. /\ state' \in Seq(States) /\ Len(state') = Len(state)
      /\ \A j \in Made : state'[j] = IF j = i THEN "closed" ELSE state[j]
  BY <1>1, Moved
<1>3. made[i].addr \in Addrs
  <2>1. made \in Seq([addr : Addrs, conv : 0..MaxConvs]) /\ i \in 1..Len(made)
    BY DEF SessionType, Made
  <2>2. made[i] \in [addr : Addrs, conv : 0..MaxConvs]
    BY <2>1, ElementOfSeq
  <2> QED
    BY <2>2
<1>4. /\ sessions' \in [Addrs -> 0..Len(made)]
      /\ \A a \in Addrs : sessions'[a] = IF a = made[i].addr THEN 0 ELSE sessions[a]
  BY <1>3 DEF closeSession, SessionType
<1> QED
  BY <1>2, <1>3, <1>4

\* NewSession leaves the sessions made as they are and adds one.
LEMMA Added ==
    ASSUME NetType, SessionType, monitor \in Handling, NewSession,
           Len(chAccepts) < acceptBacklog
    PROVE  /\ made' \in Seq([addr : Addrs, conv : 0..MaxConvs])
           /\ state' \in Seq(States) /\ Len(state') = Len(made')
           /\ Len(made') = Len(made) + 1 /\ Len(made) \in Nat
           /\ \A j \in Made : made'[j] = made[j] /\ state'[j] = state[j]
           /\ s' = Len(made') /\ made'[s'].addr = packet.addr /\ state'[s'] = "new"
           /\ monitor' = "store"
           /\ UNCHANGED <<packet, sessions, chAccepts, accepted, readError, beside, conv, late>>
<1> DEFINE new == [addr |-> packet.addr, conv |-> packet.conv]
<1>1. made' = Append(made, new) /\ state' = Append(state, "new") /\ s' = Len(made')
  BY DEF NewSession
<1>2. new \in [addr : Addrs, conv : 0..MaxConvs] /\ "new" \in States
  BY DEF NetType, Packet, States
<1>3. /\ Len(made') = Len(made) + 1 /\ Len(made) \in Nat
      /\ made' \in Seq([addr : Addrs, conv : 0..MaxConvs])
      /\ made'[s'] = new
      /\ \A j \in Made : made'[j] = made[j]
  BY <1>1, <1>2 DEF SessionType, Made
<1>4. /\ state' \in Seq(States) /\ Len(state') = Len(made')
      /\ state'[s'] = "new"
      /\ \A j \in Made : state'[j] = state[j]
  BY <1>1, <1>2, <1>3 DEF SessionType, Made
<1>5. /\ monitor' = "store"
      /\ UNCHANGED <<packet, sessions, chAccepts, accepted, readError, beside, conv, late>>
  BY DEF NewSession, netVars
<1>6. made'[s'].addr = packet.addr
  BY <1>3
<1> QED
  BY <1>1, <1>3, <1>4, <1>5, <1>6

LEMMA NextSession == Inv /\ [Next]_vars => SessionType'
<1> SUFFICES ASSUME NetType, SessionType, QueueType, MonitorKnows, [Next]_vars
             PROVE  SessionType'
    BY DEF Inv, TypeInv, SessionInv
<1>0. Len(made) \in Nat
  BY DEF SessionType
<1>1. ASSUME NEW a \in Addrs, Dial(a) PROVE SessionType'
  BY <1>1 DEF Dial, SessionType, Made, monitorVars
<1>2. ASSUME NEW p \in Packet, Receive(p) PROVE SessionType'
  <2>1. s' \in 0..Len(made)
    BY <1>2 DEF Receive, SessionType, Packet
  <2> QED
    BY <1>2, <2>1 DEF Receive, SessionType, Made
<1>3. CASE Input \/ Ignore
  <2>1. s' = 0 /\ UNCHANGED <<sessions, made, state, accepted, readError, beside>>
    BY <1>3 DEF Input, Ignore, ReadNext
  <2> QED
    BY <1>0, <2>1 DEF SessionType, Made
<1>4. CASE Replace
  <2>1. CASE state[s] = "open"
    <3>1. s \in Made /\ state' = [state EXCEPT ![s] = "closing"] /\ "closing" \in States
      BY <1>4, <2>1 DEF Replace, Known, SessionType, Made, States
    <3>2. state' \in Seq(States) /\ Len(state') = Len(state)
      BY <3>1, Moved
    <3> QED
      BY <1>4, <2>1, <3>2 DEF Replace, SessionType, Made
  <2>2. CASE state[s] # "open"
    BY <1>0, <1>4, <2>2 DEF Replace, SessionType, Made
  <2> QED
    BY <2>1, <2>2
<1>5. CASE ReplaceDone
  <2>1. s \in Made /\ closeSession(s)
    BY <1>5 DEF ReplaceDone, MonitorKnows
  <2> QED
    BY <1>0, <1>5, <2>1, Closed DEF ReplaceDone, SessionType, Made
<1>6. CASE NewSession
  <2>1. monitor \in Handling
    BY <1>6 DEF NewSession, Handling
  <2>2. CASE Len(chAccepts) < acceptBacklog
    <3>1. sessions' \in [Addrs -> 0..Len(made)]
      BY <1>6, <2>1, <2>2, Added DEF SessionType
    <3>2. Len(made') = Len(made) + 1 /\ s' = Len(made')
          /\ UNCHANGED <<accepted, readError, beside>>
      BY <1>6, <2>1, <2>2, Added
    <3>3. sessions' \in [Addrs -> 0..Len(made')] /\ s' \in 0..Len(made')
      BY <1>0, <3>1, <3>2
    <3>4. accepted' \subseteq Made' /\ readError' \subseteq Made' /\ beside' \subseteq Made'
      BY <1>0, <3>2 DEF SessionType, Made
    <3> QED
      BY <1>6, <2>1, <2>2, <3>3, <3>4, Added DEF SessionType
  <2>3. CASE ~(Len(chAccepts) < acceptBacklog)
    BY <1>0, <1>6, <2>3 DEF NewSession, ReadNext, SessionType, Made
  <2> QED
    BY <2>2, <2>3
<1>7. CASE Store
  <2>1. /\ s \in Made /\ packet.addr \in Addrs
        /\ sessions' = [sessions EXCEPT ![packet.addr] = s]
        /\ state' = [state EXCEPT ![s] = "open"] /\ "open" \in States
        /\ beside' \subseteq beside \cup {s}
        /\ UNCHANGED <<s, made, accepted, readError>>
    BY <1>7 DEF Store, MonitorKnows, NetType, Handling, Packet, States
  <2>2. state' \in Seq(States) /\ Len(state') = Len(state)
    BY <2>1, Moved
  <2> QED
    BY <2>1, <2>2 DEF SessionType, Made
<1>8. CASE Offer
  BY <1>0, <1>8 DEF Offer, ReadNext, SessionType, Made
<1>9. CASE notifyReadError
  BY <1>9 DEF notifyReadError, SessionType, Made
<1>10. CASE AcceptKCP
  <2>1. Head(chAccepts) \in Made
    BY <1>10 DEF AcceptKCP, QueueType
  <2> QED
    BY <1>10, <2>1 DEF AcceptKCP, SessionType, Made, monitorVars
<1>11. ASSUME NEW i \in DOMAIN made, Close(i) PROVE SessionType'
  <2>1. i \in Made /\ state' = [state EXCEPT ![i] = "closing"] /\ "closing" \in States
    BY <1>11 DEF Close, SessionType, Made, States
  <2>2. state' \in Seq(States) /\ Len(state') = Len(state)
    BY <2>1, Moved
  <2> QED
    BY <1>11, <2>2 DEF Close, SessionType, Made, monitorVars
<1>12. ASSUME NEW i \in DOMAIN made, CloseDone(i) PROVE SessionType'
  <2>1. i \in Made /\ closeSession(i)
    BY <1>12 DEF CloseDone, SessionType, Made
  <2> QED
    BY <1>12, <2>1, Closed DEF CloseDone, SessionType, Made, monitorVars
<1>13. CASE UNCHANGED vars
  BY <1>13 DEF vars, SessionType, Made, monitorVars
<1> QED
  BY <1>1, <1>2, <1>3, <1>4, <1>5, <1>6, <1>7, <1>8, <1>9, <1>10, <1>11, <1>12, <1>13
  DEF Next, packetInput

LEMMA NextQueue == Inv /\ [Next]_vars => QueueType'
<1> SUFFICES ASSUME NetType, SessionType, QueueType, MonitorKnows, [Next]_vars
             PROVE  QueueType'
    BY DEF Inv, TypeInv, SessionInv
<1> USE DEF QueueType
<1>1. CASE UNCHANGED <<chAccepts, made>> /\ (monitor' \notin {"store", "accept"} \/ monitor' = monitor)
  BY <1>1 DEF Made
<1>2. CASE NewSession /\ Len(chAccepts) < acceptBacklog
  <2>1. monitor \in Handling
    BY <1>2 DEF NewSession, Handling
  <2>2. chAccepts' = chAccepts /\ Len(made') = Len(made) + 1 /\ Len(made) \in Nat
    BY <1>2, <2>1, Added
  <2>3. chAccepts \in Seq(Made')
    <3>1. Made \subseteq Made'
      BY <2>2 DEF Made
    <3> QED
      BY <3>1
  <2> QED
    BY <1>2, <2>2, <2>3
<1>3. CASE Store
  BY <1>3 DEF Store, Made
<1>4. CASE Offer
  <2>1. chAccepts' = Append(chAccepts, s) /\ s \in Made /\ Len(chAccepts) < acceptBacklog
        /\ monitor' = "read" /\ made' = made
    BY <1>4 DEF Offer, MonitorKnows, ReadNext
  <2> QED
    BY <2>1, ListenerAssumption DEF Made
<1>5. CASE AcceptKCP
  <2>1. chAccepts' \in Seq(Made) /\ Len(chAccepts') <= Len(chAccepts) /\ Len(chAccepts') \in Nat
        /\ UNCHANGED <<made, monitor>>
    BY <1>5 DEF AcceptKCP, monitorVars
  <2> QED
    BY <2>1, ListenerAssumption DEF Made
<1>6. \/ UNCHANGED <<chAccepts, made>> /\ (monitor' \notin {"store", "accept"} \/ monitor' = monitor)
      \/ NewSession /\ Len(chAccepts) < acceptBacklog
      \/ Store \/ Offer \/ AcceptKCP
  BY DEF Next, packetInput, vars, Dial, Receive, Input, Replace, ReplaceDone, Ignore, NewSession,
         notifyReadError, Close, CloseDone, ReadNext, monitorVars
<1> QED
  BY <1>1, <1>2, <1>3, <1>4, <1>5, <1>6

-----------------------------------------------------------------------------
(* The sessions: a step leaves them alone, begins or ends a Close, makes one or  *)
(* files one.                                                                    *)

Quiet == UNCHANGED <<made, state, sessions, beside>>

Begins(i) ==
    /\ i \in Made /\ state[i] = "open"
    /\ state' = [state EXCEPT ![i] = "closing"]
    /\ UNCHANGED <<made, sessions, beside>>

Ends(i) ==
    /\ i \in Made /\ state[i] = "closing"
    /\ closeSession(i)
    /\ UNCHANGED <<made, beside>>

Makes == NewSession /\ Len(chAccepts) < acceptBacklog

LEMMA Shapes ==
    ASSUME Inv, [Next]_vars
    PROVE  \/ Quiet
           \/ \E i \in Made : Begins(i) \/ Ends(i)
           \/ Makes
           \/ Store
<1> USE DEF Quiet
<1>1. CASE Replace
  <2>1. CASE state[s] = "open"
    <3>1. Begins(s)
      BY <1>1, <2>1 DEF Replace, Begins, Known, Inv, TypeInv, SessionType, Made
    <3> QED
      BY <3>1 DEF Begins
  <2> QED
    BY <1>1, <2>1 DEF Replace
<1>2. CASE ReplaceDone
  <2>1. Ends(s)
    BY <1>2 DEF ReplaceDone, Ends, Inv, SessionInv, MonitorKnows
  <2> QED
    BY <2>1 DEF Ends
<1>3. ASSUME NEW i \in DOMAIN made, Close(i) PROVE Begins(i) /\ i \in Made
  BY <1>3 DEF Close, Begins, Inv, TypeInv, SessionType, Made
<1>4. ASSUME NEW i \in DOMAIN made, CloseDone(i) PROVE Ends(i) /\ i \in Made
  BY <1>4 DEF CloseDone, Ends, Inv, TypeInv, SessionType, Made
<1>5. CASE NewSession
  BY <1>5 DEF NewSession, Makes
<1>6. CASE Input \/ Ignore \/ Offer \/ notifyReadError \/ AcceptKCP \/ UNCHANGED vars
  BY <1>6 DEF Input, Ignore, Offer, notifyReadError, AcceptKCP, vars
<1>7. ASSUME NEW a \in Addrs, Dial(a) PROVE Quiet
  BY <1>7 DEF Dial
<1>8. ASSUME NEW p \in Packet, Receive(p) PROVE Quiet
  BY <1>8 DEF Receive
<1> QED
  BY <1>1, <1>2, <1>3, <1>4, <1>5, <1>6, <1>7, <1>8 DEF Next, packetInput

\* Begins and Ends in terms of single sessions.
LEMMA BeginsOne ==
    ASSUME Inv, NEW i \in Made, Begins(i)
    PROVE  /\ state[i] = "open"
           /\ \A j \in Made : state'[j] = IF j = i THEN "closing" ELSE state[j]
           /\ UNCHANGED <<made, sessions, beside>>
  BY Moved DEF Begins, Inv, TypeInv, States

LEMMA EndsOne ==
    ASSUME Inv, NEW i \in Made, Ends(i)
    PROVE  /\ state[i] = "closing"
           /\ \A j \in Made : state'[j] = IF j = i THEN "closed" ELSE state[j]
           /\ \A a \in Addrs : sessions'[a] = IF a = made[i].addr THEN 0 ELSE sessions[a]
           /\ UNCHANGED <<made, beside>>
  BY Closed DEF Ends, Inv, TypeInv

LEMMA MakesOne ==
    ASSUME Inv, Makes
    PROVE  /\ Len(made) \in Nat
           /\ Made' = Made \cup {s'} /\ s' \notin Made
           /\ \A j \in Made : made'[j] = made[j] /\ state'[j] = state[j]
           /\ made'[s'].addr = packet.addr /\ state'[s'] = "new" /\ s' \in Made'
           /\ monitor' = "store"
           /\ UNCHANGED <<packet, sessions, beside, readError>>
<1>1. monitor \in Handling
  BY DEF Makes, NewSession, Handling
<1>2. Len(made) \in Nat /\ Len(made') = Len(made) + 1 /\ s' = Len(made')
  BY <1>1, Added DEF Makes, Inv, TypeInv
<1>3. Made' = Made \cup {s'} /\ s' \notin Made
  BY <1>2 DEF Made
<1> QED
  BY <1>1, <1>2, <1>3, Added DEF Makes, Inv, TypeInv

LEMMA StoresOne ==
    ASSUME Inv, Store
    PROVE  /\ s \in Made /\ made[s].addr = packet.addr /\ state[s] = "new"
           /\ packet.addr \in Addrs
           /\ \A j \in Made : state'[j] = IF j = s THEN "open" ELSE state[j]
           /\ \A a \in Addrs : sessions'[a] = IF a = packet.addr THEN s ELSE sessions[a]
           /\ \A j \in Made : j \in beside' <=>
                  j \in beside \/ (j = s /\ OthersAt(s) # {})
           /\ monitor = "store" /\ monitor' = "accept"
           /\ UNCHANGED <<made, packet, s>>
<1>1. s \in Made /\ made[s].addr = packet.addr /\ state[s] = "new"
  BY DEF Store, Inv, SessionInv, MonitorKnows
<1>2. packet.addr \in Addrs
  BY DEF Store, Inv, TypeInv, NetType, Handling, Packet
<1>3. \A j \in Made : state'[j] = IF j = s THEN "open" ELSE state[j]
  BY <1>1, Moved DEF Store, Inv, TypeInv, States
<1>4. \A a \in Addrs : sessions'[a] = IF a = packet.addr THEN s ELSE sessions[a]
  BY <1>2 DEF Store, Inv, TypeInv, SessionType
<1> QED
  BY <1>1, <1>2, <1>3, <1>4 DEF Store

LEMMA AddrType == ASSUME Inv, NEW i \in Made PROVE made[i].addr \in Addrs
<1>1. made \in Seq([addr : Addrs, conv : 0..MaxConvs]) /\ i \in 1..Len(made)
  BY DEF Inv, TypeInv, SessionType, Made
<1>2. made[i] \in [addr : Addrs, conv : 0..MaxConvs]
  BY <1>1, ElementOfSeq
<1> QED
  BY <1>2

-----------------------------------------------------------------------------
(* What is filed *)

\* Sole(i) holds after a step only if it held before, or the step filed i alone at its
\* address.
LEMMA SoleBefore ==
    ASSUME Inv, [Next]_vars, NEW i \in Made', Sole(i)'
    PROVE  /\ i \in Made /\ made'[i] = made[i]
           /\ Sole(i) \/ (Store /\ i = s /\ OthersAt(s) = {})
<1> USE DEF Sole, Open
<1>1. CASE Quiet
  BY <1>1 DEF Quiet, Made
<1>2. ASSUME NEW j \in Made, Begins(j) PROVE i \in Made /\ made'[i] = made[i] /\ Sole(i)
  BY <1>2, BeginsOne DEF Made
<1>3. ASSUME NEW j \in Made, Ends(j) PROVE i \in Made /\ made'[i] = made[i] /\ Sole(i)
  BY <1>3, EndsOne DEF Made
<1>4. CASE Makes
  BY <1>4, MakesOne
<1>5. CASE Store
  BY <1>5, StoresOne DEF Made
<1> QED
  BY <1>1, <1>2, <1>3, <1>4, <1>5, Shapes

LEMMA NextAlone == Inv /\ [Next]_vars => SoleIsAlone'
<1> SUFFICES ASSUME Inv, [Next]_vars,
                    NEW i \in Made', NEW j \in Made', Sole(i)', j # i,
                    made'[j].addr = made'[i].addr
             PROVE  state'[j] \in {"new", "closed"}
    BY DEF SoleIsAlone
<1>1. /\ i \in Made /\ made'[i] = made[i]
      /\ Sole(i) \/ (Store /\ i = s /\ OthersAt(s) = {})
  BY SoleBefore
<1>2. ASSUME j \in Made, made'[j] = made[j], Sole(i) PROVE state[j] \in {"new", "closed"}
  BY <1>1, <1>2 DEF Inv, SessionInv, SoleIsAlone
<1>3. CASE Quiet
  BY <1>1, <1>2, <1>3, StoresOne DEF Quiet, Made, Sole, Open
<1>4. ASSUME NEW k \in Made, Begins(k) PROVE state'[j] \in {"new", "closed"}
  <2>1. j \in Made /\ made'[j] = made[j] /\ Sole(i)
    BY <1>1, <1>4, BeginsOne, StoresOne DEF Made
  <2> QED
    BY <1>2, <1>4, <2>1, BeginsOne
<1>5. ASSUME NEW k \in Made, Ends(k) PROVE state'[j] \in {"new", "closed"}
  <2>1. j \in Made /\ made'[j] = made[j] /\ Sole(i)
    BY <1>1, <1>5, EndsOne, StoresOne DEF Made
  <2> QED
    BY <1>2, <1>5, <2>1, EndsOne
<1>6. CASE Makes
  <2>1. Sole(i)
    BY <1>1, <1>6, MakesOne, StoresOne
  <2> QED
    BY <1>2, <1>6, <2>1, MakesOne
<1>7. CASE Store
  <2>1. j \in Made /\ made'[j] = made[j]
    BY <1>7, StoresOne DEF Made
  \* A session of the address is filed only where none is open and alone.
  <2>2. CASE Sole(i)
    <3>1. made[i].addr # packet.addr
      BY <1>1, <1>7, <2>2, StoresOne DEF Inv, SessionInv, RoomMade
    <3> QED
      BY <1>1, <1>2, <1>7, <2>1, <2>2, <3>1, StoresOne
  <2>3. CASE i = s /\ OthersAt(s) = {}
    <3>1. state[j] = "closed"
      BY <1>1, <2>1, <2>3 DEF OthersAt, Made, Inv, TypeInv, SessionType
    <3> QED
      BY <1>7, <2>1, <2>3, <3>1, StoresOne
  <2> QED
    BY <1>1, <2>2, <2>3
<1> QED
  BY <1>3, <1>4, <1>5, <1>6, <1>7, Shapes

LEMMA NextFiled == Inv /\ [Next]_vars => Filed'
<1> SUFFICES ASSUME Inv, [Next]_vars, NEW i \in Made', Sole(i)'
             PROVE  sessions'[made'[i].addr] = i
    BY DEF Filed
<1>1. /\ i \in Made /\ made'[i] = made[i]
      /\ Sole(i) \/ (Store /\ i = s /\ OthersAt(s) = {})
  BY SoleBefore
<1>2. Sole(i) => sessions[made[i].addr] = i
  BY <1>1 DEF Inv, SessionInv, Filed
<1>3. made[i].addr \in Addrs
  BY <1>1, AddrType
<1>4. CASE Store
  <2>1. CASE i = s
    BY <1>1, <1>4, <2>1, StoresOne
  <2>2. CASE Sole(i)
    <3>1. made[i].addr # packet.addr
      BY <1>1, <1>4, <2>2, StoresOne DEF Inv, SessionInv, RoomMade
    <3> QED
      BY <1>1, <1>2, <1>3, <1>4, <2>2, <3>1, StoresOne
  <2> QED
    BY <1>1, <2>1, <2>2
<1>5. ASSUME Sole(i), UNCHANGED sessions PROVE sessions'[made'[i].addr] = i
  BY <1>1, <1>2, <1>5
<1>6. ASSUME NEW k \in Made, Ends(k), Sole(i) PROVE sessions'[made'[i].addr] = i
  <2>1. made[k].addr # made[i].addr
    BY <1>1, <1>6, EndsOne DEF Inv, SessionInv, SoleIsAlone, Sole, Open
  <2> QED
    BY <1>1, <1>2, <1>3, <1>6, <2>1, EndsOne
<1> QED
  BY <1>1, <1>4, <1>5, <1>6, Shapes, BeginsOne, MakesOne DEF Quiet

-----------------------------------------------------------------------------
(* The monitor *)

LEMMA NextMonitor == Inv /\ [Next]_vars => MonitorKnows'
<1> SUFFICES ASSUME Inv, [Next]_vars PROVE MonitorKnows'
    OBVIOUS
<1>1. MonitorKnows
  BY DEF Inv, SessionInv
<1>2. CASE monitor' \in {"read", "input", "new", "done"}
  BY <1>2 DEF MonitorKnows
<1>3. CASE Quiet /\ UNCHANGED monitorVars
  BY <1>1, <1>3 DEF MonitorKnows, Quiet, monitorVars, Made
<1>4. CASE Replace
  <2>1. CASE state[s] = "open"
    <3>1. s \in Made /\ Begins(s) /\ s' = s /\ monitor' = "close"
      BY <1>4, <2>1 DEF Replace, Begins, Known, Inv, TypeInv, SessionType, Made
    <3> QED
      BY <3>1, BeginsOne DEF MonitorKnows, Made
  <2>2. CASE state[s] # "open"
    BY <1>4, <2>2 DEF Replace, MonitorKnows
  <2> QED
    BY <2>1, <2>2
<1>5. CASE Makes
  BY <1>5, MakesOne DEF MonitorKnows
<1>6. CASE Store
  BY <1>6, StoresOne DEF MonitorKnows, Made
<1>7. ASSUME NEW i \in DOMAIN made, Close(i) PROVE MonitorKnows'
  <2>1. i \in Made /\ Begins(i) /\ UNCHANGED monitorVars
    BY <1>7 DEF Close, Begins, Inv, TypeInv, SessionType, Made
  <2> QED
    BY <1>1, <2>1, BeginsOne DEF MonitorKnows, monitorVars, Made
<1>8. ASSUME NEW i \in DOMAIN made, CloseDone(i) PROVE MonitorKnows'
  <2>1. i \in Made /\ Ends(i) /\ UNCHANGED monitorVars /\ ~(monitor = "close" /\ s = i)
    BY <1>8 DEF CloseDone, Ends, Inv, TypeInv, SessionType, Made
  <2> QED
    BY <1>1, <2>1, EndsOne DEF MonitorKnows, monitorVars, Made
<1>9. \/ monitor' \in {"read", "input", "new", "done"}
      \/ Quiet /\ UNCHANGED monitorVars
      \/ Replace \/ Makes \/ Store
      \/ \E i \in DOMAIN made : Close(i) \/ CloseDone(i)
  BY DEF Next, packetInput, vars, Dial, Receive, Input, ReplaceDone, Ignore, NewSession, Offer,
         notifyReadError, AcceptKCP, ReadNext, Makes, Quiet, monitorVars
<1> QED
  BY <1>2, <1>3, <1>4, <1>5, <1>6, <1>7, <1>8, <1>9

LEMMA NextRoom == Inv /\ [Next]_vars => RoomMade'
<1> SUFFICES ASSUME Inv, [Next]_vars, monitor' \in {"input", "close", "new", "store"},
                    NEW i \in Made', Sole(i)', made'[i].addr = packet'.addr
             PROVE  monitor' = "input" /\ i = s'
    BY DEF RoomMade
<1>1. i \in Made /\ made'[i] = made[i] /\ Sole(i)
  BY SoleBefore, StoresOne
\* The packet's address is looked up in sessions, where such a session is filed.
<1>2. ASSUME NEW p \in Packet, Receive(p) PROVE monitor' = "input" /\ i = s'
  <2>1. packet' = p /\ s' = sessions[p.addr] /\ monitor' = "input"
    BY <1>2 DEF Receive
  <2> QED
    BY <1>1, <2>1 DEF Inv, SessionInv, Filed
<1>3. ASSUME monitor \in {"input", "close", "new", "store"}, packet' = packet
      PROVE  monitor = "input" /\ i = s
  BY <1>1, <1>3 DEF Inv, SessionInv, RoomMade
<1>4. CASE UNCHANGED monitorVars
  BY <1>3, <1>4 DEF monitorVars
\* It was the one the packet's session was, and Replace has closed that.
<1>5. CASE Replace
  <2>1. monitor = "input" /\ packet' = packet
    BY <1>5 DEF Replace
  <2>2. i = s
    BY <1>3, <2>1
  <2>3. state'[s] = "closing"
    BY <1>1, <1>5, <2>2, Moved DEF Replace, Sole, Open, Inv, TypeInv, States
  <2> QED
    BY <2>2, <2>3 DEF Sole, Open
<1>6. CASE ReplaceDone
  BY <1>3, <1>6 DEF ReplaceDone
<1>7. CASE Makes
  <2>1. monitor = "input" => s = 0
    BY <1>7 DEF Makes, NewSession, Known
  <2>2. monitor \in {"input", "new"} /\ packet' = packet
    BY <1>7, MakesOne DEF Makes, NewSession
  <2> QED
    BY <1>1, <1>3, <2>1, <2>2 DEF Made
<1>8. \/ monitor' \in {"read", "accept", "done"}
      \/ UNCHANGED monitorVars
      \/ \E p \in Packet : Receive(p)
      \/ Replace \/ ReplaceDone \/ Makes
  BY DEF Next, packetInput, vars, Dial, Input, Ignore, NewSession, Store, Offer,
         notifyReadError, AcceptKCP, Close, CloseDone, ReadNext, Makes, monitorVars
<1> QED
  BY <1>2, <1>4, <1>5, <1>6, <1>7, <1>8

LEMMA NextTold == Inv /\ [Next]_vars => Told'
<1> SUFFICES ASSUME Inv, [Next]_vars, monitor' = "done", NEW i \in Made', Sole(i)'
             PROVE  i \in readError'
    BY DEF Told
<1>1. i \in Made /\ Sole(i)
  BY SoleBefore, StoresOne
<1>2. CASE notifyReadError
  <2>1. sessions[made[i].addr] = i /\ made[i].addr \in Addrs /\ i # 0
    BY <1>1, AddrType DEF Inv, SessionInv, Filed, Made
  <2> QED
    BY <1>2, <2>1 DEF notifyReadError
<1>3. CASE monitor = "done" /\ readError' = readError
  BY <1>1, <1>3 DEF Inv, SessionInv, Told
<1>4. notifyReadError \/ (monitor = "done" /\ readError' = readError)
  BY DEF Next, packetInput, vars, Dial, Receive, Input, Replace, ReplaceDone, Ignore, NewSession,
         Store, Offer, AcceptKCP, Close, CloseDone, ReadNext, monitorVars
<1> QED
  BY <1>2, <1>3, <1>4

LEMMA Invariance == Spec => []Inv
<1>1. Inv /\ [Next]_vars => Inv'
  <2> SUFFICES ASSUME Inv, [Next]_vars PROVE Inv'
    OBVIOUS
  <2>1. NetType' /\ SessionType' /\ QueueType'
    BY NextNet, NextSession, NextQueue
  <2>2. MonitorKnows' /\ SoleIsAlone'
    BY NextMonitor, NextAlone
  <2>3. RoomMade' /\ Filed' /\ Told'
    BY NextRoom, NextFiled, NextTold
  <2> QED
    BY <2>1, <2>2, <2>3 DEF Inv, TypeInv, SessionInv
<1> QED
  BY <1>1, InitInv, PTL DEF Spec

-----------------------------------------------------------------------------
(* Theorems *)

\* The types of the listener; the backlog is never above its capacity and the monitor,
\* which serves every slave, never waits for Accept.
THEOREM TypeCorrect == Spec => []TypeOK
<1>1. Inv => TypeOK
  <2> SUFFICES ASSUME NetType, SessionType, QueueType PROVE TypeOK
    BY DEF Inv, TypeInv
  <2>1. DOMAIN made = Made /\ state \in [Made -> States]
    BY DEF SessionType, Made
  <2> QED
    BY <2>1 DEF NetType, SessionType, QueueType, TypeOK, Handling, States
<1> QED
  BY <1>1, Invariance, PTL

\* A session that is open and was made when no other of its address was left is filed under
\* that address: no packet, no Close that ends late and no new conversation at
\* another moment takes its entry away.
THEOREM OpenSessionsFiled == Spec => []SessionsFiled
<1>1. Inv => SessionsFiled
  BY DEF Inv, TypeInv, SessionInv, SessionType, Filed, Sole, SessionsFiled, Made
<1> QED
  BY <1>1, Invariance, PTL

\* When the socket fails every such session is told, and none is opened after that.
THEOREM ErrorsReachAll == Spec => []ErrorReachesAll
<1>1. Inv => ErrorReachesAll
  BY DEF Inv, TypeInv, SessionInv, SessionType, Told, Sole, ErrorReachesAll, Made
<1> QED
  BY <1>1, Invariance, PTL
=============================================================================
