------------------------------- MODULE Listener -------------------------------
(***************************************************************************)
(* The listener of sess.go at the master: its monitor goroutine, which makes *)
(* a session for a packet from an address it does not know and replaces one  *)
(* whose peer starts another conversation, the accept backlog, and the       *)
(* handlers of the sessions accepted, which close them when they return.     *)
(*                                                                         *)
(* A slave that restarts may get its old port again; its packets then carry  *)
(* a new conversation number, and those of the old conversation may still    *)
(* come.  A parity shard carries none.  What a session does with a packet is *)
(* in UdpSession.  The listener itself is never closed by the programs.      *)
(***************************************************************************)
EXTENDS Naturals, Sequences, FiniteSets

CONSTANTS
    Addrs,          \* addresses of slaves
    acceptBacklog,  \* capacity of chAccepts
    MaxConvs,       \* bound: conversations a slave's address starts
    MaxLate,        \* bound: packets of conversations that have been replaced
    MaxSessions     \* bound: sessions made

ASSUME ListenerAssumption ==
    /\ acceptBacklog \in Nat \ {0}
    /\ MaxConvs \in Nat /\ MaxLate \in Nat /\ MaxSessions \in Nat

VARIABLES
    conv,       \* address -> the number of its present conversation, 0 before the first
    late,       \* packets of older conversations so far
    sessions,   \* address -> the session filed under it, 0 if there is none
    chAccepts,
    monitor,    \* what the monitor is doing
    packet,     \* the packet it handles
    s,          \* the session it has looked up or made, 0 for nil
    made,       \* the sessions made, by number
    state,      \* session -> "new", "open", "closing" (die is closed), "closed"
    accepted,   \* sessions handed out by AcceptKCP
    readError,  \* sessions told of a socket error
    beside      \* history: sessions made while another of the address was not closed

netVars == <<conv, late>>
monitorVars == <<monitor, packet, s>>
vars == <<netVars, sessions, chAccepts, monitorVars, made, state, accepted,
          readError, beside>>

NoPacket == [addr |-> "none"]

\* sn: the sequence number is 0, as in the first segment; conv 0: a parity shard.
Packet == [addr : Addrs, conv : 0..MaxConvs, sn0 : BOOLEAN]

serveConn ==
    /\ conv = [a \in Addrs |-> 0] /\ late = 0
    /\ sessions = [a \in Addrs |-> 0]
    /\ chAccepts = <<>>
    /\ monitor = "read" /\ packet = NoPacket /\ s = 0
    /\ made = <<>> /\ state = <<>>
    /\ accepted = {} /\ readError = {} /\ beside = {}

-----------------------------------------------------------------------------
(* The slaves: Dial makes a conversation with a number of its own. *)

Dial(a) ==
    /\ conv[a] < MaxConvs
    /\ conv' = [conv EXCEPT ![a] = @ + 1]
    /\ UNCHANGED <<late, sessions, chAccepts, monitorVars, made, state, accepted, readError, beside>>

-----------------------------------------------------------------------------
(* The monitor: packetInput. *)

Receive(p) ==
    /\ monitor = "read"
    /\ conv[p.addr] > 0 /\ p.conv <= conv[p.addr]
    /\ late' = IF p.conv \in 1..conv[p.addr] - 1 THEN late + 1 ELSE late
    /\ late' <= MaxLate
    /\ packet' = p
    /\ s' = sessions[p.addr]
    /\ monitor' = "input"
    /\ UNCHANGED <<conv, sessions, chAccepts, made, state, accepted, readError, beside>>

Known == s # 0
Parity == packet.conv = 0

ReadNext == monitor' = "read" /\ packet' = NoPacket /\ s' = 0

\* Parity data or a valid conversation; the session may have been closed
\* since it was looked up.
Input ==
    /\ monitor = "input" /\ Known
    /\ Parity \/ packet.conv = made[s].conv
    /\ ReadNext
    /\ UNCHANGED <<netVars, sessions, chAccepts, made, state, accepted, readError, beside>>

\* Mutant: the old session is forgotten instead of closed.
Replace_NoClose ==
    /\ monitor = "input" /\ Known
    /\ ~Parity /\ packet.conv # made[s].conv /\ packet.sn0
    /\ monitor' = "new" /\ s' = 0
    /\ UNCHANGED <<netVars, sessions, chAccepts, packet, made, state, accepted, readError, beside>>

\* Mutant: another conversation is ignored while a session is filed.
Replace_Dropped ==
    /\ monitor = "input" /\ Known
    /\ ~Parity /\ packet.conv # made[s].conv /\ packet.sn0
    /\ ReadNext
    /\ UNCHANGED <<netVars, sessions, chAccepts, made, state, accepted, readError, beside>>

\* Another conversation begins: s.Close(), which returns at once when somebody
\* else has begun it.
Replace ==
    /\ monitor = "input" /\ Known
    /\ ~Parity /\ packet.conv # made[s].conv /\ packet.sn0
    /\ IF state[s] = "open"
       THEN /\ state' = [state EXCEPT ![s] = "closing"]
            /\ monitor' = "close" /\ UNCHANGED s
       ELSE /\ monitor' = "new" /\ s' = 0 /\ UNCHANGED state
    /\ UNCHANGED <<netVars, sessions, chAccepts, packet, made, accepted, readError, beside>>

\* closeSession deletes what is filed under the address.
closeSession(i) ==
    /\ sessions' = [sessions EXCEPT ![made[i].addr] = 0]
    /\ state' = [state EXCEPT ![i] = "closed"]

ReplaceDone ==
    /\ monitor = "close"
    /\ closeSession(s)
    /\ monitor' = "new" /\ s' = 0
    /\ UNCHANGED <<netVars, chAccepts, packet, made, accepted, readError, beside>>

Ignore ==
    /\ monitor = "input"
    /\ IF Known THEN ~Parity /\ packet.conv # made[s].conv /\ ~packet.sn0 ELSE Parity
    /\ ReadNext
    /\ UNCHANGED <<netVars, sessions, chAccepts, made, state, accepted, readError, beside>>

\* A session for the conversation, unless the accept queue is full.
NewSession ==
    /\ monitor = "new" \/ (monitor = "input" /\ ~Known /\ ~Parity)
    /\ IF Len(chAccepts) < acceptBacklog
       THEN /\ Len(made) < MaxSessions
            /\ made' = Append(made, [addr |-> packet.addr, conv |-> packet.conv])
            /\ state' = Append(state, "new")
            /\ s' = Len(made')
            /\ monitor' = "store" /\ UNCHANGED packet
       ELSE ReadNext /\ UNCHANGED <<made, state>>
    /\ UNCHANGED <<netVars, sessions, chAccepts, accepted, readError, beside>>

OthersAt(i) == {j \in DOMAIN made : j # i /\ made[j].addr = made[i].addr /\ state[j] # "closed"}

Store ==
    /\ monitor = "store"
    /\ sessions' = [sessions EXCEPT ![packet.addr] = s]
    /\ state' = [state EXCEPT ![s] = "open"]
    /\ beside' = IF OthersAt(s) # {} THEN beside \cup {s} ELSE beside
    /\ monitor' = "accept"
    /\ UNCHANGED <<netVars, chAccepts, packet, s, made, accepted, readError>>

\* l.chAccepts <- s
Offer ==
    /\ monitor = "accept" /\ Len(chAccepts) < acceptBacklog
    /\ chAccepts' = Append(chAccepts, s)
    /\ ReadNext
    /\ UNCHANGED <<netVars, sessions, made, state, accepted, readError, beside>>

\* Mutant: the error goes to the sessions waiting to be accepted only.
notifyReadError_Backlog ==
    /\ monitor = "read"
    /\ monitor' = "done"
    /\ readError' = {chAccepts[i] : i \in DOMAIN chAccepts}
    /\ UNCHANGED <<netVars, sessions, chAccepts, packet, s, made, state, accepted, beside>>

\* The socket fails: all sessions filed are told, and the monitor ends.
notifyReadError ==
    /\ monitor = "read"
    /\ monitor' = "done"
    /\ readError' = {sessions[a] : a \in Addrs} \ {0}
    /\ UNCHANGED <<netVars, sessions, chAccepts, packet, s, made, state, accepted, beside>>

-----------------------------------------------------------------------------
(* The application: ReadFromSlave accepts, HandleConnections closes. *)

AcceptKCP ==
    /\ chAccepts # <<>>
    /\ accepted' = accepted \cup {Head(chAccepts)}
    /\ chAccepts' = Tail(chAccepts)
    /\ UNCHANGED <<netVars, sessions, monitorVars, made, state, readError, beside>>

Close(i) ==
    /\ i \in accepted /\ state[i] = "open"
    /\ state' = [state EXCEPT ![i] = "closing"]
    /\ UNCHANGED <<netVars, sessions, chAccepts, monitorVars, made, accepted, readError, beside>>

CloseDone(i) ==
    /\ state[i] = "closing" /\ ~(monitor = "close" /\ s = i)
    /\ closeSession(i)
    /\ UNCHANGED <<netVars, chAccepts, monitorVars, made, accepted, readError, beside>>

-----------------------------------------------------------------------------
packetInput ==
    \/ Input \/ Replace \/ ReplaceDone \/ Ignore \/ NewSession \/ Store \/ Offer

Next ==
    \/ \E a \in Addrs : Dial(a)
    \/ \E p \in Packet : Receive(p)
    \/ packetInput \/ notifyReadError
    \/ AcceptKCP
    \/ \E i \in DOMAIN made : Close(i) \/ CloseDone(i)

Spec == serveConn /\ [][Next]_vars

\* The first segment of the present conversation is sent until it is answered,
\* and the network lets it through in the end; the monitor, the accept loop
\* and a Close under way go on.
FairSpec ==
    /\ Spec
    /\ \A a \in Addrs : SF_vars(Receive([addr |-> a, conv |-> conv[a], sn0 |-> TRUE]))
    /\ WF_vars(packetInput) /\ WF_vars(AcceptKCP)
    /\ \A i \in 1..MaxSessions : WF_vars(i \in DOMAIN made /\ CloseDone(i))

-----------------------------------------------------------------------------
(* Properties *)

\* Types; and the monitor, which serves every slave, never waits for Accept.
TypeOK ==
    /\ conv \in [Addrs -> 0..MaxConvs] /\ late \in 0..MaxLate
    /\ sessions \in [Addrs -> 0..Len(made)]
    /\ monitor \in {"read", "input", "close", "new", "store", "accept", "done"}
    /\ packet \in Packet \cup {NoPacket}
    /\ s \in 0..Len(made)
    /\ state \in [DOMAIN made -> {"new", "open", "closing", "closed"}]
    /\ Len(chAccepts) <= acceptBacklog
    /\ accepted \cup readError \cup beside \subseteq DOMAIN made
    /\ monitor = "accept" => Len(chAccepts) < acceptBacklog

Open(i) == state[i] = "open"

\* "all sessions accepted by this Listener": an open session is filed under its
\* address, unless it was made beside another of the address whose Close was
\* under way: that Close deletes the entry of the new one.
SessionsFiled ==
    \A i \in DOMAIN made :
        Open(i) /\ i \notin beside => sessions[made[i].addr] = i

\* "propagate read error to all sessions": once the monitor has ended no handler
\* waits for packets without having been told, but for those no longer filed.
ErrorReachesAll ==
    monitor = "done" => \A i \in DOMAIN made : Open(i) /\ i \notin beside => i \in readError

\* "propagate read error to all sessions", taken literally: also to those that a
\* Close of an earlier session of their address has taken out of the table, which
\* the code does not tell.
ErrorReachesEverySession ==
    monitor = "done" => \A i \in DOMAIN made : Open(i) => i \in readError

\* A slave that dials gets a session of its own, although its address is taken
\* by a conversation that nobody ends.
SlaveGetsIn ==
    \A a \in Addrs : \A c \in 1..MaxConvs :
        conv[a] = c ~> \/ \E i \in accepted : made[i] = [addr |-> a, conv |-> c]
                       \/ conv[a] > c \/ monitor = "done" \/ Len(made) = MaxSessions
=============================================================================
