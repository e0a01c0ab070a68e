-------------------------------- MODULE KcpLink --------------------------------
(***************************************************************************)
(* One KCP session between a slave (the copy of kcp.go and sess.go under     *)
(* kcp1) and the master (the copy under kcp-go-master): two state machines   *)
(* of module Kcp, driven as sess.go drives them, over a network that loses,  *)
(* repeats and reorders packets.  A packet rebuilt by FEC reaches Input late *)
(* and is not "regular".                                                     *)
(*                                                                         *)
(* The waking of blocked callers is in UdpSession, the shards in Fec; here a *)
(* call of Read or Write that would block is not enabled.  The faults of the *)
(* network are bounded by MaxFaults, which also bounds how long a packet can *)
(* be outlived by the sequence numbers.                                      *)
(***************************************************************************)
EXTENDS Kcp

CONSTANTS
    Writers,    \* the ends that write
    FirstSn,    \* the number the next segment of an idle session has
    MaxWrites,  \* bound: messages written
    MaxAcks,    \* bound: packets taken in between two flushes
    MaxNet,     \* bound: packets under way to an end; more are dropped
    MaxFaults   \* bound: packets lost, repeated, overtaken or rebuilt

Ends == {"slave", "master"}
Peer(e) == IF e = "slave" THEN "master" ELSE "slave"

ASSUME LinkAssumption ==
    /\ Writers \subseteq Ends
    /\ IKCP_WND_SND \in Nat \ {0} /\ IKCP_WND_RCV \in Nat \ {0}
    /\ SnMod \in Nat /\ SnMod > 2 * (IKCP_WND_SND + IKCP_WND_RCV)
    /\ FirstSn \in 0..SnMod - 1 /\ SegsPerPacket \in Nat \ {0}
    /\ MaxWrites \in Nat /\ MaxAcks \in Nat /\ MaxFaults \in Nat
    /\ MaxNet \in [Ends -> Nat]

\* What itimediff takes for granted: no two numbers that meet in a session, an old
\* one in a packet that lingers and one at the edge of the window, are half of all
\* numbers apart.  At a report every two seconds 2^31 numbers last for 136 years.
ASSUME LifetimeAssumption == MaxWrites + IKCP_WND_RCV < SnMod \div 2

VARIABLES
    kcp,     \* end -> its KCP record
    net,     \* end -> packets on their way to it
    written, \* messages written so far
    faults   \* faults of the network so far

vars == <<kcp, net, written, faults>>

\* A session at rest: a new one when FirstSn is 0, otherwise one that has
\* sent FirstSn segments and got all of them acknowledged and read.
Init ==
    /\ kcp = [e \in Ends |-> [NewKCP EXCEPT !.snd_una = FirstSn, !.snd_nxt = FirstSn,
                                            !.rcv_nxt = FirstSn]]
    /\ net = [e \in Ends |-> <<>>]
    /\ written = 0
    /\ faults = 0

\* What the clock may say when k is flushed.
Clock(k) ==
    [probe : IF k.rmt_wnd = 0 /\ k.probing THEN BOOLEAN ELSE {FALSE},
     early : SUBSET PassedOver(k), rto : SUBSET Unacked(k),
     grow : IF k.ssthresh <= k.cwnd /\ k.cwnd < k.rmt_wnd THEN 0..2 ELSE {0}]

\* The network has room for MaxNet packets in a direction.
Transmit(n, e, out) ==
    [n EXCEPT ![e] = LET s == @ \o out IN SubSeq(s, 1, Least(MaxNet[e], Len(s)))]

Output(e, n, sent) ==
    /\ kcp' = [kcp EXCEPT ![e] = sent.kcp]
    /\ net' = Transmit(n, Peer(e), sent.out)

-----------------------------------------------------------------------------
(* The calls of sess.go. *)

HasWindow(k) == WaitSnd(k) < IKCP_WND_SND /\ WaitSnd(k) < k.rmt_wnd

\* WriteBuffers: queue the message and flush.  The label of a message is the
\* number it will get, so that a mixed-up one is recognised.
Write(e) ==
    /\ e \in Writers /\ written < MaxWrites
    /\ HasWindow(kcp[e])
    /\ written' = written + 1
    /\ LET k == Send(kcp[e], Plus(kcp[e].snd_nxt, Len(kcp[e].snd_queue)))
       IN  \E due \in Clock(k) : Output(e, net, flush(k, due))
    /\ UNCHANGED faults

Read(e) ==
    /\ PeekSize(kcp[e]) > 0
    /\ kcp' = [kcp EXCEPT ![e] = Recv(@)]
    /\ UNCHANGED <<net, written, faults>>

Update(e) ==
    /\ \E due \in Clock(kcp[e]) : Output(e, net, flush(kcp[e], due))
    /\ UNCHANGED <<written, faults>>

\* Whatever has not been acknowledged is due, and so is the probe.
AllDue(k) == [probe |-> TRUE, early |-> {}, rto |-> Unacked(k), grow |-> 0]

UpdateDue(e) ==
    /\ Output(e, net, flush(kcp[e], AllDue(kcp[e])))
    /\ UNCHANGED <<written, faults>>

kcpInput(e, i, regular) ==
    /\ i \in DOMAIN net[e]
    /\ Len(kcp[e].acklist) + Len(net[e][i]) <= MaxAcks
    /\ faults' = faults + (i - 1) + (IF regular THEN 0 ELSE 1)
    /\ faults' <= MaxFaults
    /\ UNCHANGED written
    /\ LET n == [net EXCEPT ![e] = RemoveAt(@, i)]
       IN  \E due \in Clock(InputSegments(kcp[e], net[e][i], regular)) :
               Output(e, n, Input(kcp[e], net[e][i], regular, due))

-----------------------------------------------------------------------------
(* The network. *)

Lose(e) ==
    /\ net[e] # <<>> /\ faults < MaxFaults
    /\ net' = [net EXCEPT ![e] = Tail(@)]
    /\ faults' = faults + 1
    /\ UNCHANGED <<kcp, written>>

Repeat(e) ==
    /\ net[e] # <<>> /\ faults < MaxFaults /\ Len(net[e]) < MaxNet[e]
    /\ net' = [net EXCEPT ![e] = Append(@, Head(@))]
    /\ faults' = faults + 1
    /\ UNCHANGED <<kcp, written>>

-----------------------------------------------------------------------------
SlaveWrite == Write("slave")
SlaveRead == Read("slave")
SlaveUpdate == Update("slave")
SlaveInput == \E i \in 1..MaxNet["slave"], regular \in BOOLEAN : kcpInput("slave", i, regular)

MasterWrite == Write("master")
MasterRead == Read("master")
MasterUpdate == Update("master")
MasterInput == \E i \in 1..MaxNet["master"], regular \in BOOLEAN : kcpInput("master", i, regular)

Next ==
    \/ SlaveWrite \/ SlaveRead \/ SlaveUpdate \/ SlaveInput
    \/ MasterWrite \/ MasterRead \/ MasterUpdate \/ MasterInput
    \/ \E e \in Ends : Lose(e) \/ Repeat(e)

Spec == Init /\ [][Next]_vars

\* Weak fairness with ENABLED written out: TLC evaluates ENABLED of flush and
\* Input too slowly.  Each state predicate says when its action changes
\* something.
CanUpdate(e) ==
    LET sent == flush(kcp[e], AllDue(kcp[e]))
    IN  sent.kcp # kcp[e] \/ Transmit(net, Peer(e), sent.out) # net

CanInput(e) == net[e] # <<>> /\ Len(kcp[e].acklist) + Len(net[e][1]) <= MaxAcks

DueStep(e) == UNCHANGED <<net[e], kcp[Peer(e)], written, faults>> /\ UpdateDue(e)

InputStep(e) ==
    UNCHANGED <<kcp[Peer(e)], written, faults>> /\ net[e]' = Tail(net[e]) /\ kcpInput(e, 1, TRUE)

FairSpec ==
    /\ Spec
    /\ \A e \in Ends :
        /\ []<>~CanUpdate(e) \/ []<><<DueStep(e)>>_vars
        /\ []<>~CanInput(e) \/ []<><<InputStep(e)>>_vars
        /\ WF_vars(Read(e))

-----------------------------------------------------------------------------
Diff(x, y) == itimediff(x, y)

\* Sequence numbers of the two ends: the receiver is between what the sender
\* holds as unacknowledged and what it sends next, however they wrap; and no
\* queue outgrows what the windows promise.
Numbers ==
    \A e \in Ends :
        LET s == kcp[e] r == kcp[Peer(e)]
        IN  /\ Diff(r.rcv_nxt, s.snd_una) >= 0
            /\ Diff(s.snd_nxt, r.rcv_nxt) >= 0
            /\ Diff(s.snd_nxt, s.snd_una) = Len(s.snd_buf)
            /\ Len(s.snd_buf) <= IKCP_WND_SND
            /\ Len(r.rcv_queue) <= IKCP_WND_RCV /\ Len(r.rcv_buf) <= IKCP_WND_RCV
            /\ s.cwnd \in 0..IKCP_WND_RCV /\ (s.cwnd = 0 => s.snd_buf = <<>>)

\* The last copy of a message is never freed: every segment the receiver has
\* still to pass on is with the sender, data and all, or in rcv_buf.
Held(e, sn) ==
    LET s == kcp[e] r == kcp[Peer(e)]
    IN  (\E i \in DOMAIN s.snd_buf : s.snd_buf[i].sn = sn /\ s.snd_buf[i].data # NoData)
        \/ (\E i \in DOMAIN r.rcv_buf : r.rcv_buf[i].sn = sn)

NeverFreedEarly ==
    \A e \in Ends, sn \in 0..SnMod - 1 :
        Diff(sn, kcp[Peer(e)].rcv_nxt) >= 0 /\ Diff(sn, kcp[e].snd_nxt) < 0 => Held(e, sn)

\* What the end with record s has taken and the end with record r not yet returned.
Contents(s, r) ==
    LET n == Diff(s.snd_nxt, r.rcv_nxt)
        Data(sn) == LET b == {i \in DOMAIN r.rcv_buf : r.rcv_buf[i].sn = sn}
                        h == {i \in DOMAIN s.snd_buf : s.snd_buf[i].sn = sn}
                    IN  IF b # {} THEN r.rcv_buf[CHOOSE i \in b : TRUE].data
                        ELSE IF h # {} THEN s.snd_buf[CHOOSE i \in h : TRUE].data
                        ELSE NoData
    IN  r.rcv_queue \o [j \in 1..n |-> Data(Plus(r.rcv_nxt, j - 1))] \o s.snd_queue

\* Refinement mapping: what is written and not yet read.
Unread(e) == Contents(kcp[Peer(e)], kcp[e])

Messages == {Plus(FirstSn, n) : n \in 0..MaxWrites - 1}

Abstract == INSTANCE Fifo WITH queue <- [e \in Ends |-> Unread(e)], Msg <- Messages

ReliableFifo == Abstract!Spec

\* Everything written is read in the end.
Outstanding(e) ==
    \/ kcp[e].rcv_queue # <<>> \/ kcp[Peer(e)].snd_queue # <<>>
    \/ kcp[Peer(e)].snd_nxt # kcp[e].rcv_nxt

Arrives == \A e \in Ends : Outstanding(e) ~> ~Outstanding(e)

\* "wait until the transmit buffer to become available again" (sess.go:387): a writer
\* that finds the window shut finds it open in the end, also when the message that
\* tells so is lost.  The code does not keep this promise when the window it
\* knows is small but not 0, for then no probe asks (kcp.go:725).
WindowReopens == \A e \in Writers : []<>HasWindow(kcp[e])
=============================================================================
