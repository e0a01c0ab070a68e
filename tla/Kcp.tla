---------------------------------- MODULE Kcp ----------------------------------
(***************************************************************************)
(* The KCP state machine of kcp.go as operators on a record that holds the   *)
(* fields of struct KCP.  What the programs leave at its default is left     *)
(* out: message mode with messages that fit a segment (WriteBuffers cuts at  *)
(* mss, so frg is 0), no fast resend, congestion control on.                 *)
(*                                                                         *)
(* Time is not modelled.  Where the code asks the clock, an operator takes   *)
(* the answer as an argument: due.probe, the probe timer has run out;        *)
(* due.rto, the segments whose resendts has passed; due.early, those an ACK  *)
(* of a later segment has passed over (fastack > 0, which the timestamps     *)
(* decide); due.grow, by how much incr lets cwnd grow above ssthresh.        *)
(***************************************************************************)
EXTENDS Integers, Sequences, FiniteSets, SequencesExt

CONSTANTS
    SnMod,          \* sequence numbers are unsigned integers modulo SnMod (2^32)
    IKCP_WND_SND,   \* segments in flight
    IKCP_WND_RCV,   \* segments the receive queue holds
    SegsPerPacket   \* segments that fit the mtu

IKCP_THRESH_MIN == 2
NoData == -1        \* a segment whose buffer went back to the pool

\* Mutant: plain comparison of sequence numbers.
itimediff_Plain(later, earlier) == later - earlier

itimediff(later, earlier) ==
    LET d == (later - earlier) % SnMod
    IN  IF d < SnMod \div 2 THEN d ELSE d - SnMod

Plus(sn, n) == (sn + n) % SnMod

\* How many elements at the front of s pass the test, which sees positions.
Leading(s, Test(_)) == Cardinality({i \in DOMAIN s : \A j \in 1..i : Test(j)})

DropFirst(s, n) == SubSeq(s, n + 1, Len(s))

\* The elements of s at the positions in I, in their order.
AtPositions(s, I) ==
    LET picked[n \in 0..Len(s)] ==
            IF n = 0 THEN <<>>
            ELSE IF n \in I THEN Append(picked[n - 1], s[n]) ELSE picked[n - 1]
    IN  picked[Len(s)]

NewKCP ==
    [snd_una |-> 0, snd_nxt |-> 0, rcv_nxt |-> 0, rmt_wnd |-> IKCP_WND_RCV,
     cwnd |-> 0, ssthresh |-> IKCP_THRESH_MIN, probe |-> {}, probing |-> FALSE,
     snd_queue |-> <<>>, snd_buf |-> <<>>, rcv_queue |-> <<>>, rcv_buf |-> <<>>,
     acklist |-> <<>>]

-----------------------------------------------------------------------------
(* Sending and receiving by the application. *)

Send(k, data) == [k EXCEPT !.snd_queue = Append(@, data)]

WaitSnd(k) == Len(k.snd_buf) + Len(k.snd_queue)

wnd_unused(k) ==
    IF Len(k.rcv_queue) < IKCP_WND_RCV THEN IKCP_WND_RCV - Len(k.rcv_queue) ELSE 0

\* Mutant: segments after a gap are passed on too.
MoveReady_Gap(k) ==
    LET n == Leading(k.rcv_buf, LAMBDA j : Len(k.rcv_queue) + j - 1 < IKCP_WND_RCV)
    IN  [k EXCEPT !.rcv_nxt = IF n = 0 THEN @ ELSE Plus(k.rcv_buf[n].sn, 1),
                  !.rcv_queue = @ \o [j \in 1..n |-> k.rcv_buf[j].data],
                  !.rcv_buf = DropFirst(@, n)]

\* What is next in sequence goes from rcv_buf to rcv_queue while that has room.
MoveReady(k) ==
    LET n == Leading(k.rcv_buf,
                 LAMBDA j : /\ k.rcv_buf[j].sn = Plus(k.rcv_nxt, j - 1)
                            /\ Len(k.rcv_queue) + j - 1 < IKCP_WND_RCV)
        ready == SubSeq(k.rcv_buf, 1, n)
    IN  [k EXCEPT !.rcv_nxt = Plus(@, n),
                  !.rcv_queue = @ \o [j \in 1..n |-> ready[j].data],
                  !.rcv_buf = DropFirst(@, n)]

PeekSize(k) == Len(k.rcv_queue)

\* A full queue that gets room again is told to the peer.
Recv(k) ==
    LET full == Len(k.rcv_queue) >= IKCP_WND_RCV
        k1 == MoveReady([k EXCEPT !.rcv_queue = Tail(@)])
    IN  IF full /\ Len(k1.rcv_queue) < IKCP_WND_RCV
        THEN [k1 EXCEPT !.probe = @ \cup {"ASK_TELL"}]
        ELSE k1

-----------------------------------------------------------------------------
(* Input: one segment, then a packet of them. *)

\* Mutant: una itself counts as acknowledged.
parse_una_Inclusive(k, una) ==
    LET n == Leading(k.snd_buf, LAMBDA j : itimediff(una, k.snd_buf[j].sn) >= 0)
    IN  [k EXCEPT !.snd_buf = DropFirst(@, n)]

parse_una(k, una) ==
    LET n == Leading(k.snd_buf, LAMBDA j : itimediff(una, k.snd_buf[j].sn) > 0)
    IN  [k EXCEPT !.snd_buf = DropFirst(@, n)]

shrink_buf(k) ==
    [k EXCEPT !.snd_una = IF k.snd_buf = <<>> THEN k.snd_nxt ELSE Head(k.snd_buf).sn]

\* Mutant: an ACK frees everything up to sn.
parse_ack_Cumulative(k, sn) ==
    [k EXCEPT !.snd_buf = [i \in DOMAIN k.snd_buf |->
         IF itimediff(sn, k.snd_buf[i].sn) >= 0
         THEN [k.snd_buf[i] EXCEPT !.acked = TRUE, !.data = NoData]
         ELSE k.snd_buf[i]]]

\* The segment stays, without its data, until una passes it.
parse_ack(k, sn) ==
    IF itimediff(sn, k.snd_una) < 0 \/ itimediff(sn, k.snd_nxt) >= 0
    THEN k
    ELSE [k EXCEPT !.snd_buf = [i \in DOMAIN k.snd_buf |->
             IF k.snd_buf[i].sn = sn
             THEN [k.snd_buf[i] EXCEPT !.acked = TRUE, !.data = NoData]
             ELSE k.snd_buf[i]]]

InWindow(k, sn) == itimediff(sn, Plus(k.rcv_nxt, IKCP_WND_RCV)) < 0

parse_data(k, sn, data) ==
    IF ~InWindow(k, sn) \/ itimediff(sn, k.rcv_nxt) < 0 THEN k
    ELSE LET before == {i \in DOMAIN k.rcv_buf : itimediff(sn, k.rcv_buf[i].sn) > 0}
             repeat == \E i \in DOMAIN k.rcv_buf : k.rcv_buf[i].sn = sn
             buf == IF repeat THEN k.rcv_buf
                    ELSE InsertAt(k.rcv_buf, Cardinality(before) + 1,
                                  [sn |-> sn, data |-> data])
         IN  MoveReady([k EXCEPT !.rcv_buf = buf])

ack_push(k, sn) == [k EXCEPT !.acklist = Append(@, sn)]

InputSegment(k, seg, regular) ==
    LET k1 == IF regular THEN [k EXCEPT !.rmt_wnd = seg.wnd] ELSE k
        k2 == shrink_buf(parse_una(k1, seg.una))
    IN  CASE seg.cmd = "ACK"  -> parse_ack(k2, seg.sn)
          [] seg.cmd = "PUSH" -> IF InWindow(k2, seg.sn)
                                 THEN parse_data(ack_push(k2, seg.sn), seg.sn, seg.data)
                                 ELSE k2
          [] seg.cmd = "WASK" -> [k2 EXCEPT !.probe = @ \cup {"ASK_TELL"}]
          [] seg.cmd = "WINS" -> k2

\* cwnd after a packet that acknowledged something.
Grow(k, by) ==
    LET cwnd == IF k.cwnd < k.ssthresh THEN k.cwnd + 1 ELSE k.cwnd + by
    IN  IF k.cwnd >= k.rmt_wnd THEN k
        ELSE [k EXCEPT !.cwnd = IF cwnd > k.rmt_wnd THEN k.rmt_wnd ELSE cwnd]

-----------------------------------------------------------------------------
(* flush: what goes on the wire, and the state after it. *)

Packets(segs) ==
    [i \in 1..((Len(segs) + SegsPerPacket - 1) \div SegsPerPacket) |->
        SubSeq(segs, (i - 1) * SegsPerPacket + 1,
               IF i * SegsPerPacket < Len(segs) THEN i * SegsPerPacket ELSE Len(segs))]

Segment(k, cmd, sn, data) ==
    [cmd |-> cmd, sn |-> sn, data |-> data, wnd |-> wnd_unused(k), una |-> k.rcv_nxt]

\* An ACK below rcv_nxt is left to una, unless it is the last of the list.
AckSegments(k) ==
    LET kept == AtPositions(k.acklist,
                    {i \in DOMAIN k.acklist : \/ itimediff(k.acklist[i], k.rcv_nxt) >= 0
                                              \/ i = Len(k.acklist)})
    IN  [i \in DOMAIN kept |-> Segment(k, "ACK", kept[i], NoData)]

\* The probe timer: armed by the first flush that meets a window of 0.
ProbeTimer(k, expired) ==
    IF k.rmt_wnd # 0 THEN [k EXCEPT !.probing = FALSE]
    ELSE [k EXCEPT !.probing = TRUE,
                   !.probe = IF k.probing /\ expired THEN @ \cup {"ASK_SEND"} ELSE @]

ProbeSegments(k) ==
    (IF "ASK_SEND" \in k.probe THEN <<Segment(k, "WASK", 0, NoData)>> ELSE <<>>) \o
    (IF "ASK_TELL" \in k.probe THEN <<Segment(k, "WINS", 0, NoData)>> ELSE <<>>)

Least(a, b) == IF a < b THEN a ELSE b
Greatest(a, b) == IF a > b THEN a ELSE b

Window(k) == Least(k.cwnd, Least(IKCP_WND_SND, k.rmt_wnd))

\* How many queued messages get a sequence number.
NewSegs(k) ==
    Leading(k.snd_queue,
        LAMBDA j : itimediff(Plus(k.snd_nxt, j - 1), Plus(k.snd_una, Window(k))) < 0)

Slide(k) ==
    LET n == NewSegs(k)
    IN  [k EXCEPT !.snd_nxt = Plus(@, n),
                  !.snd_queue = DropFirst(@, n),
                  !.snd_buf = @ \o [j \in 1..n |-> [sn |-> Plus(k.snd_nxt, j - 1),
                                                    data |-> k.snd_queue[j],
                                                    acked |-> FALSE]]]

\* Segments that may be resent early: an ACK came for a later one.
PassedOver(k) ==
    {k.snd_buf[i].sn : i \in {j \in DOMAIN k.snd_buf :
        ~k.snd_buf[j].acked /\ \E l \in DOMAIN k.snd_buf : l > j /\ k.snd_buf[l].acked}}

Unacked(k) == {k.snd_buf[i].sn : i \in {j \in DOMAIN k.snd_buf : ~k.snd_buf[j].acked}}

\* rate halving after early resends (resent = 0xffffffff takes 1 off), then
\* slow start again after a timeout.
Congestion(k, window, early, lost) ==
    LET half(n) == Greatest(n \div 2, IKCP_THRESH_MIN)
        th == half(itimediff(k.snd_nxt, k.snd_una))
        k1 == IF early THEN [k EXCEPT !.ssthresh = th, !.cwnd = th - 1] ELSE k
        k2 == IF lost THEN [k1 EXCEPT !.ssthresh = half(window), !.cwnd = 1] ELSE k1
    IN  IF k2.cwnd < 1 THEN [k2 EXCEPT !.cwnd = 1] ELSE k2

Sent(kcp, segs) == [kcp |-> kcp, out |-> Packets(segs)]

flush(k, due) ==
    LET k1 == ProbeTimer([k EXCEPT !.acklist = <<>>], due.probe)
        k2 == Slide([k1 EXCEPT !.probe = {}])
        early == IF NewSegs(k1) = 0 THEN due.early \cap PassedOver(k) ELSE {}
        lost == (due.rto \cap Unacked(k)) \ early
        wanted == AtPositions(k2.snd_buf,
                      {i \in DOMAIN k2.snd_buf :
                          /\ ~k2.snd_buf[i].acked
                          /\ \/ k2.snd_buf[i].sn \in early \cup lost
                             \/ itimediff(k2.snd_buf[i].sn, k.snd_nxt) >= 0})
        pushes == [i \in DOMAIN wanted |-> Segment(k, "PUSH", wanted[i].sn, wanted[i].data)]
    IN  Sent(Congestion(k2, Window(k1), early # {}, lost # {}),
             AckSegments(k) \o ProbeSegments(k1) \o pushes)

InputSegments(k, packet, regular) ==
    LET after[n \in 0..Len(packet)] ==
            IF n = 0 THEN k ELSE InputSegment(after[n - 1], packet[n], regular)
    IN  after[Len(packet)]

\* A packet: each segment in turn, then the window; a window that slid is
\* flushed at once.
Input(k, packet, regular, due) ==
    LET k1 == InputSegments(k, packet, regular)
        slid == k1.snd_una # k.snd_una
        k2 == IF slid THEN Grow(k1, due.grow) ELSE k1
    IN  IF slid THEN flush(k2, due) ELSE Sent(k2, <<>>)
=============================================================================
