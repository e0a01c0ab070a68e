----------------------------- MODULE KcpLinkProofs -----------------------------
(***************************************************************************)
(* Theorems about KcpLink: the ARQ of kcp.go delivers every message once and *)
(* in order, for any windows, any number of packets lost, repeated or        *)
(* overtaken, and any first sequence number, so also across the wrap.        *)
(***************************************************************************)
EXTENDS KcpLink, FiniteSetTheorems, SequenceTheorems, WellFoundedInduction, TLAPS

Sn == 0..SnMod - 1
SendSeg == [sn : Sn, data : Sn \cup {NoData}, acked : BOOLEAN]
RecvSeg == [sn : Sn, data : Sn]
Cmd == {"ACK", "PUSH", "WASK", "WINS"}
Seg == [cmd : Cmd, sn : Sn, data : Sn \cup {NoData}, wnd : 0..IKCP_WND_RCV, una : Sn]

KCP == [snd_una : Sn, snd_nxt : Sn, rcv_nxt : Sn, rmt_wnd : 0..IKCP_WND_RCV,
        cwnd : 0..IKCP_WND_RCV, ssthresh : Nat, probe : SUBSET {"ASK_SEND", "ASK_TELL"},
        probing : BOOLEAN, snd_queue : Seq(Sn), snd_buf : Seq(SendSeg),
        rcv_queue : Seq(Sn), rcv_buf : Seq(RecvSeg), acklist : Seq(Sn)]

\* How far a number is from the first one: numbers wrap, offsets do not.
Off(sn) == (sn - FirstSn) % SnMod

-----------------------------------------------------------------------------
(* The inductive invariant *)

\* What is queued continues what has a number, which continues what is acknowledged.
SendSide(k) ==
    /\ Off(k.snd_nxt) = Off(k.snd_una) + Len(k.snd_buf)
    /\ Len(k.snd_buf) <= IKCP_WND_SND /\ Len(k.snd_buf) <= IKCP_WND_RCV
    /\ \A i \in DOMAIN k.snd_buf :
          /\ Off(k.snd_buf[i].sn) = Off(k.snd_una) + i - 1
          /\ ~k.snd_buf[i].acked => k.snd_buf[i].data = k.snd_buf[i].sn
    /\ \A i \in DOMAIN k.snd_queue : Off(k.snd_queue[i]) = Off(k.snd_nxt) + i - 1
    /\ k.cwnd = 0 => k.snd_buf = <<>>

Taken(k) == Off(k.snd_nxt) + Len(k.snd_queue)   \* messages Write has taken
Given(k) == Off(k.rcv_nxt) - Len(k.rcv_queue)   \* messages Read has returned

\* rcv_queue ends at rcv_nxt; what waits behind a gap is in the window, once each.
ReceiveSide(k) ==
    /\ Given(k) >= 0 /\ Len(k.rcv_queue) <= IKCP_WND_RCV
    /\ \A i \in DOMAIN k.rcv_queue : Off(k.rcv_queue[i]) = Given(k) + i - 1
    /\ \A i \in DOMAIN k.rcv_buf :
          /\ k.rcv_buf[i].data = k.rcv_buf[i].sn
          /\ Off(k.rcv_nxt) <= Off(k.rcv_buf[i].sn)
          /\ Off(k.rcv_buf[i].sn) < Off(k.rcv_nxt) + IKCP_WND_RCV
    /\ \A i, j \in DOMAIN k.rcv_buf : k.rcv_buf[i].sn = k.rcv_buf[j].sn => i = j

Received(k, sn) ==
    Off(sn) < Off(k.rcv_nxt) \/ \E i \in DOMAIN k.rcv_buf : k.rcv_buf[i].sn = sn

\* A direction, from the end with record s to the end with record r.
Direction(s, r) ==
    /\ Off(s.snd_una) <= Off(r.rcv_nxt) /\ Off(r.rcv_nxt) <= Off(s.snd_nxt)
    /\ \A i \in DOMAIN r.rcv_buf : Off(r.rcv_buf[i].sn) < Off(s.snd_nxt)
    /\ \A i \in DOMAIN s.snd_buf : s.snd_buf[i].acked => Received(r, s.snd_buf[i].sn)

\* ACKs are owed only for what came.
Acked(k) == \A i \in DOMAIN k.acklist : Received(k, k.acklist[i])

Side(k) == k \in KCP /\ SendSide(k) /\ ReceiveSide(k) /\ Taken(k) <= MaxWrites

\* Two records that may be the ends of a session.
Linked(k, p) == Side(k) /\ Side(p) /\ Direction(k, p) /\ Direction(p, k)

\* What a segment says of the end that sent it, which has record k by now.
Says(seg, k) ==
    /\ seg \in Seg
    /\ Off(seg.una) <= Off(k.rcv_nxt)
    /\ seg.cmd = "PUSH" => Off(seg.sn) < Off(k.snd_nxt) /\ seg.data = seg.sn
    /\ seg.cmd = "ACK" => Received(k, seg.sn)

SaysAll(packet, k) == packet \in Seq(Seg) /\ \A i \in DOMAIN packet : Says(packet[i], k)

\* Packets from the end with record k.
Carried(s, k) == s \in Seq(Seq(Seg)) /\ \A i \in DOMAIN s : SaysAll(s[i], k)

LinkInv ==
    /\ kcp \in [Ends -> KCP] /\ net \in [Ends -> Seq(Seq(Seg))]
    /\ written \in 0..MaxWrites
    /\ \A e \in Ends : Acked(kcp[e]) /\ Taken(kcp[e]) <= written
    /\ Linked(kcp["slave"], kcp["master"])
    /\ \A e \in Ends : Carried(net[e], kcp[Peer(e)])

\* The numbers stay in order, and nothing received is taken back.
Later(k, l) ==
    /\ Off(k.snd_nxt) <= Off(l.snd_nxt) /\ Off(k.rcv_nxt) <= Off(l.rcv_nxt)
    /\ \A sn \in Sn : Received(k, sn) => Received(l, sn)

Keeps(k, l) == Later(k, l) /\ Taken(l) = Taken(k) /\ Given(l) = Given(k)

-----------------------------------------------------------------------------
(* Numbers *)

LEMMA Modulus ==
    /\ SnMod \in Nat /\ SnMod > 0 /\ FirstSn \in Sn /\ 0 \in Sn
    /\ MaxWrites \in Nat /\ IKCP_WND_SND \in Nat \ {0} /\ IKCP_WND_RCV \in Nat \ {0}
    /\ SnMod \div 2 \in Nat /\ 2 * (SnMod \div 2) <= SnMod /\ SnMod <= 2 * (SnMod \div 2) + 1
    /\ MaxWrites + IKCP_WND_RCV < SnMod \div 2
<1>1. SnMod \in Nat /\ SnMod > 0 /\ FirstSn \in 0..SnMod - 1
  BY LinkAssumption
<1>2. SnMod \div 2 \in Nat /\ 2 * (SnMod \div 2) <= SnMod /\ SnMod <= 2 * (SnMod \div 2) + 1
  BY <1>1
<1> QED
  BY <1>1, <1>2, LinkAssumption, LifetimeAssumption DEF Sn

LEMMA ModCases ==
    ASSUME NEW x \in Int, -SnMod <= x, x < 2 * SnMod
    PROVE  x % SnMod = IF x < 0 THEN x + SnMod ELSE IF x < SnMod THEN x ELSE x - SnMod
<1>1. SnMod \in Nat \ {0}
  BY Modulus
<1>2. CASE x < 0
  BY <1>1, <1>2
<1>3. CASE 0 <= x /\ x < SnMod
  BY <1>1, <1>3
<1>4. CASE SnMod <= x
  BY <1>1, <1>4
<1> QED
  BY <1>1, <1>2, <1>3, <1>4

LEMMA OffCases ==
    ASSUME NEW sn \in Sn
    PROVE  /\ Off(sn) = IF sn < FirstSn THEN sn - FirstSn + SnMod ELSE sn - FirstSn
           /\ Off(sn) \in Sn /\ Off(sn) \in Nat /\ Off(sn) < SnMod
<1>1. sn - FirstSn \in Int /\ -SnMod <= sn - FirstSn /\ sn - FirstSn < SnMod
  BY Modulus DEF Sn
<1>2. Off(sn) = IF sn < FirstSn THEN sn - FirstSn + SnMod ELSE sn - FirstSn
  BY <1>1, ModCases, Modulus DEF Off, Sn
<1> QED
  BY <1>2, Modulus DEF Sn

LEMMA OffInjective ==
    ASSUME NEW a \in Sn, NEW b \in Sn, Off(a) = Off(b)
    PROVE  a = b
  BY OffCases, Modulus DEF Sn

LEMMA OffPlus ==
    ASSUME NEW sn \in Sn, NEW n \in Nat, Off(sn) + n < SnMod
    PROVE  Plus(sn, n) \in Sn /\ Off(Plus(sn, n)) = Off(sn) + n
<1>1. sn + n \in Int /\ -SnMod <= sn + n /\ sn + n < 2 * SnMod
  BY OffCases, Modulus DEF Sn
<1>2. Plus(sn, n) = IF sn + n < SnMod THEN sn + n ELSE sn + n - SnMod
  BY <1>1, ModCases, Modulus DEF Plus, Sn
<1>3. Plus(sn, n) \in Sn
  BY <1>1, <1>2, Modulus DEF Sn
<1> QED
  BY <1>2, <1>3, OffCases, Modulus DEF Sn

\* As long as two numbers are less than half of all numbers apart.
LEMMA DiffOff ==
    ASSUME NEW a \in Sn, NEW b \in Sn,
           Off(a) - Off(b) < SnMod \div 2, Off(b) - Off(a) < SnMod \div 2
    PROVE  itimediff(a, b) = Off(a) - Off(b)
<1> DEFINE d == (a - b) % SnMod
<1>1. d = IF a < b THEN a - b + SnMod ELSE a - b
  BY ModCases, Modulus DEF Sn
<1>2. itimediff(a, b) = IF d < SnMod \div 2 THEN d ELSE d - SnMod
  BY DEF itimediff
<1> HIDE DEF d
<1>3. /\ Off(a) = IF a < FirstSn THEN a - FirstSn + SnMod ELSE a - FirstSn
      /\ Off(b) = IF b < FirstSn THEN b - FirstSn + SnMod ELSE b - FirstSn
  BY OffCases
<1>4. a \in Int /\ b \in Int /\ 0 <= a /\ a < SnMod /\ 0 <= b /\ b < SnMod
  BY Modulus DEF Sn
<1>5. d \in Int /\ 0 <= d /\ d < SnMod
  BY <1>1, <1>4, Modulus
<1>6. d = Off(a) - Off(b) \/ d = Off(a) - Off(b) + SnMod
  BY <1>1, <1>3, <1>4, Modulus DEF Sn
<1> QED
  BY <1>2, <1>3, <1>4, <1>5, <1>6, Modulus DEF Sn

\* Numbers the session has used, and the edge of a window.
Used(sn) == sn \in Sn /\ Off(sn) <= MaxWrites
Near(sn) == sn \in Sn /\ Off(sn) <= MaxWrites + IKCP_WND_RCV

LEMMA DiffUsed ==
    ASSUME NEW a, NEW b, Near(a), Near(b)
    PROVE  itimediff(a, b) = Off(a) - Off(b)
<1>1. Off(a) \in Nat /\ Off(b) \in Nat
  BY OffCases DEF Near
<1>2. Off(a) - Off(b) < SnMod \div 2 /\ Off(b) - Off(a) < SnMod \div 2
  BY <1>1, Modulus DEF Near
<1> QED
  BY <1>2, DiffOff DEF Near

LEMMA PlusNear ==
    ASSUME NEW a, Used(a), NEW n \in 0..IKCP_WND_RCV
    PROVE  Near(Plus(a, n)) /\ Off(Plus(a, n)) = Off(a) + n /\ Plus(a, n) \in Sn
<1>1. Off(a) \in Nat /\ n \in Nat
  BY OffCases DEF Used
<1>2. Off(a) + n < SnMod
  BY <1>1, Modulus DEF Used
<1> QED
  BY <1>1, <1>2, OffPlus, Modulus DEF Used, Near

-----------------------------------------------------------------------------
(* Sequences: what a recursive function computes, step by step *)

LEMMA Lowest ==
    ASSUME NEW T, T \subseteq Nat, T # {}
    PROVE  \E i \in T : \A j \in T : i <= j
<1> DEFINE Less == {p \in Nat \X Nat : p[1] < p[2]}
<1>1. IsWellFoundedOn(Less, Nat)
  <2>1. Less = OpToRel(<, Nat)
    BY Zenon DEF OpToRel
  <2> HIDE DEF Less
  <2> QED
    BY <2>1, NatLessThanWellFounded, Zenon
<1>2. PICK i \in T : \A j \in T : ~ (<<j, i>> \in Less)
  <2> HIDE DEF Less
  <2> QED
    BY <1>1, WFMin
<1>3. \A j \in T : <<j, i>> \in Less <=> j < i
  OBVIOUS
<1>4. \A j \in T : i <= j
  <2> HIDE DEF Less
  <2> TAKE j \in T
  <2>1. ~ (j < i) /\ j \in Nat /\ i \in Nat
    BY <1>2, <1>3
  <2> QED
    BY <2>1
<1> QED
  BY <1>4

LEMMA InductionTo ==
    ASSUME NEW L \in Nat, NEW S, 0 \in S, \A n \in 1..L : n - 1 \in S => n \in S
    PROVE  \A n \in 0..L : n \in S
<1> DEFINE Missing == {n \in 0..L : n \notin S}
<1> SUFFICES ASSUME Missing # {} PROVE FALSE
    OBVIOUS
<1>1. PICK m \in Missing : \A j \in Missing : m <= j
    <2>1. Missing \subseteq Nat
        OBVIOUS
    <2> HIDE DEF Missing
    <2> QED BY <2>1, Lowest
<1>2. m \in 1..L /\ m - 1 \in 0..L /\ ~(m <= m - 1) /\ m \notin S
    OBVIOUS
<1>3. m - 1 \in S
    BY <1>1, <1>2
<1> QED BY <1>2, <1>3

Steps(L, A) == [1..L -> [A -> A]]
Computes(f, L, A, b, T) ==
    /\ f \in [0..L -> A]
    /\ \A n \in 0..L : f[n] = IF n = 0 THEN b ELSE T[n][f[n - 1]]

LEMMA Recursion ==
    ASSUME NEW L \in Nat, NEW A, NEW b \in A, NEW T \in Steps(L, A)
    PROVE  \E f : Computes(f, L, A, b, T)
<1>0. T \in [1..L -> [A -> A]]
    BY DEF Steps
<1> SUFFICES \E f \in [0..L -> A] : \A n \in 0..L : f[n] = IF n = 0 THEN b ELSE T[n][f[n - 1]]
    BY DEF Computes
<1> DEFINE Good(m) == \E f \in [0..m -> A] :
                          f = [n \in 0..m |-> IF n = 0 THEN b ELSE T[n][f[n - 1]]]
           Bad == {m \in 0..L : ~Good(m)}
<1>1. Good(0)
    <2>1. [n \in 0..0 |-> b] \in [0..0 -> A]
        OBVIOUS
    <2>2. [n \in 0..0 |-> b] = [n \in 0..0 |-> IF n = 0 THEN b ELSE T[n][[i \in 0..0 |-> b][n - 1]]]
        OBVIOUS
    <2> QED BY <2>1, <2>2
<1>2. ASSUME NEW m \in 0..L - 1, Good(m) PROVE Good(m + 1)
    <2>1. PICK f \in [0..m -> A] : f = [n \in 0..m |-> IF n = 0 THEN b ELSE T[n][f[n - 1]]]
        BY <1>2
    <2> DEFINE g == [n \in 0..m + 1 |-> IF n = m + 1 THEN T[m + 1][f[m]] ELSE f[n]]
    <2>2. T[m + 1][f[m]] \in A
        <3>1. f[m] \in A
            OBVIOUS
        <3>2. T[m + 1] \in [A -> A]
            <4>1. m + 1 \in 1..L
                OBVIOUS
            <4> QED BY <1>0, <4>1
        <3> QED BY <3>1, <3>2
    <2>3. g \in [0..m + 1 -> A]
        <3> SUFFICES ASSUME NEW n \in 0..m + 1 PROVE g[n] \in A
            OBVIOUS
        <3> QED BY <2>2
    <2>4. \A n \in 0..m + 1 : g[n] = IF n = 0 THEN b ELSE T[n][g[n - 1]]
        <3> TAKE n \in 0..m + 1
        <3>1. CASE n = m + 1
            <4>1. g[m] = f[m]
                OBVIOUS
            <4> QED BY <3>1, <4>1
        <3>2. CASE n # m + 1
            <4>1. n \in 0..m /\ g[n] = f[n]
                BY <3>2
            <4>2. f[n] = IF n = 0 THEN b ELSE T[n][f[n - 1]]
                BY <2>1, <4>1
            <4>3. n # 0 => g[n - 1] = f[n - 1]
                BY <4>1
            <4> QED BY <4>1, <4>2, <4>3
        <3> QED BY <3>1, <3>2
    <2>5. g = [n \in 0..m + 1 |-> IF n = 0 THEN b ELSE T[n][g[n - 1]]]
        <3> HIDE DEF g
        <3> QED BY <2>3, <2>4
    <2> HIDE DEF g
    <2> QED BY <2>3, <2>5
<1> HIDE DEF Good
<1> DEFINE All == {n \in 0..L : Good(n)}
<1>3. \A m \in 0..L : m \in All
    <2>0. 0 \in All
        BY <1>1
    <2>1. \A n \in 1..L : n - 1 \in All => n \in All
        <3> SUFFICES ASSUME NEW n \in 1..L, Good(n - 1) PROVE Good(n)
            OBVIOUS
        <3>1. n - 1 \in 0..L - 1 /\ (n - 1) + 1 = n
            OBVIOUS
        <3>2. Good((n - 1) + 1)
            BY <3>1, <1>2
        <3> QED BY <3>1, <3>2
    <2> HIDE DEF All
    <2> QED BY <2>0, <2>1, InductionTo
<1>4. Good(L)
    BY <1>3
<1>5. PICK f \in [0..L -> A] : f = [n \in 0..L |-> IF n = 0 THEN b ELSE T[n][f[n - 1]]]
    BY <1>4 DEF Good
<1>6. \A n \in 0..L : f[n] = IF n = 0 THEN b ELSE T[n][f[n - 1]]
    BY <1>5
<1> QED BY <1>6

LEMMA Picked ==
    ASSUME NEW S, NEW s \in Seq(S), NEW I
    PROVE  AtPositions(s, I) \in Seq({s[i] : i \in DOMAIN s \cap I})
<1> DEFINE A == Seq({s[i] : i \in DOMAIN s \cap I})
           Step(n, q) == IF n \in I THEN Append(q, s[n]) ELSE q
           T == [n \in 1..Len(s) |-> [q \in A |-> Step(n, q)]]
           picked[n \in 0..Len(s)] ==
            IF n = 0 THEN <<>>
            ELSE IF n \in I THEN Append(picked[n - 1], s[n]) ELSE picked[n - 1]
<1>1. Len(s) \in Nat /\ <<>> \in A /\ \A n \in 1..Len(s), q \in A : Step(n, q) \in A
    OBVIOUS
<1> HIDE DEF A
<1>2. PICK f : /\ f \in [0..Len(s) -> A]
               /\ \A n \in 0..Len(s) : f[n] = IF n = 0 THEN <<>> ELSE T[n][f[n - 1]]
    <2>1. T \in [1..Len(s) -> [A -> A]]
        <3> HIDE DEF Step
        <3> QED BY <1>1
    <2>2. T \in Steps(Len(s), A)
        BY <2>1 DEF Steps
    <2> HIDE DEF T
    <2>3. \E f : Computes(f, Len(s), A, <<>>, T)
        BY <1>1, <2>2, Recursion
    <2> QED BY <2>3 DEF Computes
<1>3. \A n \in 0..Len(s) : f[n] = IF n = 0 THEN <<>> ELSE Step(n, f[n - 1])
    <2> TAKE n \in 0..Len(s)
    <2>1. f[n] = IF n = 0 THEN <<>> ELSE T[n][f[n - 1]]
        BY <1>2
    <2>2. n # 0 => n \in 1..Len(s) /\ f[n - 1] \in A
        BY <1>1, <1>2
    <2>3. n # 0 => T[n][f[n - 1]] = Step(n, f[n - 1])
        BY <2>2
    <2> QED BY <2>1, <2>3
<1>4. f = [n \in 0..Len(s) |-> IF n = 0 THEN <<>>
            ELSE IF n \in I THEN Append(f[n - 1], s[n]) ELSE f[n - 1]]
    BY <1>2, <1>3
<1>5. picked = [n \in 0..Len(s) |-> IF n = 0 THEN <<>>
            ELSE IF n \in I THEN Append(picked[n - 1], s[n]) ELSE picked[n - 1]]
    BY <1>4
<1>6. AtPositions(s, I) = picked[Len(s)]
    BY DEF AtPositions
<1> HIDE DEF picked
<1> DEFINE All == {m \in 0..Len(s) : picked[m] \in A}
<1>7. \A n \in 0..Len(s) : n \in All
    <2>1. picked[0] = <<>>
        BY <1>5
    <2>2. \A n \in 1..Len(s) : picked[n] = Step(n, picked[n - 1])
        <3> TAKE n \in 1..Len(s)
        <3>1. n \in 0..Len(s) /\ n # 0
            BY <1>1
        <3> QED BY <1>5, <3>1
    <2>3. \A n \in 1..Len(s) : n - 1 \in All => n \in All
        <3> HIDE DEF Step
        <3> QED BY <1>1, <2>2
    <2>4. 0 \in All
        BY <1>1, <2>1
    <2> HIDE DEF All
    <2> QED BY <1>1, <2>3, <2>4, InductionTo
<1> QED BY <1>6, <1>7 DEF A

\* Leading counts the elements before the first that fails.
LEMMA Prefix ==
    ASSUME NEW L \in Nat, NEW S, S \subseteq 1..L, \A i \in S : \A j \in 1..i : j \in S
    PROVE  /\ Cardinality(S) \in 0..L /\ S = 1..Cardinality(S)
<1>1. \E m \in 0..L : S = 1..m
  <2>1. CASE S = 1..L
    BY <2>1
  <2>2. CASE S # 1..L
    <3> DEFINE Out == {i \in 1..L : i \notin S}
    <3>1. Out # {} /\ Out \subseteq Nat
      <4> SUFFICES ASSUME Out = {} PROVE FALSE
        OBVIOUS
      <4>1. 1..L \subseteq S
        OBVIOUS
      <4> QED BY <4>1, <2>2
    <3>2. PICK m \in Out : \A j \in Out : m <= j
      <4> HIDE DEF Out
      <4> QED BY <3>1, Lowest
    <3>3. m \in 1..L /\ m \notin S /\ m - 1 \in 0..L
      BY <3>2
    <3>4. \A i \in 1..m - 1 : i \in S
      <4> TAKE i \in 1..m - 1
      <4>1. i \in 1..L /\ ~(m <= i)
        BY <3>3
      <4> QED BY <3>2, <4>1
    <3>5. \A i \in S : i \in 1..m - 1
      <4> TAKE i \in S
      <4>1. i \in 1..L
        OBVIOUS
      <4>2. ~(m <= i)
        <5> SUFFICES ASSUME m <= i PROVE FALSE
          BY <4>1, <3>3
        <5>1. m \in 1..i
          BY <4>1, <3>3
        <5> QED BY <5>1, <3>3
      <4> QED BY <4>1, <4>2, <3>3
    <3>6. S = 1..m - 1
      BY <3>4, <3>5
    <3> QED BY <3>3, <3>6
  <2> QED BY <2>1, <2>2
<1>2. PICK m \in 0..L : S = 1..m
  BY <1>1
<1>3. Cardinality(1..m) = m
  BY <1>2, FS_Interval
<1> QED
  BY <1>2, <1>3

-----------------------------------------------------------------------------
(* What an operator on one record leaves alone *)

SameSend(k, l) ==
    /\ l.snd_una = k.snd_una /\ l.snd_nxt = k.snd_nxt /\ l.cwnd = k.cwnd
    /\ l.snd_queue = k.snd_queue /\ l.snd_buf = k.snd_buf

SameReceive(k, l) ==
    l.rcv_nxt = k.rcv_nxt /\ l.rcv_queue = k.rcv_queue /\ l.rcv_buf = k.rcv_buf

LEMMA SendKept ==
    ASSUME NEW k, NEW l, SameSend(k, l)
    PROVE  /\ SendSide(k) => SendSide(l)
           /\ Taken(l) = Taken(k)
           /\ \A r : Direction(k, r) => Direction(l, r)
  BY DEF SameSend, SendSide, Taken, Direction

LEMMA ReceiveKept ==
    ASSUME NEW k, NEW l, SameReceive(k, l)
    PROVE  /\ ReceiveSide(k) => ReceiveSide(l)
           /\ Given(l) = Given(k)
           /\ \A sn : Received(l, sn) <=> Received(k, sn)
           /\ \A s : Direction(s, k) => Direction(s, l)
<1>1. Given(l) = Given(k)
  BY DEF SameReceive, Given
<1>2. \A sn : Received(l, sn) <=> Received(k, sn)
  BY DEF SameReceive, Received
<1>3. ReceiveSide(k) => ReceiveSide(l)
  BY <1>1 DEF SameReceive, ReceiveSide
<1>4. \A s : Direction(s, k) => Direction(s, l)
  BY <1>2 DEF SameReceive, Direction
<1> QED
  BY <1>1, <1>2, <1>3, <1>4

LEMMA LinkedSymmetric ==
    ASSUME NEW k, NEW p, Linked(k, p)
    PROVE  Linked(p, k)
  BY DEF Linked

\* The offsets of a record are numbers.
LEMMA Offsets ==
    ASSUME NEW k \in KCP
    PROVE  /\ k.snd_una \in Sn /\ k.snd_nxt \in Sn /\ k.rcv_nxt \in Sn
           /\ Off(k.snd_una) \in Nat /\ Off(k.snd_nxt) \in Nat /\ Off(k.rcv_nxt) \in Nat
           /\ k.snd_buf \in Seq(SendSeg) /\ k.snd_queue \in Seq(Sn)
           /\ k.rcv_buf \in Seq(RecvSeg) /\ k.rcv_queue \in Seq(Sn) /\ k.acklist \in Seq(Sn)
           /\ Len(k.snd_buf) \in Nat /\ Len(k.snd_queue) \in Nat
           /\ Len(k.rcv_buf) \in Nat /\ Len(k.rcv_queue) \in Nat
           /\ DOMAIN k.snd_buf = 1..Len(k.snd_buf) /\ DOMAIN k.rcv_buf = 1..Len(k.rcv_buf)
           /\ DOMAIN k.snd_queue = 1..Len(k.snd_queue) /\ DOMAIN k.rcv_queue = 1..Len(k.rcv_queue)
           /\ k.cwnd \in 0..IKCP_WND_RCV /\ k.rmt_wnd \in 0..IKCP_WND_RCV
<1>1. /\ k.snd_una \in Sn /\ k.snd_nxt \in Sn /\ k.rcv_nxt \in Sn
      /\ k.snd_buf \in Seq(SendSeg) /\ k.snd_queue \in Seq(Sn)
      /\ k.rcv_buf \in Seq(RecvSeg) /\ k.rcv_queue \in Seq(Sn) /\ k.acklist \in Seq(Sn)
      /\ k.cwnd \in 0..IKCP_WND_RCV /\ k.rmt_wnd \in 0..IKCP_WND_RCV
  BY DEF KCP
<1>2. Off(k.snd_una) \in Nat /\ Off(k.snd_nxt) \in Nat /\ Off(k.rcv_nxt) \in Nat
  BY <1>1, OffCases
<1>3. /\ Len(k.snd_buf) \in Nat /\ Len(k.snd_queue) \in Nat
      /\ DOMAIN k.snd_buf = 1..Len(k.snd_buf) /\ DOMAIN k.snd_queue = 1..Len(k.snd_queue)
  BY <1>1
<1>4. /\ Len(k.rcv_buf) \in Nat /\ Len(k.rcv_queue) \in Nat
      /\ DOMAIN k.rcv_buf = 1..Len(k.rcv_buf) /\ DOMAIN k.rcv_queue = 1..Len(k.rcv_queue)
  BY <1>1
<1> QED
  BY <1>1, <1>2, <1>3, <1>4

LEMMA LaterTrans ==
    ASSUME NEW k \in KCP, NEW l \in KCP, NEW m \in KCP, Later(k, l), Later(l, m)
    PROVE  Later(k, m)
<1>1. /\ Off(k.snd_nxt) <= Off(m.snd_nxt) /\ Off(k.rcv_nxt) <= Off(m.rcv_nxt)
  BY Offsets DEF Later
<1> QED
  BY <1>1 DEF Later

LEMMA KeepsTrans ==
    ASSUME NEW k \in KCP, NEW l \in KCP, NEW m \in KCP, Keeps(k, l), Keeps(l, m)
    PROVE  Keeps(k, m)
  BY LaterTrans DEF Keeps

LEMMA KeepsSame ==
    ASSUME NEW k \in KCP, NEW l, SameReceive(k, l), Taken(l) = Taken(k),
           Off(k.snd_nxt) <= Off(l.snd_nxt)
    PROVE  Keeps(k, l)
<1>1. Off(l.rcv_nxt) = Off(k.rcv_nxt) /\ Off(k.rcv_nxt) \in Nat
  BY Offsets DEF SameReceive
<1> QED
  BY <1>1, ReceiveKept DEF Keeps, Later

\* Only the fields that say nothing about a number changed.
LEMMA Unmoved ==
    ASSUME NEW k, NEW p, Linked(k, p), NEW l \in KCP, SameSend(k, l), SameReceive(k, l)
    PROVE  Linked(l, p) /\ Keeps(k, l)
<1>1. k \in KCP /\ Off(k.snd_nxt) <= Off(l.snd_nxt)
  BY Offsets DEF Linked, Side, SameSend
<1>2. Linked(l, p)
  BY SendKept, ReceiveKept DEF Linked, Side
<1> QED
  BY <1>1, <1>2, SendKept, KeepsSame

LEMMA AckedKept ==
    ASSUME NEW k \in KCP, NEW l, Acked(k), Later(k, l), l.acklist = k.acklist
    PROVE  Acked(l)
  BY Offsets DEF Acked, Later

-----------------------------------------------------------------------------
(* Input: what an end learns from a segment *)

LEMMA Listed ==
    ASSUME NEW T, NEW n \in Nat, NEW f, f = [i \in 1..n |-> f[i]], \A i \in 1..n : f[i] \in T
    PROVE  f \in Seq(T) /\ Len(f) = n
  OBVIOUS

LEMMA Joined ==
    ASSUME NEW T, NEW s \in Seq(T), NEW t \in Seq(T), NEW m, NEW n, Len(s) = m, Len(t) = n
    PROVE  /\ s \o t \in Seq(T) /\ Len(s \o t) = m + n
           /\ \A i \in 1..m + n : (s \o t)[i] = IF i <= m THEN s[i] ELSE t[i - m]
  OBVIOUS

LEMMA Dropped ==
    ASSUME NEW T, NEW s \in Seq(T), NEW n \in 0..Len(s)
    PROVE  /\ DropFirst(s, n) \in Seq(T) /\ Len(DropFirst(s, n)) = Len(s) - n
           /\ \A i \in DOMAIN DropFirst(s, n) :
                 i \in 1..Len(s) - n /\ n + i \in DOMAIN s /\ DropFirst(s, n)[i] = s[n + i]
<1>1. DropFirst(s, n) \in Seq(T) /\ Len(DropFirst(s, n)) = Len(s) - n
      /\ \A i \in 1..Len(s) - n : DropFirst(s, n)[i] = s[n + i]
  BY SubSeqProperties DEF DropFirst
<1>2. DOMAIN DropFirst(s, n) = 1..Len(s) - n
  BY <1>1
<1> HIDE DEF DropFirst
<1> QED
  BY <1>1, <1>2

LEMMA Offered ==
    ASSUME NEW k, NEW p, Linked(k, p)
    PROVE  /\ k \in KCP /\ p \in KCP
           /\ Used(k.snd_una) /\ Used(k.snd_nxt) /\ Used(k.rcv_nxt)
           /\ Off(k.snd_una) <= Off(p.rcv_nxt) /\ Off(p.rcv_nxt) <= Off(k.snd_nxt)
           /\ Off(k.rcv_nxt) <= Off(p.snd_nxt)
           /\ \A i \in DOMAIN k.snd_buf : /\ Used(k.snd_buf[i].sn)
                                          /\ Off(k.snd_buf[i].sn) = Off(k.snd_una) + i - 1
                                          /\ Off(k.snd_buf[i].sn) < Off(k.snd_nxt)
           /\ \A i \in DOMAIN k.rcv_buf : /\ Used(k.rcv_buf[i].sn)
                                          /\ Off(k.rcv_buf[i].sn) < Off(p.snd_nxt)
           /\ Off(k.snd_nxt) <= MaxWrites /\ Off(p.snd_nxt) <= MaxWrites
<1>1. k \in KCP /\ p \in KCP /\ SendSide(k) /\ Direction(k, p) /\ Direction(p, k)
      /\ Taken(k) <= MaxWrites /\ Taken(p) <= MaxWrites /\ ReceiveSide(k)
  BY DEF Linked, Side
<1>2. Off(k.snd_nxt) <= MaxWrites /\ Off(p.snd_nxt) <= MaxWrites
  BY <1>1, Offsets, Modulus DEF Taken
<1>3. Off(k.snd_una) <= Off(p.rcv_nxt) /\ Off(p.rcv_nxt) <= Off(k.snd_nxt)
      /\ Off(k.rcv_nxt) <= Off(p.snd_nxt)
  BY <1>1 DEF Direction
<1>4. Used(k.snd_una) /\ Used(k.snd_nxt) /\ Used(k.rcv_nxt)
  BY <1>1, <1>2, <1>3, Offsets, Modulus DEF Used
<1>5. ASSUME NEW i \in DOMAIN k.snd_buf
      PROVE  /\ Used(k.snd_buf[i].sn)
             /\ Off(k.snd_buf[i].sn) = Off(k.snd_una) + i - 1
             /\ Off(k.snd_buf[i].sn) < Off(k.snd_nxt)
  <2>1. k.snd_buf[i] \in SendSeg /\ i \in 1..Len(k.snd_buf)
    BY <1>1, <1>5, Offsets
  <2>2. k.snd_buf[i].sn \in Sn
    BY <2>1 DEF SendSeg
  <2>3. Off(k.snd_buf[i].sn) = Off(k.snd_una) + i - 1
        /\ Off(k.snd_nxt) = Off(k.snd_una) + Len(k.snd_buf)
    BY <1>1, <1>5 DEF SendSide
  <2>4. Off(k.snd_buf[i].sn) < Off(k.snd_nxt)
    BY <1>1, <2>1, <2>3, Offsets
  <2> QED
    BY <1>1, <1>2, <2>2, <2>3, <2>4, OffCases, Offsets, Modulus DEF Used
<1>6. ASSUME NEW i \in DOMAIN k.rcv_buf
      PROVE  Used(k.rcv_buf[i].sn) /\ Off(k.rcv_buf[i].sn) < Off(p.snd_nxt)
  <2>1. k.rcv_buf[i] \in RecvSeg
    BY <1>1, <1>6, Offsets
  <2>2. k.rcv_buf[i].sn \in Sn
    BY <2>1 DEF RecvSeg
  <2>3. Off(k.rcv_buf[i].sn) < Off(p.snd_nxt)
    BY <1>1, <1>6 DEF Direction
  <2> QED
    BY <1>1, <1>2, <2>2, <2>3, OffCases, Offsets, Modulus DEF Used
<1> QED
  BY <1>1, <1>2, <1>3, <1>4, <1>5, <1>6

LEMMA UsedNear ==
    ASSUME NEW sn, Used(sn)
    PROVE  Near(sn)
  BY OffCases, Modulus DEF Used, Near

\* una frees what comes before it, and snd_una follows.
LEMMA ParseUna ==
    ASSUME NEW k, NEW p, Linked(k, p), NEW una \in Sn, Off(una) <= Off(p.rcv_nxt)
    PROVE  LET l == shrink_buf(parse_una(k, una))
           IN  Linked(l, p) /\ Keeps(k, l) /\ l.acklist = k.acklist
<1> DEFINE S == {i \in DOMAIN k.snd_buf : \A j \in 1..i : itimediff(una, k.snd_buf[j].sn) > 0}
           n == Cardinality(S)
           buf == DropFirst(k.snd_buf, n)
           l == shrink_buf(parse_una(k, una))
<1>1. k \in KCP /\ p \in KCP /\ SendSide(k) /\ Direction(k, p) /\ Direction(p, k)
      /\ Side(p) /\ ReceiveSide(k) /\ Taken(k) <= MaxWrites
  BY DEF Linked, Side
<1>2. n \in 0..Len(k.snd_buf) /\ S = 1..n /\ Len(k.snd_buf) \in Nat
  <2>1. k.snd_buf \in Seq(SendSeg) /\ DOMAIN k.snd_buf = 1..Len(k.snd_buf) /\ Len(k.snd_buf) \in Nat
    BY <1>1, Offsets
  <2>2. S \subseteq 1..Len(k.snd_buf) /\ \A i \in S : \A j \in 1..i : j \in S
    BY <2>1
  <2> HIDE DEF S
  <2> QED
    BY <2>1, <2>2, Prefix
<1>3. l = [k EXCEPT !.snd_buf = buf,
                    !.snd_una = IF buf = <<>> THEN k.snd_nxt ELSE Head(buf).sn]
  <2>1. parse_una(k, una) = [k EXCEPT !.snd_buf = buf]
    BY DEF parse_una, Leading
  <2> HIDE DEF buf
  <2> QED BY <1>1, <2>1 DEF shrink_buf, KCP
<1>4. /\ buf \in Seq(SendSeg) /\ Len(buf) = Len(k.snd_buf) - n
      /\ \A i \in DOMAIN buf : i \in Int /\ 1 <= i /\ n + i \in DOMAIN k.snd_buf
                               /\ buf[i] = k.snd_buf[n + i]
  <2>1. k.snd_buf \in Seq(SendSeg)
    BY <1>1, Offsets
  <2>2. n \in 0..Len(k.snd_buf) /\ Len(k.snd_buf) \in Nat
    BY <1>2
  <2> HIDE DEF n
  <2>3. /\ buf \in Seq(SendSeg) /\ Len(buf) = Len(k.snd_buf) - n
        /\ \A i \in DOMAIN buf : i \in 1..Len(k.snd_buf) - n /\ n + i \in DOMAIN k.snd_buf
                                 /\ buf[i] = k.snd_buf[n + i]
    BY <2>1, <2>2, Dropped
  <2>4. \A i \in 1..Len(k.snd_buf) - n : i \in Int /\ 1 <= i
    OBVIOUS
  <2> HIDE DEF buf
  <2> QED
    BY <2>3, <2>4
<1>6. Off(una) \in Nat /\ Off(una) <= MaxWrites /\ Off(p.rcv_nxt) \in Nat
  BY <1>1, OffCases, Offered, Offsets, Modulus
<1>5. \A i \in 1..n : Off(k.snd_una) + i - 1 < Off(una)
  <2> TAKE i \in 1..n
  <2>1. i \in S /\ i \in DOMAIN k.snd_buf
    BY <1>2
  <2>2. itimediff(una, k.snd_buf[i].sn) > 0
    BY <2>1, <1>1, Offsets
  <2>3. k.snd_buf[i].sn \in Sn /\ Off(k.snd_buf[i].sn) = Off(k.snd_una) + i - 1
    BY <2>1, Offered DEF Used
  <2>4. itimediff(una, k.snd_buf[i].sn) = Off(una) - Off(k.snd_buf[i].sn)
    <3>1. Used(k.snd_buf[i].sn)
      BY <2>1, Offered
    <3>2. Near(una)
      BY <1>1, <1>6, Modulus DEF Near
    <3> QED
      BY <3>1, <3>2, DiffUsed, UsedNear
  <2> QED
    BY <2>2, <2>3, <2>4, <1>6, Offsets, OffCases
<1>7. Off(l.snd_una) = Off(k.snd_una) + n /\ l.snd_una \in Sn
  <2>1. CASE buf = <<>>
    <3>1. l.snd_una = k.snd_nxt
      <4> HIDE DEF buf
      <4> QED
        BY <1>1, <1>3, <2>1 DEF KCP
    <3>2. n = Len(k.snd_buf)
      <4> HIDE DEF buf, n
      <4>1. Len(buf) = 0
        BY <2>1
      <4> QED
        BY <1>2, <1>4, <4>1
    <3> HIDE DEF n, l
    <3> QED
      BY <3>1, <3>2, <1>1, Offsets DEF SendSide
  <2>2. CASE buf # <<>>
    <3>1. 1 \in 1..Len(buf) /\ Head(buf) = buf[1]
      <4> HIDE DEF buf, n
      <4>1. buf \in Seq(SendSeg) /\ Len(buf) \in Nat /\ Len(buf) # 0
        BY <1>4, <2>2
      <4> QED
        BY <4>1
    <3>0. l.snd_una = Head(buf).sn
      <4> HIDE DEF buf
      <4> QED
        BY <1>1, <1>3, <2>2 DEF KCP
    <3>2. l.snd_una = k.snd_buf[n + 1].sn /\ n + 1 \in DOMAIN k.snd_buf
      <4> HIDE DEF buf, n, l
      <4>1. 1 \in DOMAIN buf
        BY <1>4, <3>1
      <4> QED
        BY <1>4, <3>0, <3>1, <4>1
    <3>3. Off(k.snd_buf[n + 1].sn) = Off(k.snd_una) + (n + 1) - 1 /\ Used(k.snd_buf[n + 1].sn)
      BY <3>2, Offered
    <3> HIDE DEF n, l
    <3> QED
      BY <1>1, <1>2, <3>2, <3>3, Offsets DEF Used
  <2> QED
    BY <2>1, <2>2
<1>8. Off(k.snd_una) + n <= Off(p.rcv_nxt)
  <2> HIDE DEF n
  <2>1. CASE n = 0
    BY <1>1, <2>1, Offsets DEF Direction
  <2>2. CASE n # 0
    <3>1. n \in 1..n
      BY <1>2, <2>2, <1>1, Offsets
    <3>2. Off(k.snd_una) + n - 1 < Off(una)
      BY <1>5, <3>1
    <3> QED
      BY <1>1, <1>2, <1>6, <3>2, Offsets
  <2> QED
    BY <2>1, <2>2
<1>9. /\ l \in KCP /\ l.snd_buf = buf /\ l.snd_nxt = k.snd_nxt /\ l.snd_queue = k.snd_queue
      /\ l.cwnd = k.cwnd /\ l.acklist = k.acklist /\ SameReceive(k, l)
  <2> HIDE DEF buf
  <2>1. l.snd_una = IF buf = <<>> THEN k.snd_nxt ELSE Head(buf).sn
    BY <1>1, <1>3 DEF KCP
  <2>2. (IF buf = <<>> THEN k.snd_nxt ELSE Head(buf).sn) \in Sn
    BY <1>7, <2>1
  <2> HIDE DEF l
  <2> QED
    BY <1>1, <1>3, <1>4, <2>2 DEF KCP, SameReceive
<1> HIDE DEF l, buf, n
<1>10. SendSide(l)
  <2>1. /\ Len(l.snd_buf) = Len(k.snd_buf) - n
        /\ n \in Nat /\ n <= Len(k.snd_buf) /\ Len(k.snd_buf) \in Nat
    BY <1>1, <1>2, <1>4, <1>9, Offsets
  <2>2. Off(l.snd_nxt) = Off(l.snd_una) + Len(l.snd_buf)
    BY <1>1, <1>7, <1>9, <2>1, Offsets DEF SendSide
  <2>3. Len(l.snd_buf) <= IKCP_WND_SND /\ Len(l.snd_buf) <= IKCP_WND_RCV
    BY <1>1, <2>1, Modulus DEF SendSide
  <2>4. ASSUME NEW i \in DOMAIN l.snd_buf
        PROVE  /\ Off(l.snd_buf[i].sn) = Off(l.snd_una) + i - 1
               /\ ~l.snd_buf[i].acked => l.snd_buf[i].data = l.snd_buf[i].sn
    <3>1. i \in Int /\ n + i \in DOMAIN k.snd_buf /\ l.snd_buf[i] = k.snd_buf[n + i]
      BY <1>4, <1>9, <2>4
    <3>3. /\ Off(k.snd_buf[n + i].sn) = Off(k.snd_una) + (n + i) - 1
          /\ ~k.snd_buf[n + i].acked => k.snd_buf[n + i].data = k.snd_buf[n + i].sn
      BY <1>1, <3>1 DEF SendSide
    <3> QED
      BY <1>1, <1>7, <2>1, <3>1, <3>3, Offsets
  <2>5. l.cwnd = 0 => l.snd_buf = <<>>
    <3> SUFFICES ASSUME l.cwnd = 0 PROVE l.snd_buf = <<>>
      OBVIOUS
    <3>1. k.snd_buf = <<>>
      BY <1>1, <1>9 DEF SendSide
    <3> QED
      BY <1>4, <1>9, <2>1, <3>1
  <2>6. \A i \in DOMAIN l.snd_queue : Off(l.snd_queue[i]) = Off(l.snd_nxt) + i - 1
    BY <1>1, <1>9 DEF SendSide
  <2> QED
    BY <2>2, <2>3, <2>4, <2>5, <2>6 DEF SendSide
<1>11. Taken(l) = Taken(k)
  BY <1>9 DEF Taken
<1>12. Keeps(k, l)
  BY <1>1, <1>9, <1>11, KeepsSame, Offsets
<1>13. Direction(p, l) /\ ReceiveSide(l)
  BY <1>1, <1>9, ReceiveKept
<1>14. Direction(l, p)
  <2>1. \A i \in DOMAIN l.snd_buf : l.snd_buf[i].acked => Received(p, l.snd_buf[i].sn)
    <3> TAKE i \in DOMAIN l.snd_buf
    <3>1. n + i \in DOMAIN k.snd_buf /\ l.snd_buf[i] = k.snd_buf[n + i]
      BY <1>4, <1>9
    <3> QED
      BY <1>1, <3>1 DEF Direction
  <2> QED
    BY <1>1, <1>7, <1>8, <1>9, <2>1 DEF Direction
<1> QED
  BY <1>1, <1>9, <1>10, <1>11, <1>12, <1>13, <1>14 DEF Linked, Side, l

\* An ACK frees the data of a segment the peer has.
LEMMA ParseAck ==
    ASSUME NEW k, NEW p, Linked(k, p), NEW sn \in Sn, Received(p, sn)
    PROVE  LET l == parse_ack(k, sn)
           IN  Linked(l, p) /\ Keeps(k, l) /\ l.acklist = k.acklist
<1> DEFINE l == parse_ack(k, sn)
           buf == [i \in DOMAIN k.snd_buf |->
                     IF k.snd_buf[i].sn = sn
                     THEN [k.snd_buf[i] EXCEPT !.acked = TRUE, !.data = NoData]
                     ELSE k.snd_buf[i]]
<1>1. k \in KCP /\ p \in KCP /\ SendSide(k) /\ Direction(k, p) /\ Direction(p, k)
      /\ Side(p) /\ ReceiveSide(k) /\ Taken(k) <= MaxWrites
  BY DEF Linked, Side
<1>2. k.snd_buf \in Seq(SendSeg) /\ DOMAIN k.snd_buf = 1..Len(k.snd_buf) /\ Len(k.snd_buf) \in Nat
  BY <1>1, Offsets
<1>3. CASE l = k
  <2>1. Keeps(k, k)
    BY <1>1, KeepsSame, Offsets DEF SameReceive
  <2> QED
    BY <1>3, <2>1
<1>4. CASE l = [k EXCEPT !.snd_buf = buf]
  <2>1. ASSUME NEW i \in DOMAIN k.snd_buf
        PROVE  /\ buf[i] \in SendSeg /\ buf[i].sn = k.snd_buf[i].sn
               /\ ~buf[i].acked => buf[i] = k.snd_buf[i]
               /\ buf[i].acked => k.snd_buf[i].acked \/ buf[i].sn = sn
    <3>1. k.snd_buf[i] \in SendSeg
      BY <1>2
    <3> QED
      BY <3>1 DEF SendSeg
  <2>2. buf \in Seq(SendSeg) /\ Len(buf) = Len(k.snd_buf) /\ DOMAIN buf = DOMAIN k.snd_buf
    <3>1. DOMAIN buf = 1..Len(k.snd_buf)
      BY <1>2
    <3>2. \A i \in 1..Len(k.snd_buf) : buf[i] \in SendSeg
      BY <1>2, <2>1
    <3>3. buf = [i \in 1..Len(k.snd_buf) |-> buf[i]]
      BY <1>2
    <3> HIDE DEF buf
    <3>4. buf \in Seq(SendSeg) /\ Len(buf) = Len(k.snd_buf)
      BY <1>2, <3>2, <3>3, Listed
    <3> QED
      BY <1>2, <3>1, <3>4
  <2> HIDE DEF buf
  <2>3. /\ l \in KCP /\ l.snd_buf = buf /\ l.snd_una = k.snd_una /\ l.snd_nxt = k.snd_nxt
        /\ l.snd_queue = k.snd_queue /\ l.cwnd = k.cwnd /\ l.acklist = k.acklist
        /\ SameReceive(k, l)
    BY <1>1, <1>4, <2>2 DEF KCP, SameReceive
  <2> HIDE DEF l
  <2>4. SendSide(l)
    <3>1. ASSUME NEW i \in DOMAIN l.snd_buf
          PROVE  /\ Off(l.snd_buf[i].sn) = Off(l.snd_una) + i - 1
                 /\ ~l.snd_buf[i].acked => l.snd_buf[i].data = l.snd_buf[i].sn
      BY <1>1, <2>1, <2>2, <2>3, <3>1 DEF SendSide
    <3>2. l.cwnd = 0 => l.snd_buf = <<>>
      BY <1>1, <1>2, <2>2, <2>3 DEF SendSide
    <3> QED
      BY <1>1, <2>2, <2>3, <3>1, <3>2 DEF SendSide
  <2>5. Direction(l, p)
    <3>1. \A i \in DOMAIN l.snd_buf : l.snd_buf[i].acked => Received(p, l.snd_buf[i].sn)
      BY <1>1, <2>1, <2>2, <2>3 DEF Direction
    <3> QED
      BY <1>1, <2>3, <3>1 DEF Direction
  <2>6. Taken(l) = Taken(k)
    BY <2>3 DEF Taken
  <2>7. Keeps(k, l)
    BY <1>1, <2>3, <2>6, KeepsSame, Offsets
  <2>8. Direction(p, l) /\ ReceiveSide(l)
    BY <1>1, <2>3, ReceiveKept
  <2> QED
    BY <1>1, <2>3, <2>4, <2>5, <2>6, <2>7, <2>8 DEF Linked, Side, l
<1> QED
  BY <1>3, <1>4 DEF parse_ack

\* What is in sequence is passed on, what is not stays.
LEMMA Moves ==
    ASSUME NEW k, NEW p, Linked(k, p)
    PROVE  LET l == MoveReady(k)
           IN  /\ Linked(l, p) /\ Keeps(k, l) /\ SameSend(k, l)
               /\ l.acklist = k.acklist /\ l.probe = k.probe
<1> DEFINE S == {i \in DOMAIN k.rcv_buf : \A j \in 1..i :
                   /\ k.rcv_buf[j].sn = Plus(k.rcv_nxt, j - 1)
                   /\ Len(k.rcv_queue) + j - 1 < IKCP_WND_RCV}
           n == Cardinality(S)
           ready == SubSeq(k.rcv_buf, 1, n)
           passed == [j \in 1..n |-> ready[j].data]
           queue == k.rcv_queue \o passed
           buf == DropFirst(k.rcv_buf, n)
           l == MoveReady(k)
           v == Off(k.rcv_nxt)
<1>1. k \in KCP /\ p \in KCP /\ SendSide(k) /\ Direction(k, p) /\ Direction(p, k)
      /\ Side(p) /\ ReceiveSide(k) /\ Taken(k) <= MaxWrites
  BY DEF Linked, Side
<1>2. /\ k.rcv_buf \in Seq(RecvSeg) /\ DOMAIN k.rcv_buf = 1..Len(k.rcv_buf)
      /\ Len(k.rcv_buf) \in Nat /\ Len(k.rcv_queue) \in Nat /\ k.rcv_queue \in Seq(Sn)
      /\ v \in Nat /\ Off(p.snd_nxt) \in Nat
  BY <1>1, Offsets
<1>3. n \in 0..Len(k.rcv_buf) /\ S = 1..n
  <2>1. S \subseteq 1..Len(k.rcv_buf)
    BY <1>2
  <2>2. ASSUME NEW i \in S, NEW j \in 1..i PROVE j \in S
    <3>1. i \in 1..Len(k.rcv_buf) /\ j \in 1..Len(k.rcv_buf) /\ \A q \in 1..j : q \in 1..i
      BY <1>2, <2>1
    <3> QED
      BY <1>2, <3>1
  <2> HIDE DEF S
  <2> QED
    BY <1>2, <2>1, <2>2, Prefix
<1>4. l = [k EXCEPT !.rcv_nxt = Plus(k.rcv_nxt, n), !.rcv_queue = queue, !.rcv_buf = buf]
  BY DEF MoveReady, Leading
<1>5. \A j \in 1..n : /\ j \in DOMAIN k.rcv_buf /\ k.rcv_buf[j].sn = Plus(k.rcv_nxt, j - 1)
                      /\ Len(k.rcv_queue) + j - 1 < IKCP_WND_RCV
  <2> TAKE j \in 1..n
  <2>1. j \in S
    BY <1>3
  <2> HIDE DEF n
  <2>2. j \in 1..j
    BY <1>3
  <2> QED
    BY <2>1, <2>2
<1> HIDE DEF S, n
<1>6. n \in Nat /\ n <= Len(k.rcv_buf) /\ n <= IKCP_WND_RCV /\ Len(k.rcv_queue) + n <= IKCP_WND_RCV
  <2>1. CASE n = 0
    BY <1>1, <1>2, <1>3, <2>1, Modulus DEF ReceiveSide
  <2>2. CASE n # 0
    <3>1. n \in 1..n
      BY <1>2, <1>3, <2>2
    <3>2. Len(k.rcv_queue) + n - 1 < IKCP_WND_RCV
      BY <1>5, <3>1
    <3> QED
      BY <1>2, <1>3, <3>2, Modulus
  <2> QED
    BY <2>1, <2>2
<1>7. \A j \in 1..n : Off(k.rcv_buf[j].sn) = v + j - 1
  <2> TAKE j \in 1..n
  <2>1. j - 1 \in 0..IKCP_WND_RCV
    BY <1>6, Modulus
  <2>2. Off(Plus(k.rcv_nxt, j - 1)) = v + (j - 1)
    BY <2>1, Offered, PlusNear
  <2> HIDE DEF v
  <2> QED
    BY <1>2, <1>5, <2>1, <2>2
<1>8. Plus(k.rcv_nxt, n) \in Sn /\ Off(Plus(k.rcv_nxt, n)) = v + n
  <2>1. n \in 0..IKCP_WND_RCV
    BY <1>6, Modulus
  <2> QED
    BY <2>1, Offered, PlusNear
<1>9. v + n <= Off(p.snd_nxt)
  <2>1. CASE n = 0
    BY <1>1, <1>2, <2>1 DEF Direction
  <2>2. CASE n # 0
    <3>1. n \in 1..n /\ n \in DOMAIN k.rcv_buf
      BY <1>2, <1>6, <2>2
    <3>2. Off(k.rcv_buf[n].sn) < Off(p.snd_nxt)
      BY <3>1, Offered
    <3>3. Off(k.rcv_buf[n].sn) = v + n - 1
      BY <1>7, <3>1
    <3> HIDE DEF v
    <3> QED
      BY <1>2, <1>6, <3>2, <3>3
  <2> QED
    BY <2>1, <2>2

<1>10. /\ queue \in Seq(Sn) /\ Len(queue) = Len(k.rcv_queue) + n
       /\ \A i \in DOMAIN queue : Off(queue[i]) = Given(k) + i - 1
  <2>1. \A j \in 1..n : passed[j] = k.rcv_buf[j].sn /\ passed[j] \in Sn
    <3> TAKE j \in 1..n
    <3>1. j \in DOMAIN k.rcv_buf /\ k.rcv_buf[j] \in RecvSeg
      BY <1>2, <1>5
    <3>2. ready[j] = k.rcv_buf[j]
      <4>1. \A i \in 1..n : k.rcv_buf[i] \in RecvSeg
        BY <1>2, <1>5
      <4> QED
        BY <1>6, <4>1, SubSeqProperties
    <3>3. k.rcv_buf[j].data = k.rcv_buf[j].sn
      BY <1>1, <3>1 DEF ReceiveSide
    <3> HIDE DEF ready
    <3> QED
      BY <3>1, <3>2, <3>3 DEF RecvSeg
  <2>2. passed \in Seq(Sn) /\ Len(passed) = n /\ DOMAIN passed = 1..n
    <3>1. passed = [j \in 1..n |-> passed[j]]
      OBVIOUS
    <3> HIDE DEF passed
    <3> QED
      BY <1>6, <2>1, <3>1
  <2> HIDE DEF passed
  <2>3. /\ queue \in Seq(Sn) /\ Len(queue) = Len(k.rcv_queue) + n
        /\ DOMAIN queue = 1..Len(k.rcv_queue) + n
        /\ \A i \in 1..Len(k.rcv_queue) + n :
              queue[i] = IF i <= Len(k.rcv_queue) THEN k.rcv_queue[i]
                         ELSE passed[i - Len(k.rcv_queue)]
    <3> DEFINE s == k.rcv_queue
               m == Len(s)
    <3>1. s \in Seq(Sn) /\ m \in Nat /\ Len(s) = m /\ n \in Nat
      BY <1>2, <1>6
    <3>2. passed \in Seq(Sn) /\ Len(passed) = n
      BY <2>2
    <3> HIDE DEF m, s
    <3>3. /\ s \o passed \in Seq(Sn) /\ Len(s \o passed) = m + n
          /\ \A i \in 1..m + n : (s \o passed)[i] = IF i <= m THEN s[i] ELSE passed[i - m]
      BY <3>1, <3>2, Joined
    <3>4. DOMAIN (s \o passed) = 1..m + n
      BY <3>1, <3>3
    <3> QED
      BY <3>3, <3>4 DEF m, s
  <2> HIDE DEF queue
  <2>4. ASSUME NEW i \in DOMAIN queue PROVE Off(queue[i]) = Given(k) + i - 1
    <3>1. CASE i <= Len(k.rcv_queue)
      <4>1. i \in DOMAIN k.rcv_queue /\ queue[i] = k.rcv_queue[i]
        BY <1>2, <2>3, <3>1
      <4> QED
        BY <1>1, <4>1 DEF ReceiveSide
    <3>2. CASE i > Len(k.rcv_queue)
      <4> DEFINE j == i - Len(k.rcv_queue)
      <4>1. j \in 1..n /\ queue[i] = passed[j] /\ i \in Nat
        BY <1>2, <1>6, <2>3, <3>2
      <4>2. Off(queue[i]) = v + j - 1
        BY <1>7, <2>1, <4>1
      <4>3. Given(k) = v - Len(k.rcv_queue)
        BY DEF Given
      <4>4. v + j - 1 = Given(k) + i - 1
        <5> HIDE DEF v
        <5> QED
          BY <1>2, <4>1, <4>3
      <4> QED
        BY <4>2, <4>4
    <3> QED
      BY <1>2, <1>6, <2>3, <3>1, <3>2
  <2> QED
    BY <2>3, <2>4
<1>11. /\ buf \in Seq(RecvSeg)
       /\ \A i \in DOMAIN buf : i \in Nat /\ 1 <= i /\ n + i \in DOMAIN k.rcv_buf
                                /\ buf[i] = k.rcv_buf[n + i]
       /\ \A i \in DOMAIN k.rcv_buf : i > n => i - n \in DOMAIN buf
  <2>1. n \in 0..Len(k.rcv_buf)
    BY <1>3
  <2>2. /\ buf \in Seq(RecvSeg) /\ Len(buf) = Len(k.rcv_buf) - n
        /\ \A i \in DOMAIN buf : i \in 1..Len(k.rcv_buf) - n /\ n + i \in DOMAIN k.rcv_buf
                                 /\ buf[i] = k.rcv_buf[n + i]
    BY <1>2, <2>1, Dropped
  <2> HIDE DEF buf
  <2>3. DOMAIN buf = 1..Len(k.rcv_buf) - n
    BY <2>2
  <2>4. \A i \in 1..Len(k.rcv_buf) - n : i \in Nat /\ 1 <= i
    OBVIOUS
  <2>5. \A i \in 1..Len(k.rcv_buf) : i > n => i - n \in 1..Len(k.rcv_buf) - n
    BY <1>2, <1>6
  <2> QED
    BY <1>2, <2>2, <2>3, <2>4, <2>5
<1> HIDE DEF buf, queue
<1>12. /\ l \in KCP /\ l.rcv_nxt = Plus(k.rcv_nxt, n) /\ l.rcv_queue = queue /\ l.rcv_buf = buf
       /\ l.acklist = k.acklist /\ l.probe = k.probe /\ SameSend(k, l)
  <2>1. l \in KCP
    BY <1>1, <1>4, <1>8, <1>10, <1>11 DEF KCP
  <2> QED
    BY <1>1, <1>4, <2>1 DEF KCP, SameSend
<1> HIDE DEF l
<1>13. Off(l.rcv_nxt) = v + n /\ Given(l) = Given(k) /\ Given(k) \in Nat
  <2>1. Off(l.rcv_nxt) = v + n /\ Len(l.rcv_queue) = Len(k.rcv_queue) + n
    BY <1>8, <1>10, <1>12
  <2>2. Given(l) = Off(l.rcv_nxt) - Len(l.rcv_queue) /\ Given(k) = v - Len(k.rcv_queue)
        /\ Given(k) >= 0
    BY <1>1 DEF Given, ReceiveSide
  <2> HIDE DEF v
  <2> QED
    BY <1>2, <1>6, <2>1, <2>2
\* What is left starts behind what was passed on.
<1>14. \A i \in DOMAIN l.rcv_buf : v + n <= Off(l.rcv_buf[i].sn)
  <2> SUFFICES ASSUME NEW i \in DOMAIN l.rcv_buf, Off(l.rcv_buf[i].sn) < v + n PROVE FALSE
    <3>1. ASSUME NEW i \in DOMAIN l.rcv_buf PROVE Off(l.rcv_buf[i].sn) \in Nat
      <4>1. n + i \in DOMAIN k.rcv_buf /\ l.rcv_buf[i] = k.rcv_buf[n + i]
        BY <1>11, <1>12
      <4> QED
        BY <4>1, Offered, OffCases DEF Used
    <3> HIDE DEF v
    <3> QED
      BY <1>2, <1>6, <3>1
  <2>1. n + i \in DOMAIN k.rcv_buf /\ l.rcv_buf[i] = k.rcv_buf[n + i] /\ i \in Nat /\ 1 <= i
    BY <1>11, <1>12
  <2> DEFINE x == Off(k.rcv_buf[n + i].sn)
             m == x - v + 1
  <2>2. x \in Nat /\ v <= x /\ k.rcv_buf[n + i].sn \in Sn
    BY <1>1, <2>1, Offered, OffCases DEF ReceiveSide, Used
  <2>3. m \in 1..n /\ m \in DOMAIN k.rcv_buf
    <3>1. x < v + n
      BY <2>1
    <3>2. m \in 1..n
      <4> HIDE DEF x, v
      <4> QED
        BY <1>2, <1>6, <2>2, <3>1
    <3> QED
      BY <1>5, <3>2
  <2>4. Off(k.rcv_buf[m].sn) = x
    <3>1. Off(k.rcv_buf[m].sn) = v + m - 1
      BY <1>7, <2>3
    <3> HIDE DEF x, v
    <3> QED
      BY <1>2, <2>2, <3>1
  <2>5. k.rcv_buf[m].sn = k.rcv_buf[n + i].sn
    BY <2>2, <2>3, <2>4, OffInjective, Offered DEF Used
  <2>6. m = n + i
    BY <1>1, <2>1, <2>3, <2>5 DEF ReceiveSide
  <2> HIDE DEF m
  <2> QED
    BY <1>6, <2>1, <2>3, <2>6
<1>15. ReceiveSide(l)
  <2>1. Len(l.rcv_queue) <= IKCP_WND_RCV /\ Given(l) >= 0
    <3>1. Len(l.rcv_queue) = Len(k.rcv_queue) + n
      BY <1>10, <1>12
    <3> QED
      BY <1>6, <1>13, <3>1
  <2>2. \A i \in DOMAIN l.rcv_queue : Off(l.rcv_queue[i]) = Given(l) + i - 1
    BY <1>10, <1>12, <1>13
  <2>3. ASSUME NEW i \in DOMAIN l.rcv_buf
        PROVE  /\ l.rcv_buf[i].data = l.rcv_buf[i].sn
               /\ Off(l.rcv_nxt) <= Off(l.rcv_buf[i].sn)
               /\ Off(l.rcv_buf[i].sn) < Off(l.rcv_nxt) + IKCP_WND_RCV
    <3>1. n + i \in DOMAIN k.rcv_buf /\ l.rcv_buf[i] = k.rcv_buf[n + i]
      BY <1>11, <1>12
    <3>2. l.rcv_buf[i].data = l.rcv_buf[i].sn /\ Off(l.rcv_buf[i].sn) < v + IKCP_WND_RCV
      BY <1>1, <3>1 DEF ReceiveSide
    <3>3. Off(l.rcv_buf[i].sn) \in Nat
      BY <3>1, Offered, OffCases DEF Used
    <3> HIDE DEF v
    <3> QED
      BY <1>2, <1>6, <1>13, <1>14, <3>2, <3>3, Modulus
  <2>4. \A i, j \in DOMAIN l.rcv_buf : l.rcv_buf[i].sn = l.rcv_buf[j].sn => i = j
    <3> TAKE i, j \in DOMAIN l.rcv_buf
    <3>1. /\ n + i \in DOMAIN k.rcv_buf /\ l.rcv_buf[i] = k.rcv_buf[n + i] /\ i \in Nat
          /\ n + j \in DOMAIN k.rcv_buf /\ l.rcv_buf[j] = k.rcv_buf[n + j] /\ j \in Nat
      BY <1>11, <1>12
    <3>2. l.rcv_buf[i].sn = l.rcv_buf[j].sn => n + i = n + j
      BY <1>1, <3>1 DEF ReceiveSide
    <3> QED
      BY <1>6, <3>1, <3>2
  <2> QED
    BY <2>1, <2>2, <2>3, <2>4 DEF ReceiveSide
<1>16. \A sn \in Sn : Received(k, sn) => Received(l, sn)
  <2> SUFFICES ASSUME NEW sn \in Sn, Received(k, sn) PROVE Received(l, sn)
    OBVIOUS
  <2>1. CASE Off(sn) < v
    <3>1. Off(sn) < v + n
      <4> HIDE DEF v
      <4> QED
        BY <1>2, <1>6, <2>1, OffCases
    <3> QED
      BY <1>13, <3>1 DEF Received
  <2>2. ASSUME NEW i \in DOMAIN k.rcv_buf, k.rcv_buf[i].sn = sn PROVE Received(l, sn)
    <3>1. CASE i <= n
      <4>1. i \in 1..n
        BY <1>2, <1>6, <2>2, <3>1
      <4>2. Off(sn) = v + i - 1
        BY <1>7, <2>2, <4>1
      <4>3. Off(sn) < v + n
        <5> HIDE DEF v
        <5> QED
          BY <1>2, <1>6, <4>1, <4>2
      <4> QED
        BY <1>13, <4>3 DEF Received
    <3>2. CASE i > n
      <4>1. i - n \in DOMAIN buf /\ i \in Nat /\ n + (i - n) = i
        BY <1>2, <1>6, <1>11, <2>2, <3>2
      <4>2. l.rcv_buf[i - n].sn = sn
        BY <1>11, <1>12, <2>2, <4>1
      <4> QED
        BY <1>12, <4>1, <4>2 DEF Received
    <3> QED
      BY <1>2, <1>6, <2>2, <3>1, <3>2
  <2> QED
    BY <2>1, <2>2 DEF Received
<1>17. Direction(p, l)
  <2>1. Off(p.snd_una) <= Off(l.rcv_nxt)
    <3>1. Off(p.snd_una) <= v /\ Off(p.snd_una) \in Nat
      BY <1>1, Offsets DEF Direction
    <3> HIDE DEF v
    <3> QED
      BY <1>2, <1>6, <1>13, <3>1
  <2>2. \A i \in DOMAIN l.rcv_buf : Off(l.rcv_buf[i].sn) < Off(p.snd_nxt)
    BY <1>11, <1>12, Offered
  <2>3. \A i \in DOMAIN p.snd_buf : p.snd_buf[i].acked => Received(l, p.snd_buf[i].sn)
    <3> TAKE i \in DOMAIN p.snd_buf
    <3>1. p.snd_buf[i].sn \in Sn
      BY Offered, LinkedSymmetric DEF Used
    <3> QED
      BY <1>1, <1>16, <3>1 DEF Direction
  <2> QED
    BY <1>9, <1>13, <2>1, <2>2, <2>3 DEF Direction
<1>18. SendSide(l) /\ Taken(l) = Taken(k) /\ Direction(l, p)
  BY <1>1, <1>12, SendKept
<1>19. Keeps(k, l)
  <2>1. Off(k.snd_nxt) <= Off(l.snd_nxt)
    BY <1>1, <1>12, Offsets DEF SameSend
  <2>2. Off(k.rcv_nxt) <= Off(l.rcv_nxt)
    <3> HIDE DEF v
    <3>1. Off(k.rcv_nxt) = v
      BY DEF v
    <3> QED
      BY <1>2, <1>6, <1>13, <3>1
  <2> QED
    BY <1>13, <1>16, <1>18, <2>1, <2>2 DEF Keeps, Later
<1> QED
  BY <1>1, <1>12, <1>15, <1>17, <1>18, <1>19 DEF Linked, Side, l

\* InsertAt moves what follows one place on.
LEMMA InsertedAt ==
    ASSUME NEW T, NEW s \in Seq(T), NEW i \in 1..Len(s) + 1, NEW e \in T
    PROVE  /\ InsertAt(s, i, e) \in Seq(T) /\ DOMAIN InsertAt(s, i, e) = 1..Len(s) + 1
           /\ \A j \in 1..Len(s) + 1 :
                 /\ j < i => InsertAt(s, i, e)[j] = s[j]
                 /\ j = i => InsertAt(s, i, e)[j] = e
                 /\ j > i => InsertAt(s, i, e)[j] = s[j - 1]
<1> DEFINE a == SubSeq(s, 1, i - 1)
           b == SubSeq(s, i, Len(s))
<1>1. Len(s) \in Nat /\ i \in Nat /\ 1 <= i /\ i <= Len(s) + 1
  OBVIOUS
<1>2. a \in Seq(T) /\ Len(a) = i - 1 /\ \A q \in 1..i - 1 : a[q] = s[q]
  BY <1>1, SubSeqProperties
<1>3. b \in Seq(T) /\ Len(b) = Len(s) - i + 1 /\ \A q \in 1..Len(s) - i + 1 : b[q] = s[i + q - 1]
  BY <1>1, SubSeqProperties
<1>4. InsertAt(s, i, e) = a \o <<e>> \o b
  BY DEF InsertAt
<1> HIDE DEF a, b
<1> DEFINE c == a \o <<e>>
<1>5. c \in Seq(T) /\ Len(c) = i /\ c[i] = e /\ \A q \in 1..i - 1 : c[q] = s[q]
  BY <1>1, <1>2
<1> HIDE DEF c
<1>6. c \o b \in Seq(T) /\ Len(c \o b) = Len(s) + 1 /\ DOMAIN (c \o b) = 1..Len(s) + 1
  <2>1. c \in Seq(T) /\ b \in Seq(T) /\ Len(c) \in Nat /\ Len(b) \in Nat
    BY <1>3, <1>5
  <2>2. c \o b \in Seq(T) /\ Len(c \o b) = Len(c) + Len(b)
        /\ DOMAIN (c \o b) = 1..Len(c \o b)
    BY <2>1
  <2>3. Len(c) + Len(b) = Len(s) + 1
    BY <1>1, <1>3, <1>5
  <2> QED
    BY <2>2, <2>3
<1>7. ASSUME NEW j \in 1..Len(s) + 1
      PROVE  /\ j < i => (c \o b)[j] = s[j]
             /\ j = i => (c \o b)[j] = e
             /\ j > i => (c \o b)[j] = s[j - 1]
  <2>1. CASE j < i
    BY <1>1, <1>3, <1>5, <2>1
  <2>2. CASE j = i
    BY <1>1, <1>3, <1>5, <2>2
  <2>3. CASE j > i
    <3>1. (c \o b)[j] = b[j - i] /\ j - i \in 1..Len(s) - i + 1
      BY <1>1, <1>3, <1>5, <2>3
    <3>2. i + (j - i) - 1 = j - 1
      BY <1>1
    <3> QED
      BY <1>1, <1>3, <2>3, <3>1, <3>2
  <2> QED
    BY <1>1, <2>1, <2>2, <2>3
<1>8. InsertAt(s, i, e) = c \o b
  BY <1>4 DEF c
<1> QED
  BY <1>6, <1>7, <1>8

\* A segment inside the window that has not come before.
LEMMA Inserts ==
    ASSUME NEW k, NEW p, Linked(k, p), NEW sn \in Sn, NEW at \in 1..Len(k.rcv_buf) + 1,
           Off(k.rcv_nxt) <= Off(sn), Off(sn) < Off(k.rcv_nxt) + IKCP_WND_RCV,
           Off(sn) < Off(p.snd_nxt), \A i \in DOMAIN k.rcv_buf : k.rcv_buf[i].sn # sn
    PROVE  LET l == [k EXCEPT !.rcv_buf = InsertAt(k.rcv_buf, at, [sn |-> sn, data |-> sn])]
           IN  /\ Linked(l, p) /\ Keeps(k, l) /\ Received(l, sn)
               /\ l.acklist = k.acklist /\ SameSend(k, l)
<1> DEFINE new == [sn |-> sn, data |-> sn]
           buf == InsertAt(k.rcv_buf, at, new)
           l == [k EXCEPT !.rcv_buf = buf]
<1>1. k \in KCP /\ p \in KCP /\ SendSide(k) /\ Direction(k, p) /\ Direction(p, k)
      /\ Side(p) /\ ReceiveSide(k) /\ Taken(k) <= MaxWrites
  BY DEF Linked, Side
<1>2. k.rcv_buf \in Seq(RecvSeg) /\ DOMAIN k.rcv_buf = 1..Len(k.rcv_buf) /\ Len(k.rcv_buf) \in Nat
  BY <1>1, Offsets
<1>3. /\ buf \in Seq(RecvSeg) /\ DOMAIN buf = 1..Len(k.rcv_buf) + 1
      /\ \A j \in 1..Len(k.rcv_buf) + 1 :
            /\ j < at => buf[j] = k.rcv_buf[j]
            /\ j = at => buf[j] = new
            /\ j > at => buf[j] = k.rcv_buf[j - 1]
  <2>1. new \in RecvSeg
    BY DEF RecvSeg
  <2>2. at \in 1..Len(k.rcv_buf) + 1
    OBVIOUS
  <2>3. k.rcv_buf \in Seq(RecvSeg)
    BY <1>2
  <2> HIDE DEF new
  <2>4. /\ buf \in Seq(RecvSeg) /\ DOMAIN buf = 1..Len(k.rcv_buf) + 1
        /\ \A j \in 1..Len(k.rcv_buf) + 1 :
              /\ j < at => buf[j] = k.rcv_buf[j]
              /\ j = at => buf[j] = new
              /\ j > at => buf[j] = k.rcv_buf[j - 1]
    <3> DEFINE s == k.rcv_buf
    <3>1. s \in Seq(RecvSeg) /\ at \in 1..Len(s) + 1
      BY <2>2, <2>3
    <3> HIDE DEF s
    <3>2. /\ InsertAt(s, at, new) \in Seq(RecvSeg)
          /\ DOMAIN InsertAt(s, at, new) = 1..Len(s) + 1
          /\ \A j \in 1..Len(s) + 1 :
                /\ j < at => InsertAt(s, at, new)[j] = s[j]
                /\ j = at => InsertAt(s, at, new)[j] = new
                /\ j > at => InsertAt(s, at, new)[j] = s[j - 1]
      BY <2>1, <3>1, InsertedAt
    <3> QED
      BY <3>2 DEF s
  <2> QED
    BY <2>4
\* A position of the new buffer is the new one or that of an old segment.
<1> DEFINE old(j) == IF j < at THEN j ELSE j - 1
<1>4. ASSUME NEW j \in DOMAIN buf, j # at
      PROVE  old(j) \in DOMAIN k.rcv_buf /\ buf[j] = k.rcv_buf[old(j)]
  <2> HIDE DEF buf, new, l
  <2>1. j \in 1..Len(k.rcv_buf) + 1 /\ at \in 1..Len(k.rcv_buf) + 1
    BY <1>3, <1>4
  <2>2. CASE j < at
    <3>1. old(j) = j /\ j \in 1..Len(k.rcv_buf) /\ buf[j] = k.rcv_buf[j]
      BY <1>2, <1>3, <2>1, <2>2
    <3> QED
      BY <1>2, <3>1
  <2>3. CASE j > at
    <3>1. old(j) = j - 1 /\ j - 1 \in 1..Len(k.rcv_buf) /\ buf[j] = k.rcv_buf[j - 1]
      BY <1>2, <1>3, <2>1, <2>3
    <3> QED
      BY <1>2, <3>1
  <2> QED
    BY <1>2, <1>4, <2>1, <2>2, <2>3
<1>5. at \in DOMAIN buf /\ buf[at] = new
  <2> HIDE DEF buf, new
  <2> QED
    BY <1>2, <1>3
<1>6. ASSUME NEW i \in DOMAIN k.rcv_buf
      PROVE  \E j \in DOMAIN buf : buf[j] = k.rcv_buf[i]
  <2> HIDE DEF buf, new
  <2>1. CASE i < at
    <3>1. i \in DOMAIN buf /\ buf[i] = k.rcv_buf[i]
      BY <1>2, <1>3, <1>6, <2>1
    <3> QED
      BY <3>1
  <2>2. CASE i >= at
    <3>1. i + 1 \in DOMAIN buf /\ buf[i + 1] = k.rcv_buf[(i + 1) - 1] /\ (i + 1) - 1 = i
      BY <1>2, <1>3, <1>6, <2>2
    <3> QED
      BY <3>1
  <2> QED
    BY <1>2, <1>6, <2>1, <2>2
<1>7. new.sn = sn /\ new.data = sn
  OBVIOUS
<1> HIDE DEF new, buf
<1>8. /\ l \in KCP /\ l.rcv_buf = buf /\ l.rcv_nxt = k.rcv_nxt /\ l.rcv_queue = k.rcv_queue
      /\ l.acklist = k.acklist /\ SameSend(k, l)
  BY <1>1, <1>3 DEF KCP, SameSend
<1> HIDE DEF l
<1>9. Given(l) = Given(k)
  BY <1>8 DEF Given
<1>10. ReceiveSide(l)
  <2>1. ASSUME NEW j \in DOMAIN l.rcv_buf
        PROVE  /\ l.rcv_buf[j].data = l.rcv_buf[j].sn
               /\ Off(l.rcv_nxt) <= Off(l.rcv_buf[j].sn)
               /\ Off(l.rcv_buf[j].sn) < Off(l.rcv_nxt) + IKCP_WND_RCV
    <3>1. CASE j = at
      BY <1>5, <1>7, <1>8, <3>1
    <3>2. CASE j # at
      BY <1>1, <1>4, <1>8, <2>1, <3>2 DEF ReceiveSide
    <3> QED
      BY <3>1, <3>2
  <2>2. \A i, j \in DOMAIN l.rcv_buf : l.rcv_buf[i].sn = l.rcv_buf[j].sn => i = j
    <3> SUFFICES ASSUME NEW i \in DOMAIN buf, NEW j \in DOMAIN buf, buf[i].sn = buf[j].sn
                 PROVE  i = j
      BY <1>8
    <3>1. CASE i = at /\ j # at
      BY <1>4, <1>5, <1>7, <3>1
    <3>2. CASE i # at /\ j = at
      BY <1>4, <1>5, <1>7, <3>2
    <3>3. CASE i # at /\ j # at
      <4>1. old(i) \in DOMAIN k.rcv_buf /\ old(j) \in DOMAIN k.rcv_buf
            /\ k.rcv_buf[old(i)].sn = k.rcv_buf[old(j)].sn
        BY <1>4, <3>3
      <4>2. old(i) = old(j)
        <5> HIDE DEF old
        <5> QED
          BY <1>1, <4>1 DEF ReceiveSide
      <4> QED
        BY <1>2, <1>3, <3>3, <4>2
    <3> QED
      BY <3>1, <3>2, <3>3
  <2> QED
    BY <1>1, <1>8, <1>9, <2>1, <2>2 DEF ReceiveSide
<1>11. Received(l, sn) /\ \A m : Received(k, m) => Received(l, m)
  <2>1. Received(l, sn)
    BY <1>5, <1>7, <1>8 DEF Received
  <2>2. ASSUME NEW m, Received(k, m) PROVE Received(l, m)
    <3>1. CASE Off(m) < Off(k.rcv_nxt)
      BY <1>8, <3>1 DEF Received
    <3>2. ASSUME NEW i \in DOMAIN k.rcv_buf, k.rcv_buf[i].sn = m PROVE Received(l, m)
      BY <1>6, <1>8, <3>2 DEF Received
    <3> QED
      BY <2>2, <3>1, <3>2 DEF Received
  <2> QED
    BY <2>1, <2>2
<1>12. Direction(p, l)
  <2>1. ASSUME NEW j \in DOMAIN l.rcv_buf PROVE Off(l.rcv_buf[j].sn) < Off(p.snd_nxt)
    <3>1. CASE j = at
      BY <1>5, <1>7, <1>8, <3>1
    <3>2. CASE j # at
      BY <1>1, <1>4, <1>8, <2>1, <3>2 DEF Direction
    <3> QED
      BY <3>1, <3>2
  <2>2. ASSUME NEW i \in DOMAIN p.snd_buf, p.snd_buf[i].acked
        PROVE  Received(l, p.snd_buf[i].sn)
    BY <1>1, <1>11, <2>2 DEF Direction
  <2> QED
    BY <1>1, <1>8, <2>1, <2>2 DEF Direction
<1>13. SendSide(l) /\ Taken(l) = Taken(k) /\ Direction(l, p)
  BY <1>1, <1>8, SendKept
<1>14. Keeps(k, l)
  <2>1. Off(k.snd_nxt) <= Off(l.snd_nxt) /\ Off(k.rcv_nxt) <= Off(l.rcv_nxt)
    BY <1>1, <1>8, Offsets DEF SameSend
  <2> QED
    BY <1>9, <1>11, <1>13, <2>1 DEF Keeps, Later
<1> QED
  BY <1>1, <1>8, <1>10, <1>11, <1>12, <1>13, <1>14 DEF Linked, Side, l, buf, new

\* A segment with data: what the window admits is kept, or has come before.
LEMMA ParseData ==
    ASSUME NEW k, NEW p, Linked(k, p), NEW sn \in Sn, Off(sn) < Off(p.snd_nxt), InWindow(k, sn)
    PROVE  LET l == parse_data(k, sn, sn)
           IN  Linked(l, p) /\ Keeps(k, l) /\ Received(l, sn) /\ l.acklist = k.acklist
<1> DEFINE l == parse_data(k, sn, sn)
           before == {i \in DOMAIN k.rcv_buf : itimediff(sn, k.rcv_buf[i].sn) > 0}
           at == Cardinality(before) + 1
           repeat == \E i \in DOMAIN k.rcv_buf : k.rcv_buf[i].sn = sn
           put == [k EXCEPT !.rcv_buf = InsertAt(k.rcv_buf, at, [sn |-> sn, data |-> sn])]
<1>1. k \in KCP /\ p \in KCP /\ Off(k.rcv_nxt) \in Nat /\ Off(p.snd_nxt) \in Nat
      /\ k.rcv_nxt \in Sn /\ Off(sn) \in Nat /\ Off(p.snd_nxt) <= MaxWrites
      /\ Off(k.snd_nxt) \in Nat
  BY Offered, Offsets, OffCases
<1>2. Near(sn) /\ Near(k.rcv_nxt)
  <2>1. Used(sn) /\ Used(k.rcv_nxt)
    BY <1>1, Offered, Modulus DEF Used
  <2> QED
    BY <2>1, UsedNear
<1>3. Off(sn) < Off(k.rcv_nxt) + IKCP_WND_RCV
  <2>1. IKCP_WND_RCV \in 0..IKCP_WND_RCV
    BY Modulus
  <2>2. /\ Near(Plus(k.rcv_nxt, IKCP_WND_RCV))
        /\ Off(Plus(k.rcv_nxt, IKCP_WND_RCV)) = Off(k.rcv_nxt) + IKCP_WND_RCV
    BY <2>1, Offered, PlusNear
  <2>3. itimediff(sn, Plus(k.rcv_nxt, IKCP_WND_RCV)) = Off(sn) - (Off(k.rcv_nxt) + IKCP_WND_RCV)
    BY <1>2, <2>2, DiffUsed
  <2> QED
    BY <1>1, <2>3, Modulus DEF InWindow
<1>4. itimediff(sn, k.rcv_nxt) = Off(sn) - Off(k.rcv_nxt)
  BY <1>2, DiffUsed
<1>5. CASE itimediff(sn, k.rcv_nxt) < 0
  <2>1. l = k
    BY <1>5 DEF parse_data
  <2>2. Off(sn) < Off(k.rcv_nxt)
    BY <1>1, <1>4, <1>5
  <2>3. Keeps(k, k)
    BY <1>1, KeepsSame DEF SameReceive
  <2> QED
    BY <2>1, <2>2, <2>3 DEF Received
<1>6. CASE ~(itimediff(sn, k.rcv_nxt) < 0) /\ repeat
  <2>1. l = MoveReady([k EXCEPT !.rcv_buf = k.rcv_buf])
    BY <1>6 DEF parse_data
  <2>2. [k EXCEPT !.rcv_buf = k.rcv_buf] = k
    BY <1>1 DEF KCP
  <2>3. Linked(l, p) /\ Keeps(k, l) /\ l.acklist = k.acklist
    BY <2>1, <2>2, Moves
  <2>4. Received(k, sn)
    BY <1>6 DEF Received
  <2> HIDE DEF l
  <2>5. Received(l, sn)
    BY <2>3, <2>4 DEF Keeps, Later
  <2> QED
    BY <2>3, <2>5 DEF l
<1>7. CASE ~(itimediff(sn, k.rcv_nxt) < 0) /\ ~repeat
  <2>1. l = MoveReady(put)
    BY <1>7 DEF parse_data
  <2>2. at \in 1..Len(k.rcv_buf) + 1
    <3>1. DOMAIN k.rcv_buf = 1..Len(k.rcv_buf) /\ Len(k.rcv_buf) \in Nat
      BY <1>1, Offsets
    <3>2. IsFiniteSet(1..Len(k.rcv_buf)) /\ Cardinality(1..Len(k.rcv_buf)) = Len(k.rcv_buf)
      BY <3>1, FS_Interval
    <3>3. before \subseteq 1..Len(k.rcv_buf)
      BY <3>1
    <3> HIDE DEF before
    <3>4. IsFiniteSet(before) /\ Cardinality(before) <= Len(k.rcv_buf)
      BY <3>2, <3>3, FS_Subset
    <3>5. Cardinality(before) \in Nat
      BY <3>4, FS_CardinalityType
    <3> QED
      BY <3>1, <3>4, <3>5
  <2>3. Off(k.rcv_nxt) <= Off(sn)
    BY <1>1, <1>4, <1>7
  <2> HIDE DEF at
  <2>4. Linked(put, p) /\ Keeps(k, put) /\ Received(put, sn) /\ put.acklist = k.acklist
    BY <1>3, <1>7, <2>2, <2>3, Inserts
  <2> HIDE DEF put
  <2>5. Linked(l, p) /\ Keeps(put, l) /\ l.acklist = k.acklist
    BY <2>1, <2>4, Moves
  <2> HIDE DEF l
  <2>6. put \in KCP /\ l \in KCP
    BY <2>4, <2>5 DEF Linked, Side
  <2>7. Keeps(k, l)
    BY <1>1, <2>4, <2>5, <2>6, KeepsTrans
  <2>8. Received(l, sn)
    BY <2>4, <2>5 DEF Keeps, Later
  <2> QED
    BY <2>4, <2>5, <2>7, <2>8 DEF l
<1> QED
  BY <1>5, <1>6, <1>7

\* One segment: the order of its effects is that of the code.
LEMMA InputOne ==
    ASSUME NEW k, NEW p, Linked(k, p), Acked(k), NEW seg, Says(seg, p), NEW regular \in BOOLEAN
    PROVE  LET l == InputSegment(k, seg, regular)
           IN  Linked(l, p) /\ Keeps(k, l) /\ Acked(l)
<1> DEFINE k1 == IF regular THEN [k EXCEPT !.rmt_wnd = seg.wnd] ELSE k
           k2 == shrink_buf(parse_una(k1, seg.una))
           pushed == ack_push(k2, seg.sn)
           told == [k2 EXCEPT !.probe = @ \cup {"ASK_TELL"}]
           l == InputSegment(k, seg, regular)
<1>1. k \in KCP /\ p \in KCP
  BY DEF Linked, Side
<1>2. /\ seg.wnd \in 0..IKCP_WND_RCV /\ seg.una \in Sn /\ seg.sn \in Sn /\ seg.cmd \in Cmd
      /\ Off(seg.una) <= Off(p.rcv_nxt)
      /\ seg.cmd = "PUSH" => Off(seg.sn) < Off(p.snd_nxt) /\ seg.data = seg.sn
      /\ seg.cmd = "ACK" => Received(p, seg.sn)
  BY DEF Says, Seg
<1>3. Linked(k1, p) /\ Keeps(k, k1) /\ k1.acklist = k.acklist /\ k1 \in KCP
  <2>1. k1 \in KCP /\ SameSend(k, k1) /\ SameReceive(k, k1) /\ k1.acklist = k.acklist
    BY <1>1, <1>2 DEF KCP, SameSend, SameReceive
  <2> HIDE DEF k1
  <2> QED
    BY <2>1, Unmoved
<1> HIDE DEF k1
<1>4. Linked(k2, p) /\ Keeps(k1, k2) /\ k2.acklist = k1.acklist
  BY <1>2, <1>3, ParseUna
<1> HIDE DEF k2
<1>5. k2 \in KCP
  BY <1>4 DEF Linked, Side
<1>6. Keeps(k, k2) /\ k2.acklist = k.acklist
  BY <1>1, <1>3, <1>4, <1>5, KeepsTrans
<1>7. \A m : Linked(m, p) /\ Keeps(k2, m) /\ m.acklist = k2.acklist =>
             Linked(m, p) /\ Keeps(k, m) /\ Acked(m)
  <2> SUFFICES ASSUME NEW m, Linked(m, p), Keeps(k2, m), m.acklist = k2.acklist
               PROVE  Keeps(k, m) /\ Acked(m)
    OBVIOUS
  <2>1. m \in KCP
    BY DEF Linked, Side
  <2>2. Keeps(k, m)
    BY <1>1, <1>5, <1>6, <2>1, KeepsTrans
  <2> QED
    BY <1>1, <1>6, <2>2, AckedKept DEF Keeps
<1>8. CASE seg.cmd = "ACK"
  <2>1. l = parse_ack(k2, seg.sn)
    BY <1>8 DEF InputSegment, k1, k2
  <2> HIDE DEF l
  <2>2. Linked(l, p) /\ Keeps(k2, l) /\ l.acklist = k2.acklist
    BY <1>2, <1>4, <1>8, <2>1, ParseAck
  <2> QED
    BY <1>7, <2>2 DEF l
<1>9. CASE seg.cmd = "PUSH" /\ InWindow(k2, seg.sn)
  <2>1. l = parse_data(pushed, seg.sn, seg.sn)
    BY <1>2, <1>9 DEF InputSegment, k1, k2
  <2>2. /\ pushed \in KCP /\ SameSend(k2, pushed) /\ SameReceive(k2, pushed)
        /\ pushed.acklist = Append(k2.acklist, seg.sn)
    <3>1. k2.acklist \in Seq(Sn)
      BY <1>5, Offsets
    <3>2. Append(k2.acklist, seg.sn) \in Seq(Sn)
      BY <1>2, <3>1
    <3> QED
      BY <1>5, <3>2 DEF ack_push, KCP, SameSend, SameReceive
  <2> HIDE DEF pushed
  <2>3. Linked(pushed, p) /\ Keeps(k2, pushed) /\ InWindow(pushed, seg.sn)
    BY <1>4, <1>9, <2>2, Unmoved DEF InWindow, SameReceive
  <2> HIDE DEF l
  <2>4. Linked(l, p) /\ Keeps(pushed, l) /\ Received(l, seg.sn) /\ l.acklist = pushed.acklist
    BY <1>2, <1>9, <2>1, <2>3, ParseData
  <2>5. l \in KCP
    BY <2>4 DEF Linked, Side
  <2>6. Keeps(k, l)
    BY <1>1, <1>5, <1>6, <2>2, <2>3, <2>4, <2>5, KeepsTrans
  <2>7. k.acklist \in Seq(Sn)
    BY <1>1, Offsets
  <2>8. ASSUME NEW i \in DOMAIN l.acklist PROVE Received(l, l.acklist[i])
    <3>1. l.acklist = Append(k.acklist, seg.sn)
      BY <1>6, <2>2, <2>4
    <3>2. CASE i \in DOMAIN k.acklist
      <4>1. l.acklist[i] = k.acklist[i] /\ k.acklist[i] \in Sn
        BY <2>7, <3>1, <3>2
      <4>2. Received(k, k.acklist[i])
        BY <3>2 DEF Acked
      <4> QED
        BY <2>6, <4>1, <4>2 DEF Keeps, Later
    <3>3. CASE i \notin DOMAIN k.acklist
      <4>1. l.acklist[i] = seg.sn
        BY <2>7, <2>8, <3>1, <3>3
      <4> QED
        BY <2>4, <4>1
    <3> QED
      BY <3>2, <3>3
  <2> QED
    BY <2>4, <2>6, <2>8 DEF Acked, l
<1>10. CASE seg.cmd = "WASK"
  <2>1. l = told
    BY <1>10 DEF InputSegment, k1, k2
  <2>2. told \in KCP /\ SameSend(k2, told) /\ SameReceive(k2, told) /\ told.acklist = k2.acklist
    BY <1>5 DEF KCP, SameSend, SameReceive
  <2> HIDE DEF told, l
  <2>3. Linked(l, p) /\ Keeps(k2, l) /\ l.acklist = k2.acklist
    BY <1>4, <2>1, <2>2, Unmoved
  <2> QED
    BY <1>7, <2>3 DEF l
<1>11. CASE seg.cmd = "WINS" \/ (seg.cmd = "PUSH" /\ ~InWindow(k2, seg.sn))
  <2>1. l = k2
    BY <1>11 DEF InputSegment, k1, k2
  <2> HIDE DEF l
  <2>2. Keeps(k2, k2)
    BY <1>5, KeepsSame, Offsets DEF SameReceive
  <2>3. Linked(l, p) /\ Keeps(k2, l) /\ l.acklist = k2.acklist
    BY <1>4, <2>1, <2>2
  <2> QED
    BY <1>7, <2>3 DEF l
<1> HIDE DEF l
<1> QED
  BY <1>2, <1>8, <1>9, <1>10, <1>11 DEF Cmd, l

\* A packet of segments.
LEMMA InputAll ==
    ASSUME NEW k, NEW p, Linked(k, p), Acked(k), NEW packet, SaysAll(packet, p),
           NEW regular \in BOOLEAN
    PROVE  LET l == InputSegments(k, packet, regular)
           IN  Linked(l, p) /\ Keeps(k, l) /\ Acked(l)
<1> DEFINE A == {l \in KCP : Linked(l, p) /\ Keeps(k, l) /\ Acked(l)}
           L == Len(packet)
           Step(n, q) == InputSegment(q, packet[n], regular)
           T == [n \in 1..L |-> [q \in A |-> Step(n, q)]]
           after[n \in 0..L] ==
             IF n = 0 THEN k ELSE InputSegment(after[n - 1], packet[n], regular)
<1>1. L \in Nat /\ \A n \in 1..L : Says(packet[n], p)
  BY DEF SaysAll
<1>2. k \in A
  BY KeepsSame, Offsets DEF Linked, Side, SameReceive
<1>3. ASSUME NEW n \in 1..L, NEW q \in A PROVE Step(n, q) \in A
  <2>1. q \in KCP /\ k \in KCP /\ Linked(q, p) /\ Keeps(k, q) /\ Acked(q) /\ Says(packet[n], p)
    BY <1>1, <1>2, <1>3
  <2>2. Linked(Step(n, q), p) /\ Keeps(q, Step(n, q)) /\ Acked(Step(n, q))
    BY <2>1, InputOne
  <2> HIDE DEF Step
  <2>3. Step(n, q) \in KCP
    BY <2>2 DEF Linked, Side
  <2> QED
    BY <2>1, <2>2, <2>3, KeepsTrans
<1> HIDE DEF A, L
<1>4. PICK f : f \in [0..L -> A] /\ \A n \in 0..L : f[n] = IF n = 0 THEN k ELSE T[n][f[n - 1]]
  <2>1. T \in [1..L -> [A -> A]]
    <3> HIDE DEF Step
    <3> QED
      BY <1>3
  <2>2. T \in Steps(L, A)
    BY <2>1 DEF Steps
  <2> HIDE DEF T
  <2>3. \E f : Computes(f, L, A, k, T)
    BY <1>1, <1>2, <2>2, Recursion
  <2> QED
    BY <2>3 DEF Computes
<1>5. \A n \in 0..L : f[n] = IF n = 0 THEN k ELSE Step(n, f[n - 1])
  <2> HIDE DEF Step
  <2> TAKE n \in 0..L
  <2>1. f[n] = IF n = 0 THEN k ELSE T[n][f[n - 1]]
    BY <1>4
  <2>2. n # 0 => n \in 1..L /\ f[n - 1] \in A
    BY <1>1, <1>4
  <2>3. n # 0 => T[n][f[n - 1]] = Step(n, f[n - 1])
    BY <2>2
  <2> QED
    BY <2>1, <2>3
<1>6. f = [n \in 0..L |-> IF n = 0 THEN k ELSE InputSegment(f[n - 1], packet[n], regular)]
  BY <1>4, <1>5
<1>7. after = [n \in 0..L |->
                 IF n = 0 THEN k ELSE InputSegment(after[n - 1], packet[n], regular)]
  BY <1>6
<1>8. InputSegments(k, packet, regular) = after[L]
  BY DEF InputSegments, L
<1> HIDE DEF after
<1> DEFINE All == {n \in 0..L : after[n] \in A}
<1>9. \A n \in 0..L : n \in All
  <2>1. 0 \in All
    BY <1>1, <1>2, <1>7
  <2>2. \A n \in 1..L : after[n] = Step(n, after[n - 1])
    <3> TAKE n \in 1..L
    <3>1. n \in 0..L /\ n # 0
      BY <1>1
    <3> QED
      BY <1>7, <3>1
  <2>3. \A n \in 1..L : n - 1 \in All => n \in All
    <3> HIDE DEF Step
    <3> QED
      BY <1>1, <1>3, <2>2
  <2> HIDE DEF All
  <2> QED
    BY <1>1, <2>1, <2>3, InductionTo
<1> QED
  BY <1>1, <1>8, <1>9 DEF A

-----------------------------------------------------------------------------
(* The calls of the application, and flush *)

\* Read takes the oldest message.
LEMMA ReadOne ==
    ASSUME NEW k, NEW p, Linked(k, p), Acked(k), Len(k.rcv_queue) > 0
    PROVE  LET l == Recv(k)
           IN  /\ Linked(l, p) /\ Later(k, l) /\ Acked(l)
               /\ Taken(l) = Taken(k) /\ Given(l) = Given(k) + 1
<1> DEFINE t == [k EXCEPT !.rcv_queue = Tail(@)]
           m == MoveReady(t)
           told == [m EXCEPT !.probe = @ \cup {"ASK_TELL"}]
           l == Recv(k)
<1>1. k \in KCP /\ p \in KCP /\ SendSide(k) /\ Direction(k, p) /\ Direction(p, k)
      /\ Side(p) /\ ReceiveSide(k) /\ Taken(k) <= MaxWrites
  BY DEF Linked, Side
<1>2. k.rcv_queue \in Seq(Sn) /\ Len(k.rcv_queue) \in Nat /\ Off(k.rcv_nxt) \in Nat
      /\ DOMAIN k.rcv_queue = 1..Len(k.rcv_queue)
  BY <1>1, Offsets
<1>3. /\ Tail(k.rcv_queue) \in Seq(Sn) /\ Len(Tail(k.rcv_queue)) = Len(k.rcv_queue) - 1
      /\ \A i \in DOMAIN Tail(k.rcv_queue) :
            i \in Nat /\ i + 1 \in DOMAIN k.rcv_queue /\ Tail(k.rcv_queue)[i] = k.rcv_queue[i + 1]
  BY <1>2
<1>4. /\ t \in KCP /\ t.rcv_queue = Tail(k.rcv_queue) /\ t.rcv_buf = k.rcv_buf
      /\ t.rcv_nxt = k.rcv_nxt /\ t.acklist = k.acklist /\ SameSend(k, t)
  BY <1>1, <1>3 DEF KCP, SameSend
<1> HIDE DEF t
<1>5. Given(t) = Given(k) + 1 /\ Given(k) \in Nat
  <2>1. Given(t) = Off(k.rcv_nxt) - (Len(k.rcv_queue) - 1)
        /\ Given(k) = Off(k.rcv_nxt) - Len(k.rcv_queue) /\ Given(k) >= 0
    BY <1>1, <1>3, <1>4 DEF Given, ReceiveSide
  <2> QED
    BY <1>2, <2>1
<1>6. ReceiveSide(t)
  <2>1. ASSUME NEW i \in DOMAIN t.rcv_queue PROVE Off(t.rcv_queue[i]) = Given(t) + i - 1
    <3>1. i \in Nat /\ i + 1 \in DOMAIN k.rcv_queue /\ t.rcv_queue[i] = k.rcv_queue[i + 1]
      BY <1>3, <1>4, <2>1
    <3>2. Off(k.rcv_queue[i + 1]) = Given(k) + (i + 1) - 1
      BY <1>1, <3>1 DEF ReceiveSide
    <3>3. Given(k) + (i + 1) - 1 = Given(t) + i - 1
      BY <1>5, <3>1
    <3> QED
      BY <3>1, <3>2, <3>3
  <2>2. Len(t.rcv_queue) <= IKCP_WND_RCV /\ Given(t) >= 0
    <3>1. Len(t.rcv_queue) = Len(k.rcv_queue) - 1 /\ Len(k.rcv_queue) <= IKCP_WND_RCV
      BY <1>1, <1>3, <1>4 DEF ReceiveSide
    <3> QED
      BY <1>2, <1>5, <3>1, Modulus
  <2>3. \A i \in DOMAIN t.rcv_buf :
           /\ t.rcv_buf[i].data = t.rcv_buf[i].sn
           /\ Off(t.rcv_nxt) <= Off(t.rcv_buf[i].sn)
           /\ Off(t.rcv_buf[i].sn) < Off(t.rcv_nxt) + IKCP_WND_RCV
    BY <1>1, <1>4 DEF ReceiveSide
  <2>4. \A i, j \in DOMAIN t.rcv_buf : t.rcv_buf[i].sn = t.rcv_buf[j].sn => i = j
    BY <1>1, <1>4 DEF ReceiveSide
  <2> QED
    BY <2>1, <2>2, <2>3, <2>4 DEF ReceiveSide
<1>7. Linked(t, p) /\ Later(k, t) /\ Taken(t) = Taken(k)
  <2>1. Direction(p, t) /\ Later(k, t)
    BY <1>1, <1>4, Offsets DEF Direction, Received, Later, SameSend
  <2>2. SendSide(t) /\ Direction(t, p) /\ Taken(t) = Taken(k)
    BY <1>1, <1>4, SendKept
  <2> QED
    BY <1>1, <1>4, <1>6, <2>1, <2>2 DEF Linked, Side
<1>8. Linked(m, p) /\ Keeps(t, m) /\ m.acklist = t.acklist
  BY <1>7, Moves
<1>9. l = m \/ l = told
  BY DEF Recv, t
<1> HIDE DEF m, l
<1>10. m \in KCP
  BY <1>8 DEF Linked, Side
<1>11. told \in KCP /\ SameSend(m, told) /\ SameReceive(m, told) /\ told.acklist = m.acklist
  BY <1>10 DEF KCP, SameSend, SameReceive
<1>12. Keeps(m, m)
  BY <1>10, KeepsSame, Offsets DEF SameReceive
<1>13. Linked(l, p) /\ Keeps(m, l) /\ l.acklist = m.acklist
  <2> HIDE DEF told
  <2> QED
    BY <1>8, <1>9, <1>10, <1>11, <1>12, Unmoved
<1>14. l \in KCP
  BY <1>13 DEF Linked, Side
<1>15. Keeps(t, l)
  BY <1>4, <1>8, <1>10, <1>13, <1>14, KeepsTrans
<1>16. Later(k, l)
  BY <1>1, <1>4, <1>7, <1>14, <1>15, LaterTrans DEF Keeps
<1>17. Acked(l)
  BY <1>1, <1>4, <1>8, <1>13, <1>16, AckedKept
<1> QED
  BY <1>5, <1>7, <1>13, <1>15, <1>16, <1>17 DEF Keeps, l

\* Write queues the next message.
LEMMA SendOne ==
    ASSUME NEW k, NEW p, Linked(k, p), Acked(k), Taken(k) < MaxWrites
    PROVE  LET sn == Plus(k.snd_nxt, Len(k.snd_queue))
               l == Send(k, sn)
           IN  /\ Linked(l, p) /\ Later(k, l) /\ Acked(l)
               /\ Taken(l) = Taken(k) + 1 /\ Given(l) = Given(k)
               /\ sn \in Sn /\ Off(sn) = Taken(k)
<1> DEFINE sn == Plus(k.snd_nxt, Len(k.snd_queue))
           l == Send(k, sn)
<1>1. k \in KCP /\ p \in KCP /\ SendSide(k) /\ Direction(k, p) /\ Direction(p, k)
      /\ Side(p) /\ ReceiveSide(k) /\ Taken(k) <= MaxWrites
  BY DEF Linked, Side
<1>2. k.snd_queue \in Seq(Sn) /\ Len(k.snd_queue) \in Nat /\ Off(k.snd_nxt) \in Nat
      /\ DOMAIN k.snd_queue = 1..Len(k.snd_queue) /\ k.snd_nxt \in Sn
  BY <1>1, Offsets
<1>3. Taken(k) = Off(k.snd_nxt) + Len(k.snd_queue)
  BY DEF Taken
<1>4. sn \in Sn /\ Off(sn) = Taken(k)
  <2>1. Off(k.snd_nxt) + Len(k.snd_queue) < SnMod
    BY <1>2, <1>3, Modulus
  <2> QED
    BY <1>2, <1>3, <2>1, OffPlus
<1> HIDE DEF sn
<1>5. /\ l \in KCP /\ l.snd_queue = Append(k.snd_queue, sn) /\ l.snd_buf = k.snd_buf
      /\ l.snd_una = k.snd_una /\ l.snd_nxt = k.snd_nxt /\ l.cwnd = k.cwnd
      /\ l.acklist = k.acklist /\ SameReceive(k, l)
  <2>1. Append(k.snd_queue, sn) \in Seq(Sn)
    BY <1>2, <1>4
  <2> QED
    BY <1>1, <2>1 DEF Send, KCP, SameReceive
<1> HIDE DEF l
<1>6. Taken(l) = Taken(k) + 1
  <2>1. Len(l.snd_queue) = Len(k.snd_queue) + 1
    BY <1>2, <1>4, <1>5
  <2> QED
    BY <1>2, <1>5, <2>1 DEF Taken
<1>7. SendSide(l)
  <2>1. ASSUME NEW i \in DOMAIN l.snd_queue
        PROVE  Off(l.snd_queue[i]) = Off(l.snd_nxt) + i - 1
    <3>1. CASE i \in DOMAIN k.snd_queue
      <4>1. l.snd_queue[i] = k.snd_queue[i]
        BY <1>2, <1>5, <3>1
      <4> QED
        BY <1>1, <1>5, <3>1, <4>1 DEF SendSide
    <3>2. CASE i \notin DOMAIN k.snd_queue
      <4>1. i = Len(k.snd_queue) + 1 /\ l.snd_queue[i] = sn
        BY <1>2, <1>4, <1>5, <2>1, <3>2
      <4> QED
        BY <1>2, <1>3, <1>4, <1>5, <4>1
    <3> QED
      BY <3>1, <3>2
  <2> QED
    BY <1>1, <1>5, <2>1 DEF SendSide
<1>8. ReceiveSide(l) /\ Given(l) = Given(k) /\ Direction(p, l)
      /\ \A x : Received(l, x) <=> Received(k, x)
  BY <1>1, <1>5, ReceiveKept
<1>9. Direction(l, p)
  BY <1>1, <1>5 DEF Direction
<1>10. Later(k, l)
  <2>1. l.snd_nxt = k.snd_nxt /\ l.rcv_nxt = k.rcv_nxt
    BY <1>5 DEF SameReceive
  <2>2. Off(k.snd_nxt) \in Nat /\ Off(k.rcv_nxt) \in Nat
    BY <1>1, Offsets
  <2> QED
    BY <1>8, <2>1, <2>2 DEF Later
<1>11. Acked(l)
  BY <1>1, <1>5, <1>10, AckedKept
<1>12. Linked(l, p)
  <2>1. Taken(l) <= MaxWrites
    <3>1. Taken(k) \in Nat /\ MaxWrites \in Nat
      BY <1>2, <1>3, Modulus
    <3> QED
      BY <1>6, <3>1
  <2> QED
    BY <1>1, <1>5, <1>7, <1>8, <1>9, <2>1 DEF Linked, Side
<1> QED
  BY <1>4, <1>6, <1>8, <1>10, <1>11, <1>12 DEF l, sn

\* cwnd and ssthresh say nothing about a number, unless cwnd falls to 0.
LEMMA Resized ==
    ASSUME NEW k, NEW p, Linked(k, p), NEW c \in 0..IKCP_WND_RCV, NEW t \in Nat,
           c = 0 => k.cwnd = 0
    PROVE  LET l == [k EXCEPT !.cwnd = c, !.ssthresh = t]
           IN  Linked(l, p) /\ Keeps(k, l) /\ l.acklist = k.acklist
<1> DEFINE l == [k EXCEPT !.cwnd = c, !.ssthresh = t]
<1>1. k \in KCP /\ p \in KCP /\ SendSide(k) /\ Direction(k, p) /\ Direction(p, k)
      /\ Side(p) /\ ReceiveSide(k) /\ Taken(k) <= MaxWrites
  BY DEF Linked, Side
<1>2. /\ l \in KCP /\ l.snd_queue = k.snd_queue /\ l.snd_buf = k.snd_buf
      /\ l.snd_una = k.snd_una /\ l.snd_nxt = k.snd_nxt /\ l.cwnd = c
      /\ l.acklist = k.acklist /\ SameReceive(k, l)
  BY <1>1 DEF KCP, SameReceive
<1> HIDE DEF l
<1>3. SendSide(l) /\ Direction(l, p) /\ Taken(l) = Taken(k)
  BY <1>1, <1>2 DEF SendSide, Direction, Taken
<1>4. ReceiveSide(l) /\ Direction(p, l)
  BY <1>1, <1>2, ReceiveKept
<1>5. Keeps(k, l)
  BY <1>1, <1>2, <1>3, KeepsSame, Offsets
<1> QED
  BY <1>1, <1>2, <1>3, <1>4, <1>5 DEF Linked, Side, l

LEMMA Grown ==
    ASSUME NEW k, NEW p, Linked(k, p), NEW by \in Nat
    PROVE  LET l == Grow(k, by)
           IN  Linked(l, p) /\ Keeps(k, l) /\ l.acklist = k.acklist
<1> DEFINE l == Grow(k, by)
           more == IF k.cwnd < k.ssthresh THEN k.cwnd + 1 ELSE k.cwnd + by
           c == IF more > k.rmt_wnd THEN k.rmt_wnd ELSE more
<1>1. k \in KCP /\ k.cwnd \in 0..IKCP_WND_RCV /\ k.rmt_wnd \in 0..IKCP_WND_RCV
      /\ k.ssthresh \in Nat
  BY DEF Linked, Side, KCP
<1>2. CASE k.cwnd >= k.rmt_wnd
  <2>1. l = k
    BY <1>2 DEF Grow
  <2>2. Keeps(k, k)
    BY <1>1, KeepsSame, Offsets DEF SameReceive
  <2> QED
    BY <2>1, <2>2
<1>3. CASE ~(k.cwnd >= k.rmt_wnd)
  <2>1. l = [k EXCEPT !.cwnd = c]
    BY <1>3 DEF Grow
  <2>2. c \in 0..IKCP_WND_RCV /\ (c = 0 => k.cwnd = 0)
    BY <1>1, <1>3, Modulus
  <2> HIDE DEF c, l
  <2>3. [k EXCEPT !.cwnd = c] = [k EXCEPT !.cwnd = c, !.ssthresh = k.ssthresh]
    BY <1>1 DEF KCP
  <2>4. l = [k EXCEPT !.cwnd = c, !.ssthresh = k.ssthresh]
    BY <2>1, <2>3
  <2>5. Linked(l, p) /\ Keeps(k, l) /\ l.acklist = k.acklist
    BY <1>1, <2>2, <2>4, Resized
  <2> QED
    BY <2>5 DEF l
<1> QED
  BY <1>2, <1>3

\* Messages get their numbers, as far as the windows of both ends go.
LEMMA Slides ==
    ASSUME NEW k, NEW p, Linked(k, p)
    PROVE  LET l == Slide(k)
           IN  /\ Linked(l, p) /\ Keeps(k, l) /\ l.acklist = k.acklist
               /\ SameReceive(k, l) /\ l.rmt_wnd = k.rmt_wnd
<1> DEFINE W == Window(k)
           Fits(j) == itimediff(Plus(k.snd_nxt, j - 1), Plus(k.snd_una, W)) < 0
           S == {i \in DOMAIN k.snd_queue : \A j \in 1..i : Fits(j)}
           n == Cardinality(S)
           fresh == [j \in 1..n |-> [sn |-> Plus(k.snd_nxt, j - 1), data |-> k.snd_queue[j],
                                     acked |-> FALSE]]
           buf == k.snd_buf \o fresh
           queue == DropFirst(k.snd_queue, n)
           l == Slide(k)
           a == Off(k.snd_una)
           x == Off(k.snd_nxt)
           B == Len(k.snd_buf)
           Q == Len(k.snd_queue)
<1>1. k \in KCP /\ p \in KCP /\ SendSide(k) /\ Direction(k, p) /\ Direction(p, k)
      /\ Side(p) /\ ReceiveSide(k) /\ Taken(k) <= MaxWrites
  BY DEF Linked, Side
<1>2. /\ a \in Nat /\ x \in Nat /\ B \in Nat /\ Q \in Nat /\ x + Q <= MaxWrites /\ x = a + B
      /\ B <= IKCP_WND_SND /\ B <= IKCP_WND_RCV
      /\ k.snd_una \in Sn /\ k.snd_nxt \in Sn /\ k.snd_queue \in Seq(Sn)
      /\ k.snd_buf \in Seq(SendSeg) /\ DOMAIN k.snd_buf = 1..B /\ DOMAIN k.snd_queue = 1..Q
  BY <1>1, Offsets DEF SendSide, Taken
<1>3. W \in Nat /\ W <= k.cwnd /\ W <= IKCP_WND_SND /\ W <= IKCP_WND_RCV /\ k.cwnd \in Nat
  <2>1. k.cwnd \in 0..IKCP_WND_RCV /\ k.rmt_wnd \in 0..IKCP_WND_RCV
    BY <1>1, Offsets
  <2> QED
    BY <2>1, Modulus DEF Window, Least
<1> HIDE DEF W
<1>4. n \in 0..Q /\ S = 1..n
  <2> HIDE DEF Fits
  <2>1. S \subseteq 1..Q /\ \A i \in S : \A j \in 1..i : j \in S
    BY <1>2
  <2> HIDE DEF S
  <2> QED
    BY <1>2, <2>1, Prefix
<1>5. l = [k EXCEPT !.snd_nxt = Plus(k.snd_nxt, n), !.snd_queue = queue, !.snd_buf = buf]
  BY DEF Slide, NewSegs, Leading, W
<1>6. \A j \in 1..n : Fits(j)
  <2> HIDE DEF Fits
  <2> TAKE j \in 1..n
  <2>1. j \in S
    BY <1>4
  <2>2. j \in 1..j
    <3> HIDE DEF n
    <3> QED
      BY <1>4
  <2> QED
    BY <2>1, <2>2
<1> HIDE DEF S, n
<1>7. n \in Nat /\ n <= Q
  BY <1>2, <1>4
<1>8. \A j \in 1..n : Plus(k.snd_nxt, j - 1) \in Sn /\ Off(Plus(k.snd_nxt, j - 1)) = x + (j - 1)
  <2> TAKE j \in 1..n
  <2>1. j - 1 \in Nat /\ x + (j - 1) < SnMod
    <3> HIDE DEF x, Q
    <3> QED
      BY <1>2, <1>7, Modulus
  <2> QED
    BY <1>2, <2>1, OffPlus
<1>9. Plus(k.snd_nxt, n) \in Sn /\ Off(Plus(k.snd_nxt, n)) = x + n
  <2>1. x + n < SnMod
    <3> HIDE DEF x, Q
    <3> QED
      BY <1>2, <1>7, Modulus
  <2> QED
    BY <1>2, <1>7, <2>1, OffPlus
<1>10. n # 0 => B + n <= W
  <2> SUFFICES ASSUME n # 0 PROVE B + n <= W
    OBVIOUS
  <2>1. n \in 1..n
    BY <1>7
  <2> DEFINE last == Plus(k.snd_nxt, n - 1)
             edge == Plus(k.snd_una, W)
  <2>2. Off(last) = x + (n - 1) /\ last \in Sn /\ itimediff(last, edge) < 0
    BY <1>6, <1>8, <2>1
  <2>3. Near(last)
    <3>1. x + (n - 1) <= MaxWrites
      <4> HIDE DEF x, Q
      <4>1. x + Q <= MaxWrites /\ x \in Nat /\ Q \in Nat /\ MaxWrites \in Nat
        BY <1>2, Modulus
      <4> QED
        BY <1>7, <4>1
    <3> QED
      BY <1>2, <1>7, <2>2, <3>1, UsedNear DEF Used
  <2>4. Near(edge) /\ Off(edge) = a + W
    <3>1. W \in 0..IKCP_WND_RCV /\ Used(k.snd_una)
      BY <1>3, Offered, Modulus
    <3> QED
      BY <3>1, PlusNear
  <2> HIDE DEF last, edge
  <2>5. itimediff(last, edge) = Off(last) - Off(edge)
    BY <2>3, <2>4, DiffUsed
  <2> HIDE DEF x, a, B
  <2> QED
    BY <1>2, <1>3, <1>7, <2>2, <2>4, <2>5
<1>11. ASSUME NEW j \in 1..n
       PROVE  fresh[j] \in SendSeg /\ ~fresh[j].acked /\ fresh[j].data = fresh[j].sn
              /\ Off(fresh[j].sn) = x + (j - 1)
  <2>1. j \in DOMAIN k.snd_queue /\ j \in Nat
    BY <1>2, <1>7
  <2>2. Off(k.snd_queue[j]) = x + j - 1 /\ k.snd_queue[j] \in Sn
    <3>1. k.snd_queue[j] \in Sn
      BY <1>2, <2>1
    <3> QED
      BY <1>1, <2>1, <3>1 DEF SendSide
  <2>3. Off(Plus(k.snd_nxt, j - 1)) = x + (j - 1) /\ Plus(k.snd_nxt, j - 1) \in Sn
    BY <1>8
  <2>4. x + j - 1 = x + (j - 1)
    <3> HIDE DEF x
    <3> QED
      BY <1>2, <2>1
  <2>5. Plus(k.snd_nxt, j - 1) = k.snd_queue[j]
    BY <2>2, <2>3, <2>4, OffInjective
  <2> QED
    BY <2>2, <2>3, <2>5 DEF SendSeg
<1>12. fresh \in Seq(SendSeg) /\ Len(fresh) = n
  <2>1. fresh = [j \in 1..n |-> fresh[j]]
    OBVIOUS
  <2> HIDE DEF fresh
  <2> QED
    BY <1>7, <1>11, <2>1, Listed
<1> HIDE DEF fresh
<1>13. /\ buf \in Seq(SendSeg) /\ Len(buf) = B + n /\ DOMAIN buf = 1..B + n
       /\ \A i \in 1..B + n : buf[i] = IF i <= B THEN k.snd_buf[i] ELSE fresh[i - B]
  <2>1. k.snd_buf \in Seq(SendSeg) /\ fresh \in Seq(SendSeg) /\ Len(fresh) = n
    BY <1>2, <1>12
  <2>2. n \in Nat /\ B \in Nat
    BY <1>2, <1>7
  <2> QED
    BY <2>1, <2>2
<1>14. /\ queue \in Seq(Sn) /\ Len(queue) = Q - n
       /\ \A i \in DOMAIN queue : i \in 1..Q - n /\ n + i \in DOMAIN k.snd_queue
                                  /\ queue[i] = k.snd_queue[n + i]
  BY <1>2, <1>4, Dropped
<1> HIDE DEF buf, queue
<1>15. /\ l \in KCP /\ l.snd_nxt = Plus(k.snd_nxt, n) /\ l.snd_queue = queue /\ l.snd_buf = buf
       /\ l.snd_una = k.snd_una /\ l.cwnd = k.cwnd /\ l.acklist = k.acklist
       /\ l.rmt_wnd = k.rmt_wnd /\ SameReceive(k, l)
  BY <1>1, <1>5, <1>9, <1>13, <1>14 DEF KCP, SameReceive
<1> HIDE DEF l
<1>16. ASSUME NEW i \in DOMAIN l.snd_buf
       PROVE  /\ Off(l.snd_buf[i].sn) = a + i - 1
              /\ ~l.snd_buf[i].acked => l.snd_buf[i].data = l.snd_buf[i].sn
              /\ l.snd_buf[i].acked => i \in DOMAIN k.snd_buf /\ l.snd_buf[i] = k.snd_buf[i]
  <2>1. CASE i <= B
    <3>1. i \in DOMAIN k.snd_buf /\ l.snd_buf[i] = k.snd_buf[i]
      BY <1>2, <1>7, <1>13, <1>15, <1>16, <2>1
    <3> QED
      BY <1>1, <3>1 DEF SendSide
  <2>2. CASE i > B
    <3> DEFINE j == i - B
    <3>0. i \in 1..B + n /\ B \in Nat /\ n \in Nat
      BY <1>2, <1>7, <1>13, <1>15, <1>16
    <3>1. j \in 1..n /\ l.snd_buf[i] = fresh[j] /\ i \in Nat
      <4> HIDE DEF B
      <4>1. j \in 1..n /\ i \in Nat /\ ~(i <= B)
        BY <2>2, <3>0
      <4>2. buf[i] = fresh[i - B]
        BY <1>13, <3>0, <4>1
      <4> QED
        BY <1>15, <4>1, <4>2
    <3>2. Off(l.snd_buf[i].sn) = x + (j - 1)
      BY <1>11, <3>1
    <3>3. x + (j - 1) = a + i - 1
      <4> HIDE DEF x, a, B
      <4> QED
        BY <1>2, <3>1
    <3> QED
      BY <1>11, <3>1, <3>2, <3>3
  <2>3. i \in Nat
    BY <1>2, <1>7, <1>13, <1>15, <1>16
  <2> QED
    BY <1>2, <2>1, <2>2, <2>3
<1>17. Off(l.snd_nxt) = x + n /\ Len(l.snd_buf) = B + n /\ Len(l.snd_queue) = Q - n
  BY <1>9, <1>13, <1>14, <1>15
<1>18. SendSide(l)
  <2>1. Off(l.snd_nxt) = Off(l.snd_una) + Len(l.snd_buf)
    <3>1. Off(l.snd_una) = a
      BY <1>15
    <3> HIDE DEF x, a, B
    <3> QED
      BY <1>2, <1>7, <1>17, <3>1
  <2>2. Len(l.snd_buf) <= IKCP_WND_SND /\ Len(l.snd_buf) <= IKCP_WND_RCV
    <3> HIDE DEF B
    <3> QED
      BY <1>2, <1>3, <1>7, <1>10, <1>17, Modulus
  <2>3. ASSUME NEW i \in DOMAIN l.snd_queue
        PROVE  Off(l.snd_queue[i]) = Off(l.snd_nxt) + i - 1
    <3>1. i \in Nat /\ n + i \in DOMAIN k.snd_queue /\ l.snd_queue[i] = k.snd_queue[n + i]
      BY <1>2, <1>7, <1>14, <1>15, <2>3
    <3>2. Off(k.snd_queue[n + i]) = x + (n + i) - 1
      BY <1>1, <3>1 DEF SendSide
    <3> HIDE DEF x
    <3> QED
      BY <1>2, <1>7, <1>17, <3>1, <3>2
  <2>4. l.cwnd = 0 => l.snd_buf = <<>>
    <3> SUFFICES ASSUME k.cwnd = 0 PROVE l.snd_buf = <<>>
      BY <1>15
    <3>1. k.snd_buf = <<>> /\ B = 0
      BY <1>1 DEF SendSide
    <3>2. n = 0
      <4> HIDE DEF B
      <4> QED
        BY <1>2, <1>3, <1>7, <1>10, <3>1
    <3>3. Len(buf) = 0 /\ buf \in Seq(SendSeg)
      BY <1>13, <3>1, <3>2
    <3> QED
      BY <1>15, <3>3
  <2>5. \A i \in DOMAIN l.snd_buf :
           /\ Off(l.snd_buf[i].sn) = Off(l.snd_una) + i - 1
           /\ ~l.snd_buf[i].acked => l.snd_buf[i].data = l.snd_buf[i].sn
    BY <1>15, <1>16
  <2> QED
    BY <2>1, <2>2, <2>3, <2>4, <2>5 DEF SendSide
<1>19. Taken(l) = Taken(k) /\ Off(k.snd_nxt) <= Off(l.snd_nxt)
  <2>1. Taken(k) = x + Q /\ Taken(l) = (x + n) + (Q - n) /\ Off(k.snd_nxt) = x
    BY <1>17 DEF Taken
  <2> HIDE DEF x, Q
  <2> QED
    BY <1>2, <1>7, <1>17, <2>1
<1>20. Keeps(k, l)
  BY <1>1, <1>15, <1>19, KeepsSame
<1>21. ReceiveSide(l) /\ Direction(p, l)
  BY <1>1, <1>15, ReceiveKept
<1>22. Direction(l, p)
  <2>1. Off(p.rcv_nxt) <= Off(l.snd_nxt) /\ Off(l.snd_una) <= Off(p.rcv_nxt)
    <3>1. Off(p.rcv_nxt) <= x /\ Off(p.rcv_nxt) \in Nat /\ Off(l.snd_una) <= Off(p.rcv_nxt)
      BY <1>1, <1>15, Offsets DEF Direction
    <3> HIDE DEF x
    <3> QED
      BY <1>2, <1>7, <1>17, <3>1
  <2>2. ASSUME NEW i \in DOMAIN p.rcv_buf PROVE Off(p.rcv_buf[i].sn) < Off(l.snd_nxt)
    <3>1. Off(p.rcv_buf[i].sn) < x
      BY <1>1 DEF Direction
    <3>2. Off(p.rcv_buf[i].sn) \in Nat
      BY LinkedSymmetric, Offered, OffCases DEF Used
    <3> HIDE DEF x
    <3> QED
      BY <1>2, <1>7, <1>17, <3>1, <3>2
  <2>3. \A i \in DOMAIN l.snd_buf : l.snd_buf[i].acked => Received(p, l.snd_buf[i].sn)
    BY <1>1, <1>16 DEF Direction
  <2> QED
    BY <2>1, <2>2, <2>3 DEF Direction
<1> QED
  BY <1>1, <1>15, <1>18, <1>19, <1>20, <1>21, <1>22 DEF Linked, Side, l

\* What flush makes of cwnd fits the receiver's window and is never 0.
LEMMA Congested ==
    ASSUME NEW k, NEW p, Linked(k, p), NEW window \in Nat,
           NEW early \in BOOLEAN, NEW lost \in BOOLEAN
    PROVE  LET l == Congestion(k, window, early, lost)
           IN  Linked(l, p) /\ Keeps(k, l) /\ l.acklist = k.acklist /\ SameReceive(k, l)
               /\ l.snd_nxt = k.snd_nxt
<1> DEFINE l == Congestion(k, window, early, lost)
           half(i) == Greatest(i \div 2, IKCP_THRESH_MIN)
           d == itimediff(k.snd_nxt, k.snd_una)
           c1 == IF early THEN half(d) - 1 ELSE k.cwnd
           t1 == IF early THEN half(d) ELSE k.ssthresh
           c2 == IF lost THEN 1 ELSE c1
           t2 == IF lost THEN half(window) ELSE t1
           c == IF c2 < 1 THEN 1 ELSE c2
           m == [k EXCEPT !.cwnd = c, !.ssthresh = t2]
<1>1. k \in KCP /\ k.cwnd \in 0..IKCP_WND_RCV /\ k.ssthresh \in Nat
  BY DEF Linked, Side, KCP
<1>2. \A i \in Nat : half(i) \in Nat /\ half(i) >= 2 /\ (half(i) <= i \/ half(i) = 2)
  BY DEF Greatest, IKCP_THRESH_MIN
<1>3. d \in Nat /\ d <= IKCP_WND_RCV
  <2>1. Near(k.snd_nxt) /\ Near(k.snd_una)
    BY Offered, UsedNear
  <2>2. d = Off(k.snd_nxt) - Off(k.snd_una)
    BY <2>1, DiffUsed
  <2>3. Off(k.snd_nxt) = Off(k.snd_una) + Len(k.snd_buf) /\ Len(k.snd_buf) <= IKCP_WND_RCV
    BY DEF Linked, Side, SendSide
  <2> HIDE DEF d
  <2> QED
    BY <1>1, <2>2, <2>3, Offsets, Modulus
<1>4. l = m
  <2> DEFINE k1 == [k EXCEPT !.ssthresh = t1, !.cwnd = c1]
             k2 == [k EXCEPT !.ssthresh = t2, !.cwnd = c2]
  <2>1. (IF early THEN [k EXCEPT !.ssthresh = half(d), !.cwnd = half(d) - 1] ELSE k) = k1
    <3> HIDE DEF d, half
    <3> QED
      BY <1>1 DEF KCP
  <2>2. (IF lost THEN [k1 EXCEPT !.ssthresh = half(window), !.cwnd = 1] ELSE k1) = k2
    <3> HIDE DEF d, half, c1, t1
    <3> QED
      BY <1>1 DEF KCP
  <2>3. (IF k2.cwnd < 1 THEN [k2 EXCEPT !.cwnd = 1] ELSE k2) = m
    <3> HIDE DEF c2, t2
    <3> QED
      BY <1>1 DEF KCP
  <2>4. l = LET a == IF early THEN [k EXCEPT !.ssthresh = half(d), !.cwnd = half(d) - 1] ELSE k
                b == IF lost THEN [a EXCEPT !.ssthresh = half(window), !.cwnd = 1] ELSE a
            IN  IF b.cwnd < 1 THEN [b EXCEPT !.cwnd = 1] ELSE b
    BY DEF Congestion
  <2> HIDE DEF half, d, k1, k2, l, m
  <2> QED
    BY <2>1, <2>2, <2>3, <2>4
<1> HIDE DEF half, d, l
<1>5. c1 \in 0..IKCP_WND_RCV /\ t1 \in Nat
  <2>1. half(d) \in Nat /\ half(d) >= 2 /\ (half(d) <= d \/ half(d) = 2)
    BY <1>2, <1>3
  <2>2. half(d) - 1 \in 0..IKCP_WND_RCV
    BY <1>3, <2>1, Modulus
  <2> QED
    BY <1>1, <2>1, <2>2
<1> HIDE DEF c1, t1
<1>6. c \in 0..IKCP_WND_RCV /\ c # 0 /\ t2 \in Nat
  BY <1>2, <1>5, Modulus
<1> HIDE DEF c, t2
<1>7. Linked(m, p) /\ Keeps(k, m) /\ m.acklist = k.acklist
  BY <1>6, Resized
<1>8. SameReceive(k, m) /\ m.snd_nxt = k.snd_nxt
  BY <1>1 DEF KCP, SameReceive
<1> HIDE DEF m
<1> QED
  BY <1>4, <1>7, <1>8 DEF l

-----------------------------------------------------------------------------
(* What flush puts on the wire *)

LEMMA SaysKept ==
    ASSUME NEW k \in KCP, NEW l \in KCP, Later(k, l), NEW seg, Says(seg, k)
    PROVE  Says(seg, l)
<1>1. seg \in Seg /\ seg.sn \in Sn /\ seg.una \in Sn
  BY DEF Says, Seg
<1>2. /\ Off(k.rcv_nxt) \in Nat /\ Off(l.rcv_nxt) \in Nat /\ Off(k.snd_nxt) \in Nat
      /\ Off(l.snd_nxt) \in Nat /\ Off(seg.una) \in Nat /\ Off(seg.sn) \in Nat
  BY <1>1, Offsets, OffCases
<1>3. Off(seg.una) <= Off(l.rcv_nxt)
  BY <1>2 DEF Says, Later
<1>4. seg.cmd = "PUSH" => Off(seg.sn) < Off(l.snd_nxt) /\ seg.data = seg.sn
  BY <1>2 DEF Says, Later
<1>5. seg.cmd = "ACK" => Received(l, seg.sn)
  BY <1>1 DEF Says, Later
<1> QED
  BY <1>1, <1>3, <1>4, <1>5 DEF Says

LEMMA SaysAllKept ==
    ASSUME NEW k \in KCP, NEW l \in KCP, Later(k, l), NEW packet, SaysAll(packet, k)
    PROVE  SaysAll(packet, l)
  BY SaysKept DEF SaysAll

\* The segments the end with record l may have sent.
Sayable(l) == {seg \in Seg : Says(seg, l)}

\* A segment built from an earlier record of the end.
LEMMA Built ==
    ASSUME NEW k \in KCP, NEW l \in KCP, Later(k, l), NEW cmd \in Cmd, NEW sn \in Sn,
           NEW data \in Sn \cup {NoData},
           cmd = "PUSH" => Off(sn) < Off(l.snd_nxt) /\ data = sn,
           cmd = "ACK" => Received(l, sn)
    PROVE  Segment(k, cmd, sn, data) \in Sayable(l)
<1> DEFINE seg == Segment(k, cmd, sn, data)
<1>1. wnd_unused(k) \in 0..IKCP_WND_RCV
  BY Offsets, Modulus DEF wnd_unused
<1>2. /\ seg.cmd = cmd /\ seg.sn = sn /\ seg.data = data /\ seg.una = k.rcv_nxt
      /\ seg \in Seg
  BY <1>1, Offsets DEF Segment, Seg
<1> HIDE DEF seg
<1>3. Off(seg.una) <= Off(l.rcv_nxt)
  BY <1>2 DEF Later
<1>4. Says(seg, l)
  BY <1>2, <1>3 DEF Says
<1> QED
  BY <1>2, <1>4 DEF Sayable, seg

LEMMA Part ==
    ASSUME NEW T, NEW s \in Seq(T), NEW lo \in Nat \ {0}, NEW hi \in 0..Len(s)
    PROVE  SubSeq(s, lo, hi) \in Seq(T)
<1>1. CASE hi < lo
  <2>1. SubSeq(s, lo, hi) = <<>>
    BY <1>1
  <2> QED
    BY <2>1
<1>2. CASE lo <= hi
  <2>1. lo \in 1..Len(s) + 1 /\ hi \in lo - 1..Len(s)
    BY <1>2
  <2> QED
    BY <2>1, SubSeqProperties
<1> QED
  BY <1>1, <1>2

\* Packets cuts the segments into stretches that fit the mtu.
LEMMA Packed ==
    ASSUME NEW l, NEW segs \in Seq(Sayable(l))
    PROVE  /\ Packets(segs) \in Seq(Seq(Seg))
           /\ \A i \in DOMAIN Packets(segs) : SaysAll(Packets(segs)[i], l)
<1> DEFINE L == Len(segs)
           P == SegsPerPacket
           N == (L + P - 1) \div P
           lo(i) == (i - 1) * P + 1
           hi(i) == IF i * P < L THEN i * P ELSE L
           packets == [i \in 1..N |-> SubSeq(segs, lo(i), hi(i))]
<1>1. L \in Nat /\ P \in Nat /\ P > 0
  BY LinkAssumption
<1>2. N \in Nat
  <2>1. L + P - 1 \in Nat
    BY <1>1
  <2> QED
    BY <1>1, <2>1
<1>3. ASSUME NEW i \in 1..N PROVE lo(i) \in Nat \ {0} /\ hi(i) \in 0..L
  <2>1. i \in Nat /\ i - 1 \in Nat
    BY <1>2
  <2>2. (i - 1) * P \in Nat /\ i * P \in Nat
    BY <1>1, <2>1
  <2> HIDE DEF N, L, P
  <2> QED
    BY <1>1, <2>2
<1> HIDE DEF N, lo, hi
<1>4. ASSUME NEW i \in 1..N PROVE packets[i] \in Seq(Sayable(l))
  BY <1>3, <1>4, Part
<1>5. Sayable(l) \subseteq Seg /\ \A seg \in Sayable(l) : Says(seg, l)
  BY DEF Sayable
<1>6. ASSUME NEW i \in 1..N PROVE packets[i] \in Seq(Seg) /\ SaysAll(packets[i], l)
  <2> DEFINE s == packets[i]
  <2>1. s \in Seq(Sayable(l))
    BY <1>4
  <2> HIDE DEF s
  <2>2. s \in Seq(Seg) /\ \A j \in DOMAIN s : s[j] \in Sayable(l)
    BY <1>5, <2>1
  <2>3. SaysAll(s, l)
    BY <1>5, <2>2 DEF SaysAll
  <2> QED
    BY <2>2, <2>3 DEF s
<1>7. Packets(segs) = packets
  BY DEF Packets, N, lo, hi
<1>8. packets = [i \in 1..N |-> packets[i]] /\ DOMAIN packets = 1..N
  OBVIOUS
<1> HIDE DEF packets
<1>9. packets \in Seq(Seq(Seg))
  BY <1>2, <1>6, <1>8, Listed
<1> QED
  BY <1>6, <1>7, <1>8, <1>9

\* An ACK is sent for what came.
LEMMA AcksBuilt ==
    ASSUME NEW k \in KCP, NEW l \in KCP, Later(k, l), Acked(k)
    PROVE  AckSegments(k) \in Seq(Sayable(l))
<1> DEFINE I == {i \in DOMAIN k.acklist : \/ itimediff(k.acklist[i], k.rcv_nxt) >= 0
                                          \/ i = Len(k.acklist)}
           kept == AtPositions(k.acklist, I)
           R == {k.acklist[i] : i \in DOMAIN k.acklist \cap I}
           f == [i \in DOMAIN kept |-> Segment(k, "ACK", kept[i], NoData)]
<1>1. AckSegments(k) = f
  BY DEF AckSegments
<1>2. kept \in Seq(R)
  <2>1. k.acklist \in Seq(Sn)
    BY Offsets
  <2> HIDE DEF I
  <2> QED
    BY <2>1, Picked
<1>3. \A sn \in R : sn \in Sn /\ Received(l, sn)
  <2>1. k.acklist \in Seq(Sn)
    BY Offsets
  <2>2. \A i \in DOMAIN k.acklist : k.acklist[i] \in Sn /\ Received(k, k.acklist[i])
    BY <2>1 DEF Acked
  <2> HIDE DEF I
  <2> QED
    BY <2>2 DEF Later
<1> HIDE DEF kept, R
<1>4. ASSUME NEW sn \in R PROVE Segment(k, "ACK", sn, NoData) \in Sayable(l)
  BY <1>3, Built DEF Cmd
<1>5. DOMAIN kept = 1..Len(kept) /\ Len(kept) \in Nat /\ \A i \in 1..Len(kept) : kept[i] \in R
  BY <1>2
<1>6. \A i \in 1..Len(kept) : f[i] \in Sayable(l)
  BY <1>4, <1>5
<1>7. f = [i \in 1..Len(kept) |-> f[i]]
  BY <1>5
<1> HIDE DEF f
<1>8. f \in Seq(Sayable(l))
  BY <1>5, <1>6, <1>7, Listed
<1> QED
  BY <1>1, <1>8

LEMMA ProbesBuilt ==
    ASSUME NEW k \in KCP, NEW l \in KCP, Later(k, l)
    PROVE  ProbeSegments(k) \in Seq(Sayable(l))
<1>1. ASSUME NEW cmd \in {"WASK", "WINS"} PROVE Segment(k, cmd, 0, NoData) \in Sayable(l)
  <2>1. cmd \in Cmd /\ cmd # "PUSH" /\ cmd # "ACK" /\ 0 \in Sn /\ NoData \in Sn \cup {NoData}
    BY Modulus DEF Cmd
  <2> QED
    BY <2>1, Built
<1> DEFINE a == Segment(k, "WASK", 0, NoData)
           b == Segment(k, "WINS", 0, NoData)
<1>2. a \in Sayable(l) /\ b \in Sayable(l)
  BY <1>1
<1>3. ProbeSegments(k) = (IF "ASK_SEND" \in k.probe THEN <<a>> ELSE <<>>)
                         \o (IF "ASK_TELL" \in k.probe THEN <<b>> ELSE <<>>)
  BY DEF ProbeSegments
<1> HIDE DEF a, b
<1> QED
  BY <1>2, <1>3

\* A PUSH carries the data of a segment that is not acknowledged.
LEMMA PushesBuilt ==
    ASSUME NEW k \in KCP, NEW m, NEW p, Linked(m, p), NEW l \in KCP, Later(k, l),
           l.snd_nxt = m.snd_nxt, NEW I \in SUBSET {i \in DOMAIN m.snd_buf : ~m.snd_buf[i].acked}
    PROVE  LET wanted == AtPositions(m.snd_buf, I)
           IN  [i \in DOMAIN wanted |-> Segment(k, "PUSH", wanted[i].sn, wanted[i].data)]
                   \in Seq(Sayable(l))
<1> DEFINE wanted == AtPositions(m.snd_buf, I)
           R == {m.snd_buf[i] : i \in DOMAIN m.snd_buf \cap I}
           f == [i \in DOMAIN wanted |-> Segment(k, "PUSH", wanted[i].sn, wanted[i].data)]
<1>1. m \in KCP /\ m.snd_buf \in Seq(SendSeg)
  BY Offered, Offsets
<1>2. wanted \in Seq(R)
  BY <1>1, Picked
<1>3. ASSUME NEW seg \in R
      PROVE  seg.sn \in Sn /\ seg.data = seg.sn /\ Off(seg.sn) < Off(l.snd_nxt)
  <2>1. PICK i \in DOMAIN m.snd_buf : seg = m.snd_buf[i] /\ ~m.snd_buf[i].acked
    BY <1>3
  <2>2. seg.data = seg.sn
    BY <2>1 DEF Linked, Side, SendSide
  <2> QED
    BY <2>1, <2>2, Offered DEF Used
<1> HIDE DEF wanted, R
<1>4. ASSUME NEW seg \in R PROVE Segment(k, "PUSH", seg.sn, seg.data) \in Sayable(l)
  BY <1>3, Built DEF Cmd
<1>5. DOMAIN wanted = 1..Len(wanted) /\ Len(wanted) \in Nat
      /\ \A i \in 1..Len(wanted) : wanted[i] \in R
  BY <1>2
<1>6. \A i \in 1..Len(wanted) : f[i] \in Sayable(l)
  BY <1>4, <1>5
<1>7. f = [i \in 1..Len(wanted) |-> f[i]]
  BY <1>5
<1> HIDE DEF f
<1>8. f \in Seq(Sayable(l))
  BY <1>5, <1>6, <1>7, Listed
<1> QED
  BY <1>8 DEF f, wanted

\* What an end has after flush or Input, and what it sends.
Sends(k, p, sent) ==
    /\ Linked(sent.kcp, p) /\ Keeps(k, sent.kcp) /\ Acked(sent.kcp)
    /\ sent.out \in Seq(Seq(Seg)) /\ \A i \in DOMAIN sent.out : SaysAll(sent.out[i], sent.kcp)

LEMMA Flushes ==
    ASSUME NEW k, NEW p, Linked(k, p), Acked(k), NEW due
    PROVE  Sends(k, p, flush(k, due))
<1> DEFINE m == [k EXCEPT !.acklist = <<>>]
           k1 == ProbeTimer(m, due.probe)
           asked == [k1 EXCEPT !.probe = {}]
           k2 == Slide(asked)
           early == IF NewSegs(k1) = 0 THEN due.early \cap PassedOver(k) ELSE {}
           lost == (due.rto \cap Unacked(k)) \ early
           I == {i \in DOMAIN k2.snd_buf :
                   /\ ~k2.snd_buf[i].acked
                   /\ \/ k2.snd_buf[i].sn \in early \cup lost
                      \/ itimediff(k2.snd_buf[i].sn, k.snd_nxt) >= 0}
           wanted == AtPositions(k2.snd_buf, I)
           pushes == [i \in DOMAIN wanted |-> Segment(k, "PUSH", wanted[i].sn, wanted[i].data)]
           l == Congestion(k2, Window(k1), early # {}, lost # {})
           segs == AckSegments(k) \o ProbeSegments(k1) \o pushes
<1>1. k \in KCP
  BY Offered
<1>2. m \in KCP /\ SameSend(k, m) /\ SameReceive(k, m) /\ m.acklist = <<>>
  <2>1. <<>> \in Seq(Sn)
    OBVIOUS
  <2>2. m \in KCP
    BY <1>1, <2>1 DEF KCP
  <2> QED
    BY <1>1, <2>2 DEF KCP, SameSend, SameReceive
<1> HIDE DEF m
<1>3. k1 \in KCP /\ SameSend(m, k1) /\ SameReceive(m, k1) /\ k1.acklist = m.acklist
  BY <1>2 DEF ProbeTimer, KCP, SameSend, SameReceive
<1> HIDE DEF k1
<1>4. asked \in KCP /\ SameSend(k1, asked) /\ SameReceive(k1, asked) /\ asked.acklist = k1.acklist
  BY <1>3 DEF KCP, SameSend, SameReceive
<1> HIDE DEF asked
<1>5. SameSend(k, k1) /\ SameReceive(k, k1)
  BY <1>2, <1>3 DEF SameSend, SameReceive
<1>6. SameSend(k, asked) /\ SameReceive(k, asked) /\ asked.acklist = <<>>
  BY <1>2, <1>3, <1>4, <1>5 DEF SameSend, SameReceive
<1>7. Linked(asked, p) /\ Keeps(k, asked) /\ Keeps(k, k1)
  BY <1>3, <1>4, <1>5, <1>6, Unmoved
<1>8. Linked(k2, p) /\ Keeps(asked, k2) /\ k2.acklist = <<>>
  BY <1>6, <1>7, Slides
<1>9. k2 \in KCP
  BY <1>8, Offered
<1>10. Window(k1) \in Nat
  BY <1>3, Offsets, Modulus DEF Window, Least
<1>11. Linked(l, p) /\ Keeps(k2, l) /\ l.acklist = <<>> /\ SameReceive(k2, l)
       /\ l.snd_nxt = k2.snd_nxt
  <2> HIDE DEF k2, early, lost
  <2> DEFINE passed == early # {}
             timedOut == lost # {}
             after == Congestion(k2, Window(k1), passed, timedOut)
  <2>1. passed \in BOOLEAN /\ timedOut \in BOOLEAN
    OBVIOUS
  <2>2. l = after
    OBVIOUS
  <2> HIDE DEF passed, timedOut, l
  <2>3. Linked(after, p) /\ Keeps(k2, after) /\ after.acklist = k2.acklist /\ SameReceive(k2, after)
        /\ after.snd_nxt = k2.snd_nxt
    <3> DEFINE w == Window(k1)
    <3>1. w \in Nat /\ Linked(k2, p)
      BY <1>8, <1>10
    <3> HIDE DEF w
    <3>2. LET q == Congestion(k2, w, passed, timedOut)
          IN  Linked(q, p) /\ Keeps(k2, q) /\ q.acklist = k2.acklist /\ SameReceive(k2, q)
              /\ q.snd_nxt = k2.snd_nxt
      BY <2>1, <3>1, Congested
    <3> QED
      BY <3>2 DEF w
  <2> QED
    BY <1>8, <2>2, <2>3
<1>12. PICK r \in Seq(Sayable(l)) : r = pushes
  <2> HIDE DEF k2, early, lost
  <2>1. I \in SUBSET {i \in DOMAIN k2.snd_buf : ~k2.snd_buf[i].acked}
    OBVIOUS
  <2> HIDE DEF I, l
  <2>2. l \in KCP /\ asked \in KCP
    BY <1>4, <1>11, Offered
  <2>3. Later(k, l)
    <3>1. Keeps(k, k2)
      BY <1>1, <1>4, <1>7, <1>8, <1>9, KeepsTrans
    <3> QED
      BY <1>1, <1>9, <1>11, <2>2, <3>1, LaterTrans DEF Keeps
  <2> QED
    BY <1>1, <1>8, <1>11, <2>1, <2>2, <2>3, PushesBuilt
<1>13. flush(k, due) = [kcp |-> l, out |-> Packets(segs)]
  BY DEF flush, Sent, m, k1, asked
<1> HIDE DEF k2, pushes, l
<1>14. l \in KCP
  BY <1>11, Offered
<1>15. Keeps(k, l)
  <2>1. Keeps(k, k2)
    BY <1>1, <1>4, <1>7, <1>8, <1>9, KeepsTrans
  <2> QED
    BY <1>1, <1>9, <1>11, <1>14, <2>1, KeepsTrans
<1>16. Later(k1, l)
  <2>1. Later(k1, k)
    BY <1>1, <1>3, <1>5, Offsets, ReceiveKept DEF Later, SameSend, SameReceive
  <2> QED
    BY <1>1, <1>3, <1>14, <1>15, <2>1, LaterTrans DEF Keeps
<1>17. segs \in Seq(Sayable(l))
  <2>1. AckSegments(k) \in Seq(Sayable(l))
    BY <1>1, <1>14, <1>15, AcksBuilt DEF Keeps
  <2>2. ProbeSegments(k1) \in Seq(Sayable(l))
    BY <1>3, <1>14, <1>16, ProbesBuilt
  <2> QED
    BY <1>12, <2>1, <2>2
<1> HIDE DEF segs
<1>18. /\ Packets(segs) \in Seq(Seq(Seg))
       /\ \A i \in DOMAIN Packets(segs) : SaysAll(Packets(segs)[i], l)
  BY <1>17, Packed
<1>19. Acked(l)
  BY <1>11 DEF Acked
<1> QED
  BY <1>11, <1>13, <1>15, <1>18, <1>19 DEF Sends

\* Input of a packet the peer sent.
LEMMA Inputs ==
    ASSUME NEW k, NEW p, Linked(k, p), Acked(k), NEW packet, SaysAll(packet, p),
           NEW regular \in BOOLEAN, NEW due, due.grow \in Nat
    PROVE  Sends(k, p, Input(k, packet, regular, due))
<1> DEFINE k1 == InputSegments(k, packet, regular)
           slid == k1.snd_una # k.snd_una
           grown == Grow(k1, due.grow)
           flushed == flush(grown, due)
           sent == Input(k, packet, regular, due)
<1>1. Linked(k1, p) /\ Keeps(k, k1) /\ Acked(k1)
  BY InputAll
<1>2. k \in KCP /\ k1 \in KCP
  BY <1>1, Offered
<1>3. sent = IF slid THEN flushed ELSE [kcp |-> k1, out |-> <<>>]
  <2> HIDE DEF flushed
  <2>1. Packets(<<>>) = <<>>
    <3>1. SegsPerPacket \in Nat /\ SegsPerPacket > 0
      BY LinkAssumption
    <3>2. (Len(<<>>) + SegsPerPacket - 1) \div SegsPerPacket = 0
      BY <3>1
    <3> QED
      BY <3>2 DEF Packets
  <2>2. CASE slid
    BY <2>2 DEF Input, flushed
  <2>3. CASE ~slid
    BY <2>1, <2>3 DEF Input, Sent
  <2> QED
    BY <2>2, <2>3
<1> HIDE DEF k1, sent
<1>4. Linked(grown, p) /\ Keeps(k, grown) /\ Acked(grown)
  <2>1. Linked(grown, p) /\ Keeps(k1, grown) /\ grown.acklist = k1.acklist
    BY <1>1, Grown
  <2> HIDE DEF grown
  <2>2. grown \in KCP
    BY <2>1, Offered
  <2>3. Keeps(k, grown)
    BY <1>1, <1>2, <2>1, <2>2, KeepsTrans
  <2> QED
    BY <1>1, <1>2, <2>1, <2>3, AckedKept DEF Keeps
<1> HIDE DEF grown
<1>5. Sends(grown, p, flushed)
  BY <1>4, Flushes
<1> HIDE DEF flushed
<1>6. Sends(k, p, flushed)
  <2>1. grown \in KCP /\ flushed.kcp \in KCP
    BY <1>4, <1>5, Offered DEF Sends
  <2>2. Keeps(k, flushed.kcp)
    BY <1>2, <1>4, <1>5, <2>1, KeepsTrans DEF Sends
  <2> QED
    BY <1>5, <2>2 DEF Sends
<1>7. Sends(k, p, [kcp |-> k1, out |-> <<>>])
  BY <1>1 DEF Sends
<1>8. Sends(k, p, sent)
  BY <1>3, <1>6, <1>7
<1> QED
  BY <1>8 DEF sent

-----------------------------------------------------------------------------
(* LinkInv is inductive *)

LEMMA Peers ==
    ASSUME NEW e \in Ends
    PROVE  Peer(e) \in Ends /\ Peer(e) # e /\ Peer(Peer(e)) = e /\ Ends = {e, Peer(e)}
  BY DEF Peer, Ends

\* The two ends of a state are linked, in either order.
LEMMA EndsLinked ==
    ASSUME LinkInv, NEW e \in Ends
    PROVE  /\ Linked(kcp[e], kcp[Peer(e)]) /\ Acked(kcp[e]) /\ kcp[e] \in KCP
           /\ Carried(net[e], kcp[Peer(e)]) /\ Taken(kcp[e]) <= written
           /\ Taken(kcp[e]) \in Nat
<1>1. Linked(kcp[e], kcp[Peer(e)])
  BY LinkedSymmetric DEF LinkInv, Ends, Peer
<1>2. kcp[e] \in KCP
  BY DEF LinkInv
<1>3. Taken(kcp[e]) \in Nat
  BY <1>2, Offsets DEF Taken
<1>4. Acked(kcp[e]) /\ Carried(net[e], kcp[Peer(e)]) /\ Taken(kcp[e]) <= written
  BY DEF LinkInv
<1> QED
  BY <1>1, <1>2, <1>3, <1>4

Sendable(k) == {packet \in Seq(Seg) : SaysAll(packet, k)}

LEMMA CarriedSendable ==
    ASSUME NEW s, NEW k
    PROVE  Carried(s, k) <=> s \in Seq(Sendable(k))
<1>1. ASSUME Carried(s, k) PROVE s \in Seq(Sendable(k))
  <2>1. s \in Seq(Seq(Seg)) /\ Len(s) \in Nat /\ DOMAIN s = 1..Len(s)
    BY <1>1 DEF Carried
  <2>2. s = [i \in 1..Len(s) |-> s[i]]
    BY <2>1
  <2>3. ASSUME NEW i \in 1..Len(s) PROVE s[i] \in Sendable(k)
    <3>1. SaysAll(s[i], k)
      BY <1>1, <2>1, <2>3 DEF Carried
    <3> QED
      BY <3>1 DEF Sendable, SaysAll
  <2> QED
    BY <2>1, <2>2, <2>3, Listed
<1>2. ASSUME s \in Seq(Sendable(k)) PROVE Carried(s, k)
  <2>1. Sendable(k) \subseteq Seq(Seg) /\ \A packet \in Sendable(k) : SaysAll(packet, k)
    BY DEF Sendable
  <2>2. s \in Seq(Seq(Seg)) /\ \A i \in DOMAIN s : s[i] \in Sendable(k)
    BY <1>2, <2>1
  <2> QED
    BY <2>1, <2>2 DEF Carried
<1> QED
  BY <1>1, <1>2

LEMMA CarriedKept ==
    ASSUME NEW k \in KCP, NEW l \in KCP, Later(k, l), NEW s, Carried(s, k)
    PROVE  Carried(s, l)
  BY SaysAllKept DEF Carried

\* What the network keeps of two sequences, in any way it does.
LEMMA CarriedParts ==
    ASSUME NEW k, NEW s, NEW t, Carried(s, k), Carried(t, k), NEW max \in Nat
    PROVE  /\ Carried(SubSeq(s \o t, 1, Least(max, Len(s \o t))), k)
           /\ s # <<>> => Carried(Tail(s), k) /\ Carried(Append(s, Head(s)), k)
           /\ \A i \in DOMAIN s : Carried(RemoveAt(s, i), k)
<1> DEFINE T == Sendable(k)
<1>1. s \in Seq(T) /\ t \in Seq(T)
  BY CarriedSendable
<1> HIDE DEF T
<1>2. SubSeq(s \o t, 1, Least(max, Len(s \o t))) \in Seq(T)
  <2>1. s \o t \in Seq(T) /\ Len(s \o t) \in Nat
    BY <1>1
  <2>2. Least(max, Len(s \o t)) \in 0..Len(s \o t)
    BY <2>1 DEF Least
  <2> QED
    BY <2>1, <2>2, Part
<1>3. s # <<>> => Tail(s) \in Seq(T) /\ Append(s, Head(s)) \in Seq(T)
  BY <1>1
<1>4. ASSUME NEW i \in DOMAIN s PROVE RemoveAt(s, i) \in Seq(T)
  <2>1. Len(s) \in Nat /\ i \in 1..Len(s)
    BY <1>1
  <2>2. i - 1 \in 0..Len(s) /\ i + 1 \in Nat \ {0} /\ Len(s) \in 0..Len(s) /\ 1 \in Nat \ {0}
    BY <2>1
  <2>3. SubSeq(s, 1, i - 1) \in Seq(T) /\ SubSeq(s, i + 1, Len(s)) \in Seq(T)
    BY <1>1, <2>2, Part
  <2> QED
    BY <2>3 DEF RemoveAt
<1> QED
  BY <1>2, <1>3, <1>4, CarriedSendable DEF T

\* A step in which one end goes on to record l.
LEMMA EndStep ==
    ASSUME LinkInv, NEW e \in Ends, NEW l, Linked(l, kcp[Peer(e)]), Later(kcp[e], l), Acked(l),
           Taken(l) <= written', written <= written', written' \in 0..MaxWrites,
           kcp' = [kcp EXCEPT ![e] = l], net' \in [Ends -> Seq(Seq(Seg))],
           Carried(net'[e], kcp[Peer(e)]), Carried(net'[Peer(e)], l)
    PROVE  LinkInv'
<1> DEFINE f == Peer(e)
<1>1. f \in Ends /\ f # e /\ Peer(f) = e /\ Ends = {e, f} /\ kcp \in [Ends -> KCP]
  BY Peers DEF LinkInv
<1>2. kcp' \in [Ends -> KCP] /\ kcp'[e] = l /\ kcp'[f] = kcp[f]
  BY <1>1, Offered
<1>3. Taken(kcp'[f]) <= written' /\ Acked(kcp'[f])
  <2>1. Taken(kcp[f]) <= written /\ Taken(kcp[f]) \in Nat /\ Acked(kcp[f])
    BY <1>1, EndsLinked
  <2>2. Taken(kcp[f]) <= written'
    BY <2>1, Modulus DEF LinkInv
  <2> QED
    BY <1>2, <2>1, <2>2
<1>4. Linked(kcp'["slave"], kcp'["master"])
  BY <1>1, <1>2, LinkedSymmetric DEF Ends
<1>5. \A g \in Ends : Carried(net'[g], kcp'[Peer(g)])
  BY <1>1, <1>2
<1>6. \A g \in Ends : Acked(kcp'[g]) /\ Taken(kcp'[g]) <= written'
  BY <1>1, <1>2, <1>3
<1> QED
  BY <1>2, <1>4, <1>5, <1>6 DEF LinkInv

\* A step that transmits: n is what the network keeps of what it had.
LEMMA OutputStep ==
    ASSUME LinkInv, NEW e \in Ends, NEW n \in [Ends -> Seq(Seq(Seg))],
           \A f \in Ends : Carried(n[f], kcp[Peer(f)]),
           NEW k \in KCP, Later(kcp[e], k), NEW sent, Sends(k, kcp[Peer(e)], sent),
           Output(e, n, sent), Taken(k) <= written', written <= written', written' \in 0..MaxWrites
    PROVE  LinkInv' /\ kcp' = [kcp EXCEPT ![e] = sent.kcp] /\ Keeps(k, sent.kcp)
<1> DEFINE f == Peer(e)
           l == sent.kcp
           max == MaxNet[f]
           s == n[f] \o sent.out
<1>1. f \in Ends /\ f # e /\ Peer(f) = e /\ Ends = {e, f} /\ kcp \in [Ends -> KCP]
  BY Peers DEF LinkInv
<1>2. /\ Linked(l, kcp[f]) /\ Keeps(k, l) /\ Acked(l) /\ Carried(sent.out, l) /\ l \in KCP
  BY Offered DEF Sends, Carried
<1>3. kcp' = [kcp EXCEPT ![e] = l]
      /\ net' = [n EXCEPT ![f] = SubSeq(s, 1, Least(max, Len(s)))]
  BY DEF Output, Transmit
<1>4. max \in Nat
  BY <1>1, LinkAssumption
<1> HIDE DEF l, max
<1>5. Later(kcp[e], l) /\ Taken(l) = Taken(k)
  BY <1>1, <1>2, LaterTrans DEF Keeps
<1>6. Carried(n[f], l)
  BY <1>1, <1>2, <1>5, CarriedKept
<1>7. Carried(SubSeq(s, 1, Least(max, Len(s))), l)
  BY <1>2, <1>4, <1>6, CarriedParts
<1> HIDE DEF s
<1>8. net' \in [Ends -> Seq(Seq(Seg))] /\ net'[e] = n[e]
      /\ net'[f] = SubSeq(s, 1, Least(max, Len(s)))
  BY <1>1, <1>3, <1>7 DEF Carried
<1>9. LinkInv'
  BY <1>1, <1>2, <1>3, <1>5, <1>7, <1>8, EndStep
<1> QED
  BY <1>2, <1>3, <1>9 DEF l

-----------------------------------------------------------------------------
(* Every action, what it does to LinkInv and to the messages under way *)

\* The messages an end has taken and returned do not change.
Quiet == \A e \in Ends : Taken(kcp'[e]) = Taken(kcp[e]) /\ Given(kcp'[e]) = Given(kcp[e])

LEMMA Starts == Init => LinkInv /\ \A e \in Ends : Taken(kcp[e]) = 0 /\ Given(kcp[e]) = 0
<1> SUFFICES ASSUME Init
             PROVE  LinkInv /\ \A e \in Ends : Taken(kcp[e]) = 0 /\ Given(kcp[e]) = 0
  OBVIOUS
<1> DEFINE k == [NewKCP EXCEPT !.snd_una = FirstSn, !.snd_nxt = FirstSn, !.rcv_nxt = FirstSn]
<1>1. k \in KCP
  <2>1. <<>> \in Seq(Sn) /\ <<>> \in Seq(SendSeg) /\ <<>> \in Seq(RecvSeg)
    OBVIOUS
  <2>2. FirstSn \in Sn /\ 0 \in 0..IKCP_WND_RCV /\ IKCP_WND_RCV \in 0..IKCP_WND_RCV /\ 2 \in Nat
    BY Modulus
  <2>3. NewKCP \in KCP
    BY <2>1, <2>2, Modulus DEF NewKCP, KCP, IKCP_THRESH_MIN
  <2> QED
    BY <2>2, <2>3 DEF KCP
<1>2. /\ k.snd_una = FirstSn /\ k.snd_nxt = FirstSn /\ k.rcv_nxt = FirstSn /\ k.cwnd = 0
      /\ k.snd_buf = <<>> /\ k.snd_queue = <<>> /\ k.rcv_buf = <<>> /\ k.rcv_queue = <<>>
      /\ k.acklist = <<>>
  BY DEF NewKCP
<1>3. \A e \in Ends : kcp[e] = k /\ net[e] = <<>>
  BY DEF Init
<1>4. kcp \in [Ends -> KCP] /\ net \in [Ends -> Seq(Seq(Seg))] /\ written = 0
  <2>1. kcp = [e \in Ends |-> k] /\ net = [e \in Ends |-> <<>>] /\ written = 0
    BY DEF Init
  <2> HIDE DEF k
  <2> QED
    BY <1>1, <2>1
<1> HIDE DEF k
<1>5. Off(FirstSn) = 0
  <2>1. FirstSn \in Int /\ SnMod \in Nat /\ SnMod > 0
    BY Modulus DEF Sn
  <2>2. FirstSn - FirstSn = 0 /\ 0 % SnMod = 0
    BY <2>1
  <2> QED
    BY <2>2 DEF Off
<1>6. Taken(k) = 0 /\ Given(k) = 0 /\ Acked(k)
  <2>1. Len(<<>>) = 0 /\ DOMAIN <<>> = {}
    OBVIOUS
  <2>2. Taken(k) = 0 + 0 /\ Given(k) = 0 - 0
    BY <1>2, <1>5, <2>1 DEF Taken, Given
  <2> QED
    BY <1>2, <2>1, <2>2 DEF Acked
<1>7. SendSide(k) /\ ReceiveSide(k) /\ Direction(k, k)
  BY <1>2, <1>5, <1>6, Modulus DEF SendSide, ReceiveSide, Direction
<1>8. Linked(k, k)
  BY <1>1, <1>6, <1>7, Modulus DEF Linked, Side
<1>9. \A e \in Ends : Carried(<<>>, kcp[Peer(e)])
  BY DEF Carried
<1> QED
  BY <1>3, <1>4, <1>6, <1>8, <1>9, Modulus DEF LinkInv, Ends

LEMMA WriteStep ==
    ASSUME LinkInv, NEW e \in Ends, Write(e)
    PROVE  /\ LinkInv' /\ \E l : kcp' = [kcp EXCEPT ![e] = l]
           /\ Taken(kcp'[e]) = Taken(kcp[e]) + 1 /\ Given(kcp'[e]) = Given(kcp[e])
           /\ Taken(kcp[e]) < MaxWrites
<1> DEFINE sn == Plus(kcp[e].snd_nxt, Len(kcp[e].snd_queue))
           k == Send(kcp[e], sn)
<1>1. written < MaxWrites /\ written' = written + 1 /\ written \in Nat
  BY DEF Write, LinkInv
<1>2. /\ Linked(kcp[e], kcp[Peer(e)]) /\ Acked(kcp[e]) /\ kcp[e] \in KCP
      /\ Taken(kcp[e]) <= written /\ Taken(kcp[e]) \in Nat
  BY EndsLinked
<1>3. Taken(kcp[e]) < MaxWrites
  BY <1>1, <1>2, Modulus
<1>4. /\ Linked(k, kcp[Peer(e)]) /\ Later(kcp[e], k) /\ Acked(k)
      /\ Taken(k) = Taken(kcp[e]) + 1 /\ Given(k) = Given(kcp[e])
  BY <1>2, <1>3, SendOne
<1>5. PICK due \in Clock(k) : Output(e, net, flush(k, due))
  BY DEF Write
<1> HIDE DEF k
<1>6. k \in KCP
  BY <1>4, Offered
<1> DEFINE sent == flush(k, due)
<1>7. Sends(k, kcp[Peer(e)], sent)
  BY <1>4, Flushes
<1>8. Output(e, net, sent)
  BY <1>5
<1> HIDE DEF sent
<1>9. /\ Taken(k) <= written' /\ written <= written' /\ written' \in 0..MaxWrites
      /\ net \in [Ends -> Seq(Seq(Seg))] /\ kcp \in [Ends -> KCP]
  BY <1>1, <1>2, <1>4, Modulus DEF LinkInv
<1>10. LinkInv' /\ kcp' = [kcp EXCEPT ![e] = sent.kcp] /\ Keeps(k, sent.kcp)
  BY <1>4, <1>6, <1>7, <1>8, <1>9, EndsLinked, OutputStep
<1>11. kcp'[e] = sent.kcp
  BY <1>9, <1>10
<1> QED
  BY <1>3, <1>4, <1>10, <1>11 DEF Keeps

LEMMA ReadStep ==
    ASSUME LinkInv, NEW e \in Ends, Read(e)
    PROVE  /\ LinkInv' /\ \E l : kcp' = [kcp EXCEPT ![e] = l]
           /\ Taken(kcp'[e]) = Taken(kcp[e]) /\ Given(kcp'[e]) = Given(kcp[e]) + 1
           /\ Len(kcp[e].rcv_queue) > 0
<1> DEFINE l == Recv(kcp[e])
<1>1. /\ Len(kcp[e].rcv_queue) > 0 /\ kcp' = [kcp EXCEPT ![e] = l]
      /\ net' = net /\ written' = written
  BY DEF Read, PeekSize
<1>2. /\ Linked(kcp[e], kcp[Peer(e)]) /\ Acked(kcp[e]) /\ kcp[e] \in KCP
      /\ Taken(kcp[e]) <= written
  BY EndsLinked
<1>3. /\ Linked(l, kcp[Peer(e)]) /\ Later(kcp[e], l) /\ Acked(l)
      /\ Taken(l) = Taken(kcp[e]) /\ Given(l) = Given(kcp[e]) + 1
  BY <1>1, <1>2, ReadOne
<1> HIDE DEF l
<1>4. l \in KCP /\ kcp \in [Ends -> KCP] /\ written \in 0..MaxWrites
      /\ net \in [Ends -> Seq(Seq(Seg))]
  BY <1>3, Offered DEF LinkInv
<1>5. kcp'[e] = l
  BY <1>1, <1>4
<1>6. Carried(net'[e], kcp[Peer(e)]) /\ Carried(net'[Peer(e)], l)
  <2>1. Carried(net[e], kcp[Peer(e)]) /\ Carried(net[Peer(e)], kcp[e])
    BY EndsLinked, Peers
  <2> QED
    BY <1>1, <1>2, <1>3, <1>4, <2>1, CarriedKept
<1>7. written <= written'
  BY <1>1, <1>4, Modulus
<1>8. LinkInv'
  BY <1>1, <1>2, <1>3, <1>4, <1>6, <1>7, EndStep
<1> QED
  BY <1>1, <1>3, <1>5, <1>8

\* A step that flushes or takes a packet in.
LEMMA QuietStep ==
    ASSUME LinkInv, NEW e \in Ends, NEW n \in [Ends -> Seq(Seq(Seg))],
           \A f \in Ends : Carried(n[f], kcp[Peer(f)]), NEW sent,
           Sends(kcp[e], kcp[Peer(e)], sent), Output(e, n, sent), written' = written
    PROVE  LinkInv' /\ Quiet
<1>1. /\ kcp[e] \in KCP /\ Taken(kcp[e]) <= written /\ written \in 0..MaxWrites
      /\ kcp \in [Ends -> KCP]
  BY EndsLinked DEF LinkInv
<1>2. Keeps(kcp[e], kcp[e])
  BY <1>1, KeepsSame, Offsets DEF SameReceive
<1>3. Taken(kcp[e]) <= written' /\ written <= written' /\ written' \in 0..MaxWrites
  BY <1>1, Modulus
<1>4. LinkInv' /\ kcp' = [kcp EXCEPT ![e] = sent.kcp] /\ Keeps(kcp[e], sent.kcp)
  BY <1>1, <1>2, <1>3, OutputStep DEF Keeps
<1>5. kcp'[e] = sent.kcp /\ \A f \in Ends \ {e} : kcp'[f] = kcp[f]
  BY <1>1, <1>4
<1> QED
  BY <1>4, <1>5 DEF Quiet, Keeps

LEMMA UpdateStep ==
    ASSUME LinkInv, NEW e \in Ends, Update(e)
    PROVE  LinkInv' /\ Quiet
<1>1. PICK due \in Clock(kcp[e]) : Output(e, net, flush(kcp[e], due))
  BY DEF Update
<1>2. written' = written
  BY DEF Update
<1>3. Sends(kcp[e], kcp[Peer(e)], flush(kcp[e], due))
  BY EndsLinked, Flushes
<1>4. net \in [Ends -> Seq(Seq(Seg))] /\ \A f \in Ends : Carried(net[f], kcp[Peer(f)])
  BY DEF LinkInv
<1> QED
  BY <1>1, <1>2, <1>3, <1>4, QuietStep

LEMMA InputStepKeeps ==
    ASSUME LinkInv, NEW e \in Ends, NEW i, NEW regular \in BOOLEAN, kcpInput(e, i, regular)
    PROVE  LinkInv' /\ Quiet
<1> DEFINE n == [net EXCEPT ![e] = RemoveAt(@, i)]
           packet == net[e][i]
<1>1. PICK due \in Clock(InputSegments(kcp[e], packet, regular)) :
          Output(e, n, Input(kcp[e], packet, regular, due))
  BY DEF kcpInput
<1>2. i \in DOMAIN net[e] /\ written' = written
  BY DEF kcpInput
<1>3. due.grow \in Nat
  <2> DEFINE k == InputSegments(kcp[e], packet, regular)
  <2> HIDE DEF k
  <2>1. due \in Clock(k)
    BY <1>1 DEF k
  <2> QED
    BY <2>1 DEF Clock
<1>4. /\ Linked(kcp[e], kcp[Peer(e)]) /\ Acked(kcp[e]) /\ Carried(net[e], kcp[Peer(e)])
      /\ \A f \in Ends : Carried(net[f], kcp[Peer(f)])
  BY EndsLinked
<1>5. SaysAll(packet, kcp[Peer(e)])
  BY <1>2, <1>4 DEF Carried
<1>6. net \in [Ends -> Seq(Seq(Seg))]
  BY DEF LinkInv
<1>7. Carried(RemoveAt(net[e], i), kcp[Peer(e)])
  BY <1>2, <1>4, CarriedParts
<1>8. n \in [Ends -> Seq(Seq(Seg))] /\ \A f \in Ends : Carried(n[f], kcp[Peer(f)])
  BY <1>4, <1>6, <1>7 DEF Carried
<1> HIDE DEF n, packet
<1>9. Sends(kcp[e], kcp[Peer(e)], Input(kcp[e], packet, regular, due))
  BY <1>3, <1>4, <1>5, Inputs
<1> QED
  BY <1>1, <1>2, <1>8, <1>9, QuietStep

\* The network may lose or repeat a packet, or nothing may happen.
LEMMA NetworkStep ==
    ASSUME LinkInv, (\E e \in Ends : Lose(e) \/ Repeat(e)) \/ UNCHANGED vars
    PROVE  LinkInv' /\ Quiet
<1>1. kcp' = kcp /\ written' = written
  BY DEF Lose, Repeat, vars
<1>2. net \in [Ends -> Seq(Seq(Seg))] /\ \A f \in Ends : Carried(net[f], kcp[Peer(f)])
  BY DEF LinkInv
<1>3. net' \in [Ends -> Seq(Seq(Seg))] /\ \A f \in Ends : Carried(net'[f], kcp[Peer(f)])
  <2>1. ASSUME NEW e \in Ends, Lose(e) \/ Repeat(e)
        PROVE  net' \in [Ends -> Seq(Seq(Seg))]
               /\ \A f \in Ends : Carried(net'[f], kcp[Peer(f)])
    <3>1. /\ net[e] # <<>> /\ Carried(net[e], kcp[Peer(e)])
          /\ \/ net' = [net EXCEPT ![e] = Tail(net[e])]
             \/ net' = [net EXCEPT ![e] = Append(net[e], Head(net[e]))]
      BY <1>2, <2>1 DEF Lose, Repeat
    <3>2. /\ Carried(Tail(net[e]), kcp[Peer(e)])
          /\ Carried(Append(net[e], Head(net[e])), kcp[Peer(e)])
      BY <3>1, CarriedParts
    <3>3. PICK s : net' = [net EXCEPT ![e] = s] /\ Carried(s, kcp[Peer(e)])
      BY <3>1, <3>2
    <3> QED
      BY <1>2, <3>3 DEF Carried
  <2>2. CASE UNCHANGED vars
    BY <1>2, <2>2 DEF vars
  <2> QED
    BY <2>1, <2>2
<1> QED
  BY <1>1, <1>2, <1>3 DEF LinkInv, Quiet

LEMMA Inductive ==
    ASSUME LinkInv, [Next]_vars
    PROVE  LinkInv'
<1>1. ASSUME NEW e \in Ends, Write(e) PROVE LinkInv'
  BY <1>1, WriteStep
<1>2. ASSUME NEW e \in Ends, Read(e) PROVE LinkInv'
  BY <1>2, ReadStep
<1>3. ASSUME NEW e \in Ends, Update(e) PROVE LinkInv'
  BY <1>3, UpdateStep
<1>4. ASSUME NEW e \in Ends, NEW i, NEW regular \in BOOLEAN, kcpInput(e, i, regular)
      PROVE  LinkInv'
  BY <1>4, InputStepKeeps
<1>5. CASE (\E e \in Ends : Lose(e) \/ Repeat(e)) \/ UNCHANGED vars
  BY <1>5, NetworkStep
<1>6. "slave" \in Ends /\ "master" \in Ends
  BY DEF Ends
<1> QED
  BY <1>1, <1>2, <1>3, <1>4, <1>5, <1>6
  DEF Next, SlaveWrite, SlaveRead, SlaveUpdate, SlaveInput,
      MasterWrite, MasterRead, MasterUpdate, MasterInput

\* The inductive invariant holds in every state: it is what the theorems below rest on.
THEOREM Invariance == Spec => []LinkInv
<1>1. Init => LinkInv
  BY Starts
<1>2. LinkInv /\ [Next]_vars => LinkInv'
  BY Inductive
<1> QED
  BY <1>1, <1>2, PTL DEF Spec

-----------------------------------------------------------------------------
(* What the invariant says of a session *)

\* A window of numbers holds no more segments than its size: no two have the same number.
LEMMA BufferFits ==
    ASSUME NEW k, NEW p, Linked(k, p)
    PROVE  Len(k.rcv_buf) <= IKCP_WND_RCV
<1> DEFINE v == Off(k.rcv_nxt)
           D == 1..Len(k.rcv_buf)
           T == v..v + IKCP_WND_RCV - 1
           f == [i \in D |-> Off(k.rcv_buf[i].sn)]
<1>1. /\ v \in Nat /\ DOMAIN k.rcv_buf = D /\ Len(k.rcv_buf) \in Nat /\ IKCP_WND_RCV \in Nat
      /\ IKCP_WND_RCV > 0 /\ ReceiveSide(k)
  BY Offered, Offsets, Modulus DEF Linked, Side
<1>2. ASSUME NEW i \in D PROVE f[i] \in T /\ k.rcv_buf[i].sn \in Sn /\ f[i] = Off(k.rcv_buf[i].sn)
  <2>1. k.rcv_buf[i].sn \in Sn /\ Off(k.rcv_buf[i].sn) \in Nat
    BY <1>1, Offered, OffCases DEF Used
  <2>2. v <= Off(k.rcv_buf[i].sn) /\ Off(k.rcv_buf[i].sn) < v + IKCP_WND_RCV
    BY <1>1 DEF ReceiveSide
  <2> HIDE DEF v
  <2> QED
    BY <1>1, <2>1, <2>2
<1>3. f \in [D -> T]
  BY <1>2
<1>4. \A i, j \in D : f[i] = f[j] => i = j
  <2> TAKE i, j \in D
  <2>1. f[i] = f[j] => k.rcv_buf[i].sn = k.rcv_buf[j].sn
    BY <1>2, OffInjective
  <2> QED
    BY <1>1, <2>1 DEF ReceiveSide
<1> HIDE DEF f
<1>5. f \in Injection(D, T)
  BY <1>3, <1>4 DEF Injection, IsInjective
<1>6. Cardinality(D) = Len(k.rcv_buf)
  <2> DEFINE L == Len(k.rcv_buf)
  <2>1. L \in Int /\ 1 \in Int /\ (IF 1 > L THEN 0 ELSE L - 1 + 1) = L
    BY <1>1
  <2> HIDE DEF L
  <2>2. Cardinality(1..L) = L
    BY <2>1, FS_Interval
  <2> QED
    BY <2>2 DEF L
<1>7. IsFiniteSet(T) /\ Cardinality(T) = IKCP_WND_RCV
  <2> HIDE DEF v
  <2>1. v \in Int /\ v + IKCP_WND_RCV - 1 \in Int /\ ~(v > v + IKCP_WND_RCV - 1)
        /\ (v + IKCP_WND_RCV - 1) - v + 1 = IKCP_WND_RCV
    BY <1>1
  <2> QED
    BY <2>1, FS_Interval
<1> HIDE DEF D, T
<1> QED
  BY <1>5, <1>6, <1>7, FS_Injection

LEMMA NumbersOf ==
    ASSUME NEW s, NEW r, Linked(s, r)
    PROVE  /\ Diff(r.rcv_nxt, s.snd_una) = Off(r.rcv_nxt) - Off(s.snd_una)
           /\ Diff(r.rcv_nxt, s.snd_una) >= 0
           /\ Diff(s.snd_nxt, r.rcv_nxt) = Off(s.snd_nxt) - Off(r.rcv_nxt)
           /\ Diff(s.snd_nxt, r.rcv_nxt) >= 0
           /\ Diff(s.snd_nxt, s.snd_una) = Len(s.snd_buf)
<1>1. Near(r.rcv_nxt) /\ Near(s.snd_una) /\ Near(s.snd_nxt)
  BY LinkedSymmetric, Offered, UsedNear
<1>2. /\ Diff(r.rcv_nxt, s.snd_una) = Off(r.rcv_nxt) - Off(s.snd_una)
      /\ Diff(s.snd_nxt, r.rcv_nxt) = Off(s.snd_nxt) - Off(r.rcv_nxt)
      /\ Diff(s.snd_nxt, s.snd_una) = Off(s.snd_nxt) - Off(s.snd_una)
  BY <1>1, DiffUsed DEF Diff
<1>3. /\ Off(s.snd_una) <= Off(r.rcv_nxt) /\ Off(r.rcv_nxt) <= Off(s.snd_nxt)
      /\ Off(s.snd_nxt) = Off(s.snd_una) + Len(s.snd_buf)
  BY DEF Linked, Side, SendSide, Direction
<1>4. /\ Off(s.snd_una) \in Nat /\ Off(r.rcv_nxt) \in Nat /\ Off(s.snd_nxt) \in Nat
      /\ Len(s.snd_buf) \in Nat
  BY Offered, Offsets
<1> QED
  BY <1>2, <1>3, <1>4

LEMMA NumbersFollow == LinkInv => Numbers
<1> SUFFICES ASSUME LinkInv, NEW e \in Ends
             PROVE  LET s == kcp[e] r == kcp[Peer(e)]
                    IN  /\ Diff(r.rcv_nxt, s.snd_una) >= 0
                        /\ Diff(s.snd_nxt, r.rcv_nxt) >= 0
                        /\ Diff(s.snd_nxt, s.snd_una) = Len(s.snd_buf)
                        /\ Len(s.snd_buf) <= IKCP_WND_SND
                        /\ Len(r.rcv_queue) <= IKCP_WND_RCV /\ Len(r.rcv_buf) <= IKCP_WND_RCV
                        /\ s.cwnd \in 0..IKCP_WND_RCV /\ (s.cwnd = 0 => s.snd_buf = <<>>)
  BY DEF Numbers
<1>1. Linked(kcp[e], kcp[Peer(e)])
  BY EndsLinked
<1>2. Linked(kcp[Peer(e)], kcp[e])
  BY <1>1, LinkedSymmetric
<1> QED
  BY <1>1, <1>2, NumbersOf, BufferFits, Offered, Offsets
  DEF Linked, Side, SendSide, ReceiveSide

\* The receiver is never behind what the sender may forget nor ahead of what it has sent,
\* across the wrap of the numbers, and no queue outgrows its window (parse_una, parse_data,
\* flush).
THEOREM NumbersInOrder == Spec => []Numbers
  BY Invariance, NumbersFollow, PTL

\* A number from rcv_nxt on, and below snd_nxt, is one in flight.
LEMMA Between ==
    ASSUME NEW s, NEW r, Linked(s, r), NEW sn \in Sn,
           Diff(sn, r.rcv_nxt) >= 0, Diff(sn, s.snd_nxt) < 0
    PROVE  Off(r.rcv_nxt) <= Off(sn) /\ Off(sn) < Off(s.snd_nxt)
<1> DEFINE o == Off(sn)
           v == Off(r.rcv_nxt)
           x == Off(s.snd_nxt)
           d == (sn - r.rcv_nxt) % SnMod
           h == (sn - s.snd_nxt) % SnMod
           Half == SnMod \div 2
<1>1. ASSUME NEW a \in Sn, NEW b \in Sn
      PROVE  /\ (a - b) % SnMod \in Nat
             /\ \/ Off(a) >= Off(b) /\ (a - b) % SnMod = Off(a) - Off(b)
                \/ Off(a) < Off(b) /\ (a - b) % SnMod = Off(a) - Off(b) + SnMod
  <2>1. (a - b) % SnMod = IF a < b THEN a - b + SnMod ELSE a - b
    BY ModCases, Modulus DEF Sn
  <2>2. /\ Off(a) = IF a < FirstSn THEN a - FirstSn + SnMod ELSE a - FirstSn
        /\ Off(b) = IF b < FirstSn THEN b - FirstSn + SnMod ELSE b - FirstSn
    BY OffCases
  <2>3. a \in Int /\ b \in Int /\ 0 <= a /\ a < SnMod /\ 0 <= b /\ b < SnMod
    BY Modulus DEF Sn
  <2> DEFINE m == (a - b) % SnMod
  <2> HIDE DEF m
  <2> SUFFICES m \in Nat /\ (\/ Off(a) >= Off(b) /\ m = Off(a) - Off(b)
                             \/ Off(a) < Off(b) /\ m = Off(a) - Off(b) + SnMod)
    BY DEF m
  <2>4. m = IF a < b THEN a - b + SnMod ELSE a - b
    BY <2>1 DEF m
  <2> QED
    BY <2>2, <2>3, <2>4, Modulus DEF Sn
<1>2. r.rcv_nxt \in Sn /\ s.snd_nxt \in Sn /\ v \in Nat /\ x \in Nat /\ o \in Nat
      /\ v <= x /\ x <= MaxWrites /\ o < SnMod
  BY Offered, Offsets, OffCases
<1>3. /\ d \in Nat /\ ((o >= v /\ d = o - v) \/ (o < v /\ d = o - v + SnMod))
      /\ h \in Nat /\ ((o >= x /\ h = o - x) \/ (o < x /\ h = o - x + SnMod))
  BY <1>1, <1>2
<1>4. d < Half /\ ~(h < Half)
  <2>1. Diff(sn, r.rcv_nxt) = IF d < Half THEN d ELSE d - SnMod
    BY DEF Diff, itimediff
  <2>2. Diff(sn, s.snd_nxt) = IF h < Half THEN h ELSE h - SnMod
    BY DEF Diff, itimediff
  <2>3. d < SnMod
    <3> HIDE DEF d, o, v
    <3> QED
      BY <1>2, <1>3, Modulus
  <2> HIDE DEF d, h, Half
  <2> QED
    BY <1>3, <2>1, <2>2, <2>3, Modulus
<1>5. Half \in Nat /\ 2 * Half <= SnMod /\ MaxWrites < Half /\ SnMod \in Nat
  BY Modulus
<1> HIDE DEF o, v, x, d, h, Half
<1>6. v <= o /\ o < x
  BY <1>2, <1>3, <1>4, <1>5, Modulus
<1> QED
  BY <1>6 DEF o, v, x

\* What is in flight is with the sender, data and all, or waits behind a gap.
LEMMA InFlight ==
    ASSUME NEW s, NEW r, Linked(s, r), NEW sn \in Sn,
           Off(r.rcv_nxt) <= Off(sn), Off(sn) < Off(s.snd_nxt)
    PROVE  \/ \E i \in DOMAIN r.rcv_buf : r.rcv_buf[i].sn = sn
           \/ /\ \E i \in DOMAIN s.snd_buf : s.snd_buf[i].sn = sn
              /\ \A i \in DOMAIN s.snd_buf : s.snd_buf[i].sn = sn => s.snd_buf[i].data = sn
<1> SUFFICES ASSUME ~ \E i \in DOMAIN r.rcv_buf : r.rcv_buf[i].sn = sn
             PROVE  /\ \E i \in DOMAIN s.snd_buf : s.snd_buf[i].sn = sn
                    /\ \A i \in DOMAIN s.snd_buf : s.snd_buf[i].sn = sn => s.snd_buf[i].data = sn
  OBVIOUS
<1>1. /\ Off(sn) \in Nat /\ Off(r.rcv_nxt) \in Nat /\ Off(s.snd_una) \in Nat
      /\ Off(s.snd_nxt) \in Nat /\ Len(s.snd_buf) \in Nat
      /\ DOMAIN s.snd_buf = 1..Len(s.snd_buf)
  BY Offered, Offsets, OffCases
<1>2. /\ SendSide(s) /\ Off(s.snd_nxt) = Off(s.snd_una) + Len(s.snd_buf)
      /\ Off(s.snd_una) <= Off(r.rcv_nxt)
      /\ \A i \in DOMAIN s.snd_buf : s.snd_buf[i].acked => Received(r, s.snd_buf[i].sn)
  BY DEF Linked, Side, Direction, SendSide
<1>3. ~ Received(r, sn)
  BY <1>1 DEF Received
<1>4. \A i \in DOMAIN s.snd_buf : s.snd_buf[i].sn = sn => s.snd_buf[i].data = sn
  BY <1>2, <1>3 DEF SendSide
<1> DEFINE j == Off(sn) - Off(s.snd_una) + 1
<1>5. j \in DOMAIN s.snd_buf
  BY <1>1, <1>2
<1>6. Off(s.snd_buf[j].sn) = Off(s.snd_una) + j - 1 /\ s.snd_buf[j].sn \in Sn
  <2> HIDE DEF j
  <2> QED
    BY <1>5, Offered DEF Used
<1>7. Off(s.snd_una) + j - 1 = Off(sn)
  BY <1>1
<1>8. s.snd_buf[j].sn = sn
  <2> HIDE DEF j
  <2> QED
    BY <1>6, <1>7, OffInjective
<1> QED
  BY <1>4, <1>5, <1>8

LEMMA HeldFollows == LinkInv => NeverFreedEarly
<1> SUFFICES ASSUME LinkInv, NEW e \in Ends, NEW sn \in Sn,
                    Diff(sn, kcp[Peer(e)].rcv_nxt) >= 0, Diff(sn, kcp[e].snd_nxt) < 0
             PROVE  Held(e, sn)
  BY DEF NeverFreedEarly, Sn
<1>1. Linked(kcp[e], kcp[Peer(e)])
  BY EndsLinked
<1>2. sn # NoData
  BY Modulus DEF Sn, NoData
<1> QED
  BY <1>1, <1>2, Between, InFlight DEF Held

\* No segment loses its last copy: parse_ack frees the data of what the peer has, and una
\* passes only what the peer has passed on.
THEOREM LastCopyKept == Spec => []NeverFreedEarly
  BY Invariance, HeldFollows, PTL

-----------------------------------------------------------------------------
(* A session is a pair of reliable queues *)

\* The messages the end with record s has taken and the one with record r not returned.
Span(a, b) == [j \in 1..b - a |-> Plus(FirstSn, a + j - 1)]
Promised(s, r) == Span(Given(r), Taken(s))

LEMMA Numbered ==
    ASSUME NEW sn \in Sn, NEW m \in Nat, Off(sn) = m
    PROVE  sn = Plus(FirstSn, m)
<1>1. Off(FirstSn) = 0
  <2>1. FirstSn \in Int /\ SnMod \in Nat /\ SnMod > 0
    BY Modulus DEF Sn
  <2>2. FirstSn - FirstSn = 0 /\ 0 % SnMod = 0
    BY <2>1
  <2> QED
    BY <2>2 DEF Off
<1>2. FirstSn \in Sn /\ Off(FirstSn) + m < SnMod /\ Off(FirstSn) + m = m
  BY <1>1, OffCases, Modulus
<1>3. Plus(FirstSn, m) \in Sn /\ Off(Plus(FirstSn, m)) = m
  BY <1>2, OffPlus
<1> QED
  BY <1>3, OffInjective

LEMMA Sizes ==
    ASSUME NEW s, NEW r, Linked(s, r)
    PROVE  Given(r) \in Nat /\ Taken(s) \in Nat /\ Given(r) <= Taken(s) /\ Taken(s) <= MaxWrites
<1>1. /\ Off(r.rcv_nxt) \in Nat /\ Off(s.snd_nxt) \in Nat /\ Len(s.snd_queue) \in Nat
      /\ Len(r.rcv_queue) \in Nat
  BY Offered, Offsets
<1>2. Off(r.rcv_nxt) <= Off(s.snd_nxt) /\ Given(r) >= 0 /\ Taken(s) <= MaxWrites
  BY DEF Linked, Side, Direction, ReceiveSide
<1>3. Given(r) = Off(r.rcv_nxt) - Len(r.rcv_queue) /\ Taken(s) = Off(s.snd_nxt) + Len(s.snd_queue)
  BY DEF Given, Taken
<1> QED
  BY <1>1, <1>2, <1>3

\* The queues of the two ends and what is in flight hold just these, in order.
LEMMA ContentsPromised ==
    ASSUME NEW s, NEW r, Linked(s, r)
    PROVE  Contents(s, r) = Promised(s, r)
<1> DEFINE n == Diff(s.snd_nxt, r.rcv_nxt)
           b(sn) == {i \in DOMAIN r.rcv_buf : r.rcv_buf[i].sn = sn}
           h(sn) == {i \in DOMAIN s.snd_buf : s.snd_buf[i].sn = sn}
           Data(sn) == IF b(sn) # {} THEN r.rcv_buf[CHOOSE i \in b(sn) : TRUE].data
                       ELSE IF h(sn) # {} THEN s.snd_buf[CHOOSE i \in h(sn) : TRUE].data
                       ELSE NoData
           mid == [j \in 1..n |-> Data(Plus(r.rcv_nxt, j - 1))]
           v == Off(r.rcv_nxt)
           x == Off(s.snd_nxt)
           R == Len(r.rcv_queue)
           Q == Len(s.snd_queue)
           g == Given(r)
           all == r.rcv_queue \o mid \o s.snd_queue
<1>1. /\ v \in Nat /\ x \in Nat /\ R \in Nat /\ Q \in Nat /\ g \in Nat
      /\ r.rcv_queue \in Seq(Sn) /\ s.snd_queue \in Seq(Sn) /\ x <= MaxWrites
      /\ DOMAIN r.rcv_queue = 1..R /\ DOMAIN s.snd_queue = 1..Q /\ r.rcv_nxt \in Sn
  BY Offered, Offsets, Sizes
<1>2. n = x - v /\ v <= x /\ g = v - R /\ Taken(s) = x + Q
  BY NumbersOf DEF Linked, Direction, Given, Taken
<1>3. n \in Nat /\ v + n = x
  <2> HIDE DEF n, x, v
  <2> QED
    BY <1>1, <1>2
<1> HIDE DEF n
<1>4. ASSUME NEW sn \in Sn, v <= Off(sn), Off(sn) < x PROVE Data(sn) = sn
  <2>1. \A i \in b(sn) : r.rcv_buf[i].data = sn
    BY DEF Linked, Side, ReceiveSide
  <2>2. CASE b(sn) # {}
    <3>1. (CHOOSE i \in b(sn) : TRUE) \in b(sn)
      BY <2>2
    <3> HIDE DEF b, h
    <3> QED
      BY <2>1, <2>2, <3>1
  <2>3. CASE b(sn) = {}
    <3>1. h(sn) # {} /\ \A i \in h(sn) : s.snd_buf[i].data = sn
      BY <1>4, <2>3, InFlight
    <3>2. (CHOOSE i \in h(sn) : TRUE) \in h(sn)
      BY <3>1
    <3> HIDE DEF b, h
    <3> QED
      BY <2>3, <3>1, <3>2
  <2> QED
    BY <2>2, <2>3
<1> HIDE DEF Data
<1>5. ASSUME NEW j \in 1..n PROVE mid[j] \in Sn /\ Off(mid[j]) = v + (j - 1)
  <2>1. j - 1 \in Nat /\ v + (j - 1) < SnMod /\ v + (j - 1) < x /\ v <= v + (j - 1)
    <3> HIDE DEF v, x
    <3> QED
      BY <1>1, <1>3, Modulus
  <2>2. Plus(r.rcv_nxt, j - 1) \in Sn /\ Off(Plus(r.rcv_nxt, j - 1)) = v + (j - 1)
    BY <1>1, <2>1, OffPlus
  <2>3. Data(Plus(r.rcv_nxt, j - 1)) = Plus(r.rcv_nxt, j - 1)
    BY <1>4, <2>1, <2>2
  <2> QED
    BY <2>2, <2>3
<1>6. mid \in Seq(Sn) /\ Len(mid) = n
  <2>1. mid = [j \in 1..n |-> mid[j]]
    OBVIOUS
  <2> HIDE DEF mid
  <2> QED
    BY <1>3, <1>5, <2>1, Listed
<1>7. Contents(s, r) = all
  BY DEF Contents, Data, n
<1> HIDE DEF mid
<1>8. \A i \in 1..R : Off(r.rcv_queue[i]) = g + i - 1
  BY <1>1 DEF Linked, Side, ReceiveSide
<1>9. \A i \in 1..Q : Off(s.snd_queue[i]) = x + i - 1
  BY <1>1 DEF Linked, Side, SendSide
<1> HIDE DEF R, Q, g, v, x
<1>10. r.rcv_queue \in Seq(Sn) /\ Len(r.rcv_queue) = R /\ s.snd_queue \in Seq(Sn)
       /\ Len(s.snd_queue) = Q
  BY <1>1 DEF R, Q
<1> DEFINE front == r.rcv_queue \o mid
<1>11. /\ front \in Seq(Sn) /\ Len(front) = R + n
       /\ \A i \in 1..R + n : front[i] = IF i <= R THEN r.rcv_queue[i] ELSE mid[i - R]
  BY <1>6, <1>10, Joined
<1>12. \A i \in 1..R + n : Off(front[i]) = g + i - 1
  <2> HIDE DEF front
  <2> TAKE i \in 1..R + n
  <2>1. CASE i <= R
    <3>1. i \in 1..R /\ front[i] = r.rcv_queue[i]
      BY <1>1, <1>3, <1>11, <2>1
    <3> QED
      BY <1>8, <3>1
  <2>2. CASE i > R
    <3>1. i - R \in 1..n /\ front[i] = mid[i - R] /\ v + ((i - R) - 1) = g + i - 1
      BY <1>1, <1>2, <1>3, <1>11, <2>2
    <3> QED
      BY <1>5, <3>1
  <2> QED
    BY <1>1, <1>3, <2>1, <2>2
<1> HIDE DEF front
<1>13. /\ all \in Seq(Sn) /\ Len(all) = R + n + Q
       /\ \A i \in 1..R + n + Q :
             all[i] = IF i <= R + n THEN front[i] ELSE s.snd_queue[i - (R + n)]
  <2>1. all = front \o s.snd_queue
    BY DEF front
  <2> HIDE DEF all
  <2> QED
    BY <1>10, <1>11, <2>1, Joined
<1> HIDE DEF all
<1>14. ASSUME NEW i \in 1..R + n + Q PROVE all[i] = Plus(FirstSn, g + i - 1)
  <2>1. Off(all[i]) = g + i - 1
    <3>1. CASE i <= R + n
      <4>1. i \in 1..R + n /\ all[i] = front[i]
        BY <1>1, <1>3, <1>13, <3>1
      <4> QED
        BY <1>12, <4>1
    <3>2. CASE i > R + n
      <4>1. i - (R + n) \in 1..Q /\ all[i] = s.snd_queue[i - (R + n)]
            /\ x + (i - (R + n)) - 1 = g + i - 1
        BY <1>1, <1>2, <1>3, <1>13, <3>2
      <4> QED
        BY <1>9, <4>1
    <3> QED
      BY <1>1, <1>3, <3>1, <3>2
  <2>2. all[i] \in Sn /\ g + i - 1 \in Nat
    BY <1>1, <1>3, <1>13
  <2> QED
    BY <2>1, <2>2, Numbered
<1>15. R + n + Q = Taken(s) - g
  BY <1>1, <1>2, <1>3
<1>16. all = [i \in 1..Taken(s) - g |-> Plus(FirstSn, g + i - 1)]
  BY <1>13, <1>14, <1>15
<1> QED
  BY <1>7, <1>16 DEF Promised, Span, g

LEMMA SameSequence ==
    ASSUME NEW T, NEW s \in Seq(T), NEW t \in Seq(T), NEW n, Len(s) = n, Len(t) = n,
           \A i \in 1..n : s[i] = t[i]
    PROVE  s = t
  OBVIOUS

Labels == {Plus(FirstSn, i) : i \in Int}

LEMMA SpanOf ==
    ASSUME NEW a \in Nat, NEW b \in Nat, a <= b
    PROVE  /\ Span(a, b) \in Seq(Labels) /\ Len(Span(a, b)) = b - a
           /\ \A j \in 1..b - a : Span(a, b)[j] = Plus(FirstSn, a + j - 1)
<1> DEFINE s == Span(a, b)
<1>1. s = [j \in 1..b - a |-> s[j]] /\ b - a \in Nat
  BY DEF Span
<1>2. ASSUME NEW j \in 1..b - a
      PROVE  s[j] = Plus(FirstSn, a + j - 1) /\ s[j] \in Labels
  <2>1. a + j - 1 \in Int
    OBVIOUS
  <2>2. s[j] = Plus(FirstSn, a + j - 1)
    BY DEF Span
  <2> QED
    BY <2>1, <2>2 DEF Labels
<1> HIDE DEF s
<1>3. s \in Seq(Labels) /\ Len(s) = b - a
  BY <1>1, <1>2, Listed
<1> QED
  BY <1>2, <1>3 DEF s

LEMMA Spans ==
    ASSUME NEW a \in Nat, NEW b \in Nat, a <= b
    PROVE  /\ a = b => Span(a, b) = <<>>
           /\ Span(a, b + 1) = Append(Span(a, b), Plus(FirstSn, b))
           /\ a < b => Span(a, b) # <<>> /\ Span(a + 1, b) = Tail(Span(a, b))
<1> DEFINE s == Span(a, b)
           more == Span(a, b + 1)
           rest == Span(a + 1, b)
           longer == Append(s, Plus(FirstSn, b))
<1>1. /\ s \in Seq(Labels) /\ Len(s) = b - a
      /\ \A j \in 1..b - a : s[j] = Plus(FirstSn, a + j - 1)
  BY SpanOf
<1>2. a <= b + 1 /\ b + 1 \in Nat /\ (b + 1) - a = (b - a) + 1 /\ b - a \in Nat
  OBVIOUS
<1>3. /\ more \in Seq(Labels) /\ Len(more) = (b - a) + 1
      /\ \A j \in 1..(b - a) + 1 : more[j] = Plus(FirstSn, a + j - 1)
  <2>1. /\ more \in Seq(Labels) /\ Len(more) = (b + 1) - a
        /\ \A j \in 1..(b + 1) - a : more[j] = Plus(FirstSn, a + j - 1)
    BY <1>2, SpanOf
  <2> HIDE DEF more
  <2> QED
    BY <1>2, <2>1
<1>4. /\ longer \in Seq(Labels) /\ Len(longer) = (b - a) + 1
      /\ \A j \in 1..b - a : longer[j] = s[j]
      /\ longer[(b - a) + 1] = Plus(FirstSn, b)
  <2>1. Plus(FirstSn, b) \in Labels
    BY DEF Labels
  <2> HIDE DEF s
  <2> QED
    BY <1>1, <2>1, AppendProperties
<1>5. more = longer
  <2> HIDE DEF s, more, longer
  <2>1. \A j \in 1..(b - a) + 1 : more[j] = longer[j]
    <3> TAKE j \in 1..(b - a) + 1
    <3>1. CASE j = (b - a) + 1
      <4>1. a + j - 1 = b
        BY <3>1
      <4> QED
        BY <1>3, <1>4, <3>1, <4>1
    <3>2. CASE j # (b - a) + 1
      <4>1. j \in 1..b - a
        BY <3>2
      <4> QED
        BY <1>1, <1>3, <1>4, <4>1
    <3> QED
      BY <3>1, <3>2
  <2> QED
    BY <1>3, <1>4, <2>1, SameSequence
<1>6. ASSUME a < b PROVE s # <<>> /\ rest = Tail(s)
  <2>1. a + 1 \in Nat /\ a + 1 <= b /\ b - (a + 1) = (b - a) - 1
    BY <1>6
  <2>2. /\ rest \in Seq(Labels) /\ Len(rest) = (b - a) - 1
        /\ \A j \in 1..(b - a) - 1 : rest[j] = Plus(FirstSn, (a + 1) + j - 1)
    <3>1. /\ rest \in Seq(Labels) /\ Len(rest) = b - (a + 1)
          /\ \A j \in 1..b - (a + 1) : rest[j] = Plus(FirstSn, (a + 1) + j - 1)
      BY <2>1, SpanOf
    <3> HIDE DEF rest
    <3> QED
      BY <2>1, <3>1
  <2> HIDE DEF s, rest
  <2>3. s # <<>>
    BY <1>1, <1>6
  <2>4. /\ Tail(s) \in Seq(Labels) /\ Len(Tail(s)) = (b - a) - 1
        /\ \A j \in 1..(b - a) - 1 : Tail(s)[j] = s[j + 1]
    BY <1>1, <2>3, HeadTailProperties
  <2>5. \A j \in 1..(b - a) - 1 : rest[j] = Tail(s)[j]
    <3> TAKE j \in 1..(b - a) - 1
    <3>1. j + 1 \in 1..b - a /\ (a + 1) + j - 1 = a + (j + 1) - 1
      OBVIOUS
    <3> QED
      BY <1>1, <2>2, <2>4, <3>1
  <2> QED
    BY <2>2, <2>3, <2>4, <2>5, SameSequence
<1>7. a = b => s = <<>>
  <2> HIDE DEF s
  <2> QED
    BY <1>1
<1> QED
  BY <1>5, <1>6, <1>7

\* The refinement mapping, in a state and in the next one.
LEMMA UnreadIs ==
    ASSUME LinkInv, NEW e \in Ends
    PROVE  /\ Unread(e) = Span(Given(kcp[e]), Taken(kcp[Peer(e)]))
           /\ Given(kcp[e]) \in Nat /\ Taken(kcp[Peer(e)]) \in Nat
           /\ Given(kcp[e]) <= Taken(kcp[Peer(e)])
<1>1. Linked(kcp[Peer(e)], kcp[e])
  BY EndsLinked, LinkedSymmetric
<1> QED
  BY <1>1, ContentsPromised, Sizes DEF Unread, Promised

LEMMA UnreadNext ==
    ASSUME LinkInv', NEW e \in Ends
    PROVE  Unread(e)' = Span(Given(kcp'[e]), Taken(kcp'[Peer(e)]))
<1>1. Linked(kcp'[Peer(e)], kcp'[e])
  BY LinkedSymmetric DEF LinkInv, Ends, Peer
<1>2. Contents(kcp'[Peer(e)], kcp'[e]) = Promised(kcp'[Peer(e)], kcp'[e])
  BY <1>1, ContentsPromised
<1> QED
  BY <1>2 DEF Unread, Promised

Queue == [e \in Ends |-> Unread(e)]

\* The initial states are those of two empty queues.
LEMMA FifoInit == Init => Abstract!Init
<1> SUFFICES ASSUME Init PROVE Queue = [e \in Ends |-> <<>>]
  BY DEF Abstract!Init, Queue
<1>1. LinkInv /\ \A e \in Ends : Taken(kcp[e]) = 0 /\ Given(kcp[e]) = 0
  BY Starts
<1>2. ASSUME NEW e \in Ends PROVE Unread(e) = <<>>
  <2>1. Given(kcp[e]) = 0 /\ Taken(kcp[Peer(e)]) = 0
    BY <1>1, Peers
  <2>2. Unread(e) = Span(0, 0)
    BY <1>1, <2>1, UnreadIs
  <2> QED
    BY <2>2, Spans
<1> QED
  BY <1>2 DEF Queue

\* A write is a Put for the peer.
LEMMA FifoWrite ==
    ASSUME LinkInv, NEW e \in Ends, Write(e)
    PROVE  Abstract!Put(Peer(e))
<1> DEFINE f == Peer(e)
           m == Plus(FirstSn, Taken(kcp[e]))
<1>1. f \in Ends /\ Peer(f) = e /\ Ends = {e, f} /\ e # f
  BY Peers
<1>2. /\ LinkInv' /\ Taken(kcp'[e]) = Taken(kcp[e]) + 1 /\ Given(kcp'[e]) = Given(kcp[e])
      /\ Taken(kcp[e]) < MaxWrites
  BY WriteStep
<1>3. kcp'[f] = kcp[f]
  <2>1. PICK l : kcp' = [kcp EXCEPT ![e] = l]
    BY WriteStep
  <2> QED
    BY <1>1, <2>1 DEF LinkInv
<1>4. /\ Unread(f) = Span(Given(kcp[f]), Taken(kcp[e]))
      /\ Given(kcp[f]) \in Nat /\ Taken(kcp[e]) \in Nat /\ Given(kcp[f]) <= Taken(kcp[e])
  BY <1>1, UnreadIs
<1>5. Unread(f)' = Span(Given(kcp[f]), Taken(kcp[e]) + 1)
  BY <1>1, <1>2, <1>3, UnreadNext
<1>6. Unread(f)' = Append(Unread(f), m)
  BY <1>4, <1>5, Spans
<1>7. Unread(e)' = Unread(e)
  BY <1>1, <1>2, <1>3, UnreadIs, UnreadNext
<1>8. m \in Messages
  <2>1. Taken(kcp[e]) \in 0..MaxWrites - 1
    BY <1>2, <1>4, Modulus
  <2> QED
    BY <2>1 DEF Messages
<1> HIDE DEF f, m
<1>9. Queue' = [Queue EXCEPT ![f] = Append(Queue[f], m)]
  BY <1>1, <1>6, <1>7 DEF Queue
<1>10. Abstract!Put(f)
  BY <1>8, <1>9 DEF Abstract!Put, Queue
<1> QED
  BY <1>10 DEF f

\* A read is a Take.
LEMMA FifoRead ==
    ASSUME LinkInv, NEW e \in Ends, Read(e)
    PROVE  Abstract!Take(e)
<1> DEFINE f == Peer(e)
<1>1. f \in Ends /\ Peer(f) = e /\ Ends = {e, f} /\ e # f
  BY Peers
<1>2. /\ LinkInv' /\ Taken(kcp'[e]) = Taken(kcp[e]) /\ Given(kcp'[e]) = Given(kcp[e]) + 1
      /\ Len(kcp[e].rcv_queue) > 0
  BY ReadStep
<1>3. kcp'[f] = kcp[f]
  <2>1. PICK l : kcp' = [kcp EXCEPT ![e] = l]
    BY ReadStep
  <2> QED
    BY <1>1, <2>1 DEF LinkInv
<1>4. /\ Unread(e) = Span(Given(kcp[e]), Taken(kcp[f]))
      /\ Given(kcp[e]) \in Nat /\ Taken(kcp[f]) \in Nat
  BY <1>1, UnreadIs
<1>5. Given(kcp[e]) < Taken(kcp[f])
  <2>1. Linked(kcp[e], kcp[f])
    BY EndsLinked
  <2>2. /\ Off(kcp[e].rcv_nxt) \in Nat /\ Len(kcp[e].rcv_queue) \in Nat
        /\ Off(kcp[f].snd_nxt) \in Nat /\ Len(kcp[f].snd_queue) \in Nat
    BY <2>1, Offered, Offsets
  <2>3. /\ Given(kcp[e]) = Off(kcp[e].rcv_nxt) - Len(kcp[e].rcv_queue)
        /\ Taken(kcp[f]) = Off(kcp[f].snd_nxt) + Len(kcp[f].snd_queue)
        /\ Off(kcp[e].rcv_nxt) <= Off(kcp[f].snd_nxt)
    BY <2>1 DEF Given, Taken, Linked, Direction
  <2> QED
    BY <1>2, <2>2, <2>3
<1>6. Unread(e)' = Span(Given(kcp[e]) + 1, Taken(kcp[f]))
  BY <1>1, <1>2, <1>3, UnreadNext
<1>7. Unread(e) # <<>> /\ Unread(e)' = Tail(Unread(e))
  <2>1. Given(kcp[e]) <= Taken(kcp[f])
    BY <1>4, <1>5
  <2> QED
    BY <1>4, <1>5, <1>6, <2>1, Spans
<1>8. Unread(f)' = Unread(f)
  BY <1>1, <1>2, <1>3, UnreadIs, UnreadNext
<1> HIDE DEF f
<1>9. Queue[e] # <<>> /\ Queue' = [Queue EXCEPT ![e] = Tail(Queue[e])]
  BY <1>1, <1>7, <1>8 DEF Queue
<1> QED
  BY <1>9 DEF Abstract!Take, Queue

\* Anything else leaves the queues alone.
LEMMA FifoQuiet ==
    ASSUME LinkInv, LinkInv', Quiet
    PROVE  Queue' = Queue
<1>1. ASSUME NEW e \in Ends PROVE Unread(e)' = Unread(e)
  <2>1. Given(kcp'[e]) = Given(kcp[e]) /\ Taken(kcp'[Peer(e)]) = Taken(kcp[Peer(e)])
    BY Peers DEF Quiet
  <2> QED
    BY <2>1, UnreadIs, UnreadNext
<1> QED
  BY <1>1 DEF Queue

LEMMA FifoStep ==
    ASSUME LinkInv, [Next]_vars
    PROVE  Abstract!Next \/ Queue' = Queue
<1>1. ASSUME NEW e \in Ends, Write(e) PROVE Abstract!Next
  BY <1>1, FifoWrite, Peers DEF Abstract!Next
<1>2. ASSUME NEW e \in Ends, Read(e) PROVE Abstract!Next
  BY <1>2, FifoRead DEF Abstract!Next
<1>3. ASSUME NEW e \in Ends, Update(e) PROVE Queue' = Queue
  BY <1>3, UpdateStep, FifoQuiet
<1>4. ASSUME NEW e \in Ends, NEW i, NEW regular \in BOOLEAN, kcpInput(e, i, regular)
      PROVE  Queue' = Queue
  BY <1>4, InputStepKeeps, FifoQuiet
<1>5. CASE (\E e \in Ends : Lose(e) \/ Repeat(e)) \/ UNCHANGED vars
  BY <1>5, NetworkStep, FifoQuiet
<1>6. "slave" \in Ends /\ "master" \in Ends
  BY DEF Ends
<1> QED
  BY <1>1, <1>2, <1>3, <1>4, <1>5, <1>6
  DEF Next, SlaveWrite, SlaveRead, SlaveUpdate, SlaveInput,
      MasterWrite, MasterRead, MasterUpdate, MasterInput

\* A session delivers every message once and in order: kcp.go under sess.go implements a
\* pair of reliable queues, for any windows, any faults of the network and any first number.
THEOREM Delivery == Spec => ReliableFifo
<1>1. Init => Abstract!Init
  BY FifoInit
<1>2. LinkInv /\ [Next]_vars => [Abstract!Next]_Queue
  BY FifoStep
<1> QED
  BY <1>1, <1>2, Invariance, PTL DEF Spec, ReliableFifo, Abstract!Spec, Queue
=============================================================================
