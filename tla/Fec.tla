--------------------------------- MODULE Fec ---------------------------------
(***************************************************************************)
(* Forward error correction between the two ends of a session, fec.go: the   *)
(* encoder numbers the packets and adds parity shards to every dataShards    *)
(* of them, the decoder keeps what it gets ordered and rebuilds lost data    *)
(* shards of a group as soon as it has dataShards of its shards.             *)
(*                                                                         *)
(* The Reed-Solomon codec is taken at its word: any dataShards shards of one *)
(* group give back the rest, others, and those of another code, give garbage. *)
(* In the programs Listen and Dial give both ends the same parameters; the    *)
(* decoder may also begin with others and find out the encoder's (Autotune).  *)
(***************************************************************************)
EXTENDS Autotune, Sequences, FiniteSets, SequencesExt

CONSTANTS
    dataShards, parityShards,   \* of the encoder
    rxFECMulti,     \* the decoder keeps this many groups' worth of shards
    Starts,         \* how a run begins: the encoder's next number, a multiple of
                    \* shardSize, and the decoder's parameters
    MaxPackets,     \* bound: packets KCP puts out
    MaxNet,         \* bound: shards under way
    MaxFaults       \* bound: shards lost or repeated, and pauses of fecExpire

shardSize == dataShards + parityShards

Positive == Nat \ {0}

ASSUME FecAssumption ==
    /\ dataShards \in Positive /\ parityShards \in Positive /\ rxFECMulti \in Positive
    /\ Starts \subseteq [next : Nat, dataShards : Positive, parityShards : Positive]
    /\ \A s \in Starts :
           /\ s.next < ((Wrap - 1) \div shardSize) * shardSize /\ s.next % shardSize = 0
           /\ Wrap > 2 * (rxFECMulti * (s.dataShards + s.parityShards) + MaxNet + shardSize)

VARIABLES
    nextSeq,    \* the encoder: next
    shardCount, \* and shardCount
    sent,       \* shards stamped so far; those skipped count too
    packets,    \* packets KCP has put out
    net,        \* shards under way
    faults,     \* shards lost and repeated and pauses so far
    rx,         \* the decoder: ordered receive queue
    dec,        \* the decoder's dataShards and parityShards
    shouldTune,
    pulses,     \* autoTune
    arrived,    \* history: shards decode was given since dec last changed, or had then
    rebuilt,    \* history: data shards recovered by a decoder with the encoder's
                \* parameters (what others make is garbage)
    garbled,    \* history: such a decoder took shards of two groups together
    expired     \* history: shards dropped for their age

encVars == <<nextSeq, shardCount, sent, packets>>
netVars == <<net, faults>>
decVars == <<rx, dec, shouldTune, pulses>>
history == <<arrived, rebuilt, garbled, expired>>
vars == <<encVars, netVars, decVars, history>>

_itimediff(later, earlier) ==
    LET d == (later - earlier) % Wrap
    IN  IF d < Wrap \div 2 THEN d ELSE d - Wrap

\* The largest multiple of shardSize: numbering starts anew there.
paws == ((Wrap - 1) \div shardSize) * shardSize

\* A shard: its number, its type, and which of all shards it is.
Shard(seqid, flag, n) == [seqid |-> seqid, flag |-> flag, n |-> n, old |-> FALSE]
Group(e) == e.n \div shardSize

\* The decoder's own shardSize and rxlimit.
SizeOf(d) == d.dataShards + d.parityShards
rxlimit(d) == rxFECMulti * SizeOf(d)

Own == [dataShards |-> dataShards, parityShards |-> parityShards]

\* markData and markParity of an encoder with parameters d.
Expected(seqid, d) == IF seqid % SizeOf(d) < d.dataShards THEN "data" ELSE "parity"

\* The ring once all shards before number next have come.
Sampled(next) ==
    [i \in Slots |->
        LET seqs == {k \in 0 .. next - 1 : k % maxAutoTuneSamples = i}
        IN  IF seqs = {} THEN NoPulses[i]
            ELSE [bit |-> Expected(Max(seqs), Own) = "data", seq |-> Max(seqs)]]

Init ==
    /\ \E s \in Starts :
           /\ nextSeq = s.next
           /\ dec = [dataShards |-> s.dataShards, parityShards |-> s.parityShards]
           /\ pulses = Sampled(s.next)
    /\ shardCount = 0 /\ sent = 0 /\ packets = 0
    /\ net = {} /\ faults = 0
    /\ rx = <<>> /\ shouldTune = FALSE
    /\ arrived = {} /\ rebuilt = {} /\ garbled = FALSE /\ expired = {}

-----------------------------------------------------------------------------
(* encode: a data shard, and the parity shards after the last of a group     *)
(* unless the group took too long; the numbers go on either way.              *)

Stamp(k) == (nextSeq + k) % paws

encode ==
    /\ packets < MaxPackets
    /\ packets' = packets + 1
    /\ LET full == shardCount + 1 = dataShards
           data == {Shard(Stamp(0), "data", sent)}
           parity == {Shard(Stamp(k), "parity", sent + k) : k \in 1..parityShards}
           step == IF full THEN 1 + parityShards ELSE 1
       IN  /\ net' \in {net \cup data} \cup (IF full THEN {net \cup data \cup parity} ELSE {})
           /\ Cardinality(net') <= MaxNet
           /\ nextSeq' = Stamp(step)
           /\ sent' = sent + step
           /\ shardCount' = IF full THEN 0 ELSE shardCount + 1
    /\ UNCHANGED <<faults, decVars, history>>

-----------------------------------------------------------------------------
(* decode *)

\* What the signal says of the parameters, if both levels are found.
Detected(p) ==
    LET auto == [dataShards |-> FindPeriod(p, TRUE), parityShards |-> FindPeriod(p, FALSE)]
    IN  IF auto.dataShards \in 1 .. 255 /\ auto.parityShards \in 1 .. 255 THEN {auto} ELSE {}

\* Where the shard goes in the ordered queue.
Position(in) ==
    LET before == {i \in DOMAIN rx : _itimediff(in.seqid, rx[i].seqid) > 0}
    IN  IF before = {} THEN 1 ELSE 1 + (CHOOSE i \in before : \A j \in before : j <= i)

Duplicate(in) == \E i \in DOMAIN rx : rx[i].seqid = in.seqid

InGroup(e, in, d) ==
    LET begin == in.seqid - (in.seqid % SizeOf(d))
    IN  /\ _itimediff(e.seqid, begin + SizeOf(d) - 1) <= 0
        /\ _itimediff(e.seqid, begin) >= 0

\* Mutant: the search ends a group's size after the shard itself, and begins there.
Reach_Forward(q, pos, in, d) == {i \in DOMAIN q : i >= pos /\ i <= pos + SizeOf(d) - 1}

\* The part of the queue a group can be in, searchBegin to searchEnd.
Reach(q, pos, in, d) ==
    LET begin == Max({1, pos - (in.seqid % SizeOf(d))})
    IN  {i \in DOMAIN q : i >= begin /\ i <= begin + SizeOf(d) - 1}

WorkingSet(q, pos, in, d) ==
    LET reach == Reach(q, pos, in, d)
    IN  IF Cardinality(reach) < d.dataShards THEN {} ELSE {i \in reach : InGroup(q[i], in, d)}

\* The data shards the codec puts in the places that are empty.
Rebuilt(shards, in) ==
    {Group(in) * shardSize + k : k \in
        {l \in 0..dataShards - 1 : \A e \in shards : e.seqid % shardSize # l}}

Without(q, idx) == LET kept == SetToSortSeq(DOMAIN q \ idx, <)
                   IN  [i \in DOMAIN kept |-> q[kept[i]]]

\* Mutant: a queue that is too long is emptied.
Prune_All(q, d) == IF Len(q) > rxlimit(d) THEN <<>> ELSE q

\* One shard too many: the oldest goes.
Prune(q, d) == IF Len(q) > rxlimit(d) THEN Tail(q) ELSE q

\* Those that came more than fecExpire ago, up to the first that did not.
Expired(q) == {i \in DOMAIN q : \A j \in 1..i : q[j].old}

Insert(in, d) ==
    LET pos == Position(in)
        q == InsertAt(rx, pos, in)
        work == WorkingSet(q, pos, in, d)
        shards == {q[i] : i \in work}
        complete == Cardinality({e \in shards : e.flag = "data"}) = d.dataShards
        enough == Cardinality(work) >= d.dataShards
        q1 == IF complete \/ enough THEN Without(q, work) ELSE q
        q2 == Prune(q1, d)
    IN  /\ rx' = Without(q2, Expired(q2))
        /\ expired' = expired \cup {q2[i].n : i \in Expired(q2)}
        /\ IF enough /\ ~complete /\ d = Own
           THEN /\ rebuilt' = rebuilt \cup Rebuilt(shards, in)
                /\ garbled' = (garbled \/ \E e \in shards : Group(e) # Group(in))
           ELSE UNCHANGED <<rebuilt, garbled>>

\* Out of sync the decoder tries to find the parameters with every shard it gets,
\* and drops it if it does not or finds those it has.
decode(in) ==
    LET off == shouldTune \/ in.flag # Expected(in.seqid, dec)
        found == IF off THEN Detected(pulses') \ {dec} ELSE {}
    IN  /\ pulses' = Sample(pulses, in.flag = "data", in.seqid)
        /\ dec' = IF found = {} THEN dec ELSE CHOOSE d \in found : TRUE
        /\ shouldTune' = (off /\ found = {})
        /\ arrived' = (IF found = {} THEN arrived ELSE {e.n : e \in Range(rx)}) \cup {in.n}
        /\ IF shouldTune' \/ Duplicate(in)
           THEN UNCHANGED <<rx, rebuilt, garbled, expired>>
           ELSE Insert(in, dec')

-----------------------------------------------------------------------------
(* The network, and time. *)

Fault == faults < MaxFaults /\ faults' = faults + 1

Deliver(in) ==
    /\ decode(in)
    /\ \/ net' = net \ {in} /\ UNCHANGED faults
       \/ Fault /\ UNCHANGED net
    /\ UNCHANGED encVars

Lose ==
    /\ Fault
    /\ \E e \in net : net' = net \ {e}
    /\ UNCHANGED <<encVars, decVars, history>>

Pause ==
    /\ rx # <<>> /\ Fault
    /\ rx' = [i \in DOMAIN rx |-> [rx[i] EXCEPT !.old = TRUE]]
    /\ UNCHANGED <<encVars, net, dec, shouldTune, pulses, history>>

Next ==
    \/ encode
    \/ \E in \in net : Deliver(in)
    \/ Lose \/ Pause

Spec == Init /\ [][Next]_vars

-----------------------------------------------------------------------------
(* Properties *)

\* Types; "ordered receive queue" and "queue size limit".
TypeOK ==
    /\ nextSeq \in 0..paws - 1 /\ shardCount \in 0..dataShards - 1
    /\ sent \in Nat /\ packets \in 0..MaxPackets /\ faults \in 0..MaxFaults
    /\ dec \in [dataShards : Positive, parityShards : Positive]
    /\ pulses \in [Slots -> [bit : BOOLEAN, seq : 0..Wrap - 1]]
    /\ {shouldTune, garbled} \subseteq BOOLEAN
    /\ \A i, j \in DOMAIN rx : i < j => _itimediff(rx[j].seqid, rx[i].seqid) > 0

\* "check if FEC parameters is out of sync", "try to detect the pattern in the signal":
\* a decoder that has the encoder's parameters never thinks otherwise, also after the
\* numbers have wrapped; and one that has others takes on nothing but the encoder's,
\* once a shard numbered for slot 0 has come: the empty slot passes for a parity shard.
InTune ==
    [][/\ dec' = Own => ~shouldTune'
       /\ dec' # dec => dec' = Own \/ pulses'[0] = NoPulses[0]]_vars

GroupOf(g) == g * shardSize..g * shardSize + shardSize - 1
DataOf(g) == g * shardSize..g * shardSize + dataShards - 1

Newest == IF arrived = {} THEN 0 ELSE CHOOSE n \in arrived : \A m \in arrived : m <= n

\* "if we have enough shards to recover, we can recover the data": once
\* dataShards different shards of a group have arrived all its data is there,
\* unless some expired or newer shards had pushed them out; and what is
\* recovered is the group's data, made of shards of that group only.
Recovered ==
    dec = Own =>
    /\ ~garbled
    /\ \A g \in 0..sent \div shardSize :
           /\ Cardinality(arrived \cap GroupOf(g)) >= dataShards
           /\ expired \cap GroupOf(g) = {}
           /\ Newest - g * shardSize < rxlimit(Own)
           => DataOf(g) \subseteq arrived \cup rebuilt

\* "FEC keeps rxFECMulti*(dataShard+parityShard) ordered packets in memory": no
\* shard is dropped before one rxlimit newer has come, but with its group.
KeepsWindow ==
    [][dec' = Own => \A i \in DOMAIN rx :
        LET n == rx[i].n IN
        \/ \E j \in DOMAIN rx' : rx'[j].n = n
        \/ n \in expired'
        \/ \E m \in arrived' : m - n >= rxlimit(dec)
        \/ DataOf(Group(rx[i])) \subseteq arrived' \cup rebuilt']_vars
=============================================================================
