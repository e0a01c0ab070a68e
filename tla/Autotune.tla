------------------------------ MODULE Autotune ------------------------------
(***************************************************************************)
(* How a decoder finds out the encoder's parameters, autotune.go: data shards *)
(* and parity shards, in the order of their numbers, are the two levels of a  *)
(* signal, kept in a ring; the length of one level is the number of shards of *)
(* that kind in a group.                                                     *)
(***************************************************************************)
EXTENDS Integers, FiniteSetsExt

CONSTANTS
    Wrap,               \* numbers are unsigned integers modulo Wrap (2^32)
    maxAutoTuneSamples  \* 258 in the code

ASSUME AutotuneAssumption ==
    Wrap \in Nat \ {0} /\ maxAutoTuneSamples \in Nat \ {0} /\ maxAutoTuneSamples <= Wrap

Slots == 0 .. maxAutoTuneSamples - 1

\* A ring nothing was put into: all slots hold a 0 numbered 0.
NoPulses == [i \in Slots |-> [bit |-> FALSE, seq |-> 0]]

\* Only numbers from that of slot 0 on, up to a ring's length, are taken.
Sample(pulses, bit, seq) ==
    IF seq >= pulses[0].seq /\ seq <= (pulses[0].seq + maxAutoTuneSamples) % Wrap
    THEN [pulses EXCEPT ![seq % maxAutoTuneSamples] = [bit |-> bit, seq |-> seq]]
    ELSE pulses

Continuous(pulses, i) == (pulses[i - 1].seq + 1) % Wrap = pulses[i].seq

\* The first slot at which the level begins; slot 0 if it begins nowhere.
LeftEdge(pulses, bit) ==
    LET edges == {i \in Slots \ {0} : /\ pulses[i - 1].bit # bit /\ pulses[i].bit = bit
                                      /\ Continuous(pulses, i)}
    IN  IF edges = {} THEN 0 ELSE Min(edges)

\* Mutant: the numbers in a level need not be continuous.
FindPeriod_Gaps(pulses, bit) ==
    LET left == LeftEdge(pulses, bit)
        stops == {i \in left + 1 .. maxAutoTuneSamples - 1 :
                     pulses[i - 1].bit = bit /\ pulses[i].bit # bit}
    IN  IF stops = {} THEN -left ELSE Min(stops) - left

\* How long the level lasts from there; nothing above 0 if a number is missing
\* before its end or the ring ends first.
FindPeriod(pulses, bit) ==
    LET left == LeftEdge(pulses, bit)
        stops == {i \in left + 1 .. maxAutoTuneSamples - 1 :
                     \/ ~Continuous(pulses, i)
                     \/ pulses[i - 1].bit = bit /\ pulses[i].bit # bit}
    IN  IF stops = {} THEN -left
        ELSE IF Continuous(pulses, Min(stops)) THEN Min(stops) - left
        ELSE -1
=============================================================================
