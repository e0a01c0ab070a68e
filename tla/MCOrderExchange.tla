--------------------------- MODULE MCOrderExchange ---------------------------
(* Instances of OrderExchange for TLC. *)
EXTENDS OrderExchange, TLC

CONSTANTS h1, h2, h3, c1, c2, c3, c4

OneHost == (c1 :> h1)

\* Two sessions from one host: a slave that restarts, or two slaves on it.
SharedHost == (c1 :> h1) @@ (c2 :> h1)

\* Beside them a slave on each of two other hosts.
Mixed == SharedHost @@ (c3 :> h2) @@ (c4 :> h3)

\* The two sessions of the first host may be exchanged, and so may the two other
\* hosts together with their sessions.
Hosts23 == (h2 :> h3) @@ (h3 :> h2) @@ (c3 :> c4) @@ (c4 :> c3)

Symm == Permutations({c1, c2}) \cup {p @@ Hosts23 : p \in Permutations({c1, c2})}

\* Bound: no slave gives up a read, handlers time out in one session at most, and
\* nothing is followed after the master has died.
Calm ==
    /\ ~panicked
    /\ \A c \in Conns : gaveUp[c] = 0
    /\ \A c, d \in Conns : timedOut[c] > 0 /\ timedOut[d] > 0 => c = d
=============================================================================
