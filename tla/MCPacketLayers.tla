--------------------------- MODULE MCPacketLayers ---------------------------
(* Instances of Fec and Crypt for TLC.  The two are the optional layers that a    *)
(* packet of KCP passes one after the other; they share no state, so a behaviour   *)
(* is one of the FEC layer or one of the crypto layer.                            *)
EXTENDS Fec, Crypt

\* The decoder given the encoder's parameters, with the numbers about to wrap; and
\* given others, from the beginning.
MCStarts == {[next |-> 27, dataShards |-> 2, parityShards |-> 1],
             [next |-> 0, dataShards |-> 2, parityShards |-> 2]}

-----------------------------------------------------------------------------
\* Blocks of one and two bits.
Lens == [block8 |-> 1, block16 |-> 2]

\* A permutation of the blocks that is not linear in the first bit.
Permute(b) ==
    IF Len(b) = 1 THEN [b EXCEPT ![1] = 1 - @]
    ELSE CASE b = <<0, 0>> -> <<0, 1>> [] b = <<0, 1>> -> <<1, 1>>
           [] b = <<1, 1>> -> <<1, 0>> [] OTHER -> <<0, 0>>

Follow(nonce) == <<1 - nonce[1], nonce[1], 1>>
Key32 == <<1, 0, 1>>

\* n blocks of length l, and a last piece.
Packets(n, l) ==
    {Append(s, t) : s \in [1..n -> Block(l)], t \in UNION {Block(k) : k \in 0..l - 1}}

Inputs ==
    [block8 |-> UNION {Packets(n, 1) : n \in 0..7},
     block16 |-> UNION {Packets(n, 2) : n \in 0..4},
     salsa20 |-> {<<a, b>> : a \in Block(1), b \in UNION {Block(k) : k \in 0..3}},
     simpleXOR |-> {<<b>> : b \in UNION {Block(k) : k \in 0..3}},
     none |-> {<<b>> : b \in UNION {Block(k) : k \in 0..3}}]

-----------------------------------------------------------------------------
VARIABLE layer  \* the layer this behaviour is about; the other one rests

LayersInit ==
    /\ layer \in {"fec", "crypt"}
    /\ Init /\ CryptInit
    /\ layer = "fec" => method = "none" /\ ~same /\ given = <<<<>>>>
    /\ layer = "crypt" => nextSeq = 0

FecLayer == layer = "fec" /\ Next /\ UNCHANGED <<cryptVars, layer>>
CryptLayer == layer = "crypt" /\ CryptNext /\ UNCHANGED <<vars, layer>>

LayersSpec == LayersInit /\ [][FecLayer \/ CryptLayer]_<<vars, cryptVars, layer>>
=============================================================================
