--------------------------------- MODULE Crypt ---------------------------------
(***************************************************************************)
(* The ciphers of crypt.go: a packet is encrypted and the result decrypted,  *)
(* each time from src into dst, which may be the same memory.  Both programs *)
(* pass no cipher to kcp; the sessions call these with dst and src the same. *)
(*                                                                         *)
(* Data is the sequence of its blocks and a last piece shorter than a block, *)
(* which may be empty; the words and vectors in which the code does the xor  *)
(* are left out, and so are the ciphers themselves: a block of bits goes     *)
(* through an unknown function Cipher.  The buffers of a BlockCrypt have one *)
(* user here.                                                                *)
(***************************************************************************)
EXTENDS Integers, Sequences

CONSTANTS
    Cipher(_),  \* what block.Encrypt makes of a block
    Stream(_),  \* the key stream that belongs to a nonce
    Table,      \* xortbl, as long as the longest packet
    BlockLen,   \* block method -> length of its blocks (8 and 16)
    Unroll,     \* blocks in one round of the unrolled loops (8)
    Messages    \* method -> the packets it is given

BlockMethods == {"block8", "block16"}
Methods == BlockMethods \cup {"salsa20", "simpleXOR", "none"}

Bit == {0, 1}
Block(n) == [1..n -> Bit]
Pieces == Seq(Bit)

\* The first bits of the vector serve the shorter blocks.
initialVector(m) == [i \in 1..BlockLen[m] |-> i % 2]

ASSUME CryptAssumption ==
    /\ BlockLen \in [BlockMethods -> Nat \ {0}]
    /\ Unroll \in Nat /\ Unroll > 0 /\ Unroll % 2 = 0
    /\ \A m \in BlockMethods :
        /\ \A b \in Block(BlockLen[m]) : Cipher(b) \in Block(BlockLen[m])
        /\ \A p \in Messages[m] :
            /\ p # <<>> /\ Len(p[Len(p)]) < BlockLen[m]
            /\ \A i \in 1..Len(p) - 1 : Len(p[i]) = BlockLen[m]
    /\ \A m \in Methods : \A p \in Messages[m] : p \in Seq(Pieces)
    /\ \A p \in Messages["salsa20"] :
        /\ Len(p) = 2
        /\ Stream(p[1]) \in Pieces /\ Len(Stream(p[1])) >= Len(p[2])
    /\ \A p \in Messages["simpleXOR"] : Len(p) = 1 /\ Len(p[1]) <= Len(Table)
    /\ Table \in Pieces

VARIABLES
    method,  \* the BlockCrypt in use
    same,    \* do dst and src share their memory?
    given,   \* the packet given to Encrypt
    sealed,  \* what Encrypt made of it
    src, dst,
    tbl, next,  \* the halves of the buffer: cipher outputs
    base,    \* blocks done
    turn       \* "encrypt", "decrypt", "done"

cryptVars == <<method, same, given, sealed, src, dst, tbl, next, base, turn>>

Xor(a, b) == IF a = b THEN 0 ELSE 1

\* As far as both reach.
xorBytes(a, b) ==
    [i \in 1..(IF Len(b) < Len(a) THEN Len(b) ELSE Len(a)) |-> Xor(a[i], b[i])]

\* A buffer of the same size that holds something else.
Blank(p) == [i \in DOMAIN p |-> [j \in DOMAIN p[i] |-> 0]]

\* n, the number of whole blocks.
Blocks == Len(src) - 1

\* The blocks that the rounds of Unroll cover.
Rounds == (Blocks \div Unroll) * Unroll

CryptInit ==
    /\ method \in Methods /\ same \in BOOLEAN
    /\ given \in Messages[method]
    /\ sealed = <<>>
    /\ src = given
    /\ dst = IF same THEN src ELSE Blank(src)
    /\ tbl = IF method \in BlockMethods THEN Cipher(initialVector(method)) ELSE <<>>
    /\ next = tbl
    /\ base = 0
    /\ turn = "encrypt"

\* dst becomes d, and with it src where they share their memory.
Store(d) ==
    /\ dst' = d
    /\ src' = IF same THEN d ELSE src

Put(i, piece) == Store([dst EXCEPT ![i] = piece])

\* A call is over: after Encrypt its result goes to Decrypt.
Finish(d) ==
    IF turn = "encrypt"
    THEN /\ sealed' = d
         /\ src' = d
         /\ dst' = IF same THEN d ELSE Blank(d)
         /\ tbl' = IF method \in BlockMethods THEN Cipher(initialVector(method)) ELSE <<>>
         /\ base' = 0
         /\ turn' = "decrypt"
         /\ UNCHANGED <<method, same, given, next>>
    ELSE /\ Store(d)
         /\ turn' = "done"
         /\ UNCHANGED <<method, same, given, sealed, tbl, next, base>>

-----------------------------------------------------------------------------
(* The block ciphers, in CFB mode. *)

\* What is left of the last block, if anything.
LastPiece ==
    /\ base = Blocks
    /\ Finish([dst EXCEPT ![base + 1] = xorBytes(src[base + 1], tbl)])

\* Mutant: the key stream follows the plain text.
EncryptBlock_FromSource ==
    /\ base < Blocks
    /\ Put(base + 1, xorBytes(src[base + 1], tbl))
    /\ tbl' = Cipher(src[base + 1])
    /\ base' = base + 1
    /\ UNCHANGED <<method, same, given, sealed, next, turn>>

\* A step of the unrolled loop, or a case of the switch after it.
EncryptBlock ==
    /\ base < Blocks
    /\ Put(base + 1, xorBytes(src[base + 1], tbl))
    /\ tbl' = Cipher(dst'[base + 1])
    /\ base' = base + 1
    /\ UNCHANGED <<method, same, given, sealed, next, turn>>

encrypt8 == method = "block8" /\ turn = "encrypt" /\ (EncryptBlock \/ LastPiece)
encrypt16 == method = "block16" /\ turn = "encrypt" /\ (EncryptBlock \/ LastPiece)

\* Two steps of the unrolled loop: next, then tbl, is computed from the source
\* before the block is overwritten.
DecryptPair ==
    /\ base < Rounds
    /\ next' = Cipher(src[base + 1])
    /\ tbl' = Cipher(src[base + 2])
    /\ Store([dst EXCEPT ![base + 1] = xorBytes(src[base + 1], tbl),
                         ![base + 2] = xorBytes(src[base + 2], next')])
    /\ base' = base + 2
    /\ UNCHANGED <<method, same, given, sealed, turn>>

\* Mutant: the block is overwritten first.
DecryptBlock_Late ==
    /\ Rounds <= base /\ base < Blocks
    /\ Put(base + 1, xorBytes(src[base + 1], tbl))
    /\ tbl' = Cipher(src'[base + 1]) /\ next' = tbl
    /\ base' = base + 1
    /\ UNCHANGED <<method, same, given, sealed, turn>>

\* A case of the switch: the buffers change their roles.
DecryptBlock ==
    /\ Rounds <= base /\ base < Blocks
    /\ Put(base + 1, xorBytes(src[base + 1], tbl))
    /\ tbl' = Cipher(src[base + 1]) /\ next' = tbl
    /\ base' = base + 1
    /\ UNCHANGED <<method, same, given, sealed, turn>>

decrypt8 ==
    method = "block8" /\ turn = "decrypt" /\ (DecryptPair \/ DecryptBlock \/ LastPiece)
decrypt16 ==
    method = "block16" /\ turn = "decrypt" /\ (DecryptPair \/ DecryptBlock \/ LastPiece)

-----------------------------------------------------------------------------
(* The others do the same for both directions. *)

\* The first piece is the nonce, which stays readable.
salsa20 ==
    /\ method = "salsa20" /\ turn # "done"
    /\ Finish(<<src[1], xorBytes(src[2], Stream(src[1]))>>)

simpleXOR ==
    /\ method = "simpleXOR" /\ turn # "done"
    /\ Finish(<<xorBytes(src[1], Table)>>)

none ==
    /\ method = "none" /\ turn # "done"
    /\ Finish(src)

CryptNext == encrypt8 \/ encrypt16 \/ decrypt8 \/ decrypt16 \/ salsa20 \/ simpleXOR \/ none

CryptSpec == CryptInit /\ [][CryptNext]_cryptVars

-----------------------------------------------------------------------------
\* The cipher output that goes with piece i of the cipher text c.
Key(c, i) == IF i = 1 THEN Cipher(initialVector(method)) ELSE Cipher(c[i - 1])

\* What is encrypted, and what will be, is the textbook's cipher feedback: every
\* piece is xored with the cipher of the encrypted block before it.
CipherFeedback ==
    method \in BlockMethods =>
        LET c == IF turn = "encrypt" THEN dst ELSE sealed
            n == IF turn = "encrypt" THEN base ELSE Len(given)
        IN  /\ \A i \in 1..n : c[i] = xorBytes(given[i], Key(c, i))
            /\ turn = "encrypt" => \A i \in n + 1..Len(given) : src[i] = given[i]

\* What was encrypted comes back, in place or not, and a source that is not the
\* destination is left alone.
Restored ==
    /\ turn = "decrypt" /\ method \in BlockMethods => \A i \in 1..base : dst[i] = given[i]
    /\ turn = "done" => dst = given /\ (~same => src = sealed)
=============================================================================
