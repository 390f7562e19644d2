-------------------------------- MODULE Cipher --------------------------------
(***************************************************************************)
(* The ChaCha20 stream cipher as the coder uses it: which bytes of the key *)
(* stream a call of XORKeyStream takes and where it leaves the cipher      *)
(* (src/lib/chacha20/chacha20.go, chacha20_ref.go).                        *)
(*                                                                         *)
(* The key stream itself is opaque.  Its byte n under key half h is named  *)
(* <<h, n>>: the twenty rounds are a function of the state, and the words  *)
(* of the state that change are the counter x[12] and its carry x[13].     *)
(***************************************************************************)
EXTENDS Integers, Sequences

CONSTANTS
    BlockSize,      \* bytes of a block (64)
    Words           \* values of a word of the state (2^32)

ASSUME CipherAssumption ==
    /\ BlockSize \in Nat \ {0}
    /\ Words \in Nat \ {0}

Least(a, b) == IF a < b THEN a ELSE b
Word == 0 .. Words - 1

Ciphers == [half : {"low", "high"}, x8 : Word, x12 : Word, x13 : Word,
            off : 0 .. BlockSize, buf : 0 .. Words * Words - 1]

\* ReKey: the counter is zero, the word above it is the first of the nonce,
\* and nothing is buffered.
NewCipher(half, x8, nonce) ==
    [half |-> half, x8 |-> x8, x12 |-> 0, x13 |-> nonce, off |-> BlockSize,
     buf |-> 0]

\* The number of the i-th block from here, the carry going into x[13].
Block(c, i) == (c.x13 * Words + c.x12 + i) % (Words * Words)

\* blocksFn refuses to make n more blocks.  The code looks at x[8], a word of
\* the key, where the counter is x[12].
LimitReached(c, n) == c.x8 + n > Words - 1

\* A call for len bytes takes what is buffered, then whole blocks at once,
\* then the first bytes of one more block, which it buffers.
Buffered(c, len) == Least(BlockSize - c.off, len)
Direct(c, len) == (len - Buffered(c, len)) \div BlockSize
Rest(c, len)   == (len - Buffered(c, len)) % BlockSize

Panics(c, len) ==
    \/ Direct(c, len) > 0 /\ LimitReached(c, Direct(c, len))
    \/ Rest(c, len) > 0 /\ LimitReached(c, 1)

\* The key-stream bytes that the call XORs, in order.
KeyBytes(c, len) ==
    [i \in 1 .. len |->
        LET past == i - Buffered(c, len) - 1
        IN  <<c.half,
              IF past < 0 THEN c.buf * BlockSize + c.off + i - 1
              ELSE Block(c, past \div BlockSize) * BlockSize + (past % BlockSize)>>]

\* The cipher once n blocks were made.
Advance(c, n) ==
    [c EXCEPT !.x12 = Block(c, n) % Words, !.x13 = Block(c, n) \div Words]

\* Mutant: the counter moves on by one for all the blocks made at once.
AfterOne(c, len) ==
    LET made == Advance(c, Least(1, Direct(c, len)) + Least(1, Rest(c, len)))
    IN  IF Rest(c, len) > 0
          THEN [made EXCEPT !.off = Rest(c, len), !.buf = Block(c, Direct(c, len))]
          ELSE [made EXCEPT !.off = c.off + Buffered(c, len)]

\* Mutant: what is left of the buffered block is thrown away.
AfterDropsRest(c, len) ==
    [Advance(c, Direct(c, len) + Least(1, Rest(c, len))) EXCEPT !.off = BlockSize]

\* The cipher after the call.
After(c, len) ==
    LET made == Advance(c, Direct(c, len) + Least(1, Rest(c, len)))
    IN  IF Rest(c, len) > 0
          THEN [made EXCEPT !.off = Rest(c, len), !.buf = Block(c, Direct(c, len))]
          ELSE [made EXCEPT !.off = c.off + Buffered(c, len)]
===============================================================================
