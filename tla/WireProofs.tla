----------------------------- MODULE WireProofs -----------------------------
(***************************************************************************)
(* Proofs about Wire and Cipher, for blocks, words and fields of any size, *)
(* any key and nonce, any frame size, any lengths of the calls and any     *)
(* pieces in which the connection delivers.                                *)
(***************************************************************************)
EXTENDS Wire, SequenceTheorems, FiniteSetTheorems, TLAPS

-----------------------------------------------------------------------------
(* Numbers *)

\* Quotient and remainder.
LEMMA DivMod ==
    ASSUME NEW a \in Nat, NEW n \in Nat \ {0}
    PROVE  /\ a \div n \in Nat /\ a % n \in 0 .. n - 1
           /\ a = n * (a \div n) + (a % n)
OBVIOUS

\* A product grows with its factor by whole steps.
LEMMA Times ==
    ASSUME NEW a \in Nat, NEW b \in Nat, NEW n \in Nat, a < b
    PROVE  n * a + n <= n * b
<1>1. PICK d \in Nat : b = a + 1 + d
  <2>1. b - a - 1 \in Nat /\ b = a + 1 + (b - a - 1)
    OBVIOUS
  <2> QED
    BY <2>1
<1>2. n * b = n * a + n + n * d
  BY <1>1
<1>3. n * d \in Nat /\ n * a \in Nat
  OBVIOUS
<1> QED
  BY <1>2, <1>3

\* They are the only ones.
LEMMA DivModUnique ==
    ASSUME NEW n \in Nat \ {0}, NEW q \in Nat, NEW r \in 0 .. n - 1
    PROVE  (n * q + r) \div n = q /\ (n * q + r) % n = r
<1> DEFINE a == n * q + r
<1>1. n * q \in Nat /\ a \in Nat
  OBVIOUS
<1>2. PICK u \in Nat, v \in 0 .. n - 1 : u = a \div n /\ v = a % n /\ a = n * u + v
  BY <1>1, DivMod
<1>3. n * u \in Nat
  OBVIOUS
<1>4. ~(u < q) /\ ~(q < u)
  <2>1. ASSUME u < q PROVE FALSE
    <3>1. n * u + n <= n * q
      BY <2>1, Times
    <3> QED
      BY <1>1, <1>2, <1>3, <3>1
  <2>2. ASSUME q < u PROVE FALSE
    <3>1. n * q + n <= n * u
      BY <2>2, Times
    <3> QED
      BY <1>1, <1>2, <1>3, <3>1
  <2> QED
    BY <2>1, <2>2
<1>5. u = q
  BY <1>4
<1> QED
  BY <1>1, <1>2, <1>3, <1>5

\* A multiple of the modulus does not count.
LEMMA ModShift ==
    ASSUME NEW a \in Nat, NEW n \in Nat \ {0}, NEW k \in Nat
    PROVE  (a + n * k) % n = a % n
<1>1. PICK q \in Nat, r \in 0 .. n - 1 : q = a \div n /\ r = a % n /\ a = n * q + r
  BY DivMod
<1>2. a + n * k = n * (q + k) + r
  BY <1>1
<1>3. (n * (q + k) + r) % n = r
  BY DivModUnique
<1> QED
  BY <1>1, <1>2, <1>3

\* Nor does it matter when the modulus is taken.
LEMMA ModAdd ==
    ASSUME NEW a \in Nat, NEW b \in Nat, NEW n \in Nat \ {0}
    PROVE  ((a % n) + b) % n = (a + b) % n
<1>1. PICK q \in Nat, r \in 0 .. n - 1 : q = a \div n /\ r = a % n /\ a = n * q + r
  BY DivMod
<1>2. a + b = (r + b) + n * q /\ r + b \in Nat /\ r \in Nat
  BY <1>1
<1>3. ((r + b) + n * q) % n = (r + b) % n
  BY <1>2, ModShift
<1> QED
  BY <1>1, <1>2, <1>3

\* A small number is its own remainder.
LEMMA ModSmall ==
    ASSUME NEW n \in Nat \ {0}, NEW a \in 0 .. n - 1
    PROVE  a % n = a /\ a \div n = 0
<1>1. a = n * 0 + a
  OBVIOUS
<1> QED
  BY <1>1, DivModUnique

\* Two numbers with one remainder that are less than the modulus apart are one.
LEMMA ModApart ==
    ASSUME NEW n \in Nat \ {0}, NEW a \in Nat, NEW d \in 0 .. n - 1,
           a % n = (a + d) % n
    PROVE  d = 0
<1>1. PICK q \in Nat, r \in 0 .. n - 1 : q = a \div n /\ r = a % n /\ a = n * q + r
  BY DivMod
<1>2. CASE r + d < n
  <2>1. a + d = n * q + (r + d) /\ r + d \in 0 .. n - 1
    BY <1>1, <1>2
  <2>2. (a + d) % n = r + d
    BY ZenonT(30), <2>1, DivModUnique
  <2> QED
    BY <1>1, <2>2
<1>3. CASE r + d >= n
  <2>1. a + d = n * (q + 1) + (r + d - n) /\ r + d - n \in 0 .. n - 1 /\ q + 1 \in Nat
    BY <1>1, <1>3
  <2>2. (a + d) % n = r + d - n
    BY SMTT(30), <2>1, DivModUnique
  <2> QED
    BY <1>1, <2>2
<1> QED
  BY <1>1, <1>2, <1>3

\* A byte of a block, by the numbers of the block and of the byte.
LEMMA ModBlock ==
    ASSUME NEW n \in Nat \ {0}, NEW m \in Nat \ {0}, NEW a \in Nat, NEW r \in 0 .. m - 1
    PROVE  /\ n * m \in Nat \ {0}
           /\ (a % n) * m + r \in Nat
           /\ (a % n) * m + r < n * m
           /\ (a % n) * m + r = (a * m + r) % (n * m)
<1>1. PICK q \in Nat, b \in 0 .. n - 1 : q = a \div n /\ b = a % n /\ a = n * q + b
  BY DivMod
<1>2. n * m \in Nat \ {0} /\ b * m \in Nat /\ b \in Nat /\ r \in Nat
  OBVIOUS
<1>3. m * b + m <= m * n
  BY <1>1, Times
<1>4. b * m + r \in 0 .. (n * m) - 1
  BY <1>2, <1>3
<1>5. a * m + r = (n * m) * q + (b * m + r)
  <2>1. a * m = (n * q + b) * m
    BY <1>1
  <2>2. (n * q + b) * m = (n * m) * q + b * m
    BY <1>1, <1>2
  <2> QED
    BY <2>1, <2>2, <1>2
<1>6. ((n * m) * q + (b * m + r)) % (n * m) = b * m + r
  BY <1>2, <1>4, DivModUnique
<1> QED
  BY <1>1, <1>2, <1>4, <1>5, <1>6

-----------------------------------------------------------------------------
(* The key stream *)

\* The blocks that a nonce has, and their bytes.
Blocks == Words * Words
Bytes  == Blocks * BlockSize

\* The place in the key stream where a cipher is.
Place(c) ==
    IF c.off < BlockSize THEN c.buf * BlockSize + c.off ELSE Block(c, 0) * BlockSize

\* The block that is buffered is the one before the next.
Good(c) ==
    /\ c \in Ciphers
    /\ c.off < BlockSize => Block(c, 0) = (c.buf + 1) % Blocks

\* There are some.
LEMMA SizesFact ==
    /\ BlockSize \in Nat \ {0} /\ Words \in Nat \ {0}
    /\ Blocks \in Nat \ {0} /\ Bytes \in Nat \ {0}
BY CipherAssumption DEF Blocks, Bytes

\* What a cipher consists of.
LEMMA CipherFields ==
    ASSUME NEW c \in Ciphers
    PROVE  /\ c.half \in {"low", "high"} /\ c.x8 \in Word
           /\ c.x12 \in Nat /\ c.x13 \in Nat /\ c.off \in Nat /\ c.buf \in Nat
           /\ c.x12 < Words /\ c.x13 < Words /\ c.off <= BlockSize /\ c.buf < Blocks
BY SizesFact DEF Ciphers, Word, Blocks

\* The blocks are counted from the next.
LEMMA BlockFacts ==
    ASSUME NEW c \in Ciphers, NEW i \in Nat
    PROVE  /\ Block(c, i) \in 0 .. Blocks - 1
           /\ Block(c, i) = (Block(c, 0) + i) % Blocks
<1> DEFINE a == c.x13 * Words + c.x12
<1>1. a \in Nat /\ a + i \in Nat
  BY CipherFields, SizesFact
<1>2. Block(c, i) = (a + i) % Blocks /\ Block(c, 0) = (a + 0) % Blocks /\ a + 0 = a
  BY <1>1 DEF Block, Blocks
<1> HIDE DEF a
<1>3. ((a % Blocks) + i) % Blocks = (a + i) % Blocks
  BY <1>1, SizesFact, ModAdd
<1>4. (a + i) % Blocks \in 0 .. Blocks - 1
  BY <1>1, SizesFact, DivMod
<1> QED
  BY <1>2, <1>3, <1>4

\* The counter with its carry holds the number of any block.
LEMMA AdvanceFacts ==
    ASSUME NEW c \in Ciphers, NEW n \in Nat
    PROVE  /\ Advance(c, n) \in Ciphers
           /\ Advance(c, n).half = c.half /\ Advance(c, n).x8 = c.x8
           /\ Advance(c, n).off = c.off /\ Advance(c, n).buf = c.buf
           /\ Block(Advance(c, n), 0) = Block(c, n)
<1> DEFINE b == Block(c, n)
<1>1. b \in 0 .. Blocks - 1 /\ b \in Nat
  BY BlockFacts, SizesFact
<1> HIDE DEF b
<1>2. /\ b \div Words \in Nat /\ b % Words \in 0 .. Words - 1
      /\ b = Words * (b \div Words) + (b % Words)
  BY <1>1, SizesFact, DivMod
<1>3. b \div Words < Words
  <2>1. SUFFICES ASSUME b \div Words >= Words PROVE FALSE
    BY <1>2, SizesFact
  <2>2. Words * (b \div Words) >= Words * Words
    <3>1. CASE b \div Words = Words
      BY <3>1, SizesFact
    <3>2. CASE b \div Words > Words
      <4>1. Words * Words + Words <= Words * (b \div Words)
        BY <3>2, <1>2, SizesFact, Times
      <4>2. Words * Words \in Nat /\ Words * (b \div Words) \in Nat
        BY <1>2, SizesFact
      <4> QED
        BY <4>1, <4>2, SizesFact
    <3> QED
      BY <2>1, <1>2, SizesFact, <3>1, <3>2
  <2>3. b < Words * Words /\ Words * Words \in Nat /\ Words * (b \div Words) \in Nat
    BY <1>1, <1>2, SizesFact DEF Blocks
  <2> QED
    BY <1>2, <2>2, <2>3, SizesFact
<1>4. Advance(c, n) = [c EXCEPT !.x12 = b % Words, !.x13 = b \div Words]
  BY DEF Advance, b
<1>5. b % Words \in Word /\ b \div Words \in Word
  BY <1>2, <1>3, SizesFact DEF Word
<1>6. /\ Advance(c, n) \in Ciphers
      /\ Advance(c, n).half = c.half /\ Advance(c, n).x8 = c.x8
      /\ Advance(c, n).off = c.off /\ Advance(c, n).buf = c.buf
      /\ Advance(c, n).x12 = b % Words /\ Advance(c, n).x13 = b \div Words
  BY <1>4, <1>5 DEF Ciphers
<1>7. Block(Advance(c, n), 0) = b
  <2>1. (b \div Words) * Words + (b % Words) + 0 = b
    BY <1>2, SizesFact
  <2>2. Block(Advance(c, n), 0) = b % Blocks
    BY <1>6, <2>1 DEF Block, Blocks
  <2> QED
    BY <1>1, <2>2, SizesFact, ModSmall
<1> QED
  BY <1>6, <1>7 DEF b

\* Where the next block begins.
LEMMA NextBlock ==
    ASSUME NEW c, Good(c)
    PROVE  /\ Place(c) \in Nat /\ Place(c) < Bytes
           /\ \E a \in Nat : /\ a * BlockSize = Place(c) + (BlockSize - c.off)
                             /\ \A k \in Nat : Block(c, k) = (a + k) % Blocks
           /\ \A i \in 0 .. BlockSize - c.off :
                 i < BlockSize - c.off =>
                    /\ Place(c) = c.buf * BlockSize + c.off
                    /\ c.buf * BlockSize + c.off + i < Bytes
                    /\ c.buf * BlockSize + c.off + i \in Nat
<1>1. /\ c \in Ciphers /\ c.off \in Nat /\ c.off <= BlockSize /\ c.buf \in Nat
      /\ c.buf < Blocks /\ c.buf % Blocks = c.buf
  <2>1. c \in Ciphers
    BY DEF Good
  <2>2. c.off \in Nat /\ c.off <= BlockSize /\ c.buf \in Nat /\ c.buf < Blocks
    BY <2>1, CipherFields
  <2> QED
    BY <2>1, <2>2, SizesFact, ModSmall
<1>2. Block(c, 0) \in Nat /\ Block(c, 0) < Blocks /\ Block(c, 0) % Blocks = Block(c, 0)
  <2>1. Block(c, 0) \in 0 .. Blocks - 1
    BY <1>1, BlockFacts
  <2> QED
    BY <2>1, SizesFact, ModSmall
<1>3. CASE c.off < BlockSize
  <2>1. Place(c) = c.buf * BlockSize + c.off
    BY <1>3 DEF Place
  <2>2. ASSUME NEW r \in 0 .. BlockSize - 1
        PROVE  c.buf * BlockSize + r \in Nat /\ c.buf * BlockSize + r < Bytes
    BY <1>1, SizesFact, ModBlock DEF Bytes
  <2>3. Place(c) \in Nat /\ Place(c) < Bytes
    BY <1>1, <1>3, <2>1, <2>2, SizesFact
  <2>4. (c.buf + 1) * BlockSize = Place(c) + (BlockSize - c.off)
    <3>1. (c.buf + 1) * BlockSize = c.buf * BlockSize + BlockSize
      BY <1>1, SizesFact
    <3>2. c.buf * BlockSize \in Nat
      BY <1>1, SizesFact
    <3> QED
      BY <1>1, <2>1, <3>1, <3>2, SizesFact
  <2>5. ASSUME NEW k \in Nat PROVE Block(c, k) = (c.buf + 1 + k) % Blocks
    <3>1. Block(c, k) = (Block(c, 0) + k) % Blocks
      BY <1>1, BlockFacts
    <3>2. Block(c, 0) = (c.buf + 1) % Blocks
      BY <1>3 DEF Good
    <3>3. (((c.buf + 1) % Blocks) + k) % Blocks = (c.buf + 1 + k) % Blocks
      BY <1>1, SizesFact, ModAdd
    <3> QED
      BY <3>1, <3>2, <3>3
  <2>6. ASSUME NEW i \in 0 .. BlockSize - c.off, i < BlockSize - c.off
        PROVE  /\ c.buf * BlockSize + c.off + i < Bytes
               /\ c.buf * BlockSize + c.off + i \in Nat
    <3>1. c.off + i \in 0 .. BlockSize - 1
      BY <1>1, <2>6, SizesFact
    <3>2. c.buf * BlockSize \in Nat
      BY <1>1, SizesFact
    <3>3. c.buf * BlockSize + (c.off + i) = c.buf * BlockSize + c.off + i
      BY <1>1, <3>2, <2>6
    <3> QED
      BY <2>2, <3>1, <3>3
  <2>7. c.buf + 1 \in Nat
    BY <1>1
  <2> QED
    BY <2>1, <2>3, <2>4, <2>5, <2>6, <2>7
<1>4. CASE c.off = BlockSize
  <2>1. Place(c) = Block(c, 0) * BlockSize
    BY <1>4, SizesFact DEF Place
  <2>2. Place(c) \in Nat /\ Place(c) < Bytes
    <3>1. 0 \in 0 .. BlockSize - 1
      BY SizesFact
    <3>2. /\ Block(c, 0) * BlockSize + 0 \in Nat
          /\ Block(c, 0) * BlockSize + 0 < Bytes
      BY <1>2, <3>1, SizesFact, ModBlock DEF Bytes
    <3>3. Block(c, 0) * BlockSize \in Nat
      BY <1>2, SizesFact
    <3> QED
      BY <2>1, <3>2, <3>3
  <2>3. Block(c, 0) * BlockSize = Place(c) + (BlockSize - c.off)
    BY <1>4, <2>1, <2>2, SizesFact
  <2>4. \A k \in Nat : Block(c, k) = (Block(c, 0) + k) % Blocks
    BY <1>1, BlockFacts
  <2>5. \A i \in 0 .. BlockSize - c.off : ~(i < BlockSize - c.off)
    BY <1>4, SizesFact
  <2> QED
    BY <1>2, <2>2, <2>3, <2>4, <2>5
<1> QED
  BY <1>1, <1>3, <1>4, SizesFact

\* A call takes what is buffered, whole blocks, and a rest.
LEMMA CallParts ==
    ASSUME NEW c, Good(c), NEW len \in Nat
    PROVE  /\ Buffered(c, len) \in Nat /\ Direct(c, len) \in Nat
           /\ Rest(c, len) \in 0 .. BlockSize - 1
           /\ len = Buffered(c, len) + Direct(c, len) * BlockSize + Rest(c, len)
           /\ Buffered(c, len) <= BlockSize - c.off
           /\ \/ Buffered(c, len) = BlockSize - c.off
              \/ Buffered(c, len) = len /\ Direct(c, len) = 0 /\ Rest(c, len) = 0
<1> DEFINE u == Buffered(c, len)
<1>1. c.off \in Nat /\ c.off <= BlockSize /\ BlockSize - c.off \in Nat
  <2>1. c.off \in Nat /\ c.off <= BlockSize
    BY CipherFields DEF Good
  <2> QED
    BY <2>1, SizesFact
<1>2. /\ u \in Nat /\ u <= BlockSize - c.off /\ len - u \in Nat
      /\ u = BlockSize - c.off \/ u = len
  BY <1>1 DEF Buffered, Least
<1> HIDE DEF u
<1>3. /\ (len - u) \div BlockSize \in Nat /\ (len - u) % BlockSize \in 0 .. BlockSize - 1
      /\ len - u = BlockSize * ((len - u) \div BlockSize) + ((len - u) % BlockSize)
  BY <1>2, SizesFact, DivMod
<1>4. Direct(c, len) = (len - u) \div BlockSize /\ Rest(c, len) = (len - u) % BlockSize
  BY DEF Direct, Rest, u
<1>5. u = len => Direct(c, len) = 0 /\ Rest(c, len) = 0
  <2>1. 0 \in 0 .. BlockSize - 1 /\ (u = len => len - u = 0)
    BY <1>2, SizesFact
  <2> QED
    BY <1>4, <2>1, SizesFact, ModSmall
<1>6. len = u + Direct(c, len) * BlockSize + Rest(c, len)
  <2>1. BlockSize * Direct(c, len) = Direct(c, len) * BlockSize
        /\ Direct(c, len) * BlockSize \in Nat
    BY <1>3, <1>4, SizesFact
  <2> QED
    BY <1>2, <1>3, <1>4, <2>1
<1> QED
  BY <1>2, <1>3, <1>4, <1>5, <1>6 DEF u

\* The bytes of a call follow each other from the place of the cipher on.
LEMMA KeyBytesFollow ==
    ASSUME NEW c, Good(c), NEW len \in Nat
    PROVE  /\ DOMAIN KeyBytes(c, len) = 1 .. len /\ KeyBytes(c, len) \in Seq({c.half} \X Nat)
           /\ \A i \in 1 .. len : KeyBytes(c, len)[i] = <<c.half, (Place(c) + (i - 1)) % Bytes>>
<1> DEFINE u == Buffered(c, len)
<1>1. ASSUME NEW i \in 1 .. len
      PROVE  KeyBytes(c, len)[i] = <<c.half, (Place(c) + (i - 1)) % Bytes>>
  <2> DEFINE past == i - u - 1
  <2>1. KeyBytes(c, len)[i] =
           <<c.half, IF past < 0 THEN c.buf * BlockSize + c.off + i - 1
                     ELSE Block(c, past \div BlockSize) * BlockSize + (past % BlockSize)>>
    BY DEF KeyBytes
  <2>2. u \in Nat /\ u <= BlockSize - c.off /\ (u = BlockSize - c.off \/ u = len)
    BY CallParts
  <2>3. c.off \in Nat /\ c.off <= BlockSize /\ c.buf \in Nat
    BY CipherFields DEF Good
  <2> HIDE DEF u
  <2>4. CASE past < 0
    <3>1. i - 1 \in 0 .. BlockSize - c.off /\ i - 1 < BlockSize - c.off
      BY <2>2, <2>3, <2>4, SizesFact
    <3>2. /\ Place(c) = c.buf * BlockSize + c.off
          /\ c.buf * BlockSize + c.off + (i - 1) < Bytes
          /\ c.buf * BlockSize + c.off + (i - 1) \in Nat
      BY <3>1, NextBlock
    <3>3. Place(c) + (i - 1) \in 0 .. Bytes - 1
      BY <3>2, SizesFact
    <3>4. (Place(c) + (i - 1)) % Bytes = Place(c) + (i - 1)
      BY <3>3, SizesFact, ModSmall
    <3>5. c.buf * BlockSize \in Nat
      BY <2>3, SizesFact
    <3>6. c.buf * BlockSize + c.off + i - 1 = Place(c) + (i - 1)
      BY <3>2, <3>5, <2>3
    <3> QED
      BY <2>1, <2>4, <3>4, <3>6
  <2>5. CASE past >= 0
    <3>1. past \in Nat /\ u = BlockSize - c.off /\ i - 1 = u + past
      BY <2>2, <2>5
    <3>2. PICK a \in Nat : /\ a * BlockSize = Place(c) + (BlockSize - c.off)
                           /\ \A k \in Nat : Block(c, k) = (a + k) % Blocks
      BY NextBlock
    <3> HIDE DEF past
    <3>3. PICK k \in Nat, r \in 0 .. BlockSize - 1 :
             /\ k = past \div BlockSize /\ r = past % BlockSize
             /\ past = BlockSize * k + r
      <4>1. /\ past \div BlockSize \in Nat /\ past % BlockSize \in 0 .. BlockSize - 1
            /\ past = BlockSize * (past \div BlockSize) + (past % BlockSize)
        BY <3>1, SizesFact, DivMod
      <4> QED
        BY <4>1
    <3>4. ((a + k) % Blocks) * BlockSize + r = ((a + k) * BlockSize + r) % Bytes
      <4>1. PICK b \in Nat : b = a + k
        OBVIOUS
      <4>2. (b % Blocks) * BlockSize + r = (b * BlockSize + r) % (Blocks * BlockSize)
        BY SizesFact, ModBlock
      <4> QED
        BY <4>1, <4>2 DEF Bytes
    <3>5. (a + k) * BlockSize + r = Place(c) + (i - 1)
      <4>1. PICK x \in Nat, y \in Nat :
               x = a * BlockSize /\ y = BlockSize * k /\ (a + k) * BlockSize = x + y
        <5>1. /\ (a + k) * BlockSize = a * BlockSize + BlockSize * k
              /\ a * BlockSize \in Nat /\ BlockSize * k \in Nat
          BY SizesFact
        <5> QED
          BY <5>1
      <4>2. Place(c) \in Nat
        BY NextBlock
      <4>3. x = Place(c) + (BlockSize - c.off) /\ past = y + r
        BY <4>1, <3>2, <3>3
      <4>4. x + y + r = Place(c) + (i - 1)
        BY <4>2, <4>3, <3>1, <2>3, SizesFact
      <4> QED
        BY <4>1, <4>4
    <3>6. ~(past < 0)
      BY <2>5, <3>1
    <3> QED
      BY <2>1, <3>2, <3>3, <3>4, <3>5, <3>6
  <2> QED
    BY <2>2, <2>4, <2>5
<1>2. \A i \in 1 .. len : (Place(c) + (i - 1)) % Bytes \in Nat
  <2>1. ASSUME NEW i \in 1 .. len PROVE (Place(c) + (i - 1)) % Bytes \in Nat
    <3>1. Place(c) + (i - 1) \in Nat
      BY NextBlock
    <3> QED
      BY <3>1, SizesFact, DivMod
  <2> QED
    BY <2>1
<1>3. DOMAIN KeyBytes(c, len) = 1 .. len /\ KeyBytes(c, len) \in Seq({c.half} \X Nat)
  <2>1. DOMAIN KeyBytes(c, len) = 1 .. len
        /\ KeyBytes(c, len) = [i \in 1 .. len |-> KeyBytes(c, len)[i]]
    BY DEF KeyBytes
  <2>2. \A i \in 1 .. len : KeyBytes(c, len)[i] \in {c.half} \X Nat
    BY <1>1, <1>2
  <2>3. KeyBytes(c, len) \in [1 .. len -> {c.half} \X Nat]
    BY <2>1, <2>2
  <2> QED
    BY <2>1, <2>3, SeqDef
<1> QED
  BY <1>1, <1>3

\* A call leaves the cipher where its bytes end.
LEMMA AfterFollows ==
    ASSUME NEW c, Good(c), NEW len \in Nat
    PROVE  /\ Good(After(c, len))
           /\ After(c, len).half = c.half /\ After(c, len).x8 = c.x8
           /\ Place(After(c, len)) = (Place(c) + len) % Bytes
<1> DEFINE u == Buffered(c, len)
<1> DEFINE d == Direct(c, len)
<1> DEFINE r == Rest(c, len)
<1> DEFINE made == Advance(c, d + Least(1, r))
<1> DEFINE n == After(c, len)
<1>1. /\ u \in Nat /\ d \in Nat /\ r \in 0 .. BlockSize - 1
      /\ len = u + d * BlockSize + r /\ u <= BlockSize - c.off
      /\ u = BlockSize - c.off \/ (u = len /\ d = 0 /\ r = 0)
  BY CallParts
<1>2. n = IF r > 0 THEN [made EXCEPT !.off = r, !.buf = Block(c, d)]
                   ELSE [made EXCEPT !.off = c.off + u]
  BY DEF After
<1>3. c \in Ciphers /\ c.off \in Nat /\ c.off <= BlockSize /\ c.buf \in Nat /\ Place(c) \in Nat
  <2>1. c \in Ciphers
    BY DEF Good
  <2> QED
    BY <2>1, CipherFields, NextBlock
<1> HIDE DEF u, d, r, n
<1>4. Least(1, r) = (IF r > 0 THEN 1 ELSE 0)
  BY <1>1 DEF Least
<1>5. /\ made \in Ciphers /\ made.half = c.half /\ made.x8 = c.x8
      /\ made.off = c.off /\ made.buf = c.buf
      /\ Block(made, 0) = Block(c, d + Least(1, r))
  <2>1. d + Least(1, r) \in Nat
    BY <1>1, <1>4
  <2> QED
    BY <1>3, <2>1, AdvanceFacts
<1> HIDE DEF made
<1>6. PICK a \in Nat : /\ a * BlockSize = Place(c) + (BlockSize - c.off)
                       /\ \A k \in Nat : Block(c, k) = (a + k) % Blocks
  BY NextBlock
<1>7. \A k \in Nat : Block(c, k) \in 0 .. Blocks - 1
  BY <1>3, BlockFacts
\* The bytes up to the block and the rest that a call ends in.
<1>8. ASSUME u = BlockSize - c.off
      PROVE  Block(c, d) * BlockSize + r = (Place(c) + len) % Bytes
  <2>1. ((a + d) % Blocks) * BlockSize + r = ((a + d) * BlockSize + r) % Bytes
    <3>1. PICK b \in Nat : b = a + d
      BY <1>1
    <3>2. PICK s \in 0 .. BlockSize - 1 : s = r
      BY <1>1
    <3>3. (b % Blocks) * BlockSize + s = (b * BlockSize + s) % (Blocks * BlockSize)
      BY SizesFact, ModBlock
    <3> QED
      BY <3>1, <3>2, <3>3 DEF Bytes
  <2>2. (a + d) * BlockSize + r = Place(c) + len
    <3>1. PICK x \in Nat, y \in Nat :
             x = a * BlockSize /\ y = d * BlockSize /\ (a + d) * BlockSize = x + y
      <4>1. /\ (a + d) * BlockSize = a * BlockSize + d * BlockSize
            /\ a * BlockSize \in Nat /\ d * BlockSize \in Nat
        BY <1>1, SizesFact
      <4> QED
        BY <4>1
    <3>2. x = Place(c) + (BlockSize - c.off) /\ len = u + y + r
      BY <3>1, <1>1, <1>6
    <3>3. x + y + r = Place(c) + len
      BY <3>2, <1>1, <1>3, <1>8, SizesFact
    <3> QED
      BY <3>1, <3>3
  <2> QED
    BY <1>1, <1>6, <2>1, <2>2
<1>9. CASE r > 0
  <2>1. n = [made EXCEPT !.off = r, !.buf = Block(c, d)] /\ Block(made, 0) = Block(c, d + 1)
    BY <1>2, <1>4, <1>5, <1>9
  <2>2. r \in 0 .. BlockSize /\ Block(c, d) \in 0 .. Words * Words - 1 /\ r < BlockSize
    BY <1>1, <1>7, SizesFact DEF Blocks
  <2>3. /\ n \in Ciphers /\ n.half = c.half /\ n.x8 = c.x8 /\ n.off = r /\ n.buf = Block(c, d)
        /\ n.x12 = made.x12 /\ n.x13 = made.x13
    BY <1>5, <2>1, <2>2 DEF Ciphers
  <2>4. Block(n, 0) = Block(c, d + 1)
    BY <2>1, <2>3 DEF Block
  <2>5. Block(c, d + 1) = (Block(c, d) + 1) % Blocks
    <3>1. Block(c, d + 1) = (a + d + 1) % Blocks /\ Block(c, d) = (a + d) % Blocks
      <4>1. d + 1 \in Nat /\ a + (d + 1) = a + d + 1
        BY <1>1
      <4> QED
        BY <4>1, <1>1, <1>6
    <3>2. (((a + d) % Blocks) + 1) % Blocks = (a + d + 1) % Blocks
      <4>1. PICK b \in Nat : b = a + d
        BY <1>1
      <4>2. ((b % Blocks) + 1) % Blocks = (b + 1) % Blocks
        BY SizesFact, ModAdd
      <4> QED
        BY <4>1, <4>2
    <3> QED
      BY <3>1, <3>2
  <2>6. Place(n) = Block(c, d) * BlockSize + r
    BY <2>2, <2>3 DEF Place
  <2>7. u = BlockSize - c.off
    BY <1>1, <1>9
  <2> QED
    BY <1>8, <2>3, <2>4, <2>5, <2>6, <2>7 DEF Good, n
<1>10. CASE r = 0
  <2>1. n = [made EXCEPT !.off = c.off + u] /\ Block(made, 0) = Block(c, d)
    <3>1. d + 0 = d
      BY <1>1
    <3> QED
      BY <1>2, <1>4, <1>5, <1>10, <3>1
  <2>2. c.off + u \in 0 .. BlockSize
    BY <1>1, <1>3, SizesFact
  <2>3. /\ n \in Ciphers /\ n.half = c.half /\ n.x8 = c.x8 /\ n.off = c.off + u /\ n.buf = c.buf
        /\ n.x12 = made.x12 /\ n.x13 = made.x13
    BY <1>5, <2>1, <2>2 DEF Ciphers
  <2>4. Block(n, 0) = Block(c, d)
    BY <2>1, <2>3 DEF Block
  <2>5. CASE c.off + u < BlockSize
    <3>1. u = len /\ d = 0 /\ c.off < BlockSize
      BY <1>1, <1>3, <2>5, SizesFact
    <3>2. Good(n)
      BY <2>3, <2>4, <3>1 DEF Good
    <3>3. Place(n) = c.buf * BlockSize + (c.off + len) /\ Place(c) = c.buf * BlockSize + c.off
      BY <2>3, <2>5, <3>1 DEF Place
    <3>4. c.buf * BlockSize \in Nat
      BY <1>3, SizesFact
    <3>5. Place(n) = Place(c) + len
      BY <1>3, <3>3, <3>4
    <3>6. Place(n) \in Nat /\ Place(n) < Bytes
      BY <3>2, NextBlock
    <3>7. Place(n) % Bytes = Place(n)
      BY <3>6, SizesFact, ModSmall
    <3> QED
      BY <2>3, <3>2, <3>5, <3>7 DEF n
  <2>6. CASE c.off + u = BlockSize
    <3>1. u = BlockSize - c.off
      BY <1>1, <1>3, <2>6
    <3>2. Good(n)
      BY <2>3, <2>6, SizesFact DEF Good
    <3>3. Place(n) = Block(c, d) * BlockSize
      BY <2>3, <2>4, <2>6, SizesFact DEF Place
    <3>4. Block(c, d) * BlockSize + r = Block(c, d) * BlockSize
      <4>1. Block(c, d) * BlockSize \in Nat
        BY <1>1, <1>7, SizesFact
      <4> QED
        BY <4>1, <1>10
    <3> QED
      BY <1>8, <2>3, <3>1, <3>2, <3>3, <3>4 DEF n
  <2> QED
    BY <2>2, <2>5, <2>6, SizesFact
<1> QED
  BY <1>1, <1>9, <1>10
-----------------------------------------------------------------------------
(* Stream ids *)

\* The variables of the ids have their types.
IdShape ==
    /\ scenario \in Scenarios
    /\ nextStreamID \in [Ends -> 0 .. TwoBytes - 1]
    /\ goAway \in [Ends -> BOOLEAN]
    /\ ids \in [Ends -> Seq(0 .. TwoBytes - 1)]

\* The ids of an end grow in its parity; until the wrap none is past the last.
IdInv(e) ==
    /\ ~goAway[e] => /\ nextStreamID[e] % 2 = scenario.last[e] % 2
                     /\ nextStreamID[e] >= scenario.last[e]
                     /\ \A i \in DOMAIN ids[e] : ids[e][i] <= nextStreamID[e]
    /\ \A i \in DOMAIN ids[e] : /\ ids[e][i] > scenario.last[e]
                                /\ ids[e][i] % 2 = scenario.last[e] % 2
    /\ \A i, j \in DOMAIN ids[e] : i < j => ids[e][i] < ids[e][j]

IdsInv == IdShape /\ \A e \in Ends : IdInv(e)

\* There are two ends, and ids enough.
LEMMA WireFacts ==
    /\ Ends = {hub, client} /\ hub # client
    /\ \A e \in Ends : Peer(e) \in Ends /\ Peer(e) # e /\ Peer(Peer(e)) = e
    /\ Base \in Nat /\ Base > 2
    /\ TwoBytes \in Nat /\ TwoBytes >= 9
    /\ DefaultFrame \in 1 .. TwoBytes - HeaderSize - 1
<1>1. Base \in Nat /\ Base > 2
  BY WireAssumption DEF PSH
<1>2. TwoBytes \in Nat /\ TwoBytes >= 9
  <2>1. PICK d \in Nat : Base = 3 + d
    <3>1. Base - 3 \in Nat /\ Base = 3 + (Base - 3)
      BY <1>1
    <3> QED
      BY <3>1
  <2>2. TwoBytes = 9 + 6 * d + d * d /\ d * d \in Nat
    BY <2>1 DEF TwoBytes
  <2> QED
    BY <2>2
<1> QED
  BY <1>1, <1>2, WireAssumption DEF Ends, Peer

\* What a scenario fixes.
LEMMA ScenarioFacts ==
    ASSUME NEW s \in Scenarios
    PROVE  /\ s.keyed \in BOOLEAN /\ s.x8 \in Word /\ s.nonce \in Word
           /\ s.setting \in Int /\ s.last \in [Ends -> 0 .. TwoBytes - 1]
           /\ s.last[client] % 2 = 0 /\ s.last[hub] % 2 = 1
           /\ s.calls \in [Ends -> Nat] /\ s.pieces \subseteq Nat \ {0}
BY ScenariosTyped DEF Scenario

\* The next id has the parity of the last unless the ids wrap, which shows.
LEMMA NextId ==
    ASSUME NEW n \in 0 .. TwoBytes - 1
    PROVE  LET sid == (n + 2) % TwoBytes
           IN  /\ sid \in 0 .. TwoBytes - 1
               /\ sid # sid % 2 => sid = n + 2 /\ sid % 2 = n % 2
<1> DEFINE sid == (n + 2) % TwoBytes
<1>1. TwoBytes \in Nat \ {0} /\ TwoBytes >= 9 /\ n \in Nat /\ n + 2 \in Nat
  BY WireFacts
<1>2. sid \in 0 .. TwoBytes - 1
  BY <1>1, DivMod
<1>3. CASE n + 2 < TwoBytes
  <2>1. n + 2 \in 0 .. TwoBytes - 1
    BY <1>1, <1>3
  <2>2. sid = n + 2
    BY <1>1, <2>1, ModSmall
  <2>3. (n + 2) % 2 = n % 2
    BY <1>1
  <2> QED
    BY <1>2, <2>2, <2>3
<1>4. CASE n + 2 >= TwoBytes
  <2>1. PICK r \in 0 .. 1 : n + 2 = TwoBytes + r
    <3>1. n + 2 - TwoBytes \in 0 .. 1 /\ n + 2 = TwoBytes + (n + 2 - TwoBytes)
      BY <1>1, <1>4
    <3> QED
      BY <3>1
  <2>2. n + 2 = r + TwoBytes * 1 /\ r \in Nat /\ r \in 0 .. TwoBytes - 1
    BY <1>1, <2>1
  <2>3. (r + TwoBytes * 1) % TwoBytes = r % TwoBytes
    BY <1>1, <2>2, ModShift
  <2>4. r % TwoBytes = r
    BY <1>1, <2>2, ModSmall
  <2>5. sid = r /\ r % 2 = r
    BY <2>1, <2>2, <2>3, <2>4
  <2> QED
    BY <1>2, <2>5
<1> QED
  BY <1>1, <1>3, <1>4

\* Where the ids stay as they are they stay right.
LEMMA IdsSame ==
    ASSUME IdsInv, scenario' = scenario, UNCHANGED idVars
    PROVE  IdsInv'
BY DEF IdsInv, IdShape, IdInv, idVars

\* OpenStream takes an id that is past all others, or none.
LEMMA IdsOpen ==
    ASSUME IdsInv, NEW e \in Ends, OpenStream(e)
    PROVE  IdsInv'
<1> DEFINE sid == (nextStreamID[e] + 2) % TwoBytes
<1>1. IdShape /\ \A x \in Ends : IdInv(x)
  BY DEF IdsInv
<1>2. CASE goAway[e]
  BY <1>2, IdsSame DEF OpenStream
<1>3. CASE ~goAway[e]
  <2>1. /\ nextStreamID[e] \in 0 .. TwoBytes - 1 /\ sid \in 0 .. TwoBytes - 1
        /\ sid # sid % 2 => sid = nextStreamID[e] + 2 /\ sid % 2 = nextStreamID[e] % 2
    <3>1. nextStreamID[e] \in 0 .. TwoBytes - 1
      BY <1>1 DEF IdShape
    <3> QED
      BY <3>1, NextId
  <2>2. /\ nextStreamID' = [nextStreamID EXCEPT ![e] = sid] /\ scenario' = scenario
        /\ IF sid = sid % 2 THEN goAway' = [goAway EXCEPT ![e] = TRUE] /\ ids' = ids
                            ELSE ids' = [ids EXCEPT ![e] = Append(@, sid)] /\ goAway' = goAway
    BY <1>3 DEF OpenStream
  <2> HIDE DEF sid
  <2>3. /\ nextStreamID' \in [Ends -> 0 .. TwoBytes - 1] /\ goAway' \in [Ends -> BOOLEAN]
        /\ scenario' \in Scenarios
    BY <1>1, <2>1, <2>2 DEF IdShape
  <2>4. CASE sid = sid % 2
    <3>1. IdShape'
      BY <1>1, <2>2, <2>3, <2>4 DEF IdShape
    <3>2. ASSUME NEW x \in Ends PROVE IdInv(x)'
      <4>1. /\ ids'[x] = ids[x] /\ (~goAway'[x] => ~goAway[x] /\ x # e)
            /\ (x # e => nextStreamID'[x] = nextStreamID[x])
        BY <1>1, <2>2, <2>4 DEF IdShape
      <4> QED
        BY <1>1, <2>2, <4>1 DEF IdInv
    <3> QED
      BY <3>1, <3>2 DEF IdsInv
  <2>5. CASE sid # sid % 2
    <3>1. ids[e] \in Seq(0 .. TwoBytes - 1)
      BY <1>1 DEF IdShape
    <3>2. PICK s : s = ids[e]
      OBVIOUS
    <3>3. PICK t : t = Append(s, sid)
      OBVIOUS
    <3>4. /\ t \in Seq(0 .. TwoBytes - 1) /\ Len(t) = Len(s) + 1 /\ t[Len(s) + 1] = sid
          /\ Len(s) \in Nat /\ DOMAIN s = 1 .. Len(s) /\ DOMAIN t = 1 .. Len(s) + 1
          /\ \A i \in 1 .. Len(s) : t[i] = s[i]
      BY <2>1, <3>1, <3>2, <3>3, AppendProperties, LenProperties
    <3>5. /\ ids' = [ids EXCEPT ![e] = t] /\ goAway' = goAway
          /\ ids'[e] = t /\ nextStreamID'[e] = sid
          /\ \A x \in Ends : x # e => ids'[x] = ids[x] /\ nextStreamID'[x] = nextStreamID[x]
      BY <1>1, <2>2, <2>5, <3>2, <3>3 DEF IdShape
    <3>6. IdShape'
      BY <1>1, <2>3, <3>4, <3>5 DEF IdShape
    <3>7. ASSUME NEW x \in Ends PROVE IdInv(x)'
      <4>1. CASE x # e
        BY <1>1, <2>2, <3>5, <4>1 DEF IdInv
      <4>2. CASE x = e
        <5>1. /\ sid \in Int /\ nextStreamID[e] \in Int /\ scenario.last[e] \in Int
              /\ \A i \in 1 .. Len(s) : s[i] \in Int
          <6>1. scenario.last \in [Ends -> 0 .. TwoBytes - 1]
            BY <1>1, ScenarioFacts DEF IdShape
          <6>2. \A i \in 1 .. Len(s) : s[i] \in 0 .. TwoBytes - 1
            BY <3>1, <3>2, ElementOfSeq
          <6> QED
            BY <2>1, <6>1, <6>2, WireFacts
        <5>2. /\ nextStreamID[e] % 2 = scenario.last[e] % 2
              /\ nextStreamID[e] >= scenario.last[e]
              /\ \A i \in 1 .. Len(s) : s[i] <= nextStreamID[e]
          BY <1>1, <1>3, <3>2, <3>4 DEF IdInv
        <5>3. /\ \A i \in 1 .. Len(s) : s[i] > scenario.last[e] /\ s[i] % 2 = scenario.last[e] % 2
              /\ \A i, j \in 1 .. Len(s) : i < j => s[i] < s[j]
          BY <1>1, <3>2, <3>4 DEF IdInv
        <5>4. sid = nextStreamID[e] + 2 /\ sid % 2 = nextStreamID[e] % 2
          BY <2>1, <2>5
        <5>5. \A i \in DOMAIN t : /\ t[i] <= sid /\ t[i] > scenario.last[e]
                                  /\ t[i] % 2 = scenario.last[e] % 2
          <6> SUFFICES ASSUME NEW i \in 1 .. Len(s) + 1
                       PROVE  /\ t[i] <= sid /\ t[i] > scenario.last[e]
                              /\ t[i] % 2 = scenario.last[e] % 2
            BY <3>4
          <6>1. CASE i = Len(s) + 1
            BY <3>4, <5>1, <5>2, <5>4, <6>1
          <6>2. CASE i \in 1 .. Len(s)
            <7>1. t[i] = s[i] /\ s[i] \in Int /\ s[i] <= nextStreamID[e]
                  /\ s[i] > scenario.last[e] /\ s[i] % 2 = scenario.last[e] % 2
              BY <3>4, <5>1, <5>2, <5>3, <6>2
            <7> QED
              BY <5>1, <5>4, <7>1
          <6> QED
            BY <3>4, <6>1, <6>2
        <5>6. \A i, j \in DOMAIN t : i < j => t[i] < t[j]
          <6> SUFFICES ASSUME NEW i \in 1 .. Len(s) + 1, NEW j \in 1 .. Len(s) + 1, i < j
                       PROVE  t[i] < t[j]
            BY <3>4
          <6>1. i \in 1 .. Len(s) /\ t[i] = s[i] /\ s[i] \in Int
            BY <3>4, <5>1
          <6>2. CASE j = Len(s) + 1
            <7>1. s[i] <= nextStreamID[e] /\ t[j] = sid
              BY <3>4, <5>2, <6>1, <6>2
            <7> QED
              BY <5>1, <5>4, <6>1, <7>1
          <6>3. CASE j \in 1 .. Len(s)
            BY <3>4, <5>3, <6>1, <6>3
          <6> QED
            BY <3>4, <6>2, <6>3
        <5>7. sid % 2 = scenario.last[e] % 2 /\ sid >= scenario.last[e]
          BY <5>1, <5>2, <5>4
        <5> QED
          BY <2>2, <3>5, <4>2, <5>5, <5>6, <5>7 DEF IdInv
      <4> QED
        BY <4>1, <4>2
    <3> QED
      BY <3>6, <3>7 DEF IdsInv
  <2> QED
    BY <2>4, <2>5
<1> QED
  BY <1>2, <1>3

\* At the start no id is given out.
LEMMA IdsInit == Init => IdsInv
<1> SUFFICES ASSUME Init PROVE IdsInv
  OBVIOUS
<1>1. scenario \in Scenarios /\ nextStreamID = scenario.last
  BY DEF Init
<1>2. scenario.last \in [Ends -> 0 .. TwoBytes - 1]
  BY <1>1, ScenarioFacts
<1>3. goAway = [e \in Ends |-> FALSE] /\ ids = [e \in Ends |-> <<>>]
  BY DEF Init
<1>4. IdShape
  BY <1>1, <1>2, <1>3, EmptySeq DEF IdShape
<1>5. ASSUME NEW e \in Ends PROVE IdInv(e)
  <2>1. nextStreamID[e] \in Int /\ nextStreamID[e] = scenario.last[e]
    BY <1>1, <1>2, WireFacts
  <2> QED
    BY <1>3, <2>1 DEF IdInv
<1> QED
  BY <1>4, <1>5 DEF IdsInv

\* No other action touches an id.
LEMMA IdsNext == IdsInv /\ [Next]_vars => IdsInv'
<1> SUFFICES ASSUME IdsInv, [Next]_vars PROVE IdsInv'
  OBVIOUS
<1>1. ASSUME NEW e \in Ends, OpenStream(e) PROVE IdsInv'
  BY <1>1, IdsOpen
<1>2. ASSUME NEW e \in Ends, CloseStream(e) \/ \E n \in WriteSizes : Write(e, n)
      PROVE  scenario' = scenario /\ UNCHANGED idVars
  BY <1>2 DEF CloseStream, Write
<1>3. ASSUME NEW e \in Ends, WriteFrame(e) PROVE scenario' = scenario /\ UNCHANGED idVars
  BY <1>3 DEF WriteFrame, Transmit, TransmitFails, TransmitPanics
<1>4. ASSUME NEW e \in Ends, ReadFrame(e) PROVE scenario' = scenario /\ UNCHANGED idVars
  BY <1>4 DEF ReadFrame, ReadPiece, ReadPanics
<1>5. ASSUME NEW e \in Ends, ReadFails(e) PROVE scenario' = scenario /\ UNCHANGED idVars
  BY <1>5 DEF ReadFails
<1>6. CASE UNCHANGED vars
  BY <1>6, IdsSame DEF vars, idVars
<1> QED
  BY <1>1, <1>2, <1>3, <1>4, <1>5, <1>6, IdsSame DEF Next, Call

\* OpenStream never gives an id twice, nor one of the other parity or one that the
\* wrap has made too small, for ids of any width and any number of calls.
THEOREM IdsAlwaysFresh == Spec => []IdsFresh
<1>1. IdsInv => IdsFresh
  <2> SUFFICES ASSUME IdsInv PROVE IdsFresh
    OBVIOUS
  <2>1. /\ \A e \in Ends : ids[e] \in Seq(0 .. TwoBytes - 1) /\ IdInv(e)
        /\ scenario.last[client] % 2 = 0 /\ scenario.last[hub] % 2 = 1
    BY ScenarioFacts DEF IdsInv, IdShape
  <2>2. ASSUME NEW e \in Ends PROVE IsInjective(ids[e])
    <3> SUFFICES ASSUME NEW i \in DOMAIN ids[e], NEW j \in DOMAIN ids[e], ids[e][i] = ids[e][j]
                 PROVE  i = j
      BY DEF IsInjective
    <3>1. DOMAIN ids[e] = 1 .. Len(ids[e]) /\ Len(ids[e]) \in Nat
      BY <2>1, LenProperties
    <3>2. i \in Int /\ j \in Int
      BY <3>1
    <3>3. ids[e][i] \in 0 .. TwoBytes - 1 /\ ids[e][j] \in 0 .. TwoBytes - 1
      BY <2>1, <3>1, ElementOfSeq
    <3>4. ids[e][i] \in Int /\ ids[e][j] \in Int
      BY <3>3
    <3>5. (i < j => ids[e][i] < ids[e][j]) /\ (j < i => ids[e][j] < ids[e][i])
      BY <2>1 DEF IdInv
    <3> QED
      BY <3>2, <3>4, <3>5
  <2>3. Range(ids[hub]) \cap Range(ids[client]) = {}
    <3> SUFFICES ASSUME NEW i \in DOMAIN ids[hub], NEW j \in DOMAIN ids[client],
                        ids[hub][i] = ids[client][j]
                 PROVE  FALSE
      BY DEF Range
    <3>1. ids[hub][i] % 2 = 1 /\ ids[client][j] % 2 = 0
      BY <2>1, WireFacts DEF IdInv
    <3> QED
      BY <3>1
  <2> QED
    BY <2>1, <2>2, <2>3 DEF IdsFresh, IdInv
<1> QED
  BY <1>1, IdsInit, IdsNext, PTL DEF Spec
-----------------------------------------------------------------------------
(* Frames and bytes *)

\* Frames as readFrame returns them, and as the calls make them.
Frames == [cmd : Int, sid : 0 .. TwoBytes - 1, data : Seq(Int)]
Sendable(size) ==
    {f \in Frames : /\ f.cmd \in {SYN, FIN, PSH}
                    /\ Len(f.data) <= size
                    /\ f.cmd = PSH => f.data # <<>>}

\* Bytes of the key stream, and of the connection.
KeyByte  == {"low", "high"} \X Nat
WireByte == [value : Int, mask : SUBSET KeyByte]

\* The variables that frames and bytes go through have their types.
Shape ==
    /\ scenario \in Scenarios
    /\ conn \in [Ends -> Seq(WireByte)]
    /\ broken \in BOOLEAN
    /\ todo \in [Ends -> Seq(Sendable(FrameSize(scenario.setting)))]
    /\ calls \in [Ends -> Nat] /\ \A e \in Ends : calls[e] <= scenario.calls[e]
    /\ got \in [Ends -> Seq(Int)] /\ \A e \in Ends : Len(got[e]) < HeaderSize + TwoBytes
    /\ reader \in [Ends -> {"reading", "refused", "failed", "panicked", "crashed"}]
    /\ data \in [Ends -> Nat]
    /\ written \in [Ends -> Seq(Sendable(FrameSize(scenario.setting)))]
    /\ read \in [Ends -> Seq(Frames)]

\* So have those of the ciphers.
CipherShape ==
    /\ enc \in [Ends -> Ciphers] /\ dec \in [Ends -> Ciphers]
    /\ \A e \in Ends : Good(enc[e]) /\ Good(dec[e])
    /\ spent \in [Ends -> Seq(KeyByte)]

\* A frame fits the fields of the header, and readFrame unless the setting is large.
LEMMA FrameSizeFits ==
    ASSUME NEW setting \in Int
    PROVE  /\ FrameSize(setting) \in 1 .. TwoBytes - 1
           /\ FrameSize(setting) >= TwoBytes - HeaderSize =>
                 setting \in TwoBytes - HeaderSize .. TwoBytes - 1
BY WireFacts DEF FrameSize, HeaderSize

\* A field of two bytes.
LEMMA LittleEndianFits ==
    ASSUME NEW n \in Nat
    PROVE  LittleEndian(n) \in Seq(Int) /\ Len(LittleEndian(n)) = 2
<1>1. Base \in Nat \ {0}
  BY WireFacts
<1>2. n % Base \in Int /\ (n \div Base) \in Nat
  BY <1>1, DivMod
<1>3. (n \div Base) % Base \in Int
  BY <1>1, <1>2, DivMod
<1> QED
  BY <1>2, <1>3 DEF LittleEndian

\* Two sequences of numbers make one.
LEMMA Joined ==
    ASSUME NEW s \in Seq(Int), NEW t \in Seq(Int)
    PROVE  s \o t \in Seq(Int) /\ Len(s \o t) = Len(s) + Len(t)
BY ConcatProperties

\* A frame on its way is its header and its data.
LEMMA RawFits ==
    ASSUME NEW f \in Frames
    PROVE  Raw(f) \in Seq(Int) /\ Len(Raw(f)) = HeaderSize + Len(f.data) /\ Len(f.data) \in Nat
<1> DEFINE a == <<Version, f.cmd>>
<1> DEFINE b == LittleEndian(Len(f.data))
<1> DEFINE c == LittleEndian(f.sid)
<1>1. f.cmd \in Int /\ f.sid \in Nat /\ f.data \in Seq(Int) /\ Len(f.data) \in Nat
  BY LenProperties, WireFacts DEF Frames
<1>2. a \in Seq(Int) /\ Len(a) = 2
  BY <1>1 DEF Version
<1>3. b \in Seq(Int) /\ Len(b) = 2 /\ c \in Seq(Int) /\ Len(c) = 2
  BY <1>1, LittleEndianFits
<1>4. Raw(f) = a \o b \o c \o f.data
  BY DEF Raw
<1> HIDE DEF a, b, c
<1>5. a \o b \in Seq(Int) /\ Len(a \o b) = Len(a) + Len(b)
  BY Zenon, <1>2, <1>3, Joined
<1>6. a \o b \o c \in Seq(Int) /\ Len(a \o b \o c) = Len(a \o b) + Len(c)
  BY Zenon, <1>3, <1>5, Joined
<1>7. a \o b \o c \o f.data \in Seq(Int) /\ Len(a \o b \o c \o f.data) = 6 + Len(f.data)
  <2>1. Len(a \o b \o c) = 6
    BY <1>2, <1>3, <1>5, <1>6
  <2> QED
    BY <1>1, <1>6, <2>1, Joined
<1> QED
  BY <1>1, <1>4, <1>7 DEF HeaderSize

\* A call of split is cut into frames that may be sent.
LEMMA SplitFits ==
    ASSUME NEW bytes \in Seq(Int), NEW size \in Nat \ {0}, NEW sid \in 0 .. TwoBytes - 1
    PROVE  Split(bytes, size, sid) \in Seq(Sendable(size))
<1> DEFINE n == (Len(bytes) + size - 1) \div size
<1> DEFINE piece(k) == SubSeq(bytes, (k - 1) * size + 1, Least(k * size, Len(bytes)))
<1>1. PICK len \in Nat : len = Len(bytes) /\ DOMAIN bytes = 1 .. len
  BY LenProperties
<1>2. PICK q \in Nat, r \in 0 .. size - 1 : q = n /\ len + size - 1 = size * q + r
  <2>1. len + size - 1 \in Nat
    BY <1>1
  <2>2. /\ (len + size - 1) \div size \in Nat /\ (len + size - 1) % size \in 0 .. size - 1
        /\ len + size - 1 = size * ((len + size - 1) \div size) + ((len + size - 1) % size)
    BY <2>1, DivMod
  <2> QED
    BY <1>1, <2>2
<1>3. ASSUME NEW k \in 1 .. q
      PROVE  Frame(PSH, sid, piece(k)) \in Sendable(size)
  <2>1. PICK b \in Nat : b = (k - 1) * size /\ k * size = b + size /\ b < len
    <3>1. k - 1 \in Nat /\ k \in Nat
      OBVIOUS
    <3>2. PICK b \in Nat : b = (k - 1) * size
      BY <3>1
    <3>3. k * size = b + size
      BY <3>1, <3>2
    <3>4. k * size <= size * q
      <4>1. CASE k = q
        BY <4>1
      <4>2. CASE k # q
        <5>1. size * k + size <= size * q
          BY <3>1, <4>2, Times
        <5>2. size * k = k * size /\ k * size \in Nat /\ size * q \in Nat
          BY <3>1
        <5> QED
          BY <5>1, <5>2
      <4> QED
        BY <4>1, <4>2
    <3>5. size * q \in Nat
      OBVIOUS
    <3>6. b < len
      BY <1>2, <3>2, <3>3, <3>4, <3>5
    <3> QED
      BY <3>2, <3>3, <3>6
  <2>2. PICK m \in Int : m = Least(k * size, len) /\ m > b /\ m <= b + size /\ m <= len
    BY <2>1 DEF Least
  <2>3. piece(k) = SubSeq(bytes, b + 1, m)
    BY <1>1, <2>1, <2>2
  <2>4. \A i \in b + 1 .. m : bytes[i] \in Int
    <3>1. \A i \in b + 1 .. m : i \in 1 .. Len(bytes)
      BY <1>1, <2>1, <2>2
    <3> QED
      BY <3>1, ElementOfSeq
  <2>5. piece(k) \in Seq(Int) /\ Len(piece(k)) = m - b
    <3>1. PICK t : t = SubSeq(bytes, b + 1, m)
      OBVIOUS
    <3>2. t \in Seq(Int) /\ Len(t) = IF b + 1 <= m THEN m - (b + 1) + 1 ELSE 0
      BY <2>1, <2>2, <2>4, <3>1, SubSeqProperties
    <3>3. Len(t) = m - b
      BY <2>1, <2>2, <3>2
    <3> QED
      BY <2>3, <3>1, <3>2, <3>3
  <2> HIDE DEF piece
  <2>6. Len(piece(k)) <= size /\ piece(k) # <<>>
    <3>1. Len(<<>>) = 0
      OBVIOUS
    <3> QED
      BY <2>1, <2>2, <2>5, <3>1
  <2> QED
    BY <2>5, <2>6 DEF Sendable, Frames, Frame, PSH
<1>4. Split(bytes, size, sid) = [k \in 1 .. q |-> Frame(PSH, sid, piece(k))]
  BY <1>2 DEF Split
<1> HIDE DEF piece
<1>5. Split(bytes, size, sid) \in [1 .. q -> Sendable(size)]
  BY <1>3, <1>4
<1> QED
  BY <1>5, SeqDef

\* A frame without data can always be sent.
LEMMA BareFits ==
    ASSUME NEW cmd \in {SYN, FIN}, NEW sid \in 0 .. TwoBytes - 1, NEW size \in 1 .. TwoBytes - 1
    PROVE  <<Frame(cmd, sid, <<>>)>> \in Seq(Sendable(size))
<1>1. <<>> \in Seq(Int) /\ Len(<<>>) = 0
  OBVIOUS
<1>2. Frame(cmd, sid, <<>>) \in Sendable(size)
  BY <1>1, WireFacts DEF Frame, Sendable, Frames, SYN, FIN, PSH
<1> QED
  BY <1>2

\* A remainder of any number.
LEMMA IntMod ==
    ASSUME NEW a \in Int, NEW n \in Nat \ {0}
    PROVE  a % n \in 0 .. n - 1
OBVIOUS

\* The sum of the buffer and what readFrame asks for.
LEMMA NeededFits ==
    ASSUME NEW bytes \in Seq(Int), Len(bytes) < HeaderSize + TwoBytes
    PROVE  /\ Needed(bytes) \in Nat /\ Needed(bytes) < HeaderSize + TwoBytes
           /\ Len(bytes) >= HeaderSize =>
                 /\ DataEnd(bytes) \in 0 .. TwoBytes - 1
                 /\ TwoAt(bytes, 3) \in 0 .. TwoBytes - 1
                 /\ TwoAt(bytes, 5) \in 0 .. TwoBytes - 1
<1>1. Base \in Nat \ {0} /\ TwoBytes \in Nat \ {0} /\ Base * Base = TwoBytes
  BY WireFacts DEF TwoBytes
<1>2. ASSUME NEW a \in Int, NEW b \in Int
      PROVE  (a % Base) + Base * (b % Base) \in 0 .. TwoBytes - 1
  <2>1. a % Base \in 0 .. Base - 1 /\ b % Base \in 0 .. Base - 1
    BY <1>1, IntMod
  <2>2. PICK x \in Nat, y \in Nat : x = a % Base /\ y = b % Base /\ x < Base /\ y < Base
    BY <1>1, <2>1
  <2>3. Base * y + Base <= Base * Base
    BY <1>1, <2>2, Times
  <2>4. PICK z \in Nat : z = Base * y
    BY <1>1
  <2>5. x + z \in 0 .. TwoBytes - 1
    BY <1>1, <2>2, <2>3, <2>4
  <2> QED
    BY <2>2, <2>4, <2>5
<1>3. ASSUME Len(bytes) >= HeaderSize
      PROVE  /\ TwoAt(bytes, 3) \in 0 .. TwoBytes - 1 /\ TwoAt(bytes, 5) \in 0 .. TwoBytes - 1
             /\ DataEnd(bytes) \in 0 .. TwoBytes - 1
  <2>1. \A i \in 3 .. 6 : bytes[i] \in Int
    <3>1. Len(bytes) \in Nat
      BY LenProperties
    <3>2. \A i \in 3 .. 6 : i \in 1 .. Len(bytes)
      BY <1>3, <3>1 DEF HeaderSize
    <3> QED
      BY <3>2, ElementOfSeq
  <2>2. TwoAt(bytes, 3) \in 0 .. TwoBytes - 1 /\ TwoAt(bytes, 5) \in 0 .. TwoBytes - 1
    <3>1. bytes[3] \in Int /\ bytes[3 + 1] \in Int /\ bytes[5] \in Int /\ bytes[5 + 1] \in Int
      BY <2>1
    <3> QED
      BY <1>2, <3>1 DEF TwoAt
  <2>3. HeaderSize + TwoAt(bytes, 3) \in Nat
    BY <2>2, WireFacts DEF HeaderSize
  <2>4. (HeaderSize + TwoAt(bytes, 3)) % TwoBytes \in 0 .. TwoBytes - 1
    BY <1>1, <2>3, DivMod
  <2> QED
    BY <2>2, <2>4 DEF DataEnd
<1>4. Len(bytes) \in Nat
  BY LenProperties
<1> QED
  BY <1>3, <1>4, WireFacts DEF Needed, HeaderSize
\* What Coder.Write gives to the connection.
LEMMA EncryptedFits ==
    ASSUME CipherShape, Shape, NEW e \in Ends, NEW raw \in Seq(Int)
    PROVE  /\ Encrypted(e, raw) \in Seq(WireByte) /\ Len(Encrypted(e, raw)) = Len(raw)
           /\ \A i \in 1 .. Len(raw) : Encrypted(e, raw)[i] =
                 [value |-> raw[i],
                  mask  |-> IF scenario.keyed
                              THEN {<<enc[e].half, (Place(enc[e]) + (i - 1)) % Bytes>>} ELSE {}]
<1>1. PICK n \in Nat : n = Len(raw) /\ DOMAIN raw = 1 .. n
  BY LenProperties
<1>2. Good(enc[e]) /\ enc[e].half \in {"low", "high"} /\ Place(enc[e]) \in Nat
  <2>1. Good(enc[e]) /\ enc[e] \in Ciphers
    BY DEF CipherShape
  <2> QED
    BY <2>1, CipherFields, NextBlock
<1>3. ASSUME NEW i \in 1 .. n
      PROVE  /\ raw[i] \in Int
             /\ <<enc[e].half, (Place(enc[e]) + (i - 1)) % Bytes>> \in KeyByte
             /\ KeyBytes(enc[e], n)[i] = <<enc[e].half, (Place(enc[e]) + (i - 1)) % Bytes>>
  <2>1. KeyBytes(enc[e], n)[i] = <<enc[e].half, (Place(enc[e]) + (i - 1)) % Bytes>>
    BY <1>2, KeyBytesFollow
  <2>2. Place(enc[e]) + (i - 1) \in Nat /\ Bytes \in Nat \ {0}
    BY <1>2, SizesFact
  <2>3. (Place(enc[e]) + (i - 1)) % Bytes \in Nat
    BY <2>2, DivMod
  <2> QED
    BY <1>1, <1>2, <2>1, <2>3, ElementOfSeq DEF KeyByte
<1>4. Encrypted(e, raw) =
         [i \in 1 .. n |-> IF scenario.keyed THEN Xor(raw[i], {}, KeyBytes(enc[e], n)[i])
                           ELSE [value |-> raw[i], mask |-> {}]]
  BY <1>1 DEF Encrypted
<1>5. \A value, key : Xor(value, {}, key) = [value |-> value, mask |-> {key}]
  BY DEF Xor, SymDiff
<1>6. ASSUME NEW i \in 1 .. n
      PROVE  /\ Encrypted(e, raw)[i] =
                   [value |-> raw[i],
                    mask  |-> IF scenario.keyed
                                THEN {<<enc[e].half, (Place(enc[e]) + (i - 1)) % Bytes>>} ELSE {}]
             /\ Encrypted(e, raw)[i] \in WireByte
  <2>1. Encrypted(e, raw)[i] =
           IF scenario.keyed THEN Xor(raw[i], {}, KeyBytes(enc[e], n)[i])
           ELSE [value |-> raw[i], mask |-> {}]
    BY <1>4
  <2>2. Encrypted(e, raw)[i] =
           [value |-> raw[i],
            mask  |-> IF scenario.keyed
                        THEN {<<enc[e].half, (Place(enc[e]) + (i - 1)) % Bytes>>} ELSE {}]
    BY <1>3, <1>5, <2>1
  <2> QED
    BY <1>3, <2>2 DEF WireByte
<1>7. Encrypted(e, raw) \in [1 .. n -> WireByte]
  BY <1>4, <1>6
<1>8. Encrypted(e, raw) \in Seq(WireByte) /\ Len(Encrypted(e, raw)) = n
  <2>1. Encrypted(e, raw) \in Seq(WireByte)
    BY <1>7, SeqDef
  <2>2. DOMAIN Encrypted(e, raw) = 1 .. n
    BY <1>7
  <2>3. PICK m \in Nat : m = Len(Encrypted(e, raw)) /\ 1 .. m = 1 .. n
    BY <2>1, <2>2, LenProperties
  <2>4. m = n
    BY <2>3
  <2> QED
    BY <2>1, <2>3, <2>4
<1> QED
  BY <1>1, <1>6, <1>8

\* What Coder.Read gives to readFrame.
LEMMA DecryptedFits ==
    ASSUME CipherShape, Shape, NEW e \in Ends, NEW n \in Nat, n <= Len(conn[e])
    PROVE  /\ Decrypted(e, n) \in Seq(Int) /\ Len(Decrypted(e, n)) = n
           /\ \A i \in 1 .. n :
                 conn[e][i].mask = (IF scenario.keyed
                    THEN {<<dec[e].half, (Place(dec[e]) + (i - 1)) % Bytes>>} ELSE {})
                 => Decrypted(e, n)[i] = conn[e][i].value
<1>1. Good(dec[e]) /\ conn[e] \in Seq(WireByte)
  BY DEF CipherShape, Shape
<1>2. ASSUME NEW i \in 1 .. n
      PROVE  /\ conn[e][i] \in WireByte
             /\ KeyBytes(dec[e], n)[i] = <<dec[e].half, (Place(dec[e]) + (i - 1)) % Bytes>>
  <2>1. i \in 1 .. Len(conn[e])
    BY <1>1, LenProperties
  <2> QED
    BY <1>1, <2>1, ElementOfSeq, KeyBytesFollow
<1>3. Decrypted(e, n) =
         [i \in 1 .. n |->
            IF scenario.keyed
              THEN Value(Xor(conn[e][i].value, conn[e][i].mask, KeyBytes(dec[e], n)[i]))
              ELSE conn[e][i].value]
  BY DEF Decrypted
<1>4. \A value, mask, key : /\ Value(Xor(value, mask, key)) \in {value, value + 1}
                            /\ mask = {key} => Value(Xor(value, mask, key)) = value
  BY DEF Xor, Value, SymDiff
<1>5. ASSUME NEW i \in 1 .. n
      PROVE  /\ Decrypted(e, n)[i] \in Int
             /\ conn[e][i].mask = (IF scenario.keyed
                   THEN {<<dec[e].half, (Place(dec[e]) + (i - 1)) % Bytes>>} ELSE {})
                => Decrypted(e, n)[i] = conn[e][i].value
  <2>1. Decrypted(e, n)[i] =
           IF scenario.keyed
             THEN Value(Xor(conn[e][i].value, conn[e][i].mask, KeyBytes(dec[e], n)[i]))
             ELSE conn[e][i].value
    BY <1>3
  <2>2. conn[e][i].value \in Int
    BY <1>2 DEF WireByte
  <2>3. CASE scenario.keyed
    <3>1. PICK v, mask, key : /\ v \in Int /\ v = conn[e][i].value
                              /\ mask = conn[e][i].mask /\ key = KeyBytes(dec[e], n)[i]
      BY <2>2
    <3>2. Decrypted(e, n)[i] = Value(Xor(v, mask, key))
      BY <2>1, <2>3, <3>1
    <3>3. Decrypted(e, n)[i] \in Int
      <4>1. Decrypted(e, n)[i] \in {v, v + 1}
        BY <1>4, <3>2
      <4> QED
        BY <3>1, <4>1
    <3>4. key = <<dec[e].half, (Place(dec[e]) + (i - 1)) % Bytes>>
      BY <1>2, <3>1
    <3> QED
      BY <1>4, <2>3, <3>1, <3>2, <3>3, <3>4
  <2>4. CASE ~scenario.keyed
    BY <2>1, <2>2, <2>4
  <2> QED
    BY <2>3, <2>4
<1>6. Decrypted(e, n) \in [1 .. n -> Int]
  BY <1>3, <1>5
<1>7. Decrypted(e, n) \in Seq(Int) /\ Len(Decrypted(e, n)) = n
  <2>1. Decrypted(e, n) \in Seq(Int)
    BY <1>6, SeqDef
  <2>2. DOMAIN Decrypted(e, n) = 1 .. n
    BY <1>6
  <2>3. PICK m \in Nat : m = Len(Decrypted(e, n)) /\ 1 .. m = 1 .. n
    BY <2>1, <2>2, LenProperties
  <2>4. m = n
    BY <2>3
  <2> QED
    BY <2>1, <2>3, <2>4
<1> QED
  BY <1>5, <1>7

-----------------------------------------------------------------------------
(* The ciphers *)

\* Where the key stream of a scenario begins.
Start(s) == Place(NewCipher("low", s.x8, s.nonce))

\* The bytes used follow each other from the start on, up to where the cipher is.
EncInv(e) ==
    /\ enc[e].half = Half(e = hub)
    /\ scenario.keyed => Place(enc[e]) = (Start(scenario) + Len(spent[e])) % Bytes
    /\ \A i \in 1 .. Len(spent[e]) :
          spent[e][i] = <<Half(e = hub), (Start(scenario) + (i - 1)) % Bytes>>

\* A new cipher is a good one, and both halves begin at one place.
LEMMA NewCipherFits ==
    ASSUME NEW half \in {"low", "high"}, NEW x8 \in Word, NEW nonce \in Word
    PROVE  /\ Good(NewCipher(half, x8, nonce)) /\ NewCipher(half, x8, nonce) \in Ciphers
           /\ NewCipher(half, x8, nonce).half = half
           /\ Place(NewCipher(half, x8, nonce)) = Place(NewCipher("low", x8, nonce))
           /\ Place(NewCipher(half, x8, nonce)) \in Nat
           /\ Place(NewCipher(half, x8, nonce)) < Bytes
<1>1. /\ BlockSize \in Nat /\ ~(BlockSize < BlockSize) /\ BlockSize \in 0 .. BlockSize
      /\ 0 \in 0 .. Words - 1 /\ 0 \in 0 .. Words * Words - 1
  BY SizesFact DEF Blocks
<1>2. ASSUME NEW h \in {"low", "high"}
      PROVE  Good(NewCipher(h, x8, nonce)) /\ NewCipher(h, x8, nonce) \in Ciphers
  BY <1>1 DEF Good, NewCipher, Ciphers, Word
<1>3. Place(NewCipher(half, x8, nonce)) = Place(NewCipher("low", x8, nonce))
  BY <1>1 DEF NewCipher, Place, Block
<1> QED
  BY <1>2, <1>3, NextBlock DEF NewCipher

\* A call of Coder.Write goes on where the last one ended.
LEMMA CipherMoved ==
    ASSUME CipherShape, \A x \in Ends : EncInv(x), scenario \in Scenarios,
           NEW e \in Ends, NEW len \in Nat, CipherMoves(e, len), scenario' = scenario
    PROVE  CipherShape' /\ (\A x \in Ends : EncInv(x)') /\ dec' = dec
           /\ enc' \in {enc, [enc EXCEPT ![e] = After(@, len)]}
<1>1. CASE ~scenario.keyed
  BY <1>1 DEF CipherMoves, cipherVars, CipherShape, EncInv
<1>2. CASE scenario.keyed
  <2> DEFINE K == KeyBytes(enc[e], len)
  <2>1. /\ enc' = [enc EXCEPT ![e] = After(enc[e], len)] /\ dec' = dec
        /\ spent' = [spent EXCEPT ![e] = spent[e] \o K]
    BY <1>2 DEF CipherMoves
  <2>2. Good(enc[e]) /\ enc[e] \in Ciphers /\ spent[e] \in Seq(KeyByte)
    BY DEF CipherShape
  <2>3. /\ Good(After(enc[e], len)) /\ After(enc[e], len).half = enc[e].half
        /\ Place(After(enc[e], len)) = (Place(enc[e]) + len) % Bytes
        /\ After(enc[e], len) \in Ciphers
    <3>1. /\ Good(After(enc[e], len)) /\ After(enc[e], len).half = enc[e].half
          /\ Place(After(enc[e], len)) = (Place(enc[e]) + len) % Bytes
      BY <2>2, AfterFollows
    <3> QED
      BY <3>1 DEF Good
  <2>4. /\ K \in Seq(KeyByte) /\ Len(K) = len
        /\ \A i \in 1 .. len : K[i] = <<enc[e].half, (Place(enc[e]) + (i - 1)) % Bytes>>
    <3>1. /\ DOMAIN K = 1 .. len /\ K \in Seq({enc[e].half} \X Nat)
          /\ \A i \in 1 .. len : K[i] = <<enc[e].half, (Place(enc[e]) + (i - 1)) % Bytes>>
      BY <2>2, KeyBytesFollow
    <3>2. {enc[e].half} \X Nat \subseteq KeyByte
      BY <2>2, CipherFields DEF KeyByte
    <3>3. K \in Seq(KeyByte)
      BY <3>1, <3>2, SeqMonotonic
    <3>4. PICK m \in Nat : m = Len(K) /\ 1 .. m = 1 .. len
      BY <3>1, <3>3, LenProperties
    <3>5. m = len
      BY <3>4
    <3> QED
      BY <3>1, <3>3, <3>4, <3>5
  <2> HIDE DEF K
  <2>5. PICK s : s = spent[e] \o K
    OBVIOUS
  <2>6. PICK n \in Nat : n = Len(spent[e])
    BY <2>2, LenProperties
  <2>7. /\ s \in Seq(KeyByte) /\ Len(s) = n + len
        /\ \A i \in 1 .. n + len : s[i] = IF i <= n THEN spent[e][i] ELSE K[i - n]
    BY ZenonT(30), <2>2, <2>4, <2>5, <2>6, ConcatProperties
  <2>8. /\ enc'[e] = After(enc[e], len) /\ spent'[e] = s
        /\ \A x \in Ends : x # e => enc'[x] = enc[x] /\ spent'[x] = spent[x]
    BY <2>1, <2>5 DEF CipherShape
  <2>9. CipherShape'
    <3>1. enc' \in [Ends -> Ciphers]
      BY <2>1, <2>3 DEF CipherShape
    <3>2. spent' \in [Ends -> Seq(KeyByte)]
      BY <2>1, <2>5, <2>7 DEF CipherShape
    <3>3. \A x \in Ends : Good(enc'[x]) /\ Good(dec'[x])
      BY <2>1, <2>3, <2>8 DEF CipherShape
    <3> QED
      BY <2>1, <3>1, <3>2, <3>3 DEF CipherShape
  <2>10. ASSUME NEW x \in Ends PROVE EncInv(x)'
    <3>1. CASE x # e
      BY <2>8, <3>1 DEF EncInv
    <3>2. CASE x = e
      <4>1. /\ enc[e].half = Half(e = hub)
            /\ Place(enc[e]) = (Start(scenario) + n) % Bytes
            /\ \A i \in 1 .. n : spent[e][i] = <<Half(e = hub), (Start(scenario) + (i - 1)) % Bytes>>
        BY <1>2, <2>6 DEF EncInv
      <4>2. PICK a \in Nat : a = Start(scenario)
        BY ScenarioFacts, NewCipherFits DEF Start
      <4>3. ASSUME NEW d \in Nat PROVE (Place(enc[e]) + d) % Bytes = (a + n + d) % Bytes
        <5>1. PICK b \in Nat : b = a + n
          OBVIOUS
        <5>2. ((b % Bytes) + d) % Bytes = (b + d) % Bytes
          BY SizesFact, ModAdd
        <5> QED
          BY <4>1, <4>2, <5>1, <5>2
      <4>4. Place(enc'[e]) = (a + Len(s)) % Bytes
        <5>1. a + n + len = a + (n + len)
          OBVIOUS
        <5> QED
          BY <2>3, <2>7, <2>8, <4>3, <5>1
      <4>5. ASSUME NEW i \in 1 .. n + len
            PROVE  s[i] = <<Half(e = hub), (a + (i - 1)) % Bytes>>
        <5>1. CASE i <= n
          <6>1. i \in 1 .. n
            BY <5>1
          <6> QED
            BY <2>7, <4>1, <4>2, <5>1, <6>1
        <5>2. CASE ~(i <= n)
          <6>1. i - n \in 1 .. len /\ i - n - 1 \in Nat /\ a + n + (i - n - 1) = a + (i - 1)
            BY <5>2
          <6>2. s[i] = <<Half(e = hub), (Place(enc[e]) + (i - n - 1)) % Bytes>>
            BY <2>4, <2>7, <4>1, <5>2, <6>1
          <6> QED
            BY <4>3, <6>1, <6>2
        <5> QED
          BY <5>1, <5>2
      <4> QED
        BY <2>3, <2>7, <2>8, <3>2, <4>1, <4>2, <4>4, <4>5 DEF EncInv
    <3> QED
      BY <3>1, <3>2
  <2> QED
    BY <2>1, <2>9, <2>10
<1> QED
  BY <1>1, <1>2, ScenarioFacts
-----------------------------------------------------------------------------
(* Types *)

\* A call leaves frames that may be sent.
LEMMA CallFits ==
    ASSUME Shape, NEW e \in Ends, Calling(e),
           NEW s \in Seq(Sendable(FrameSize(scenario.setting))),
           todo' \in {todo, [todo EXCEPT ![e] = s]}, data' \in [Ends -> Nat],
           UNCHANGED <<scenario, conn, broken, got, reader, written, read>>
    PROVE  Shape'
<1>1. calls' = [calls EXCEPT ![e] = calls[e] + 1] /\ calls[e] < scenario.calls[e]
  BY DEF Calling
<1>2. scenario \in Scenarios /\ scenario.calls \in [Ends -> Nat]
  BY ScenarioFacts DEF Shape
<1>3. calls' \in [Ends -> Nat] /\ \A x \in Ends : calls'[x] <= scenario.calls[x]
  <2>1. calls \in [Ends -> Nat] /\ \A x \in Ends : calls[x] <= scenario.calls[x]
    BY DEF Shape
  <2>2. calls' \in [Ends -> Nat]
    BY <1>1, <2>1
  <2>3. ASSUME NEW x \in Ends PROVE calls'[x] <= scenario.calls[x]
    <3>1. calls'[x] = IF x = e THEN calls[e] + 1 ELSE calls[x]
      BY <1>1, <2>1
    <3>2. calls[e] \in Nat /\ scenario.calls[e] \in Nat
      BY <1>2, <2>1
    <3> QED
      BY <1>1, <2>1, <3>1, <3>2
  <2> QED
    BY <2>2, <2>3
<1>4. todo' \in [Ends -> Seq(Sendable(FrameSize(scenario.setting)))]
  BY DEF Shape
<1> QED
  BY <1>3, <1>4 DEF Shape

\* The streams of an end have ids.
LEMMA StreamsFit ==
    ASSUME Shape, IdsInv, NEW e \in Ends, NEW sid \in Streams(e)
    PROVE  sid \in 0 .. TwoBytes - 1
<1>1. CASE sid \in Range(ids[e])
  <2>1. ids[e] \in Seq(0 .. TwoBytes - 1)
    BY DEF IdsInv, IdShape
  <2>2. PICK i \in DOMAIN ids[e] : sid = ids[e][i]
    BY <1>1 DEF Range
  <2>3. i \in 1 .. Len(ids[e])
    BY <2>1, <2>2, LenProperties
  <2> QED
    BY <2>1, <2>2, <2>3, ElementOfSeq
<1>2. CASE sid \in {f.sid : f \in {g \in Range(read[e]) : g.cmd = SYN}}
  <2>1. read[e] \in Seq(Frames)
    BY DEF Shape
  <2>2. PICK i \in DOMAIN read[e] : sid = read[e][i].sid
    BY <1>2 DEF Range
  <2>3. i \in 1 .. Len(read[e])
    BY <2>1, <2>2, LenProperties
  <2>4. read[e][i] \in Frames
    BY <2>1, <2>3, ElementOfSeq
  <2> QED
    BY <2>2, <2>4 DEF Frames
<1> QED
  BY <1>1, <1>2 DEF Streams

\* Every call keeps the types.
LEMMA CallsFit ==
    ASSUME Shape, IdsInv, NEW e \in Ends, Call(e)
    PROVE  Shape' /\ UNCHANGED <<cipherVars, scenario, conn, broken, got, reader, written, read>>
           /\ calls' # calls
<1>1. /\ scenario \in Scenarios /\ data \in [Ends -> Nat]
      /\ FrameSize(scenario.setting) \in 1 .. TwoBytes - 1
      /\ FrameSize(scenario.setting) \in Nat \ {0}
  <2>1. FrameSize(scenario.setting) \in 1 .. TwoBytes - 1
    BY ScenarioFacts, FrameSizeFits DEF Shape
  <2> QED
    BY SMTT(30), <2>1, WireFacts DEF Shape
<1>2. ASSUME Calling(e) PROVE calls' # calls
  <2>1. calls \in [Ends -> Nat] /\ calls' = [calls EXCEPT ![e] = calls[e] + 1]
    BY <1>2 DEF Shape, Calling
  <2>2. calls'[e] = calls[e] + 1 /\ calls[e] \in Nat
    BY <2>1
  <2> QED
    BY <2>2
<1>3. CASE OpenStream(e)
  <2> DEFINE sid == (nextStreamID[e] + 2) % TwoBytes
  <2>1. sid \in 0 .. TwoBytes - 1
    BY NextId DEF IdsInv, IdShape
  <2>2. /\ Calling(e) /\ data' = data
        /\ UNCHANGED <<cipherVars, scenario, conn, broken, got, reader, written, read>>
        /\ todo' \in {todo, [todo EXCEPT ![e] = <<Frame(SYN, sid, <<>>)>>]}
    BY <1>3 DEF OpenStream
  <2> HIDE DEF sid
  <2>3. <<Frame(SYN, sid, <<>>)>> \in Seq(Sendable(FrameSize(scenario.setting)))
    BY <1>1, <2>1, BareFits
  <2> QED
    BY <1>1, <1>2, <2>2, <2>3, CallFits
<1>4. CASE CloseStream(e)
  <2>1. PICK sid \in Streams(e) : todo' = [todo EXCEPT ![e] = <<Frame(FIN, sid, <<>>)>>]
    BY <1>4 DEF CloseStream
  <2>2. /\ Calling(e) /\ data' = data
        /\ UNCHANGED <<cipherVars, scenario, conn, broken, got, reader, written, read>>
    BY <1>4 DEF CloseStream
  <2>3. <<Frame(FIN, sid, <<>>)>> \in Seq(Sendable(FrameSize(scenario.setting)))
    BY <1>1, <2>1, StreamsFit, BareFits
  <2> QED
    BY <1>1, <1>2, <2>1, <2>2, <2>3, CallFits
<1>5. ASSUME NEW len \in WriteSizes, Write(e, len)
      PROVE  Shape' /\ UNCHANGED <<cipherVars, scenario, conn, broken, got, reader, written, read>>
             /\ calls' # calls
  <2> DEFINE new == [i \in 1 .. len |-> data[e] + i]
  <2>1. PICK sid \in Streams(e) :
           todo' = [todo EXCEPT ![e] = Split(new, FrameSize(scenario.setting), sid)]
    BY <1>5 DEF Write
  <2>2. /\ Calling(e) /\ data' = [data EXCEPT ![e] = @ + len]
        /\ UNCHANGED <<cipherVars, scenario, conn, broken, got, reader, written, read>>
    BY <1>5 DEF Write
  <2>3. len \in Nat /\ data[e] \in Nat
    BY <1>1, WireAssumption
  <2>4. new \in Seq(Int)
    <3>1. new \in [1 .. len -> Int]
      BY <2>3
    <3> QED
      BY <2>3, <3>1, SeqDef
  <2> HIDE DEF new
  <2>5. Split(new, FrameSize(scenario.setting), sid) \in Seq(Sendable(FrameSize(scenario.setting)))
    BY <1>1, <2>1, <2>4, StreamsFit, SplitFits
  <2>6. data' \in [Ends -> Nat]
    BY <1>1, <2>2, <2>3
  <2> QED
    BY <1>2, <2>1, <2>2, <2>5, <2>6, CallFits
<1> QED
  BY <1>3, <1>4, <1>5 DEF Call

\* The frame that is next.
LEMMA FirstFits ==
    ASSUME Shape, NEW e \in Ends, todo[e] # <<>>
    PROVE  /\ todo[e][1] \in Sendable(FrameSize(scenario.setting)) /\ todo[e][1] \in Frames
           /\ Tail(todo[e]) \in Seq(Sendable(FrameSize(scenario.setting)))
           /\ Raw(todo[e][1]) \in Seq(Int) /\ Len(Raw(todo[e][1])) \in Nat
           /\ Len(Raw(todo[e][1])) >= HeaderSize
<1>1. todo[e] \in Seq(Sendable(FrameSize(scenario.setting)))
  BY DEF Shape
<1>2. 1 \in 1 .. Len(todo[e])
  BY <1>1, EmptySeq
<1>3. todo[e][1] \in Sendable(FrameSize(scenario.setting)) /\ todo[e][1] \in Frames
  <2>1. todo[e][1] \in Sendable(FrameSize(scenario.setting))
    BY <1>1, <1>2, ElementOfSeq
  <2> QED
    BY <2>1 DEF Sendable
<1>4. Tail(todo[e]) \in Seq(Sendable(FrameSize(scenario.setting)))
  BY <1>1, HeadTailProperties
<1>5. /\ Raw(todo[e][1]) \in Seq(Int) /\ Len(Raw(todo[e][1])) = HeaderSize + Len(todo[e][1].data)
      /\ Len(todo[e][1].data) \in Nat
  BY <1>3, RawFits
<1> QED
  BY <1>3, <1>4, <1>5 DEF HeaderSize

\* What the connection takes is the beginning of what was encrypted.
LEMMA TakenFits ==
    ASSUME NEW s \in Seq(WireByte), NEW n \in 0 .. Len(s)
    PROVE  SubSeq(s, 1, n) \in Seq(WireByte) /\ Len(SubSeq(s, 1, n)) = n
           /\ \A i \in 1 .. n : SubSeq(s, 1, n)[i] = s[i]
<1>1. \A i \in 1 .. n : s[i] \in WireByte
  BY ElementOfSeq, LenProperties
<1>2. n \in Int /\ n >= 0 /\ n - 1 + 1 = n
  BY LenProperties
<1>3. /\ SubSeq(s, 1, n) \in Seq(WireByte)
      /\ Len(SubSeq(s, 1, n)) = IF 1 <= n THEN n - 1 + 1 ELSE 0
      /\ \A i \in 1 .. n - 1 + 1 : SubSeq(s, 1, n)[i] = s[1 + i - 1]
  BY <1>1, <1>2, SubSeqProperties
<1> QED
  BY <1>2, <1>3

\* A frame that the connection takes, whole or in part.
LEMMA WriteFits ==
    ASSUME Shape, CipherShape, \A x \in Ends : EncInv(x), NEW e \in Ends, WriteFrame(e)
    PROVE  Shape' /\ CipherShape' /\ (\A x \in Ends : EncInv(x)') /\ scenario' = scenario
<1>1. /\ scenario \in Scenarios /\ Peer(e) \in Ends
      /\ conn \in [Ends -> Seq(WireByte)]
      /\ todo \in [Ends -> Seq(Sendable(FrameSize(scenario.setting)))]
  BY WireFacts DEF Shape
<1>2. todo[e] # <<>>
  BY DEF WriteFrame, Transmit, TransmitFails, TransmitPanics
<1> DEFINE raw == Raw(todo[e][1])
<1>3. PICK len \in Nat : len = Len(raw) /\ len >= 6 /\ raw \in Seq(Int)
  BY <1>2, FirstFits DEF HeaderSize
<1>4. Encrypted(e, raw) \in Seq(WireByte) /\ Len(Encrypted(e, raw)) = len
  BY <1>3, EncryptedFits
<1>5. Tail(todo[e]) \in Seq(Sendable(FrameSize(scenario.setting)))
      /\ todo[e][1] \in Sendable(FrameSize(scenario.setting))
  BY <1>2, FirstFits
<1>6. <<>> \in Seq(Sendable(FrameSize(scenario.setting)))
  BY EmptySeq
<1>7. CASE Transmit(e)
  <2>1. /\ CipherMoves(e, len) /\ scenario' = scenario
        /\ conn' = [conn EXCEPT ![Peer(e)] = @ \o Encrypted(e, raw)]
        /\ written' = [written EXCEPT ![e] = Append(@, todo[e][1])]
        /\ todo' = [todo EXCEPT ![e] = Tail(@)]
        /\ UNCHANGED <<broken, calls, got, reader, data, read>>
    BY <1>3, <1>7 DEF Transmit
  <2> HIDE DEF raw
  <2>2. CipherShape' /\ \A x \in Ends : EncInv(x)'
    BY <1>1, <2>1, CipherMoved
  <2>3. conn' \in [Ends -> Seq(WireByte)]
    <3>1. conn[Peer(e)] \o Encrypted(e, raw) \in Seq(WireByte)
      BY <1>1, <1>4, ConcatProperties
    <3> QED
      BY <1>1, <2>1, <3>1
  <2>4. written' \in [Ends -> Seq(Sendable(FrameSize(scenario.setting)))]
    <3>1. written \in [Ends -> Seq(Sendable(FrameSize(scenario.setting)))]
      BY DEF Shape
    <3>2. Append(written[e], todo[e][1]) \in Seq(Sendable(FrameSize(scenario.setting)))
      BY <1>5, <3>1, AppendProperties
    <3> QED
      BY <2>1, <3>1, <3>2
  <2>5. todo' \in [Ends -> Seq(Sendable(FrameSize(scenario.setting)))]
    BY <1>1, <1>5, <2>1
  <2> QED
    BY <2>1, <2>2, <2>3, <2>4, <2>5 DEF Shape
<1>8. CASE TransmitFails(e)
  <2>1. PICK n \in {0, HeaderSize, Len(raw) - 1} :
           n < Len(raw) /\ conn' = [conn EXCEPT ![Peer(e)] = @ \o SubSeq(Encrypted(e, raw), 1, n)]
    BY <1>8 DEF TransmitFails
  <2>2. /\ CipherMoves(e, len) /\ scenario' = scenario /\ broken' = TRUE
        /\ todo' = [todo EXCEPT ![e] = <<>>]
        /\ UNCHANGED <<calls, got, reader, data, written, read>>
    BY <1>3, <1>8 DEF TransmitFails
  <2>3. n \in 0 .. len
    BY <1>3, <2>1 DEF HeaderSize
  <2> HIDE DEF raw
  <2>4. CipherShape' /\ \A x \in Ends : EncInv(x)'
    BY <1>1, <2>2, CipherMoved
  <2>5. conn' \in [Ends -> Seq(WireByte)]
    <3>1. SubSeq(Encrypted(e, raw), 1, n) \in Seq(WireByte)
      BY <1>4, <2>3, TakenFits
    <3>2. conn[Peer(e)] \o SubSeq(Encrypted(e, raw), 1, n) \in Seq(WireByte)
      BY <1>1, <3>1, ConcatProperties
    <3> QED
      BY <1>1, <2>1, <3>2
  <2>6. todo' \in [Ends -> Seq(Sendable(FrameSize(scenario.setting)))]
    BY <1>1, <1>6, <2>2
  <2> QED
    BY <2>2, <2>4, <2>5, <2>6 DEF Shape
<1>9. CASE TransmitPanics(e)
  <2>1. /\ broken' = TRUE /\ todo' = [todo EXCEPT ![e] = <<>>]
        /\ reader' = [reader EXCEPT ![e] = "panicked"]
        /\ UNCHANGED <<cipherVars, scenario, conn, calls, got, data, written, read>>
    BY <1>9 DEF TransmitPanics
  <2>2. CipherShape' /\ \A x \in Ends : EncInv(x)'
    BY <2>1 DEF CipherShape, EncInv, cipherVars
  <2>3. todo' \in [Ends -> Seq(Sendable(FrameSize(scenario.setting)))]
    BY <1>1, <1>6, <2>1
  <2>4. reader' \in [Ends -> {"reading", "refused", "failed", "panicked", "crashed"}]
    BY <2>1 DEF Shape
  <2> QED
    BY <2>1, <2>2, <2>3, <2>4 DEF Shape
<1> QED
  BY <1>7, <1>8, <1>9 DEF WriteFrame

\* What io.ReadFull reads at once is there and is wanted.
LEMMA PieceFits ==
    ASSUME Shape, NEW e \in Ends, NEW k \in scenario.pieces,
           Least(k, Least(Len(conn[e]), Needed(got[e]) - Len(got[e]))) > 0
    PROVE  LET n == Least(k, Least(Len(conn[e]), Needed(got[e]) - Len(got[e])))
           IN  n \in Nat /\ n <= Len(conn[e]) /\ Len(got[e]) + n <= Needed(got[e])
<1>1. k \in Nat
  BY ScenarioFacts DEF Shape
<1>2. PICK a \in Nat : a = Len(conn[e])
  <2>1. conn[e] \in Seq(WireByte)
    BY DEF Shape
  <2> QED
    BY <2>1, LenProperties
<1>3. PICK b \in Nat, c \in Nat : b = Needed(got[e]) /\ c = Len(got[e])
  <2>1. got[e] \in Seq(Int) /\ Len(got[e]) < HeaderSize + TwoBytes
    BY DEF Shape
  <2> QED
    BY <2>1, NeededFits, LenProperties
<1> QED
  BY <1>1, <1>2, <1>3 DEF Least

\* The buffer and the frame after a piece.
LEMMA BufferFits ==
    ASSUME Shape, CipherShape, NEW e \in Ends, NEW n \in Nat, n <= Len(conn[e]),
           Len(got[e]) + n <= Needed(got[e])
    PROVE  LET bytes == got[e] \o Decrypted(e, n)
           IN  /\ bytes \in Seq(Int) /\ Len(bytes) = Len(got[e]) + n
               /\ Len(bytes) < HeaderSize + TwoBytes
               /\ Len(bytes) >= Needed(bytes) =>
                     /\ Len(bytes) >= HeaderSize
                     /\ Frame(bytes[2], TwoAt(bytes, 5),
                              SubSeq(bytes, HeaderSize + 1, Len(bytes))) \in Frames
<1> DEFINE bytes == got[e] \o Decrypted(e, n)
<1>1. got[e] \in Seq(Int) /\ Len(got[e]) < HeaderSize + TwoBytes
  BY DEF Shape
<1>2. Decrypted(e, n) \in Seq(Int) /\ Len(Decrypted(e, n)) = n
  BY DecryptedFits
<1>3. bytes \in Seq(Int) /\ Len(bytes) = Len(got[e]) + n
  <2>1. bytes \in Seq(Int) /\ Len(bytes) = Len(got[e]) + Len(Decrypted(e, n))
    BY <1>1, <1>2, Joined
  <2> QED
    BY <1>2, <2>1
<1> HIDE DEF bytes
<1>4. PICK m \in Nat : m = Len(bytes)
  BY <1>3, LenProperties
<1>5. Needed(got[e]) \in Nat /\ Needed(got[e]) < HeaderSize + TwoBytes
  BY <1>1, NeededFits
<1>6. m < HeaderSize + TwoBytes
  BY <1>3, <1>4, <1>5, WireFacts DEF HeaderSize
<1>7. ASSUME m >= Needed(bytes)
      PROVE  /\ m >= HeaderSize
             /\ Frame(bytes[2], TwoAt(bytes, 5), SubSeq(bytes, HeaderSize + 1, m)) \in Frames
  <2>1. m >= HeaderSize
    BY <1>4, <1>7 DEF Needed, HeaderSize
  <2>2. TwoAt(bytes, 5) \in 0 .. TwoBytes - 1
    BY <1>3, <1>4, <1>6, <2>1, NeededFits
  <2>3. \A i \in 1 .. m : bytes[i] \in Int
    BY <1>3, <1>4, ElementOfSeq
  <2>4. bytes[2] \in Int
    BY <2>1, <2>3 DEF HeaderSize
  <2>5. SubSeq(bytes, HeaderSize + 1, m) \in Seq(Int)
    <3>1. \A i \in HeaderSize + 1 .. m : bytes[i] \in Int
      BY <2>3 DEF HeaderSize
    <3>2. HeaderSize + 1 \in Int
      BY DEF HeaderSize
    <3> QED
      BY <3>1, <3>2, SubSeqProperties
  <2> QED
    BY <2>1, <2>2, <2>4, <2>5 DEF Frames, Frame
<1> QED
  BY <1>3, <1>4, <1>6, <1>7 DEF bytes

\* A piece that is read.
LEMMA ReadFits ==
    ASSUME Shape, CipherShape, \A x \in Ends : EncInv(x), NEW e \in Ends, ReadFrame(e) \/ ReadFails(e)
    PROVE  Shape' /\ CipherShape' /\ (\A x \in Ends : EncInv(x)') /\ scenario' = scenario
<1>1. /\ conn \in [Ends -> Seq(WireByte)] /\ got \in [Ends -> Seq(Int)]
      /\ todo \in [Ends -> Seq(Sendable(FrameSize(scenario.setting)))]
      /\ read \in [Ends -> Seq(Frames)] /\ broken \in BOOLEAN
      /\ reader \in [Ends -> {"reading", "refused", "failed", "panicked", "crashed"}]
  BY DEF Shape
<1>2. <<>> \in Seq(Sendable(FrameSize(scenario.setting))) /\ <<>> \in Seq(WireByte)
      /\ <<>> \in Seq(Int) /\ Len(<<>>) = 0 /\ 0 < HeaderSize + TwoBytes
  BY EmptySeq, WireFacts DEF HeaderSize
<1>3. ASSUME NEW n \in Nat, n <= Len(conn[e]), Len(got[e]) + n <= Needed(got[e]), ReadPiece(e, n)
      PROVE  Shape' /\ CipherShape' /\ (\A x \in Ends : EncInv(x)') /\ scenario' = scenario
  <2> DEFINE bytes == got[e] \o Decrypted(e, n)
  <2> DEFINE new == Frame(bytes[2], TwoAt(bytes, 5), SubSeq(bytes, HeaderSize + 1, Len(bytes)))
  <2>1. /\ bytes \in Seq(Int) /\ Len(bytes) < HeaderSize + TwoBytes
        /\ Len(bytes) >= Needed(bytes) => new \in Frames
    BY <1>3, BufferFits
  <2>2. /\ conn' = [conn EXCEPT ![e] = SubSeq(@, n + 1, Len(@))]
        /\ dec' = IF scenario.keyed THEN [dec EXCEPT ![e] = After(@, n)] ELSE dec
        /\ IF Len(bytes) < Needed(bytes)
             THEN got' = [got EXCEPT ![e] = bytes] /\ read' = read
             ELSE got' = [got EXCEPT ![e] = <<>>] /\ read' = [read EXCEPT ![e] = Append(@, new)]
        /\ reader' = [reader EXCEPT ![e] =
               IF Len(bytes) >= HeaderSize /\ bytes[1] # Version THEN "refused" ELSE @]
        /\ broken' = (broken \/ reader'[e] = "refused")
        /\ UNCHANGED <<scenario, enc, spent, todo, calls, data, written>>
    BY <1>3 DEF ReadPiece
  <2>3. PICK m \in Nat, l \in Nat : m = Len(bytes) /\ l = Needed(bytes)
    BY <2>1, NeededFits, LenProperties
  <2> HIDE DEF bytes, new
  <2>4. conn' \in [Ends -> Seq(WireByte)]
    <3>1. conn[e] \in Seq(WireByte) /\ \A i \in n + 1 .. Len(conn[e]) : i \in 1 .. Len(conn[e])
      BY <1>1
    <3>2. \A i \in n + 1 .. Len(conn[e]) : conn[e][i] \in WireByte
      BY <3>1, ElementOfSeq
    <3>3. SubSeq(conn[e], n + 1, Len(conn[e])) \in Seq(WireByte)
      BY <3>1, <3>2, LenProperties, SubSeqProperties
    <3> QED
      BY <1>1, <2>2, <3>3
  <2>5. got' \in [Ends -> Seq(Int)] /\ (\A x \in Ends : Len(got'[x]) < HeaderSize + TwoBytes)
    <3>1. \A x \in Ends : Len(got[x]) < HeaderSize + TwoBytes
      BY DEF Shape
    <3>2. PICK b \in Seq(Int) : got' = [got EXCEPT ![e] = b] /\ Len(b) < HeaderSize + TwoBytes
      BY <1>2, <2>1, <2>2
    <3> QED
      BY <1>1, <3>1, <3>2
  <2>6. read' \in [Ends -> Seq(Frames)]
    <3>1. CASE m < l
      BY <1>1, <2>2, <2>3, <3>1
    <3>2. CASE m >= l
      <4>1. new \in Frames /\ read' = [read EXCEPT ![e] = Append(@, new)]
        BY <2>1, <2>2, <2>3, <3>2
      <4>2. Append(read[e], new) \in Seq(Frames)
        BY <1>1, <4>1, AppendProperties
      <4> QED
        BY <1>1, <4>1, <4>2
    <3> QED
      BY <3>1, <3>2
  <2>7. reader' \in [Ends -> {"reading", "refused", "failed", "panicked", "crashed"}]
        /\ broken' \in BOOLEAN
    <3>1. reader' \in {reader, [reader EXCEPT ![e] = "refused"]}
      BY <1>1, <2>2
    <3> QED
      BY <1>1, <2>2, <3>1
  <2>8. Shape'
    BY <2>2, <2>4, <2>5, <2>6, <2>7 DEF Shape
  <2>9. CipherShape'
    <3>1. Good(After(dec[e], n)) /\ After(dec[e], n) \in Ciphers
      <4>1. Good(dec[e])
        BY DEF CipherShape
      <4>2. Good(After(dec[e], n))
        BY <4>1, AfterFollows
      <4> QED
        BY <4>2 DEF Good
    <3>2. dec' \in [Ends -> Ciphers] /\ \A x \in Ends : Good(dec'[x])
      BY <2>2, <3>1 DEF CipherShape
    <3> QED
      BY <2>2, <3>2 DEF CipherShape
  <2>10. \A x \in Ends : EncInv(x)'
    BY <2>2 DEF EncInv
  <2> QED
    BY <2>2, <2>8, <2>9, <2>10
<1>4. ASSUME NEW n, ReadPanics(e, n)
      PROVE  Shape' /\ CipherShape' /\ (\A x \in Ends : EncInv(x)') /\ scenario' = scenario
  <2>1. /\ reader' = [reader EXCEPT ![e] = "crashed"] /\ broken' = TRUE
        /\ conn' = [conn EXCEPT ![e] = <<>>] /\ todo' = [todo EXCEPT ![e] = <<>>]
        /\ UNCHANGED <<scenario, cipherVars, calls, got, data, written, read>>
    BY <1>4 DEF ReadPanics
  <2>2. CipherShape' /\ \A x \in Ends : EncInv(x)'
    BY <2>1 DEF CipherShape, EncInv, cipherVars
  <2>3. /\ conn' \in [Ends -> Seq(WireByte)]
        /\ reader' \in [Ends -> {"reading", "refused", "failed", "panicked", "crashed"}]
        /\ todo' \in [Ends -> Seq(Sendable(FrameSize(scenario.setting)))]
    BY <1>1, <1>2, <2>1
  <2> QED
    BY <2>1, <2>2, <2>3 DEF Shape
<1>5. CASE ReadFails(e)
  <2>1. /\ reader' = [reader EXCEPT ![e] = "failed"] /\ conn' = [conn EXCEPT ![e] = <<>>]
        /\ UNCHANGED <<scenario, cipherVars, broken, todo, calls, got, data, written, read>>
    BY <1>5 DEF ReadFails
  <2>2. CipherShape' /\ \A x \in Ends : EncInv(x)'
    BY <2>1 DEF CipherShape, EncInv, cipherVars
  <2>3. /\ conn' \in [Ends -> Seq(WireByte)]
        /\ reader' \in [Ends -> {"reading", "refused", "failed", "panicked", "crashed"}]
    BY <1>1, <1>2, <2>1
  <2> QED
    BY <2>1, <2>2, <2>3 DEF Shape
<1>6. CASE ReadFrame(e)
  <2> DEFINE n(k) == Least(k, Least(Len(conn[e]), Needed(got[e]) - Len(got[e])))
  <2>1. PICK k \in scenario.pieces : n(k) > 0 /\ (ReadPiece(e, n(k)) \/ ReadPanics(e, n(k)))
    BY <1>6 DEF ReadFrame
  <2>2. n(k) \in Nat /\ n(k) <= Len(conn[e]) /\ Len(got[e]) + n(k) <= Needed(got[e])
    BY <2>1, PieceFits
  <2> HIDE DEF n
  <2> QED
    BY <1>3, <1>4, <2>1, <2>2
<1> QED
  BY <1>5, <1>6
-----------------------------------------------------------------------------
(* Every behaviour *)

\* The types of all variables, the ids, and the places of the ciphers that write.
WireTyped == Shape /\ CipherShape /\ IdsInv /\ \A e \in Ends : EncInv(e)

\* It holds at the start.
LEMMA TypedInit == Init => WireTyped
<1> SUFFICES ASSUME Init PROVE WireTyped
  OBVIOUS
<1>1. /\ scenario \in Scenarios /\ scenario.x8 \in Word /\ scenario.nonce \in Word
      /\ scenario.calls \in [Ends -> Nat]
  BY ScenarioFacts DEF Init
<1>2. Shape
  <2>1. /\ conn = [e \in Ends |-> <<>>] /\ broken = FALSE /\ todo = [e \in Ends |-> <<>>]
        /\ calls = [e \in Ends |-> 0] /\ got = [e \in Ends |-> <<>>]
        /\ reader = [e \in Ends |-> "reading"] /\ data = [e \in Ends |-> 0]
        /\ written = [e \in Ends |-> <<>>] /\ read = [e \in Ends |-> <<>>]
    BY DEF Init
  <2>2. Len(<<>>) = 0 /\ 0 < HeaderSize + TwoBytes
    BY WireFacts DEF HeaderSize
  <2>3. /\ calls \in [Ends -> Nat] /\ \A e \in Ends : calls[e] <= scenario.calls[e]
    <3>1. \A e \in Ends : scenario.calls[e] \in Nat /\ calls[e] = 0
      BY <1>1, <2>1
    <3> QED
      BY <2>1, <3>1
  <2>4. /\ conn \in [Ends -> Seq(WireByte)] /\ got \in [Ends -> Seq(Int)]
        /\ todo \in [Ends -> Seq(Sendable(FrameSize(scenario.setting)))]
        /\ written \in [Ends -> Seq(Sendable(FrameSize(scenario.setting)))]
        /\ read \in [Ends -> Seq(Frames)]
    BY <2>1, EmptySeq
  <2> QED
    BY <1>1, <2>1, <2>2, <2>3, <2>4 DEF Shape
<1>3. CipherShape /\ \A e \in Ends : EncInv(e)
  <2>1. /\ enc = [e \in Ends |-> NewCipher(Half(e = hub), scenario.x8, scenario.nonce)]
        /\ dec = [e \in Ends |-> NewCipher(Half(e # hub), scenario.x8, scenario.nonce)]
        /\ spent = [e \in Ends |-> <<>>]
    BY DEF Init
  <2>2. \A b \in BOOLEAN : Half(b) \in {"low", "high"}
    BY DEF Half
  <2>3. ASSUME NEW e \in Ends
        PROVE  /\ Good(enc[e]) /\ enc[e] \in Ciphers /\ enc[e].half = Half(e = hub)
               /\ Place(enc[e]) = Start(scenario) /\ Start(scenario) \in 0 .. Bytes - 1
               /\ Good(dec[e]) /\ dec[e] \in Ciphers
    <3>1. PICK a, b : /\ a = Half(e = hub) /\ b = Half(e # hub)
                      /\ a \in {"low", "high"} /\ b \in {"low", "high"}
      BY <2>2
    <3>2. enc[e] = NewCipher(a, scenario.x8, scenario.nonce)
          /\ dec[e] = NewCipher(b, scenario.x8, scenario.nonce)
      BY <2>1, <3>1
    <3>3. Start(scenario) \in Nat /\ Start(scenario) < Bytes
      BY <1>1, NewCipherFits DEF Start
    <3> QED
      BY <1>1, <3>1, <3>2, <3>3, NewCipherFits, SizesFact DEF Start
  <2>4. CipherShape
    <3>1. spent \in [Ends -> Seq(KeyByte)]
      BY <2>1, EmptySeq
    <3>2. enc \in [Ends -> Ciphers] /\ dec \in [Ends -> Ciphers]
      BY <2>1, <2>3
    <3> QED
      BY <2>3, <3>1, <3>2 DEF CipherShape
  <2>5. ASSUME NEW e \in Ends PROVE EncInv(e)
    <3>1. spent[e] = <<>> /\ Len(<<>>) = 0
      BY <2>1
    <3>2. PICK a \in 0 .. Bytes - 1 : a = Start(scenario)
      BY <2>3
    <3>3. (a + 0) % Bytes = a
      BY SizesFact, ModSmall
    <3> QED
      BY <2>3, <3>1, <3>2, <3>3 DEF EncInv
  <2> QED
    BY <2>4, <2>5
<1> QED
  BY <1>2, <1>3, IdsInit DEF WireTyped

\* Every step keeps it.
LEMMA TypedNext == WireTyped /\ [Next]_vars => WireTyped'
<1> SUFFICES ASSUME WireTyped, [Next]_vars PROVE WireTyped'
  OBVIOUS
<1>1. Shape /\ CipherShape /\ IdsInv /\ (\A e \in Ends : EncInv(e)) /\ IdsInv'
  BY IdsNext DEF WireTyped
<1>2. ASSUME NEW e \in Ends, Call(e) PROVE WireTyped'
  <2>1. Shape' /\ UNCHANGED <<cipherVars, scenario>>
    BY <1>1, <1>2, CallsFit
  <2>2. CipherShape' /\ \A x \in Ends : EncInv(x)'
    BY <1>1, <2>1 DEF CipherShape, EncInv, cipherVars
  <2> QED
    BY <1>1, <2>1, <2>2 DEF WireTyped
<1>3. ASSUME NEW e \in Ends, WriteFrame(e) PROVE WireTyped'
  BY <1>1, <1>3, WriteFits DEF WireTyped
<1>4. ASSUME NEW e \in Ends, ReadFrame(e) \/ ReadFails(e) PROVE WireTyped'
  BY <1>1, <1>4, ReadFits DEF WireTyped
<1>5. CASE UNCHANGED vars
  <2>1. Shape'
    BY <1>1, <1>5 DEF Shape, vars
  <2>2. CipherShape' /\ \A x \in Ends : EncInv(x)'
    BY <1>1, <1>5 DEF CipherShape, EncInv, cipherVars, vars
  <2> QED
    BY <1>1, <2>1, <2>2 DEF WireTyped
<1> QED
  BY <1>2, <1>3, <1>4, <1>5 DEF Next

\* So it always holds.
LEMMA TypedAlways == Spec => []WireTyped
<1> QED
  BY TypedInit, TypedNext, PTL DEF Spec

\* Every variable keeps its type, for bytes, blocks and frames of any size: lengths and
\* ids fit their fields and the buffer of readFrame holds no more than a frame.
THEOREM WireTypes == Spec => []TypeOK
<1>1. WireTyped => TypeOK
  <2> SUFFICES ASSUME WireTyped PROVE TypeOK
    OBVIOUS
  <2>1. Shape /\ CipherShape /\ IdShape
    BY DEF WireTyped, IdsInv
  <2>2. ASSUME NEW e \in Ends, NEW i \in DOMAIN todo[e]
        PROVE  /\ todo[e][i].cmd \in {SYN, FIN, PSH} /\ Len(todo[e][i].data) < TwoBytes
               /\ todo[e][i].cmd = PSH => todo[e][i].data # <<>>
    <3>1. todo[e] \in Seq(Sendable(FrameSize(scenario.setting))) /\ scenario \in Scenarios
      BY <2>1 DEF Shape
    <3>2. i \in 1 .. Len(todo[e])
      BY <3>1, LenProperties
    <3>3. PICK f \in Sendable(FrameSize(scenario.setting)) : f = todo[e][i]
      BY <3>1, <3>2, ElementOfSeq
    <3>4. FrameSize(scenario.setting) \in 1 .. TwoBytes - 1
      BY <3>1, ScenarioFacts, FrameSizeFits
    <3>5. /\ f.cmd \in {SYN, FIN, PSH} /\ Len(f.data) <= FrameSize(scenario.setting)
          /\ f.cmd = PSH => f.data # <<>>
      BY DEF Sendable
    <3>6. Len(f.data) \in Nat
      <4>1. f.data \in Seq(Int)
        BY DEF Sendable, Frames
      <4> QED
        BY <4>1, LenProperties
    <3>7. Len(f.data) < TwoBytes
      BY <3>4, <3>5, <3>6, WireFacts
    <3> QED
      BY <3>3, <3>5, <3>7
  <2> QED
    BY <2>1, <2>2 DEF TypeOK, Shape, CipherShape, IdShape
<1> QED
  BY <1>1, TypedAlways, PTL

\* Neither end has gone all the way round the key stream of its nonce: the counter
\* of the blocks, with its carry, has not come back to where it began.
WithinStream == \A e \in Ends : Len(spent[e]) <= Bytes

\* Until then no byte of the key stream is XORed into two bytes of the connection,
\* neither by one end nor by both, whatever the key, the nonce and the lengths of the
\* calls, for blocks and words of any size.
THEOREM KeyNeverReused == Spec => [](WithinStream => KeyUsedOnce)
<1>1. WireTyped /\ WithinStream => KeyUsedOnce
  <2> SUFFICES ASSUME WireTyped, WithinStream PROVE KeyUsedOnce
    OBVIOUS
  <2>1. /\ CipherShape /\ \A e \in Ends : EncInv(e)
        /\ scenario \in Scenarios /\ Start(scenario) \in Nat
    <3>1. scenario \in Scenarios
      BY DEF WireTyped, Shape
    <3> QED
      BY <3>1, ScenarioFacts, NewCipherFits DEF WireTyped, Start
  <2>2. ASSUME NEW e \in Ends PROVE Cardinality(Range(spent[e])) = Len(spent[e])
    <3>1. PICK s : s = spent[e]
      OBVIOUS
    <3>2. PICK n \in Nat : n = Len(s) /\ DOMAIN s = 1 .. n /\ s \in [1 .. n -> KeyByte]
      BY <2>1, <3>1, LenProperties DEF CipherShape
    <3>3. ASSUME NEW i \in 1 .. n, NEW j \in 1 .. n, i <= j, s[i] = s[j] PROVE i = j
      <4>1. (Start(scenario) + (i - 1)) % Bytes = (Start(scenario) + (j - 1)) % Bytes
        <5>1. \A k \in 1 .. n : s[k] = <<Half(e = hub), (Start(scenario) + (k - 1)) % Bytes>>
          BY <2>1, <3>1, <3>2 DEF EncInv
        <5> QED
          BY <3>3, <5>1
      <4>2. PICK a \in Nat, d \in Nat :
               a = Start(scenario) + (i - 1) /\ d = j - i /\ a + d = Start(scenario) + (j - 1)
        <5>1. /\ Start(scenario) + (i - 1) \in Nat /\ j - i \in Nat
              /\ Start(scenario) + (i - 1) + (j - i) = Start(scenario) + (j - 1)
          BY <2>1, <3>3
        <5> QED
          BY <5>1
      <4>3. d \in 0 .. Bytes - 1
        <5>1. n <= Bytes
          BY <3>1, <3>2 DEF WithinStream
        <5> QED
          BY <3>3, <4>2, <5>1, SizesFact
      <4>4. d = 0
        BY <4>1, <4>2, <4>3, SizesFact, ModApart
      <4> QED
        BY <4>2, <4>4
    <3>4. s \in Bijection(1 .. n, Range(s))
      <4>1. \A i, j \in 1 .. n : s[i] = s[j] => i = j
        <5> SUFFICES ASSUME NEW i \in 1 .. n, NEW j \in 1 .. n, s[i] = s[j] PROVE i = j
          OBVIOUS
        <5>1. i <= j \/ j <= i
          OBVIOUS
        <5> QED
          BY <3>3, <5>1
      <4>2. s \in [1 .. n -> Range(s)]
        BY <3>2 DEF Range
      <4> QED
        BY <3>2, <4>1, <4>2 DEF Bijection, Injection, Surjection, IsInjective, Range
    <3>5. Cardinality(Range(s)) = n
      BY <3>4, FS_CountingElements DEF ExistsBijection
    <3> QED
      BY <3>1, <3>2, <3>5
  <2>3. Range(spent[hub]) \cap Range(spent[client]) = {}
    <3> SUFFICES ASSUME NEW i \in DOMAIN spent[hub], NEW j \in DOMAIN spent[client],
                        spent[hub][i] = spent[client][j]
                 PROVE  FALSE
      BY DEF Range
    <3>1. i \in 1 .. Len(spent[hub]) /\ j \in 1 .. Len(spent[client])
      BY <2>1, WireFacts, LenProperties DEF CipherShape
    <3>2. /\ spent[hub][i] = <<Half(hub = hub), (Start(scenario) + (i - 1)) % Bytes>>
          /\ spent[client][j] = <<Half(client = hub), (Start(scenario) + (j - 1)) % Bytes>>
      BY <2>1, <3>1, WireFacts DEF EncInv
    <3>3. Half(hub = hub) # Half(client = hub)
      BY WireFacts DEF Half
    <3>4. PICK a, b : a = Half(hub = hub) /\ b = Half(client = hub) /\ a # b
      BY <3>3
    <3>5. PICK x, y : spent[hub][i] = <<a, x>> /\ spent[client][j] = <<b, y>>
      BY ZenonT(30), <3>2, <3>4
    <3>6. <<a, x>> = <<b, y>>
      BY <3>5
    <3>7. a = b
      BY <3>6
    <3> QED
      BY <3>4, <3>7
  <2> QED
    BY <2>2, <2>3 DEF KeyUsedOnce
<1> QED
  BY <1>1, TypedAlways, PTL
-----------------------------------------------------------------------------
(* The header *)

\* Two bytes hold what is less than TwoBytes.
LEMMA TwoBytesHold ==
    ASSUME NEW n \in 0 .. TwoBytes - 1
    PROVE  ((n % Base) % Base) + Base * (((n \div Base) % Base) % Base) = n
<1>1. Base \in Nat \ {0} /\ Base * Base = TwoBytes /\ n \in Nat
  BY WireFacts DEF TwoBytes
<1>2. PICK q \in Nat, r \in 0 .. Base - 1 : q = n \div Base /\ r = n % Base /\ n = Base * q + r
  BY <1>1, DivMod
<1>3. q < Base
  <2>1. SUFFICES ASSUME ~(q < Base) PROVE FALSE
    OBVIOUS
  <2>2. Base * q >= Base * Base
    <3>1. CASE q = Base
      BY <1>1, <3>1
    <3>2. CASE Base < q
      <4>1. Base * Base + Base <= Base * q
        BY <1>1, <3>2, Times
      <4>2. Base * Base \in Nat /\ Base * q \in Nat
        BY <1>1
      <4> QED
        BY <1>1, <4>1, <4>2
    <3> QED
      BY <1>1, <2>1, <3>1, <3>2
  <2>3. Base * q \in Nat /\ n < TwoBytes
    BY <1>1, WireFacts
  <2> QED
    BY <1>1, <1>2, <2>2, <2>3
<1>4. q \in 0 .. Base - 1
  BY <1>1, <1>3
<1>5. r % Base = r /\ q % Base = q
  BY <1>1, <1>4, ModSmall
<1>6. (n % Base) % Base = r /\ ((n \div Base) % Base) % Base = q
  BY <1>2, <1>5
<1>7. PICK z \in Nat : z = Base * q
  BY <1>1
<1> QED
  BY <1>2, <1>6, <1>7

\* The bytes of a frame: version, command, length, id, data.
LEMMA RawBytes ==
    ASSUME NEW f \in Frames
    PROVE  /\ Raw(f)[1] = Version /\ Raw(f)[2] = f.cmd
           /\ Raw(f)[3] = Len(f.data) % Base /\ Raw(f)[4] = (Len(f.data) \div Base) % Base
           /\ Raw(f)[5] = f.sid % Base /\ Raw(f)[6] = (f.sid \div Base) % Base
           /\ \A i \in 1 .. Len(f.data) : Raw(f)[HeaderSize + i] = f.data[i]
<1> DEFINE a == <<Version, f.cmd>>
<1> DEFINE b == LittleEndian(Len(f.data))
<1> DEFINE c == LittleEndian(f.sid)
<1>1. f.cmd \in Int /\ f.sid \in Nat /\ f.data \in Seq(Int) /\ Len(f.data) \in Nat
  BY LenProperties, WireFacts DEF Frames
<1>2. a \in Seq(Int) /\ Len(a) = 2 /\ a[1] = Version /\ a[2] = f.cmd
  BY <1>1 DEF Version
<1>3. /\ b \in Seq(Int) /\ Len(b) = 2
      /\ b[1] = Len(f.data) % Base /\ b[2] = (Len(f.data) \div Base) % Base
  BY <1>1, LittleEndianFits DEF LittleEndian
<1>4. /\ c \in Seq(Int) /\ Len(c) = 2
      /\ c[1] = f.sid % Base /\ c[2] = (f.sid \div Base) % Base
  BY <1>1, LittleEndianFits DEF LittleEndian
<1>5. Raw(f) = a \o b \o c \o f.data
  BY DEF Raw
<1> HIDE DEF a, b, c
<1>6. PICK x : x = a \o b
  OBVIOUS
<1>7. /\ x \in Seq(Int) /\ Len(x) = 4 /\ x[1] = a[1] /\ x[2] = a[2] /\ x[3] = b[1] /\ x[4] = b[2]
  <2>1. /\ x \in Seq(Int) /\ Len(x) = Len(a) + Len(b)
        /\ \A i \in 1 .. Len(a) + Len(b) : x[i] = IF i <= Len(a) THEN a[i] ELSE b[i - Len(a)]
    BY <1>2, <1>3, <1>6, ConcatProperties
  <2> QED
    BY <1>2, <1>3, <2>1
<1>8. PICK y : y = x \o c
  OBVIOUS
<1>9. /\ y \in Seq(Int) /\ Len(y) = 6 /\ y[5] = c[1] /\ y[6] = c[2]
      /\ y[1] = x[1] /\ y[2] = x[2] /\ y[3] = x[3] /\ y[4] = x[4]
  <2>1. /\ y \in Seq(Int) /\ Len(y) = Len(x) + Len(c)
        /\ \A i \in 1 .. Len(x) + Len(c) : y[i] = IF i <= Len(x) THEN x[i] ELSE c[i - Len(x)]
    BY <1>4, <1>7, <1>8, ConcatProperties
  <2> QED
    BY <1>4, <1>7, <2>1
<1>10. PICK z : z = y \o f.data
  OBVIOUS
<1>11. PICK l \in Nat : l = Len(f.data)
  BY <1>1
<1>12. /\ \A i \in 1 .. 6 : z[i] = y[i]
       /\ \A i \in 1 .. l : z[6 + i] = f.data[i]
  <2>1. \A i \in 1 .. Len(y) + l : z[i] = IF i <= Len(y) THEN y[i] ELSE f.data[i - Len(y)]
    BY <1>1, <1>9, <1>10, <1>11, ConcatProperties
  <2>2. \A i \in 1 .. 6 + l : z[i] = IF i <= 6 THEN y[i] ELSE f.data[i - 6]
    BY <1>9, <2>1
  <2>3. ASSUME NEW i \in 1 .. l PROVE z[6 + i] = f.data[i]
    <3>1. 6 + i \in 1 .. 6 + l /\ ~(6 + i <= 6) /\ 6 + i - 6 = i
      OBVIOUS
    <3> QED
      BY <2>2, <3>1
  <2>4. ASSUME NEW i \in 1 .. 6 PROVE z[i] = y[i]
    <3>1. i \in 1 .. 6 + l /\ i <= 6
      OBVIOUS
    <3> QED
      BY <2>2, <3>1
  <2> QED
    BY <2>3, <2>4
<1>13. Raw(f) = z
  BY <1>5, <1>6, <1>8, <1>10
<1>14. z[1] = y[1] /\ z[2] = y[2] /\ z[3] = y[3] /\ z[4] = y[4] /\ z[5] = y[5] /\ z[6] = y[6]
  BY <1>12
<1> QED
  BY <1>2, <1>3, <1>4, <1>7, <1>9, <1>11, <1>12, <1>13, <1>14 DEF HeaderSize

\* A buffer that holds the beginning of a frame.
Begins(bytes, f) ==
    /\ Len(bytes) <= Len(Raw(f))
    /\ \A i \in 1 .. Len(bytes) : bytes[i] = Raw(f)[i]

\* What readFrame sees in such a buffer.
LEMMA HeaderRead ==
    ASSUME NEW size \in 1 .. TwoBytes - 1, NEW f \in Sendable(size), NEW bytes \in Seq(Int),
           Len(bytes) >= HeaderSize, \A i \in 1 .. HeaderSize : bytes[i] = Raw(f)[i]
    PROVE  /\ bytes[1] = Version /\ bytes[2] = f.cmd
           /\ TwoAt(bytes, 3) = Len(f.data) /\ TwoAt(bytes, 5) = f.sid
           /\ DataEnd(bytes) = IF HeaderSize + Len(f.data) < TwoBytes
                               THEN HeaderSize + Len(f.data)
                               ELSE HeaderSize + Len(f.data) - TwoBytes
           /\ Needed(bytes) = DataEnd(bytes)
<1>1. f \in Frames /\ Len(f.data) <= size /\ f.sid \in 0 .. TwoBytes - 1 /\ f.data \in Seq(Int)
  BY DEF Sendable, Frames
<1>2. PICK l \in Nat : l = Len(f.data)
  BY <1>1, LenProperties
<1>3. l \in 0 .. TwoBytes - 1 /\ TwoBytes \in Nat \ {0} /\ TwoBytes >= 9
  BY <1>1, <1>2, WireFacts
<1>4. /\ bytes[1] = Version /\ bytes[2] = f.cmd
      /\ bytes[3] = l % Base /\ bytes[4] = (l \div Base) % Base
      /\ bytes[5] = f.sid % Base /\ bytes[6] = (f.sid \div Base) % Base
  <2>1. \A i \in 1 .. 6 : bytes[i] = Raw(f)[i]
    BY DEF HeaderSize
  <2>2. /\ bytes[1] = Raw(f)[1] /\ bytes[2] = Raw(f)[2] /\ bytes[3] = Raw(f)[3]
        /\ bytes[4] = Raw(f)[4] /\ bytes[5] = Raw(f)[5] /\ bytes[6] = Raw(f)[6]
    BY <2>1
  <2> QED
    BY <1>1, <1>2, <2>2, RawBytes
<1>5. TwoAt(bytes, 3) = l /\ TwoAt(bytes, 5) = f.sid
  <2>1. TwoAt(bytes, 3) = (bytes[3] % Base) + Base * (bytes[4] % Base)
        /\ TwoAt(bytes, 5) = (bytes[5] % Base) + Base * (bytes[6] % Base)
    BY DEF TwoAt
  <2>2. TwoAt(bytes, 3) = ((l % Base) % Base) + Base * (((l \div Base) % Base) % Base)
    BY <1>4, <2>1
  <2>3. TwoAt(bytes, 5) = ((f.sid % Base) % Base) + Base * (((f.sid \div Base) % Base) % Base)
    BY <1>4, <2>1
  <2> QED
    BY <1>1, <1>3, <2>2, <2>3, TwoBytesHold
<1>6. DataEnd(bytes) = (6 + l) % TwoBytes
  BY <1>5 DEF DataEnd, HeaderSize
<1>7. CASE 6 + l < TwoBytes
  <2>1. 6 + l \in 0 .. TwoBytes - 1
    BY <1>3, <1>7
  <2>2. (6 + l) % TwoBytes = 6 + l
    BY <1>3, <2>1, ModSmall
  <2> QED
    BY <1>2, <1>4, <1>5, <1>6, <1>7, <2>2, LenProperties DEF Needed, HeaderSize
<1>8. CASE ~(6 + l < TwoBytes)
  <2>1. 6 + l - TwoBytes \in 0 .. TwoBytes - 1 /\ 6 + l - TwoBytes \in Nat
        /\ 6 + l = (6 + l - TwoBytes) + TwoBytes * 1
    BY <1>3, <1>8
  <2>2. PICK r \in 0 .. TwoBytes - 1 : r = 6 + l - TwoBytes /\ r \in Nat /\ 6 + l = r + TwoBytes * 1
    BY <2>1
  <2>3. (r + TwoBytes * 1) % TwoBytes = r % TwoBytes
    <3>1. 1 \in Nat
      OBVIOUS
    <3> QED
      BY <1>3, <2>2, <3>1, ModShift
  <2>4. r % TwoBytes = r
    BY <1>3, <2>2, ModSmall
  <2> QED
    BY <1>2, <1>4, <1>5, <1>6, <1>8, <2>2, <2>3, <2>4, LenProperties DEF Needed, HeaderSize
<1> QED
  BY <1>7, <1>8

\* What wraps is no more than what it wrapped from.
LEMMA NoMore ==
    ASSUME NEW k \in Nat, NEW t \in Nat, NEW nd, nd = (IF k < t THEN k ELSE k - t),
           NEW m \in Nat, m <= nd
    PROVE  m <= k
OBVIOUS

\* readFrame wants no more than the frame, though the sum may wrap.
LEMMA HeaderBound ==
    ASSUME NEW size \in 1 .. TwoBytes - 1, NEW f \in Sendable(size), NEW bytes \in Seq(Int),
           Len(bytes) >= HeaderSize, \A i \in 1 .. HeaderSize : bytes[i] = Raw(f)[i],
           NEW m \in Nat, m <= Needed(bytes)
    PROVE  m <= HeaderSize + Len(f.data)
<1>1. PICK l \in Nat : l = Len(f.data)
  <2>1. f.data \in Seq(Int)
    BY DEF Sendable, Frames
  <2> QED
    BY <2>1, LenProperties
<1>2. PICK h \in Nat, t \in Nat : h = 6 + l /\ t = TwoBytes
  <2>1. TwoBytes \in Nat
    BY Zenon, WireFacts
  <2>2. 6 + l \in Nat
    OBVIOUS
  <2> QED
    BY Zenon, <2>1, <2>2
<1>3. PICK nd : nd = Needed(bytes)
  OBVIOUS
<1>4. nd = IF h < t THEN h ELSE h - t
  <2>1. nd = IF 6 + l < TwoBytes THEN 6 + l ELSE 6 + l - TwoBytes
    BY Zenon, <1>1, <1>3, HeaderRead DEF HeaderSize
  <2>2. nd = IF 6 + l < t THEN 6 + l ELSE 6 + l - t
    BY <1>2, <2>1
  <2> QED
    BY <1>2, <2>2
<1>5. m <= nd
  BY <1>3
<1>6. m <= h
  BY <1>4, <1>5, NoMore
<1> QED
  BY <1>1, <1>2, <1>6 DEF HeaderSize

\* readFrame returns the frame whose bytes it has, whole.
LEMMA FrameRead ==
    ASSUME NEW size \in 1 .. TwoBytes - 1, NEW f \in Sendable(size), NEW bytes \in Seq(Int),
           Begins(bytes, f), Len(bytes) = Len(Raw(f))
    PROVE  Frame(bytes[2], TwoAt(bytes, 5), SubSeq(bytes, HeaderSize + 1, Len(bytes))) = f
<1>1. /\ f \in Frames /\ f.data \in Seq(Int)
      /\ f = [cmd |-> f.cmd, sid |-> f.sid, data |-> f.data]
  BY DEF Sendable, Frames
<1>2. PICK l \in Nat : l = Len(f.data) /\ Len(bytes) = 6 + l
  <2>1. Len(Raw(f)) = HeaderSize + Len(f.data) /\ Len(f.data) \in Nat
    BY <1>1, RawFits
  <2> QED
    BY <2>1 DEF HeaderSize
<1>3. \A i \in 1 .. 6 + l : bytes[i] = Raw(f)[i] /\ bytes[i] \in Int
  BY <1>2, ElementOfSeq DEF Begins
<1>4. bytes[2] = f.cmd /\ TwoAt(bytes, 5) = f.sid
  <2>1. \A i \in 1 .. HeaderSize : bytes[i] = Raw(f)[i]
    BY <1>3 DEF HeaderSize
  <2>2. Len(bytes) >= HeaderSize
    BY <1>2 DEF HeaderSize
  <2> QED
    BY <2>1, <2>2, HeaderRead
<1>5. PICK t : t = SubSeq(bytes, 7, 6 + l)
  OBVIOUS
<1>6. t \in Seq(Int) /\ Len(t) = l /\ \A i \in 1 .. l : t[i] = bytes[6 + i]
  <2>1. \A i \in 7 .. 6 + l : bytes[i] \in Int
    BY <1>3
  <2>2. /\ t \in Seq(Int) /\ Len(t) = IF 7 <= 6 + l THEN 6 + l - 7 + 1 ELSE 0
        /\ \A i \in 1 .. 6 + l - 7 + 1 : t[i] = bytes[7 + i - 1]
    BY <1>5, <2>1, SubSeqProperties
  <2>3. ASSUME NEW i \in 1 .. l PROVE t[i] = bytes[6 + i]
    <3>1. i \in 1 .. 6 + l - 7 + 1 /\ 7 + i - 1 = 6 + i
      OBVIOUS
    <3> QED
      BY <2>2, <3>1
  <2> QED
    BY <2>2, <2>3
<1>7. t = f.data
  <2>1. \A i \in 1 .. l : t[i] = f.data[i]
    <3> SUFFICES ASSUME NEW i \in 1 .. l PROVE t[i] = f.data[i]
      OBVIOUS
    <3>1. Raw(f)[6 + i] = f.data[i]
      BY <1>1, <1>2, RawBytes DEF HeaderSize
    <3>2. 6 + i \in 1 .. 6 + l
      OBVIOUS
    <3> QED
      BY <1>3, <1>6, <3>1, <3>2
  <2> QED
    BY <1>1, <1>2, <1>6, <2>1, SeqEqual
<1>8. SubSeq(bytes, HeaderSize + 1, Len(bytes)) = t
  BY <1>2, <1>5 DEF HeaderSize
<1> QED
  BY <1>1, <1>4, <1>7, <1>8 DEF Frame
-----------------------------------------------------------------------------
(* The stream of bytes from one end to the other *)

\* The frames in w lie one behind the other in s; the k-th ends at b[k].
Laid(s, b, w) ==
    /\ b[0] = 0 /\ b[Len(w)] <= Len(s)
    /\ \A k \in 1 .. Len(w) :
          /\ b[k] = b[k - 1] + Len(Raw(w[k])) /\ b[k] <= Len(s)
          /\ \A i \in 1 .. Len(Raw(w[k])) : s[b[k - 1] + i] = Raw(w[k])[i]

\* Behind them is nothing, or the beginning of a frame that was torn off.
Torn(s, end, size) ==
    \/ end = Len(s)
    \/ \E f \in Sendable(size) :
          /\ Len(s) - end < Len(Raw(f))
          /\ \A i \in 1 .. Len(s) - end : s[end + i] = Raw(f)[i]

\* What is in the buffer and on the connection is the rest of s.
There(s, at, buffer, wire) ==
    /\ Len(s) = at + Len(buffer) + Len(wire)
    /\ \A i \in 1 .. Len(buffer) : s[at + i] = buffer[i]
    /\ \A i \in 1 .. Len(wire) : s[at + Len(buffer) + i] = wire[i].value

\* What goes onto the connection is the end of the stream.
LEMMA ThereGrows ==
    ASSUME NEW s \in Seq(Int), NEW at \in Nat, NEW g \in Seq(Int), NEW c \in Seq(WireByte),
           There(s, at, g, c), NEW n \in Nat, NEW x \in Seq(Int), NEW d \in Seq(WireByte),
           Len(x) = n, Len(d) = n, \A i \in 1 .. n : d[i].value = x[i]
    PROVE  /\ s \o x \in Seq(Int) /\ Len(s \o x) = Len(s) + n
           /\ \A i \in 1 .. Len(s) : (s \o x)[i] = s[i]
           /\ \A i \in 1 .. n : (s \o x)[Len(s) + i] = x[i]
           /\ There(s \o x, at, g, c \o d)
<1>1. PICK ls \in Nat, lg \in Nat, lc \in Nat : ls = Len(s) /\ lg = Len(g) /\ lc = Len(c)
  BY LenProperties
<1>2. ls = at + lg + lc
  BY <1>1 DEF There
<1>3. PICK y : y = s \o x
  OBVIOUS
<1>4. /\ y \in Seq(Int) /\ Len(y) = ls + n
      /\ \A i \in 1 .. ls + n : y[i] = IF i <= ls THEN s[i] ELSE x[i - ls]
  <2>1. /\ y \in Seq(Int) /\ Len(y) = Len(s) + Len(x)
        /\ \A i \in 1 .. Len(s) + Len(x) : y[i] = IF i <= Len(s) THEN s[i] ELSE x[i - Len(s)]
    BY <1>3, ConcatProperties
  <2> QED
    BY <1>1, <2>1
<1>5. PICK z : z = c \o d
  OBVIOUS
<1>6. /\ Len(z) = lc + n
      /\ \A i \in 1 .. lc + n : z[i] = IF i <= lc THEN c[i] ELSE d[i - lc]
  <2>1. /\ Len(z) = Len(c) + Len(d)
        /\ \A i \in 1 .. Len(c) + Len(d) : z[i] = IF i <= Len(c) THEN c[i] ELSE d[i - Len(c)]
    BY <1>5, ConcatProperties
  <2> QED
    BY <1>1, <2>1
<1>7. \A i \in 1 .. ls : y[i] = s[i]
  <2> SUFFICES ASSUME NEW i \in 1 .. ls PROVE y[i] = s[i]
    OBVIOUS
  <2>1. i \in 1 .. ls + n /\ i <= ls
    OBVIOUS
  <2> QED
    BY <1>4, <2>1
<1>8. \A i \in 1 .. n : y[ls + i] = x[i]
  <2> SUFFICES ASSUME NEW i \in 1 .. n PROVE y[ls + i] = x[i]
    OBVIOUS
  <2>1. PICK j \in 1 .. ls + n : j = ls + i /\ ~(j <= ls) /\ j - ls = i
    <3>1. ls + i \in 1 .. ls + n /\ ~(ls + i <= ls) /\ ls + i - ls = i
      OBVIOUS
    <3> QED
      BY <3>1
  <2>2. y[j] = x[j - ls]
    BY <1>4, <2>1
  <2> QED
    BY <2>1, <2>2
<1>9. There(y, at, g, z)
  <2>1. Len(y) = at + lg + (lc + n)
    BY <1>2, <1>4
  <2>2. ASSUME NEW i \in 1 .. lg PROVE y[at + i] = g[i]
    <3>1. at + i \in 1 .. ls
      BY <1>2
    <3> QED
      BY <1>1, <1>7, <3>1 DEF There
  <2>3. ASSUME NEW i \in 1 .. lc + n PROVE y[at + lg + i] = z[i].value
    <3>1. CASE i <= lc
      <4>1. i \in 1 .. lc /\ at + lg + i \in 1 .. ls
        BY <1>2, <3>1
      <4>2. s[at + lg + i] = c[i].value
        BY <1>1, <4>1 DEF There
      <4> QED
        BY <1>6, <1>7, <3>1, <4>1, <4>2
    <3>2. CASE ~(i <= lc)
      <4>1. i - lc \in 1 .. n /\ at + lg + i = ls + (i - lc)
        BY <1>2, <3>2
      <4>2. z[i] = d[i - lc] /\ y[ls + (i - lc)] = x[i - lc]
        BY <1>6, <1>8, <3>2, <4>1
      <4> QED
        BY <4>1, <4>2
    <3> QED
      BY <3>1, <3>2
  <2> QED
    BY <1>1, <1>6, <2>1, <2>2, <2>3 DEF There
<1> QED
  BY <1>1, <1>3, <1>4, <1>5, <1>7, <1>8, <1>9

\* A frame goes onto the connection, whole.
LEMMA LaidGrows ==
    ASSUME NEW size, NEW w \in Seq(Sendable(size)), NEW s \in Seq(Int),
           NEW b \in [0 .. Len(w) -> Nat], Laid(s, b, w), b[Len(w)] = Len(s),
           NEW f \in Sendable(size), NEW t \in Seq(Int), Len(t) = Len(s) + Len(Raw(f)),
           \A i \in 1 .. Len(s) : t[i] = s[i],
           \A i \in 1 .. Len(Raw(f)) : t[Len(s) + i] = Raw(f)[i]
    PROVE  \E c \in [0 .. Len(Append(w, f)) -> Nat] :
              /\ Laid(t, c, Append(w, f)) /\ c[Len(Append(w, f))] = Len(t)
              /\ \A k \in 0 .. Len(w) : c[k] = b[k]
<1>1. PICK m \in Nat : m = Len(w)
  BY LenProperties
<1>2. PICK v : v = Append(w, f)
  OBVIOUS
<1>3. /\ Len(v) = m + 1 /\ v[m + 1] = f
      /\ \A k \in 1 .. m : v[k] = w[k] /\ w[k] \in Sendable(size)
  BY <1>1, <1>2, AppendProperties, ElementOfSeq
<1>4. PICK ls \in Nat, lr \in Nat : ls = Len(s) /\ lr = Len(Raw(f))
  <2>1. f \in Frames
    BY DEF Sendable
  <2>2. Len(Raw(f)) \in Nat
    <3>1. Raw(f) \in Seq(Int)
      BY <2>1, RawFits
    <3> QED
      BY <3>1, LenProperties
  <2> QED
    BY <2>2, LenProperties
<1> DEFINE c == [k \in 0 .. m + 1 |-> IF k <= m THEN b[k] ELSE ls + lr]
<1>5. c \in [0 .. m + 1 -> Nat]
  <2>1. \A k \in 0 .. m + 1 : k <= m => k \in 0 .. Len(w)
    BY <1>1
  <2> QED
    BY <2>1
<1>6. c[m + 1] = ls + lr /\ \A k \in 0 .. m : c[k] = b[k]
  BY <1>5
<1> HIDE DEF c
<1>7. ASSUME NEW k \in 1 .. m + 1
      PROVE  /\ c[k] = c[k - 1] + Len(Raw(v[k])) /\ c[k] <= Len(t)
             /\ \A i \in 1 .. Len(Raw(v[k])) : t[c[k - 1] + i] = Raw(v[k])[i]
  <2>1. CASE k = m + 1
    <3>1. k - 1 = m /\ m \in 0 .. m
      BY <2>1
    <3>2. c[k - 1] = ls /\ c[k] = ls + lr /\ v[k] = f
      BY <1>1, <1>3, <1>4, <1>6, <2>1, <3>1
    <3>3. Len(t) = ls + lr /\ ls + lr <= ls + lr
      BY <1>4
    <3>4. \A i \in 1 .. Len(Raw(f)) : t[ls + i] = Raw(f)[i]
      BY <1>4
    <3>5. c[k] = c[k - 1] + Len(Raw(v[k])) /\ c[k] <= Len(t)
      BY <1>4, <3>2, <3>3
    <3> QED
      BY <3>2, <3>4, <3>5
  <2>2. CASE k # m + 1
    <3>1. k \in 1 .. m /\ k \in 0 .. m /\ k - 1 \in 0 .. m
      BY <2>2
    <3>2. c[k] = b[k] /\ c[k - 1] = b[k - 1] /\ v[k] = w[k]
      BY <1>3, <1>6, <3>1
    <3>3. /\ b[k] = b[k - 1] + Len(Raw(w[k])) /\ b[k] <= ls
          /\ \A i \in 1 .. Len(Raw(w[k])) : s[b[k - 1] + i] = Raw(w[k])[i]
      BY <1>1, <1>4, <3>1 DEF Laid
    <3>4. PICK p \in Nat, q \in Nat, r \in Nat : p = b[k - 1] /\ q = b[k] /\ r = Len(Raw(w[k]))
      <4>1. b[k - 1] \in Nat /\ b[k] \in Nat
        BY <1>1, <3>1
      <4>2. Raw(w[k]) \in Seq(Int)
        BY <1>3, <3>1, RawFits DEF Sendable
      <4> QED
        BY <4>1, <4>2, LenProperties
    <3>5. \A i \in 1 .. r : p + i \in 1 .. ls
      <4>1. q = p + r /\ q <= ls
        BY <3>3, <3>4
      <4> QED
        BY <4>1
    <3>6. \A i \in 1 .. r : t[p + i] = s[p + i]
      BY <1>4, <3>5
    <3> QED
      BY SMTT(30), <1>4, <3>2, <3>3, <3>4, <3>6
  <2> QED
    BY <2>1, <2>2
<1>8. c[0] = 0
  <2>1. 0 \in 0 .. m
    OBVIOUS
  <2> QED
    BY <1>6, <2>1 DEF Laid
<1>9. Laid(t, c, v)
  BY <1>3, <1>4, <1>6, <1>7, <1>8 DEF Laid
<1> QED
  BY <1>1, <1>2, <1>3, <1>4, <1>5, <1>6, <1>9

\* A part of a frame leaves those before it where they are.
LEMMA LaidStays ==
    ASSUME NEW size, NEW w \in Seq(Sendable(size)), NEW s \in Seq(Int),
           NEW b \in [0 .. Len(w) -> Nat], Laid(s, b, w),
           NEW t \in Seq(Int), Len(t) >= Len(s), \A i \in 1 .. Len(s) : t[i] = s[i]
    PROVE  Laid(t, b, w)
<1>1. PICK m \in Nat, ls \in Nat, lt \in Nat : m = Len(w) /\ ls = Len(s) /\ lt = Len(t) /\ ls <= lt
  BY LenProperties
<1>2. b[0] = 0 /\ b[m] <= ls /\ b[m] \in Nat
  <2>1. m \in 0 .. Len(w)
    BY <1>1
  <2> QED
    BY <1>1, <2>1 DEF Laid
<1>3. ASSUME NEW k \in 1 .. m
      PROVE  /\ b[k] = b[k - 1] + Len(Raw(w[k])) /\ b[k] <= lt
             /\ \A i \in 1 .. Len(Raw(w[k])) : t[b[k - 1] + i] = Raw(w[k])[i]
  <2>1. /\ b[k] = b[k - 1] + Len(Raw(w[k])) /\ b[k] <= ls
        /\ \A i \in 1 .. Len(Raw(w[k])) : s[b[k - 1] + i] = Raw(w[k])[i]
    BY <1>1 DEF Laid
  <2>2. PICK p \in Nat, q \in Nat, r \in Nat : p = b[k - 1] /\ q = b[k] /\ r = Len(Raw(w[k]))
    <3>1. b[k - 1] \in Nat /\ b[k] \in Nat
      <4>1. k - 1 \in 0 .. Len(w) /\ k \in 0 .. Len(w)
        BY <1>1
      <4> QED
        BY <4>1
    <3>2. Raw(w[k]) \in Seq(Int)
      BY <1>1, ElementOfSeq, RawFits DEF Sendable
    <3> QED
      BY <3>1, <3>2, LenProperties
  <2>3. \A i \in 1 .. r : p + i \in 1 .. ls
    <3>1. q = p + r /\ q <= ls
      BY <2>1, <2>2
    <3> QED
      BY <3>1
  <2>4. \A i \in 1 .. r : t[p + i] = s[p + i]
    BY <1>1, <2>3
  <2>5. b[k] <= lt
    <3>1. q <= ls
      BY <2>1, <2>2
    <3> QED
      BY <1>1, <2>2, <3>1
  <2> QED
    BY <2>1, <2>2, <2>4, <2>5
<1> QED
  BY <1>1, <1>2, <1>3 DEF Laid

\* A piece x of n bytes is taken from the connection.
Taking(s, at, g, c, n, x) ==
    /\ s \in Seq(Int) /\ at \in Nat /\ g \in Seq(Int) /\ c \in Seq(WireByte)
    /\ There(s, at, g, c) /\ n \in 0 .. Len(c)
    /\ x \in Seq(Int) /\ Len(x) = n
    /\ \A i \in 1 .. n : x[i] = c[i].value

Taken(s, at, g, c, n, x) ==
    LET rest == SubSeq(c, n + 1, Len(c))
    IN  /\ rest \in Seq(WireByte)
        /\ Len(rest) = Len(c) - n
        /\ \A i \in 1 .. Len(c) - n : rest[i] = c[n + i]
        /\ There(s, at, g \o x, rest)

\* A piece goes from the connection into the buffer.
LEMMA ThereMoves ==
    ASSUME NEW s, NEW at, NEW g, NEW c, NEW n, NEW x, Taking(s, at, g, c, n, x)
    PROVE  Taken(s, at, g, c, n, x)
<1>1. /\ s \in Seq(Int) /\ at \in Nat /\ g \in Seq(Int) /\ c \in Seq(WireByte)
      /\ There(s, at, g, c) /\ n \in 0 .. Len(c)
      /\ x \in Seq(Int) /\ Len(x) = n
      /\ \A i \in 1 .. n : x[i] = c[i].value
  BY DEF Taking
<1>2. PICK ls \in Nat, lg \in Nat, lc \in Nat : ls = Len(s) /\ lg = Len(g) /\ lc = Len(c)
  BY <1>1, LenProperties
<1>3. ls = at + lg + lc /\ n \in Nat /\ at \in Nat /\ n <= lc
  BY <1>1, <1>2 DEF There
<1>4. PICK z : z = SubSeq(c, n + 1, lc)
  OBVIOUS
<1>5. z \in Seq(WireByte) /\ Len(z) = lc - n /\ \A i \in 1 .. lc - n : z[i] = c[n + i]
  <2>1. \A i \in n + 1 .. lc : c[i] \in WireByte
    BY <1>1, <1>2, <1>3, ElementOfSeq
  <2>2. /\ z \in Seq(WireByte) /\ Len(z) = IF n + 1 <= lc THEN lc - (n + 1) + 1 ELSE 0
        /\ \A i \in 1 .. lc - (n + 1) + 1 : z[i] = c[n + 1 + i - 1]
    BY <1>3, <1>4, <2>1, SubSeqProperties
  <2>3. ASSUME NEW i \in 1 .. lc - n PROVE z[i] = c[n + i]
    <3>1. i \in 1 .. lc - (n + 1) + 1 /\ n + 1 + i - 1 = n + i
      BY <1>3
    <3> QED
      BY <2>2, <3>1
  <2> QED
    BY <1>3, <2>2, <2>3
<1>6. PICK y : y = g \o x
  OBVIOUS
<1>7. /\ Len(y) = lg + n
      /\ \A i \in 1 .. lg + n : y[i] = IF i <= lg THEN g[i] ELSE x[i - lg]
  BY <1>1, <1>2, <1>6, ConcatProperties
<1>8. There(s, at, y, z)
  <2>1. ls = at + (lg + n) + (lc - n)
    BY <1>3
  <2>2. ASSUME NEW i \in 1 .. lg + n PROVE s[at + i] = y[i]
    <3>1. CASE i <= lg
      <4>1. i \in 1 .. lg
        BY <3>1
      <4> QED
        BY <1>1, <1>2, <1>7, <3>1, <4>1 DEF There
    <3>2. CASE ~(i <= lg)
      <4>1. i - lg \in 1 .. n /\ i - lg \in 1 .. lc /\ at + lg + (i - lg) = at + i
        BY <1>3, <3>2
      <4>2. s[at + lg + (i - lg)] = c[i - lg].value
        BY <1>1, <1>2, <4>1 DEF There
      <4> QED
        BY <1>1, <1>7, <3>2, <4>1, <4>2
    <3> QED
      BY <3>1, <3>2
  <2>3. ASSUME NEW i \in 1 .. lc - n PROVE s[at + (lg + n) + i] = z[i].value
    <3>1. n + i \in 1 .. lc /\ at + lg + (n + i) = at + (lg + n) + i
      BY <1>3
    <3>2. s[at + lg + (n + i)] = c[n + i].value
      BY <1>1, <1>2, <3>1 DEF There
    <3> QED
      BY <1>5, <3>1, <3>2
  <2> QED
    BY <1>1, <1>2, <1>5, <1>7, <2>1, <2>2, <2>3 DEF There
<1> QED
  BY <1>2, <1>4, <1>5, <1>6, <1>8 DEF Taken

\* The buffer is emptied once it holds a frame.
LEMMA ThereEmptied ==
    ASSUME NEW s \in Seq(Int), NEW at \in Nat, NEW g \in Seq(Int), NEW c \in Seq(WireByte),
           There(s, at, g, c)
    PROVE  There(s, at + Len(g), <<>>, c)
<1>1. PICK lg \in Nat, lc \in Nat : lg = Len(g) /\ lc = Len(c)
  BY LenProperties
<1>2. Len(<<>>) = 0 /\ at + lg + 0 + lc = at + lg + lc
  BY <1>1
<1>3. ASSUME NEW i \in 1 .. lc PROVE s[at + lg + 0 + i] = c[i].value
  <2>1. at + lg + 0 + i = at + lg + i
    BY <1>1
  <2> QED
    BY <1>1, <2>1 DEF There
<1> QED
  BY <1>1, <1>2, <1>3 DEF There
\* What is left of a stretch.
LEMMA Room ==
    ASSUME NEW a \in Nat, NEW m \in Nat, NEW l \in Nat, m >= 1, a + m <= l
    PROVE  a # l /\ l - a \in Nat /\ m <= l - a
OBVIOUS

\* Numbers that are at least six begin with six.
LEMMA SixFirst ==
    ASSUME NEW a \in Nat, NEW n \in Nat, NEW m \in Nat, m = a + n, a >= 6
    PROVE  m >= 6 /\ \A i \in 1 .. 6 : i \in 1 .. m /\ i \in 1 .. a
OBVIOUS

\* Nothing lies between.
LEMMA Exactly ==
    ASSUME NEW m \in Nat, m >= 6, m <= 6
    PROVE  m = 6
OBVIOUS

\* The buffer, now bytes, holds the beginning of a frame, and all of it only if it is
\* the one behind the r-th of w.
FrameBegun(size, w, r, bytes) ==
    \E f \in Sendable(size) :
        /\ Begins(bytes, f)
        /\ Len(bytes) = Len(Raw(f)) => r < Len(w) /\ w[r + 1] = f

\* What is in the buffer is the beginning of the frame that is next in the stream, or of
\* one that was torn off.
LEMMA FrameAt ==
    ASSUME NEW size \in 1 .. TwoBytes - 1, NEW w \in Seq(Sendable(size)), NEW s \in Seq(Int),
           NEW b \in [0 .. Len(w) -> Nat], Laid(s, b, w), Torn(s, b[Len(w)], size),
           NEW r \in 0 .. Len(w), NEW g \in Seq(Int), NEW c \in Seq(WireByte),
           There(s, b[r], g, c), NEW n \in 1 .. Len(c), Len(g) + n <= Needed(g),
           NEW x \in Seq(Int), Len(x) = n, \A i \in 1 .. n : x[i] = c[i].value
    PROVE  FrameBegun(size, w, r, g \o x)
<1> DEFINE bytes == g \o x
<1> DEFINE rest == SubSeq(c, n + 1, Len(c))
<1>1. PICK at \in Nat, m \in Nat, ls \in Nat, lg \in Nat, lw \in Nat :
         at = b[r] /\ m = Len(bytes) /\ ls = Len(s) /\ lg = Len(g) /\ lw = Len(w)
  <2>1. bytes \in Seq(Int)
    BY Joined
  <2>2. b[r] \in Nat
    OBVIOUS
  <2> QED
    BY <2>1, <2>2, LenProperties
<1>2. /\ m = lg + n /\ bytes \in Seq(Int) /\ \A i \in 1 .. lg : bytes[i] = g[i]
  <2>1. /\ bytes \in Seq(Int) /\ Len(bytes) = Len(g) + Len(x)
        /\ \A i \in 1 .. Len(g) + Len(x) : bytes[i] = IF i <= Len(g) THEN g[i] ELSE x[i - Len(g)]
    BY ConcatProperties
  <2>2. Len(c) \in Nat /\ n \in Nat
    BY LenProperties
  <2>3. ASSUME NEW i \in 1 .. lg PROVE bytes[i] = g[i]
    <3>1. i \in 1 .. lg + n /\ i <= lg
      BY <2>2
    <3> QED
      BY <1>1, <2>1, <3>1
  <2> QED
    BY <1>1, <2>1, <2>3
<1>3. There(s, at, bytes, rest) /\ rest \in Seq(WireByte)
  <2>1. n \in 0 .. Len(c)
    BY LenProperties
  <2>2. b[r] \in Nat /\ at = b[r]
    BY <1>1
  <2> QED
    <3>1. Taking(s, at, g, c, n, x)
      BY <2>1, <2>2 DEF Taking
    <3>2. Taken(s, at, g, c, n, x)
      BY Zenon, <3>1, ThereMoves
    <3> QED
      BY <3>2 DEF Taken
<1> HIDE DEF bytes, rest
<1>4. at + m <= ls /\ \A i \in 1 .. m : s[at + i] = bytes[i]
  <2>1. PICK q \in Nat : q = Len(rest)
    BY <1>3, LenProperties
  <2>2. ls = at + m + q /\ \A i \in 1 .. m : s[at + i] = bytes[i]
    BY <1>1, <1>3, <2>1 DEF There
  <2>3. at \in Nat /\ m \in Nat /\ q \in Nat
    BY <1>1, <2>1
  <2>4. at + m <= at + m + q
    BY <2>3
  <2> QED
    BY <2>2, <2>4
<1>5. m >= 1
  <2>1. n \in Nat /\ n >= 1
    BY LenProperties
  <2> QED
    BY <1>2, <2>1
<1>6. CASE r = lw
  <2>1. at # ls /\ at = b[lw] /\ ls - at \in Nat /\ m <= ls - at
    <3>1. at + m <= ls /\ m >= 1
      BY <1>4, <1>5
    <3>2. at \in Nat /\ ls \in Nat /\ m \in Nat
      BY <1>1
    <3>3. at # ls /\ ls - at \in Nat /\ m <= ls - at
      BY <3>1, <3>2, Room
    <3> QED
      BY <1>1, <1>6, <3>3
  <2>2. PICK f \in Sendable(size) :
           ls - at < Len(Raw(f)) /\ \A i \in 1 .. ls - at : s[at + i] = Raw(f)[i]
    BY <1>1, <2>1 DEF Torn
  <2>3. Len(Raw(f)) \in Nat
    <3>1. Raw(f) \in Seq(Int)
      BY RawFits DEF Sendable
    <3> QED
      BY <3>1, LenProperties
  <2>4. \A i \in 1 .. m : i \in 1 .. ls - at
    BY <1>1, <2>1
  <2>5. m < Len(Raw(f)) /\ \A i \in 1 .. m : bytes[i] = Raw(f)[i]
    <3>1. m < Len(Raw(f))
      <4>1. PICK d \in Nat, k \in Nat : d = ls - at /\ k = Len(Raw(f))
        BY Zenon, <2>1, <2>3
      <4>2. m <= d
        BY Zenon, <2>1, <4>1
      <4>3. d < k
        BY Zenon, <2>2, <4>1
      <4>4. m < k
        BY <1>1, <4>2, <4>3
      <4> QED
        BY Zenon, <4>1, <4>4
    <3> QED
      BY <1>4, <2>2, <2>4, <3>1
  <2>6. Begins(bytes, f) /\ Len(bytes) # Len(Raw(f))
    BY <1>1, <2>3, <2>5 DEF Begins
  <2> QED
    BY <2>6 DEF bytes, FrameBegun
<1>7. CASE r # lw
  <2>1. r + 1 \in 1 .. lw /\ r < lw /\ r + 1 - 1 = r
    BY <1>1, <1>7
  <2>2. PICK f \in Sendable(size) : f = w[r + 1]
    BY <1>1, <2>1, ElementOfSeq
  <2>3. PICK l \in Nat : l = Len(f.data) /\ Len(Raw(f)) = 6 + l /\ l <= size
    <3>1. f \in Frames /\ Len(f.data) <= size
      BY DEF Sendable
    <3>2. Len(Raw(f)) = HeaderSize + Len(f.data) /\ Len(f.data) \in Nat
      BY <3>1, RawFits
    <3> QED
      BY <3>1, <3>2 DEF HeaderSize
  <2>4. \A i \in 1 .. 6 + l : s[at + i] = Raw(f)[i]
    <3>1. PICK k \in 1 .. lw : k = r + 1 /\ k - 1 = r
      BY <2>1
    <3>2. \A i \in 1 .. Len(Raw(w[k])) : s[b[k - 1] + i] = Raw(w[k])[i]
      BY <1>1 DEF Laid
    <3> QED
      BY <1>1, <2>2, <2>3, <3>1, <3>2
  <2>5. m <= 6 + l
    <3>1. CASE lg < HeaderSize
      <4>1. Needed(g) = 6
        BY <1>1, <3>1 DEF Needed, HeaderSize
      <4> QED
        BY SMTT(30), <1>1, <1>2, <2>3, <4>1
    <3>2. CASE ~(lg < HeaderSize)
      <4>1. lg >= 6 /\ lg \in Nat
        BY <1>1, <3>2 DEF HeaderSize
      <4>2. \A i \in 1 .. 6 : i \in 1 .. m /\ i \in 1 .. lg /\ i \in 1 .. 6 + l
        <5>1. m \in Nat /\ n \in Nat /\ lg \in Nat /\ l \in Nat /\ m = lg + n
          BY <1>1, <1>2, <2>3, LenProperties
        <5>2. m >= 6 /\ \A i \in 1 .. 6 : i \in 1 .. m /\ i \in 1 .. lg
          BY <4>1, <5>1, SixFirst
        <5>3. \A i \in 1 .. 6 : i \in 1 .. 6 + l
          BY <5>1
        <5> QED
          BY <5>2, <5>3
      <4>3. \A i \in 1 .. 6 : g[i] = Raw(f)[i]
        BY <1>2, <1>4, <2>4, <4>2
      <4>4. \A i \in 1 .. HeaderSize : g[i] = Raw(f)[i]
        BY <4>3 DEF HeaderSize
      <4>5. Len(g) >= HeaderSize
        BY <1>1, <4>1 DEF HeaderSize
      <4>6. m <= Needed(g)
        BY <1>1, <1>2
      <4>7. m <= HeaderSize + Len(f.data)
        BY <1>1, <4>4, <4>5, <4>6, HeaderBound
      <4> QED
        BY <2>3, <4>7 DEF HeaderSize
    <3> QED
      BY <3>1, <3>2
  <2>6. \A i \in 1 .. m : i \in 1 .. 6 + l
    BY <2>5
  <2>7. Begins(bytes, f)
    BY <1>1, <1>4, <2>3, <2>4, <2>5, <2>6 DEF Begins
  <2> QED
    BY <1>1, <2>1, <2>2, <2>7 DEF bytes, FrameBegun
<1> QED
  BY <1>6, <1>7

\* With such a buffer readFrame goes on, returns the frame, or fails for its length.
LEMMA PieceRead ==
    ASSUME NEW size \in 1 .. TwoBytes - 1, NEW f \in Sendable(size), NEW bytes \in Seq(Int),
           NEW g \in Seq(Int), Begins(bytes, f), Len(g) <= Len(bytes), Len(bytes) <= Needed(g),
           \A i \in 1 .. Len(g) : bytes[i] = g[i]
    PROVE  /\ Len(bytes) >= HeaderSize => bytes[1] = Version
           /\ ~Overflows(bytes) /\ Len(bytes) >= Needed(bytes) => Len(bytes) = Len(Raw(f))
           /\ Overflows(bytes) => size >= TwoBytes - HeaderSize
<1>1. PICK m \in Nat, lg \in Nat, l \in Nat :
         /\ m = Len(bytes) /\ lg = Len(g) /\ l = Len(f.data) /\ Len(Raw(f)) = 6 + l
         /\ l <= size
  <2>1. f \in Frames /\ Len(f.data) <= size
    BY DEF Sendable
  <2>2. Len(Raw(f)) = HeaderSize + Len(f.data) /\ Len(f.data) \in Nat
    BY <2>1, RawFits
  <2> QED
    BY <2>1, <2>2, LenProperties DEF HeaderSize
<1>2. m <= 6 + l /\ \A i \in 1 .. m : bytes[i] = Raw(f)[i]
  BY <1>1 DEF Begins
<1>3. ASSUME m >= 6
      PROVE  /\ bytes[1] = Version
             /\ Needed(bytes) = DataEnd(bytes)
             /\ DataEnd(bytes) = IF 6 + l < TwoBytes THEN 6 + l ELSE 6 + l - TwoBytes
  <2>1. \A i \in 1 .. HeaderSize : bytes[i] = Raw(f)[i]
    <3>1. \A i \in 1 .. HeaderSize : i \in 1 .. m
      BY <1>3 DEF HeaderSize
    <3> QED
      BY <1>2, <3>1
  <2>2. Len(bytes) >= HeaderSize
    BY <1>1, <1>3 DEF HeaderSize
  <2> QED
    BY <1>1, <2>1, <2>2, HeaderRead DEF HeaderSize
<1>4. TwoBytes \in Nat /\ TwoBytes >= 9 /\ l < TwoBytes /\ size \in Nat
  BY <1>1, WireFacts
<1>5. ASSUME ~Overflows(bytes), m >= Needed(bytes) PROVE m = 6 + l
  <2>1. m >= 6
    BY <1>1, <1>5 DEF Needed, HeaderSize
  <2>2. CASE 6 + l < TwoBytes
    BY <1>2, <1>3, <1>5, <2>1, <2>2
  <2>3. CASE ~(6 + l < TwoBytes)
    <3>1. DataEnd(bytes) < 6 /\ bytes[1] = Version
      BY <1>3, <1>4, <2>1, <2>3
    <3>2. m # 6
      BY <1>1, <1>5, <3>1 DEF Overflows, HeaderSize
    <3>3. CASE lg < 6
      <4>1. Needed(g) = 6
        BY <1>1, <3>3 DEF Needed, HeaderSize
      <4>2. m <= 6
        BY <1>1, <4>1
      <4>3. m \in Nat
        BY <1>1
      <4>4. m = 6
        BY <2>1, <4>2, <4>3, Exactly
      <4> QED
        BY <3>2, <4>4
    <3>4. CASE lg >= 6
      <4>1. \A i \in 1 .. HeaderSize : i \in 1 .. m /\ i \in 1 .. lg
        BY <2>1, <3>4 DEF HeaderSize
      <4>2. \A i \in 1 .. HeaderSize : g[i] = Raw(f)[i]
        BY <1>1, <1>2, <4>1
      <4>3. Len(g) >= HeaderSize
        BY <1>1, <3>4 DEF HeaderSize
      <4>4. Needed(g) = 6 + l - TwoBytes
        BY <1>1, <2>3, <4>2, <4>3, HeaderRead DEF HeaderSize
      <4>5. 6 + l - TwoBytes < 6
        BY <1>4
      <4> QED
        BY <1>1, <1>4, <2>1, <4>4, <4>5
    <3> QED
      BY <3>3, <3>4
  <2> QED
    BY <2>2, <2>3
<1>6. ASSUME Overflows(bytes) PROVE size >= TwoBytes - HeaderSize
  <2>1. m = 6 /\ DataEnd(bytes) < 6
    BY <1>1, <1>6 DEF Overflows, HeaderSize
  <2>2. DataEnd(bytes) = IF 6 + l < TwoBytes THEN 6 + l ELSE 6 + l - TwoBytes
    BY <1>3, <2>1
  <2>3. ~(6 + l < TwoBytes)
    BY <1>1, <2>1, <2>2
  <2> QED
    BY <1>1, <1>4, <2>3 DEF HeaderSize
<1> QED
  BY <1>1, <1>3, <1>5, <1>6 DEF HeaderSize
-----------------------------------------------------------------------------
(* Masks *)

\* The i-th byte of c was XORed with the i-th byte of the key stream from place on.
Masked(c, keyed, half, place) ==
    \A i \in 1 .. Len(c) :
        c[i].mask = IF keyed THEN {<<half, (place + (i - 1)) % Bytes>>} ELSE {}

\* What comes behind goes on in the key stream.
LEMMA MasksGrow ==
    ASSUME NEW c \in Seq(WireByte), NEW d \in Seq(WireByte), NEW keyed \in BOOLEAN, NEW half,
           NEW a \in Nat, NEW z \in Nat, keyed => z = (a + Len(c)) % Bytes,
           Masked(c, keyed, half, a), Masked(d, keyed, half, z)
    PROVE  /\ Masked(c \o d, keyed, half, a)
           /\ keyed => (z + Len(d)) % Bytes = (a + Len(c \o d)) % Bytes
<1>1. PICK lc \in Nat, ld \in Nat : lc = Len(c) /\ ld = Len(d)
  BY LenProperties
<1>2. PICK y : y = c \o d
  OBVIOUS
<1>3. Len(y) = lc + ld /\ \A i \in 1 .. lc + ld : y[i] = IF i <= lc THEN c[i] ELSE d[i - lc]
  BY <1>1, <1>2, ConcatProperties
<1>4. ASSUME keyed, NEW k \in Nat PROVE (z + k) % Bytes = (a + lc + k) % Bytes
  <2>1. PICK b \in Nat : b = a + lc
    OBVIOUS
  <2>2. ((b % Bytes) + k) % Bytes = (b + k) % Bytes
    BY SizesFact, ModAdd
  <2>3. z = b % Bytes
    BY <1>1, <1>4, <2>1
  <2> QED
    BY <2>1, <2>2, <2>3
<1>5. ASSUME NEW i \in 1 .. lc + ld
      PROVE  y[i].mask = IF keyed THEN {<<half, (a + (i - 1)) % Bytes>>} ELSE {}
  <2>1. CASE i <= lc
    <3>1. i \in 1 .. lc /\ y[i] = c[i]
      BY <1>3, <2>1
    <3> QED
      BY <1>1, <3>1 DEF Masked
  <2>2. CASE ~(i <= lc)
    <3>1. PICK j \in 1 .. ld : j = i - lc /\ j - 1 \in Nat /\ a + lc + (j - 1) = a + (i - 1)
      <4>1. i - lc \in 1 .. ld /\ i - lc - 1 \in Nat /\ a + lc + (i - lc - 1) = a + (i - 1)
        BY <2>2
      <4> QED
        BY <4>1
    <3>2. y[i] = d[j]
      BY <1>3, <2>2, <3>1
    <3>3. d[j].mask = IF keyed THEN {<<half, (z + (j - 1)) % Bytes>>} ELSE {}
      BY <1>1, <3>1 DEF Masked
    <3>4. keyed => (z + (j - 1)) % Bytes = (a + (i - 1)) % Bytes
      BY <1>4, <3>1
    <3> QED
      BY <3>2, <3>3, <3>4
  <2> QED
    BY <2>1, <2>2
<1>6. a + lc + ld = a + (lc + ld)
  OBVIOUS
<1> QED
  BY <1>1, <1>2, <1>3, <1>4, <1>5, <1>6 DEF Masked

\* What is left once a part is gone is masked from a later place on.
LEMMA MasksMove ==
    ASSUME NEW c \in Seq(WireByte), NEW keyed \in BOOLEAN, NEW half, NEW a \in Nat,
           Masked(c, keyed, half, a), NEW n \in Nat, n <= Len(c),
           NEW y, Len(y) = Len(c) - n, \A i \in 1 .. Len(c) - n : y[i] = c[n + i]
    PROVE  /\ Masked(y, keyed, half, (a + n) % Bytes)
           /\ (((a + n) % Bytes) + Len(y)) % Bytes = (a + Len(c)) % Bytes
<1>1. PICK ly \in Nat : ly = Len(y) /\ Len(c) = n + ly /\ Len(c) - n = ly
  <2>1. PICK lc \in Nat : lc = Len(c)
    BY LenProperties
  <2>2. lc - n \in Nat /\ lc = n + (lc - n)
    BY <2>1
  <2> QED
    BY <2>1, <2>2
<1>2. PICK b \in Nat : b = a + n
  OBVIOUS
<1>3. \A k \in Nat : ((b % Bytes) + k) % Bytes = (b + k) % Bytes
  BY SizesFact, ModAdd
<1>4. ASSUME NEW i \in 1 .. ly
      PROVE  y[i].mask = IF keyed THEN {<<half, ((b % Bytes) + (i - 1)) % Bytes>>} ELSE {}
  <2>1. /\ n + i \in 1 .. n + ly /\ i - 1 \in Nat
        /\ b + (i - 1) = a + (n + i - 1)
    BY <1>2
  <2>2. c[n + i].mask = IF keyed THEN {<<half, (a + (n + i - 1)) % Bytes>>} ELSE {}
    <3>1. PICK j \in 1 .. Len(c) : j = n + i
      BY <1>1, <2>1
    <3>2. c[j].mask = IF keyed THEN {<<half, (a + (j - 1)) % Bytes>>} ELSE {}
      BY DEF Masked
    <3>3. j - 1 = n + i - 1
      BY <3>1
    <3> QED
      BY Zenon, <3>1, <3>2, <3>3
  <2>3. y[i] = c[n + i]
    BY <1>1
  <2>4. ((b % Bytes) + (i - 1)) % Bytes = (a + (n + i - 1)) % Bytes
    BY <1>3, <2>1
  <2> QED
    BY <2>2, <2>3, <2>4
<1>5. ((b % Bytes) + ly) % Bytes = (a + (n + ly)) % Bytes
  <2>1. b + ly = a + (n + ly)
    BY <1>2
  <2> QED
    BY <1>3, <2>1
<1> QED
  BY <1>1, <1>2, <1>4, <1>5 DEF Masked

-----------------------------------------------------------------------------
(* One end and the other *)

\* The reader goes on in the key stream where the next byte was encrypted, and as long
\* as the connection holds, the writer where the last one was.
DecInv(p) ==
    /\ dec[p].half = Half(p # hub)
    /\ reader[p] = "reading" =>
          /\ Masked(conn[p], scenario.keyed, dec[p].half, Place(dec[p]))
          /\ ~broken /\ scenario.keyed =>
                Place(enc[Peer(p)]) = (Place(dec[p]) + Len(conn[p])) % Bytes

\* The frames read are the first that were written.
ReadInv(p) ==
    /\ Len(read[p]) <= Len(written[Peer(p)])
    /\ \A k \in 1 .. Len(read[p]) : read[p][k] = written[Peer(p)][k]
    /\ reader[p] # "refused"
    /\ reader[p] = "crashed" => scenario.setting \in TwoBytes - HeaderSize .. TwoBytes - 1

\* The frames written lie in the stream s of bytes, and what was not returned yet is in
\* the buffer of readFrame and on the connection.
OnLine(p, s, b) ==
    /\ Laid(s, b, written[Peer(p)])
    /\ Torn(s, b[Len(written[Peer(p)])], FrameSize(scenario.setting))
    /\ ~broken => b[Len(written[Peer(p)])] = Len(s)
    /\ There(s, b[Len(read[p])], got[p], conn[p])

LineInv(p) ==
    reader[p] = "reading" =>
        \E s \in Seq(Int), b \in [0 .. Len(written[Peer(p)]) -> Nat] : OnLine(p, s, b)

Link(p) == DecInv(p) /\ ReadInv(p) /\ LineInv(p)

\* What leaves an end's part alone, or ends its reading, keeps it.
LEMMA LinkSame ==
    ASSUME NEW p \in Ends, Link(p), scenario' = scenario,
           read'[p] = read[p], written'[Peer(p)] = written[Peer(p)], dec'[p] = dec[p],
           reader'[p] \in {reader[p], "failed", "panicked"},
           reader'[p] = "reading" =>
              /\ conn'[p] = conn[p] /\ got'[p] = got[p]
              /\ ~broken' => ~broken /\ enc'[Peer(p)] = enc[Peer(p)]
    PROVE  Link(p)'
<1>1. DecInv(p)'
  <2>1. dec'[p].half = Half(p # hub)
    BY DEF Link, DecInv
  <2>2. ASSUME reader'[p] = "reading"
        PROVE  /\ Masked(conn'[p], scenario.keyed, dec[p].half, Place(dec[p]))
               /\ ~broken' /\ scenario.keyed =>
                     Place(enc'[Peer(p)]) = (Place(dec[p]) + Len(conn'[p])) % Bytes
    BY <2>2 DEF Link, DecInv
  <2> QED
    BY <2>1, <2>2 DEF DecInv
<1>2. ReadInv(p)'
  BY DEF Link, ReadInv
<1>3. LineInv(p)'
  <2> SUFFICES ASSUME reader'[p] = "reading" PROVE LineInv(p)'
    BY DEF LineInv
  <2>1. PICK s \in Seq(Int), b \in [0 .. Len(written[Peer(p)]) -> Nat] : OnLine(p, s, b)
    BY DEF Link, LineInv
  <2>2. OnLine(p, s, b)'
    BY <2>1 DEF OnLine
  <2> QED
    BY <2>1, <2>2 DEF LineInv
<1> QED
  BY <1>1, <1>2, <1>3 DEF Link

\* What an end writes, the other can take the mask off.
LEMMA DecGrows ==
    ASSUME WireTyped, NEW e \in Ends, DecInv(Peer(e)), ~broken,
           NEW raw \in Seq(Int), CipherMoves(e, Len(raw)),
           NEW d \in Seq(WireByte), NEW n \in Nat, Len(d) = n, n <= Len(raw),
           \A i \in 1 .. n : d[i] = Encrypted(e, raw)[i],
           conn'[Peer(e)] = conn[Peer(e)] \o d, reader'[Peer(e)] = reader[Peer(e)],
           scenario' = scenario, broken' \/ n = Len(raw)
    PROVE  DecInv(Peer(e))' /\ dec' = dec
<1>1. PICK p \in Ends : p = Peer(e) /\ Peer(p) = e /\ p # e
  BY WireFacts
<1>2. /\ CipherShape /\ Shape /\ (\A x \in Ends : EncInv(x))
      /\ scenario \in Scenarios /\ scenario.keyed \in BOOLEAN
  BY ScenarioFacts DEF WireTyped, Shape
<1>3. PICK len \in Nat : len = Len(raw)
  BY LenProperties
<1>4. /\ dec' = dec
      /\ scenario.keyed => enc' = [enc EXCEPT ![e] = After(enc[e], len)]
  BY <1>3 DEF CipherMoves, cipherVars
<1>5. dec[p].half = enc[e].half
  <2>1. dec[p].half = Half(p # hub) /\ enc[e].half = Half(e = hub)
    BY <1>1, <1>2 DEF DecInv, EncInv
  <2>2. (p # hub) = (e = hub)
    BY <1>1, WireFacts
  <2> QED
    BY <2>1, <2>2 DEF Half
<1>6. PICK h : h = dec[p].half /\ h = enc[e].half
  BY <1>5
<1>7. Good(enc[e]) /\ Good(dec[p]) /\ enc \in [Ends -> Ciphers]
  BY <1>2 DEF CipherShape
<1>8. PICK a \in Nat, z \in Nat : a = Place(dec[p]) /\ z = Place(enc[e])
  BY <1>7, NextBlock
<1>9. Masked(d, scenario.keyed, h, z)
  <2>1. \A i \in 1 .. len : Encrypted(e, raw)[i] =
           [value |-> raw[i],
            mask  |-> IF scenario.keyed THEN {<<h, (z + (i - 1)) % Bytes>>} ELSE {}]
    <3>1. \A i \in 1 .. Len(raw) : Encrypted(e, raw)[i] =
             [value |-> raw[i],
              mask  |-> IF scenario.keyed
                          THEN {<<enc[e].half, (Place(enc[e]) + (i - 1)) % Bytes>>} ELSE {}]
      BY <1>2, EncryptedFits
    <3> QED
      BY <1>3, <1>6, <1>8, <3>1
  <2>2. \A i \in 1 .. n : i \in 1 .. len
    BY <1>3
  <2>3. \A i \in 1 .. n : d[i] =
           [value |-> raw[i],
            mask  |-> IF scenario.keyed THEN {<<h, (z + (i - 1)) % Bytes>>} ELSE {}]
    BY <2>1, <2>2
  <2>4. \A i \in 1 .. n : d[i].mask = IF scenario.keyed THEN {<<h, (z + (i - 1)) % Bytes>>} ELSE {}
    <3> SUFFICES ASSUME NEW i \in 1 .. n
                 PROVE  d[i].mask = IF scenario.keyed THEN {<<h, (z + (i - 1)) % Bytes>>} ELSE {}
      OBVIOUS
    <3>1. PICK v, k : v = raw[i] /\ k = IF scenario.keyed THEN {<<h, (z + (i - 1)) % Bytes>>} ELSE {}
      OBVIOUS
    <3>2. d[i] = [value |-> v, mask |-> k]
      BY Zenon, <2>3, <3>1
    <3> QED
      BY <3>1, <3>2
  <2> QED
    BY Zenon, <2>4 DEF Masked
<1>10. ASSUME reader'[p] = "reading"
       PROVE  /\ Masked(conn'[p], scenario.keyed, h, a)
              /\ ~broken' /\ scenario.keyed => Place(enc'[e]) = (a + Len(conn'[p])) % Bytes
  <2>1. conn[p] \in Seq(WireByte)
    BY <1>2 DEF Shape
  <2>2. /\ Masked(conn[p], scenario.keyed, h, a)
        /\ scenario.keyed => z = (a + Len(conn[p])) % Bytes
    BY <1>1, <1>6, <1>8, <1>10 DEF DecInv
  <2>3. /\ Masked(conn'[p], scenario.keyed, h, a)
        /\ scenario.keyed => (z + n) % Bytes = (a + Len(conn'[p])) % Bytes
    <3>1. PICK keyed \in BOOLEAN : keyed = scenario.keyed
      BY <1>2
    <3>2. PICK c \in Seq(WireByte) : c = conn[p]
      BY <2>1
    <3>3. Masked(c, keyed, h, a)
      BY Zenon, <2>2, <3>1, <3>2
    <3>4. Masked(d, keyed, h, z)
      BY Zenon, <1>9, <3>1
    <3>5. keyed => z = (a + Len(c)) % Bytes
      BY Zenon, <2>2, <3>1, <3>2
    <3>6. keyed \in BOOLEAN /\ c \in Seq(WireByte) /\ a \in Nat /\ z \in Nat
      BY <1>8, <3>1, <3>2
    <3>7. /\ Masked(c \o d, keyed, h, a)
          /\ keyed => (z + Len(d)) % Bytes = (a + Len(c \o d)) % Bytes
      BY <3>3, <3>4, <3>5, <3>6, MasksGrow
    <3>8. conn'[p] = c \o d
      BY <1>1, <3>2
    <3> QED
      BY Zenon, <3>1, <3>7, <3>8
  <2>4. scenario.keyed => Place(enc'[e]) = (z + len) % Bytes
    <3>1. ASSUME scenario.keyed PROVE enc'[e] = After(enc[e], len)
      <4>1. enc' = [enc EXCEPT ![e] = After(enc[e], len)]
        BY <1>4, <3>1
      <4> QED
        BY <1>7, <4>1
    <3> QED
      BY ZenonT(30), <1>7, <1>8, <3>1, AfterFollows
  <2>5. ~broken' => n = len
    BY <1>3
  <2> QED
    BY <2>3, <2>4, <2>5
<1>11. dec[p].half = Half(p # hub)
  BY <1>1 DEF DecInv
<1>12. ASSUME reader'[p] = "reading"
       PROVE  /\ Masked(conn'[p], scenario.keyed, dec[p].half, Place(dec[p]))
              /\ ~broken' /\ scenario.keyed =>
                    Place(enc'[Peer(p)]) = (Place(dec[p]) + Len(conn'[p])) % Bytes
  BY Zenon, <1>1, <1>6, <1>8, <1>10, <1>12
<1>13. DecInv(p)'
  BY <1>4, <1>11, <1>12 DEF DecInv
<1> QED
  BY Zenon, <1>1, <1>4, <1>13

\* The stream t of bytes is s with the frame f behind it.
Grows(size, w, s, b, f, t) ==
    /\ w \in Seq(Sendable(size)) /\ s \in Seq(Int) /\ b \in [0 .. Len(w) -> Nat]
    /\ f \in Sendable(size) /\ t \in Seq(Int)
    /\ Laid(s, b, w) /\ b[Len(w)] = Len(s) /\ Len(t) = Len(s) + Len(Raw(f))
    /\ \A i \in 1 .. Len(s) : t[i] = s[i]
    /\ \A i \in 1 .. Len(Raw(f)) : t[Len(s) + i] = Raw(f)[i]

\* The frames v lie in t, each where the frames before left it.
Grown(t, v, b) ==
    \E c \in [0 .. Len(v) -> Nat] :
        /\ Laid(t, c, v) /\ c[Len(v)] = Len(t)
        /\ \A k \in 0 .. Len(v) - 1 : c[k] = b[k]

\* A frame that was written whole goes behind the others.
LEMMA LineGrows ==
    ASSUME NEW size, NEW w, NEW s, NEW b, NEW f, NEW t, Grows(size, w, s, b, f, t)
    PROVE  Grown(t, Append(w, f), b)
<1>1. w \in Seq(Sendable(size))
  BY DEF Grows
<1>2. s \in Seq(Int)
  BY DEF Grows
<1>3. b \in [0 .. Len(w) -> Nat]
  BY DEF Grows
<1>4. f \in Sendable(size)
  BY DEF Grows
<1>5. t \in Seq(Int)
  BY DEF Grows
<1>6. Laid(s, b, w)
  BY DEF Grows
<1>7. b[Len(w)] = Len(s)
  BY DEF Grows
<1>8. Len(t) = Len(s) + Len(Raw(f))
  BY DEF Grows
<1>9. \A i \in 1 .. Len(s) : t[i] = s[i]
  BY DEF Grows
<1>10. \A i \in 1 .. Len(Raw(f)) : t[Len(s) + i] = Raw(f)[i]
  BY DEF Grows
<1>11. \E c \in [0 .. Len(Append(w, f)) -> Nat] :
          /\ Laid(t, c, Append(w, f)) /\ c[Len(Append(w, f))] = Len(t)
          /\ \A k \in 0 .. Len(w) : c[k] = b[k]
  BY SMTT(30), <1>1, <1>2, <1>3, <1>4, <1>5, <1>6, <1>7, <1>8, <1>9, <1>10, LaidGrows
<1>12. PICK v : v = Append(w, f) /\ Len(v) - 1 = Len(w)
  <2>1. Len(Append(w, f)) = Len(w) + 1
    BY <1>1, <1>4, AppendProperties
  <2>2. PICK m \in Nat : m = Len(w)
    BY <1>1, LenProperties
  <2>3. Len(Append(w, f)) - 1 = Len(w)
    BY <2>1, <2>2
  <2> QED
    BY Zenon, <2>3
<1>13. PICK c \in [0 .. Len(v) -> Nat] :
          Laid(t, c, v) /\ c[Len(v)] = Len(t) /\ \A k \in 0 .. Len(w) : c[k] = b[k]
  BY <1>11, <1>12
<1>14. \A k \in 0 .. Len(v) - 1 : c[k] = b[k]
  BY <1>12, <1>13
<1> QED
  BY <1>12, <1>13, <1>14 DEF Grown

\* A frame that an end writes, whole or in part, is there for the other to read.
LEMMA LinkGrows ==
    ASSUME WireTyped, NEW e \in Ends, Link(Peer(e)), Transmit(e) \/ (TransmitFails(e) /\ ~broken)
    PROVE  Link(Peer(e))'
<1>1. PICK p \in Ends : p = Peer(e) /\ Peer(p) = e /\ p # e
  BY WireFacts
<1>2. PICK size \in 1 .. TwoBytes - 1 : size = FrameSize(scenario.setting)
  <2>1. scenario \in Scenarios
    BY DEF WireTyped, Shape
  <2> QED
    BY <2>1, ScenarioFacts, FrameSizeFits
<1>3. /\ Shape /\ CipherShape /\ conn \in [Ends -> Seq(WireByte)]
      /\ written \in [Ends -> Seq(Sendable(size))]
      /\ got[p] \in Seq(Int) /\ read[p] \in Seq(Frames)
  BY <1>2 DEF WireTyped, Shape
<1>4. todo[e] # <<>> /\ ~broken
  BY DEF Transmit, TransmitFails
<1>5. PICK f \in Sendable(size) :
         f = todo[e][1] /\ Raw(f) \in Seq(Int) /\ Len(Raw(f)) \in Nat /\ Len(Raw(f)) >= HeaderSize
  BY <1>2, <1>3, <1>4, FirstFits
<1>6. PICK len \in Nat : len = Len(Raw(f)) /\ len >= 6
  BY <1>5 DEF HeaderSize
<1>7. PICK enced \in Seq(WireByte) :
         enced = Encrypted(e, Raw(f)) /\ Len(enced) = len /\ \A i \in 1 .. len : enced[i].value = Raw(f)[i]
  <2>1. PICK raw \in Seq(Int) : raw = Raw(f) /\ Len(raw) = len
    BY <1>5, <1>6
  <2>2. /\ Encrypted(e, raw) \in Seq(WireByte) /\ Len(Encrypted(e, raw)) = Len(raw)
        /\ \A i \in 1 .. Len(raw) : Encrypted(e, raw)[i] =
              [value |-> raw[i],
               mask  |-> IF scenario.keyed
                           THEN {<<enc[e].half, (Place(enc[e]) + (i - 1)) % Bytes>>} ELSE {}]
    BY <1>3, EncryptedFits
  <2>3. \A i \in 1 .. len : Encrypted(e, raw)[i].value = raw[i]
    BY <2>1, <2>2
  <2> QED
    BY <2>1, <2>2, <2>3
<1>8. /\ CipherMoves(e, len) /\ scenario' = scenario
      /\ UNCHANGED <<got, reader, read>>
  BY <1>5, <1>6 DEF Transmit, TransmitFails
<1>9. \E n \in 0 .. len : \E d \in Seq(WireByte) :
         /\ Len(d) = n /\ \A i \in 1 .. n : d[i] = enced[i]
         /\ conn' = [conn EXCEPT ![p] = @ \o d]
         /\ \/ n = len /\ broken' = broken /\ written' = [written EXCEPT ![e] = Append(@, f)]
            \/ n < len /\ broken' = TRUE /\ written' = written
  <2>1. CASE Transmit(e)
    <3>1. /\ conn' = [conn EXCEPT ![p] = @ \o enced]
          /\ broken' = broken /\ written' = [written EXCEPT ![e] = Append(@, f)]
      BY <1>1, <1>5, <1>7, <2>1 DEF Transmit
    <3>2. len \in 0 .. len
      OBVIOUS
    <3> QED
      BY <1>7, <3>1, <3>2
  <2>2. CASE TransmitFails(e)
    <3>1. PICK n \in {0, HeaderSize, len - 1} :
             n < len /\ conn' = [conn EXCEPT ![p] = @ \o SubSeq(enced, 1, n)]
      BY <1>1, <1>4, <1>5, <1>6, <1>7, <2>2 DEF TransmitFails
    <3>2. n \in 0 .. len
      BY <1>6, <3>1 DEF HeaderSize
    <3>3. PICK d \in Seq(WireByte) :
             d = SubSeq(enced, 1, n) /\ Len(d) = n /\ \A i \in 1 .. n : d[i] = enced[i]
      BY <1>7, <3>2, TakenFits
    <3>4. broken' = TRUE /\ written' = written
      BY <2>2 DEF TransmitFails
    <3> QED
      BY <3>1, <3>2, <3>3, <3>4
  <2> QED
    BY <2>1, <2>2
<1>10. PICK n \in 0 .. len : \E d \in Seq(WireByte) :
         /\ Len(d) = n /\ \A i \in 1 .. n : d[i] = enced[i]
         /\ conn' = [conn EXCEPT ![p] = @ \o d]
         /\ \/ n = len /\ broken' = broken /\ written' = [written EXCEPT ![e] = Append(@, f)]
            \/ n < len /\ broken' = TRUE /\ written' = written
  BY <1>9
<1>11. PICK d \in Seq(WireByte) :
         /\ Len(d) = n /\ \A i \in 1 .. n : d[i] = enced[i]
         /\ conn' = [conn EXCEPT ![p] = @ \o d]
         /\ \/ n = len /\ broken' = broken /\ written' = [written EXCEPT ![e] = Append(@, f)]
            \/ n < len /\ broken' = TRUE /\ written' = written
  BY <1>10
<1>12. n \in Nat /\ n <= len
  BY <1>10
<1>13. conn'[p] = conn[p] \o d /\ reader'[p] = reader[p] /\ read'[p] = read[p] /\ got'[p] = got[p]
  BY <1>3, <1>8, <1>11
<1>14. DecInv(p)'
  <2>1. DecInv(Peer(e))
    BY DEF Link
  <2>2. PICK raw \in Seq(Int) : raw = Raw(f) /\ Len(raw) = len
    BY <1>5, <1>6
  <2>3. /\ CipherMoves(e, Len(raw)) /\ n \in Nat /\ n <= Len(raw) /\ (broken' \/ n = Len(raw))
        /\ d \in Seq(WireByte) /\ Len(d) = n /\ \A i \in 1 .. n : d[i] = Encrypted(e, raw)[i]
    BY <1>7, <1>8, <1>11, <1>12, <2>2
  <2>4. /\ conn'[Peer(e)] = conn[Peer(e)] \o d /\ reader'[Peer(e)] = reader[Peer(e)]
        /\ scenario' = scenario
    BY <1>1, <1>8, <1>13
  <2>5. DecInv(Peer(e))'
    BY <1>4, <2>1, <2>3, <2>4, DecGrows
  <2> QED
    BY Zenon, <1>1, <2>5
<1>15. PICK w \in Seq(Sendable(size)) : w = written[e]
  BY <1>3
<1>16. ReadInv(p)'
  <2>1. /\ Len(read[p]) <= Len(w) /\ reader[p] # "refused"
        /\ \A k \in 1 .. Len(read[p]) : read[p][k] = w[k]
        /\ reader[p] = "crashed" => scenario.setting \in TwoBytes - HeaderSize .. TwoBytes - 1
    BY <1>1, <1>15 DEF Link, ReadInv
  <2>2. PICK r \in Nat, m \in Nat : r = Len(read[p]) /\ m = Len(w)
    BY <1>3, LenProperties
  <2>3. Len(read[p]) <= Len(written'[e]) /\ \A k \in 1 .. Len(read[p]) : read[p][k] = written'[e][k]
    <3>1. CASE written' = written
      BY <1>15, <2>1, <3>1
    <3>2. CASE written' = [written EXCEPT ![e] = Append(@, f)]
      <4>1. written'[e] = Append(w, f)
        BY <1>3, <1>15, <3>2
      <4>2. Len(Append(w, f)) = m + 1 /\ \A k \in 1 .. m : Append(w, f)[k] = w[k]
        BY <2>2, AppendProperties
      <4>3. \A k \in 1 .. r : k \in 1 .. m
        BY <2>1, <2>2
      <4>4. r <= m + 1
        BY <2>1, <2>2
      <4> QED
        BY <2>1, <2>2, <4>1, <4>2, <4>3, <4>4
    <3> QED
      BY <1>11, <3>1, <3>2
  <2> QED
    BY <1>1, <1>8, <1>13, <2>1, <2>3 DEF ReadInv
<1>17. LineInv(p)'
  <2> SUFFICES ASSUME reader'[p] = "reading" PROVE LineInv(p)'
    BY DEF LineInv
  <2>1. PICK s \in Seq(Int), b \in [0 .. Len(w) -> Nat] :
           /\ Laid(s, b, w) /\ Torn(s, b[Len(w)], size) /\ b[Len(w)] = Len(s)
           /\ There(s, b[Len(read[p])], got[p], conn[p])
    BY <1>1, <1>2, <1>4, <1>13, <1>15 DEF Link, LineInv, OnLine
  <2>2. PICK m \in Nat, ls \in Nat : m = Len(w) /\ ls = Len(s)
    BY LenProperties
  <2>3. PICK r \in 0 .. m : r = Len(read[p])
    <3>1. Len(read[p]) <= m /\ Len(read[p]) \in Nat
      BY <1>1, <1>3, <1>15, <2>2, LenProperties DEF Link, ReadInv
    <3> QED
      BY <2>2, <3>1
  <2>4. PICK at \in Nat : at = b[r]
    BY <2>2
  <2> DEFINE x == [i \in 1 .. n |-> Raw(f)[i]]
  <2>5. x \in Seq(Int) /\ Len(x) = n /\ \A i \in 1 .. n : x[i] = Raw(f)[i] /\ d[i].value = x[i]
    <3>1. \A i \in 1 .. n : i \in 1 .. len
      BY <1>12
    <3>2. \A i \in 1 .. n : Raw(f)[i] \in Int
      BY <1>5, <1>6, <3>1, ElementOfSeq
    <3>3. x \in [1 .. n -> Int]
      BY <3>2
    <3>4. x \in Seq(Int)
      BY <1>12, <3>3, SeqDef
    <3>5. Len(x) = n
      BY <1>12
    <3>6. \A i \in 1 .. n : d[i].value = Raw(f)[i]
      BY <1>7, <1>11, <3>1
    <3> QED
      BY <3>4, <3>5, <3>6
  <2> HIDE DEF x
  <2>6. PICK t : t = s \o x
    OBVIOUS
  <2>7. /\ t \in Seq(Int) /\ Len(t) = ls + n
        /\ \A i \in 1 .. ls : t[i] = s[i]
        /\ \A i \in 1 .. n : t[ls + i] = x[i]
        /\ There(t, at, got[p], conn'[p])
    <3>1. There(s, at, got[p], conn[p]) /\ conn[p] \in Seq(WireByte)
      BY <1>3, <2>1, <2>2, <2>3, <2>4
    <3>2. PICK c \in Seq(WireByte), g \in Seq(Int) : c = conn[p] /\ g = got[p]
      BY <1>3, <3>1
    <3>3. There(s, at, g, c)
      BY <3>1, <3>2
    <3>4. s \in Seq(Int) /\ at \in Nat /\ g \in Seq(Int) /\ c \in Seq(WireByte)
          /\ n \in Nat /\ x \in Seq(Int) /\ d \in Seq(WireByte)
      BY <1>11, <1>12, <2>1, <2>5, <2>4, <3>2
    <3>5. Len(x) = n
      BY <2>5
    <3>6. Len(d) = n
      BY <1>11
    <3>7. \A i \in 1 .. n : d[i].value = x[i]
      BY <2>5
    <3>8. /\ s \o x \in Seq(Int) /\ Len(s \o x) = Len(s) + n
          /\ \A i \in 1 .. Len(s) : (s \o x)[i] = s[i]
          /\ \A i \in 1 .. n : (s \o x)[Len(s) + i] = x[i]
          /\ There(s \o x, at, g, c \o d)
      BY <3>3, <3>4, <3>5, <3>6, <3>7, ThereGrows
    <3> QED
      BY <1>13, <2>2, <2>6, <3>2, <3>8
  <2>8. CASE n = len /\ broken' = broken /\ written' = [written EXCEPT ![e] = Append(@, f)]
    <3>1. PICK v : v = Append(w, f)
      OBVIOUS
    <3>2. Grown(t, v, b)
      <4>1. Len(t) = Len(s) + Len(Raw(f)) /\ \A i \in 1 .. Len(s) : t[i] = s[i]
        BY <1>6, <2>2, <2>7, <2>8
      <4>2. \A i \in 1 .. Len(Raw(f)) : t[Len(s) + i] = Raw(f)[i]
        BY <1>6, <2>2, <2>5, <2>7, <2>8
      <4>3. Grows(size, w, s, b, f, t)
        BY <1>5, <1>15, <2>1, <2>7, <4>1, <4>2 DEF Grows
      <4> QED
        BY Zenon, <3>1, <4>3, LineGrows
    <3>3. PICK c \in [0 .. Len(v) -> Nat] :
             Laid(t, c, v) /\ c[Len(v)] = Len(t) /\ \A k \in 0 .. Len(v) - 1 : c[k] = b[k]
      BY <3>2 DEF Grown
    <3>4. c[r] = b[r]
      <4>1. Len(v) - 1 = m
        BY <1>5, <1>15, <2>2, <3>1, AppendProperties
      <4> QED
        BY <2>3, <3>3, <4>1
    <3>5. written'[e] = v /\ c[r] = at
      BY <1>3, <1>15, <2>4, <2>8, <3>1, <3>4
    <3>6. Torn(t, c[Len(v)], size)
      BY <3>3 DEF Torn
    <3>7. OnLine(p, t, c)'
      BY <1>1, <1>2, <1>8, <1>13, <2>2, <2>3, <2>4, <2>7, <3>3, <3>5, <3>6 DEF OnLine
    <3>8. c \in [0 .. Len(written'[e]) -> Nat]
      BY <3>5, <3>3
    <3> QED
      BY <1>1, <2>7, <3>7, <3>8 DEF LineInv
  <2>9. CASE n < len /\ broken' = TRUE /\ written' = written
    <3>1. Laid(t, b, w)
      <4>1. Len(t) >= Len(s) /\ \A i \in 1 .. Len(s) : t[i] = s[i]
        BY <1>12, <2>2, <2>3, <2>4, <2>7
      <4> QED
        BY <2>1, <2>7, <4>1, LaidStays
    <3>2. Torn(t, b[Len(w)], size)
      <4>1. b[Len(w)] = ls /\ Len(t) - ls = n
        BY <1>12, <2>1, <2>2, <2>3, <2>4, <2>7
      <4>2. n < Len(Raw(f)) /\ \A i \in 1 .. n : t[ls + i] = Raw(f)[i]
        BY <1>6, <2>5, <2>7, <2>9
      <4> QED
        BY <4>1, <4>2 DEF Torn
    <3>3. OnLine(p, t, b)'
      BY <1>1, <1>2, <1>8, <1>13, <1>15, <2>2, <2>3, <2>4, <2>7, <2>9, <3>1, <3>2 DEF OnLine
    <3> QED
      BY <1>1, <1>15, <2>1, <2>7, <2>9, <3>3 DEF LineInv
  <2> QED
    BY <1>11, <2>8, <2>9
<1> QED
  BY <1>1, <1>14, <1>16, <1>17 DEF Link

\* The next n bytes of the connection, x, go into the buffer of readFrame.
Arrives(size, w, s, b, r, g, c, n, x) ==
    /\ size \in 1 .. TwoBytes - 1 /\ w \in Seq(Sendable(size)) /\ s \in Seq(Int)
    /\ b \in [0 .. Len(w) -> Nat] /\ Laid(s, b, w) /\ Torn(s, b[Len(w)], size)
    /\ r \in 0 .. Len(w) /\ g \in Seq(Int) /\ c \in Seq(WireByte) /\ There(s, b[r], g, c)
    /\ n \in 1 .. Len(c) /\ Len(g) + n <= Needed(g)
    /\ x \in Seq(Int) /\ Len(x) = n /\ \A i \in 1 .. n : x[i] = c[i].value

\* With that piece the buffer still holds the beginning of the next frame.
LEMMA PieceArrives ==
    ASSUME NEW size, NEW w, NEW s, NEW b, NEW r, NEW g, NEW c, NEW n, NEW x,
           Arrives(size, w, s, b, r, g, c, n, x)
    PROVE  FrameBegun(size, w, r, g \o x)
<1>1. size \in 1 .. TwoBytes - 1
  BY DEF Arrives
<1>2. w \in Seq(Sendable(size))
  BY DEF Arrives
<1>3. s \in Seq(Int)
  BY DEF Arrives
<1>4. b \in [0 .. Len(w) -> Nat]
  BY DEF Arrives
<1>5. Laid(s, b, w)
  BY DEF Arrives
<1>6. Torn(s, b[Len(w)], size)
  BY DEF Arrives
<1>7. r \in 0 .. Len(w)
  BY DEF Arrives
<1>8. g \in Seq(Int)
  BY DEF Arrives
<1>9. c \in Seq(WireByte)
  BY DEF Arrives
<1>10. There(s, b[r], g, c)
  BY DEF Arrives
<1>11. n \in 1 .. Len(c)
  BY DEF Arrives
<1>12. Len(g) + n <= Needed(g)
  BY DEF Arrives
<1>13. x \in Seq(Int)
  BY DEF Arrives
<1>14. Len(x) = n
  BY DEF Arrives
<1>15. \A i \in 1 .. n : x[i] = c[i].value
  BY DEF Arrives
<1> QED
  BY Zenon, <1>1, <1>2, <1>3, <1>4, <1>5, <1>6, <1>7, <1>8, <1>9, <1>10, <1>11, <1>12, <1>13, <1>14, <1>15,
     FrameAt

\* What readFrame has and takes, as long as the bytes are the stream's.
LEMMA LinkReads ==
    ASSUME WireTyped, NEW e \in Ends, Link(e), NEW n \in Nat, n > 0, n <= Len(conn[e]),
           Len(got[e]) + n <= Needed(got[e]), reader[e] = "reading"
    PROVE  \E s \in Seq(Int), b \in [0 .. Len(written[Peer(e)]) -> Nat],
              f \in Sendable(FrameSize(scenario.setting)) :
              /\ OnLine(e, s, b)
              /\ Begins(got[e] \o Decrypted(e, n), f)
              /\ Len(got[e] \o Decrypted(e, n)) = Len(Raw(f)) =>
                    /\ Len(read[e]) < Len(written[Peer(e)])
                    /\ written[Peer(e)][Len(read[e]) + 1] = f
              /\ \A i \in 1 .. n : Decrypted(e, n)[i] = conn[e][i].value
<1>1. PICK size \in 1 .. TwoBytes - 1 : size = FrameSize(scenario.setting)
  <2>1. scenario \in Scenarios
    BY DEF WireTyped, Shape
  <2> QED
    BY <2>1, ScenarioFacts, FrameSizeFits
<1>2. PICK w \in Seq(Sendable(size)), c \in Seq(WireByte), g \in Seq(Int) :
         w = written[Peer(e)] /\ c = conn[e] /\ g = got[e]
  BY <1>1, WireFacts DEF WireTyped, Shape
<1>3. PICK s \in Seq(Int), b \in [0 .. Len(w) -> Nat] : OnLine(e, s, b)
  BY <1>2 DEF Link, LineInv
<1>4. PICK r \in 0 .. Len(w) : r = Len(read[e])
  <2>1. Len(read[e]) \in Nat /\ Len(w) \in Nat
    BY <1>2, LenProperties DEF WireTyped, Shape
  <2>2. Len(read[e]) <= Len(w)
    BY <1>2 DEF Link, ReadInv
  <2> QED
    BY <2>1, <2>2
<1>5. PICK x \in Seq(Int) :
         x = Decrypted(e, n) /\ Len(x) = n /\ \A i \in 1 .. n : x[i] = c[i].value
  <2>1. CipherShape /\ Shape
    BY DEF WireTyped
  <2>2. Masked(c, scenario.keyed, dec[e].half, Place(dec[e]))
    BY <1>2 DEF Link, DecInv
  <2>3. /\ Decrypted(e, n) \in Seq(Int) /\ Len(Decrypted(e, n)) = n
        /\ \A i \in 1 .. n :
              conn[e][i].mask = (IF scenario.keyed
                 THEN {<<dec[e].half, (Place(dec[e]) + (i - 1)) % Bytes>>} ELSE {})
              => Decrypted(e, n)[i] = conn[e][i].value
    BY <2>1, DecryptedFits
  <2>4. ASSUME NEW i \in 1 .. n PROVE Decrypted(e, n)[i] = c[i].value
    <3>1. i \in 1 .. Len(c)
      BY <1>2, LenProperties
    <3>2. c[i].mask = IF scenario.keyed
                        THEN {<<dec[e].half, (Place(dec[e]) + (i - 1)) % Bytes>>} ELSE {}
      BY Zenon, <2>2, <3>1 DEF Masked
    <3> QED
      BY Zenon, <1>2, <2>3, <3>2
  <2> QED
    BY <2>3, <2>4
<1>6. Arrives(size, w, s, b, r, g, c, n, x)
  <2>1. Laid(s, b, w) /\ Torn(s, b[Len(w)], size) /\ There(s, b[r], g, c)
    BY <1>1, <1>2, <1>3, <1>4 DEF OnLine
  <2>2. n \in 1 .. Len(c) /\ Len(g) + n <= Needed(g)
    BY <1>2, LenProperties
  <2> QED
    BY <1>1, <1>2, <1>3, <1>4, <1>5, <2>1, <2>2 DEF Arrives
<1>7. FrameBegun(size, w, r, g \o x)
  BY <1>6, PieceArrives
<1>8. PICK f \in Sendable(size) :
         /\ Begins(g \o x, f)
         /\ Len(g \o x) = Len(Raw(f)) => r < Len(w) /\ w[r + 1] = f
  BY <1>7 DEF FrameBegun
<1>9. /\ Begins(got[e] \o Decrypted(e, n), f)
      /\ Len(got[e] \o Decrypted(e, n)) = Len(Raw(f)) =>
            /\ Len(read[e]) < Len(written[Peer(e)])
            /\ written[Peer(e)][Len(read[e]) + 1] = f
  BY <1>2, <1>4, <1>5, <1>8
<1>10. \A i \in 1 .. n : Decrypted(e, n)[i] = conn[e][i].value
  BY <1>2, <1>5
<1>11. /\ s \in Seq(Int) /\ b \in [0 .. Len(written[Peer(e)]) -> Nat]
       /\ f \in Sendable(FrameSize(scenario.setting))
  BY <1>1, <1>2, <1>3, <1>8
<1> QED
  BY <1>3, <1>9, <1>10, <1>11

\* A piece of n bytes is taken from a connection c, and y is left of it.
MaskMoves(c, keyed, half, a, n, y) ==
    /\ c \in Seq(WireByte) /\ keyed \in BOOLEAN /\ a \in Nat
    /\ Masked(c, keyed, half, a) /\ n \in Nat /\ n <= Len(c)
    /\ Len(y) = Len(c) - n /\ \A i \in 1 .. Len(c) - n : y[i] = c[n + i]

MaskMoved(c, keyed, half, a, n, y) ==
    /\ Masked(y, keyed, half, (a + n) % Bytes)
    /\ (((a + n) % Bytes) + Len(y)) % Bytes = (a + Len(c)) % Bytes

\* MasksMove, for what is left of a connection once a piece is taken.
LEMMA MasksTaken ==
    ASSUME NEW c, NEW keyed, NEW half, NEW a, NEW n, NEW y,
           MaskMoves(c, keyed, half, a, n, y)
    PROVE  MaskMoved(c, keyed, half, a, n, y)
<1>1. c \in Seq(WireByte)
  BY DEF MaskMoves
<1>2. keyed \in BOOLEAN
  BY DEF MaskMoves
<1>3. a \in Nat
  BY DEF MaskMoves
<1>4. Masked(c, keyed, half, a)
  BY DEF MaskMoves
<1>5. n \in Nat
  BY DEF MaskMoves
<1>6. n <= Len(c)
  BY DEF MaskMoves
<1>7. Len(y) = Len(c) - n
  BY DEF MaskMoves
<1>8. \A i \in 1 .. Len(c) - n : y[i] = c[n + i]
  BY DEF MaskMoves
<1> QED
  BY <1>1, <1>2, <1>3, <1>4, <1>5, <1>6, <1>7, <1>8, MasksMove DEF MaskMoved

\* A piece of a frame that is read.
LEMMA LinkPiece ==
    ASSUME WireTyped, NEW e \in Ends, Link(e), NEW n \in Nat, n > 0, n <= Len(conn[e]),
           Len(got[e]) + n <= Needed(got[e]), ReadPiece(e, n)
    PROVE  Link(e)' /\ (broken' => broken)
<1>1. PICK size \in 1 .. TwoBytes - 1 : size = FrameSize(scenario.setting)
  <2>1. scenario \in Scenarios
    BY DEF WireTyped, Shape
  <2> QED
    BY <2>1, ScenarioFacts, FrameSizeFits
<1>2. /\ Shape /\ CipherShape /\ reader[e] = "reading"
      /\ conn \in [Ends -> Seq(WireByte)] /\ got \in [Ends -> Seq(Int)]
      /\ read \in [Ends -> Seq(Frames)] /\ dec \in [Ends -> Ciphers]
      /\ reader \in [Ends -> {"reading", "refused", "failed", "panicked", "crashed"}]
  BY DEF WireTyped, Shape, CipherShape, ReadPiece
<1>3. PICK w \in Seq(Sendable(size)), c \in Seq(WireByte), g \in Seq(Int) :
         w = written[Peer(e)] /\ c = conn[e] /\ g = got[e]
  BY <1>1, WireFacts DEF WireTyped, Shape
<1>4. PICK s \in Seq(Int), b \in [0 .. Len(w) -> Nat], f \in Sendable(size) :
         /\ OnLine(e, s, b)
         /\ Begins(g \o Decrypted(e, n), f)
         /\ Len(g \o Decrypted(e, n)) = Len(Raw(f)) => Len(read[e]) < Len(w) /\ w[Len(read[e]) + 1] = f
         /\ \A i \in 1 .. n : Decrypted(e, n)[i] = c[i].value
  BY <1>1, <1>2, <1>3, LinkReads
<1>5. PICK x \in Seq(Int) : x = Decrypted(e, n) /\ Len(x) = n
  BY <1>2, DecryptedFits
<1>6. PICK bytes \in Seq(Int) : bytes = g \o x
  BY Joined
<1>7. Len(bytes) = Len(g) + n /\ \A i \in 1 .. Len(g) : bytes[i] = g[i]
  <2>1. /\ Len(bytes) = Len(g) + Len(x)
        /\ \A i \in 1 .. Len(g) + Len(x) : bytes[i] = IF i <= Len(g) THEN g[i] ELSE x[i - Len(g)]
    BY <1>6, ConcatProperties
  <2>2. PICK lg \in Nat : lg = Len(g)
    BY LenProperties
  <2>3. \A i \in 1 .. lg : i \in 1 .. lg + n /\ i <= lg
    OBVIOUS
  <2> QED
    BY <1>5, <2>1, <2>2, <2>3
<1>8. /\ Len(bytes) >= HeaderSize => bytes[1] = Version
      /\ ~Overflows(bytes) /\ Len(bytes) >= Needed(bytes) => Len(bytes) = Len(Raw(f))
  <2>1. Begins(bytes, f)
    BY <1>4, <1>5, <1>6
  <2>2. PICK lg \in Nat : lg = Len(g)
    BY LenProperties
  <2>3. Len(g) <= Len(bytes)
    BY <1>7, <2>2
  <2>4. Len(bytes) <= Needed(g)
    BY <1>3, <1>7
  <2>5. \A i \in 1 .. Len(g) : bytes[i] = g[i]
    BY <1>7
  <2> QED
    BY <2>1, <2>3, <2>4, <2>5, PieceRead
<1>9. /\ ~Overflows(bytes)
      /\ conn' = [conn EXCEPT ![e] = SubSeq(@, n + 1, Len(@))]
      /\ dec' = IF scenario.keyed THEN [dec EXCEPT ![e] = After(@, n)] ELSE dec
      /\ IF Len(bytes) < Needed(bytes)
           THEN got' = [got EXCEPT ![e] = bytes] /\ read' = read
           ELSE /\ got' = [got EXCEPT ![e] = <<>>]
                /\ read' = [read EXCEPT ![e] = Append(@,
                       Frame(bytes[2], TwoAt(bytes, 5), SubSeq(bytes, HeaderSize + 1, Len(bytes))))]
      /\ reader' = [reader EXCEPT ![e] =
             IF Len(bytes) >= HeaderSize /\ bytes[1] # Version THEN "refused" ELSE @]
      /\ broken' = (broken \/ reader'[e] = "refused")
      /\ UNCHANGED <<scenario, enc, written>>
  BY <1>3, <1>5, <1>6 DEF ReadPiece
<1>10. reader' = reader /\ (broken' = broken)
  <2>1. ~(Len(bytes) >= HeaderSize /\ bytes[1] # Version)
    BY <1>8
  <2>2. reader' = reader
    BY <1>2, <1>9, <2>1
  <2>3. broken \in BOOLEAN
    BY <1>2 DEF Shape
  <2> QED
    BY <1>2, <1>9, <2>2, <2>3
<1>11. PICK y : /\ y = SubSeq(c, n + 1, Len(c)) /\ Len(y) = Len(c) - n
                /\ y \in Seq(WireByte)
                /\ \A i \in 1 .. Len(c) - n : y[i] = c[n + i]
                /\ There(s, b[Len(read[e])], bytes, y)
  <2>1. There(s, b[Len(read[e])], g, c)
    BY <1>3, <1>4 DEF OnLine
  <2>2. b[Len(read[e])] \in Nat
    <3>1. Len(read[e]) \in Nat /\ Len(w) \in Nat
      BY <1>2, <1>3, LenProperties
    <3>2. Len(read[e]) \in 0 .. Len(w)
      BY <1>3, <3>1 DEF Link, ReadInv
    <3> QED
      BY <1>4, <3>2
  <2>3. PICK at \in Nat : at = b[Len(read[e])]
    BY <2>2
  <2>4. n \in 0 .. Len(c)
    BY <1>3, LenProperties
  <2>5. \A i \in 1 .. n : x[i] = c[i].value
    BY <1>4, <1>5
  <2>6. There(s, at, g, c)
    BY <2>1, <2>3
  <2>7. s \in Seq(Int)
    BY <1>4
  <2>8. g \in Seq(Int)
    BY <1>3
  <2>9. c \in Seq(WireByte)
    BY <1>3
  <2>10. x \in Seq(Int)
    BY <1>5
  <2>11. Len(x) = n
    BY <1>5
  <2>12. at \in Nat
    BY <2>3
  <2>13. /\ SubSeq(c, n + 1, Len(c)) \in Seq(WireByte)
         /\ Len(SubSeq(c, n + 1, Len(c))) = Len(c) - n
         /\ \A i \in 1 .. Len(c) - n : SubSeq(c, n + 1, Len(c))[i] = c[n + i]
         /\ There(s, at, g \o x, SubSeq(c, n + 1, Len(c)))
    <3>1. Taking(s, at, g, c, n, x)
      BY <2>4, <2>5, <2>6, <2>7, <2>8, <2>9, <2>10, <2>11, <2>12 DEF Taking
    <3>2. Taken(s, at, g, c, n, x)
      BY Zenon, <3>1, ThereMoves
    <3> QED
      BY <3>2 DEF Taken
  <2> QED
    BY <1>6, <2>3, <2>13
<1>12. conn'[e] = y
  BY <1>2, <1>3, <1>9, <1>11
<1>13. DecInv(e)'
  <2>1. /\ dec[e].half = Half(e # hub)
        /\ Masked(c, scenario.keyed, dec[e].half, Place(dec[e]))
        /\ ~broken /\ scenario.keyed =>
              Place(enc[Peer(e)]) = (Place(dec[e]) + Len(c)) % Bytes
    BY <1>2, <1>3 DEF Link, DecInv
  <2>2. Good(dec[e])
    BY <1>2 DEF CipherShape
  <2>3. PICK a \in Nat : a = Place(dec[e])
    BY <2>2, NextBlock
  <2>4. PICK h : h = dec[e].half
    OBVIOUS
  <2>5. PICK keyed \in BOOLEAN : keyed = scenario.keyed
    BY <1>2, ScenarioFacts DEF Shape
  <2>6. /\ Masked(y, keyed, h, (a + n) % Bytes)
        /\ (((a + n) % Bytes) + Len(y)) % Bytes = (a + Len(c)) % Bytes
    <3>1. Masked(c, keyed, h, a)
      BY Zenon, <2>1, <2>3, <2>4, <2>5
    <3>2. c \in Seq(WireByte)
      BY <1>3
    <3>3. keyed \in BOOLEAN
      BY <2>5
    <3>4. a \in Nat
      BY <2>3
    <3>5. n <= Len(c)
      BY <1>3
    <3>6. Len(y) = Len(c) - n
      BY <1>11
    <3>7. \A i \in 1 .. Len(c) - n : y[i] = c[n + i]
      BY <1>11
    <3> QED
      <4>1. MaskMoves(c, keyed, h, a, n, y)
        BY <3>1, <3>2, <3>5, <3>6, <3>7, <3>3, <3>4 DEF MaskMoves
      <4>2. MaskMoved(c, keyed, h, a, n, y)
        BY Zenon, <4>1, MasksTaken
      <4> QED
        BY <4>2 DEF MaskMoved
  <2>7. CASE keyed
    <3>1. dec'[e] = After(dec[e], n)
      BY <1>2, <1>9, <2>5, <2>7
    <3>2. dec'[e].half = h /\ Place(dec'[e]) = (a + n) % Bytes
      BY ZenonT(30), <2>2, <2>3, <2>4, <3>1, AfterFollows
    <3>3. dec'[e].half = Half(e # hub)
      BY <2>1, <2>3, <2>4, <3>2
    <3>4. Masked(conn'[e], scenario'.keyed, dec'[e].half, Place(dec'[e]))
      <4>1. scenario'.keyed = keyed
        BY <1>9, <2>5
      <4> QED
        BY Zenon, <1>12, <2>6, <3>2, <4>1
    <3>5. ~broken' => Place(enc'[Peer(e)]) = (Place(dec'[e]) + Len(conn'[e])) % Bytes
      <4>1. enc' = enc /\ (broken' = broken)
        BY <1>9, <1>10
      <4> QED
        BY <1>12, <2>1, <2>3, <2>4, <2>5, <2>6, <2>7, <3>2, <4>1
    <3> QED
      BY <3>3, <3>4, <3>5 DEF DecInv
  <2>8. CASE ~keyed
    <3>1. dec' = dec /\ scenario' = scenario
      BY <1>9, <2>5, <2>8
    <3>2. Masked(y, keyed, h, a)
      BY <2>6, <2>8 DEF Masked
    <3>3. Masked(conn'[e], scenario'.keyed, dec'[e].half, Place(dec'[e]))
      BY Zenon, <1>12, <2>3, <2>4, <2>5, <3>1, <3>2
    <3>4. ~scenario'.keyed /\ dec'[e].half = Half(e # hub)
      BY <2>1, <2>5, <2>8, <3>1
    <3> QED
      BY <3>3, <3>4 DEF DecInv
  <2> QED
    BY <2>7, <2>8
<1>14. CASE Len(bytes) < Needed(bytes)
  <2>1. got'[e] = bytes /\ read' = read
    BY <1>2, <1>9, <1>14
  <2>2. ReadInv(e)'
    BY <1>9, <1>10, <2>1 DEF Link, ReadInv
  <2>3. OnLine(e, s, b)'
    BY <1>4, <1>9, <1>10, <1>11, <1>12, <2>1 DEF OnLine
  <2>4. LineInv(e)'
    BY <1>3, <1>4, <1>9, <2>3 DEF LineInv
  <2> QED
    BY <1>10, <1>13, <2>2, <2>4 DEF Link
<1>15. CASE ~(Len(bytes) < Needed(bytes))
  <2>1. Len(bytes) = Len(Raw(f))
    <3>1. PICK k \in Nat, l \in Nat : k = Len(bytes) /\ l = Needed(bytes)
      <4>1. Len(bytes) < HeaderSize + TwoBytes
        BY <1>2, <1>3, <1>5, <1>6, BufferFits
      <4> QED
        BY <1>6, <4>1, NeededFits, LenProperties
    <3>2. Len(bytes) >= Needed(bytes)
      BY <1>15, <3>1
    <3> QED
      BY <1>8, <1>9, <3>2
  <2>2. Begins(bytes, f) /\ Len(read[e]) < Len(w) /\ w[Len(read[e]) + 1] = f
    BY <1>4, <1>5, <1>6, <2>1
  <2>3. Frame(bytes[2], TwoAt(bytes, 5), SubSeq(bytes, HeaderSize + 1, Len(bytes))) = f
    BY <1>1, <1>4, <1>6, <2>1, <2>2, FrameRead
  <2>4. got'[e] = <<>> /\ read'[e] = Append(read[e], f)
    BY <1>2, <1>9, <1>15, <2>3
  <2>5. PICK r \in Nat, m \in Nat : r = Len(read[e]) /\ m = Len(w) /\ r < m
    <3>1. Len(read[e]) \in Nat /\ Len(w) \in Nat
      BY <1>2, <1>3, LenProperties
    <3> QED
      BY <2>2, <3>1
  <2>6. Len(read'[e]) = r + 1 /\ (\A k \in 1 .. r : read'[e][k] = read[e][k]) /\ read'[e][r + 1] = f
    <3>1. read[e] \in Seq(Frames) /\ f \in Frames
      BY <1>2, <1>4 DEF Sendable
    <3> QED
      BY <2>4, <2>5, <3>1, AppendProperties
  <2>7. ReadInv(e)'
    <3>1. written'[Peer(e)] = w
      BY <1>3, <1>9
    <3>2. \A k \in 1 .. r : read[e][k] = w[k]
      BY <1>3, <2>5 DEF Link, ReadInv
    <3>3. ASSUME NEW k \in 1 .. r + 1 PROVE read'[e][k] = w[k]
      <4>1. CASE k = r + 1
        BY <2>2, <2>5, <2>6, <4>1
      <4>2. CASE k # r + 1
        <5>1. k \in 1 .. r
          <6>1. r \in Nat
            BY <2>5
          <6> QED
            BY <4>2, <6>1
        <5> QED
          BY <2>6, <3>2, <5>1
      <4> QED
        BY <4>1, <4>2
    <3>4. Len(read'[e]) <= Len(w)
      BY <2>5, <2>6
    <3>5. reader'[e] = "reading"
      BY <1>2, <1>10
    <3> QED
      BY <2>6, <3>1, <3>3, <3>4, <3>5 DEF ReadInv
  <2>8. There(s, b[r + 1], <<>>, y)
    <3>1. PICK at \in Nat : at = b[r]
      <4>1. r \in 0 .. Len(w)
        BY <2>5
      <4> QED
        BY <1>4, <4>1
    <3>2. There(s, at + Len(bytes), <<>>, y)
      <4>1. There(s, at, bytes, y)
        BY <1>11, <2>5, <3>1
      <4> QED
        BY <1>4, <1>6, <1>11, <3>1, <4>1, ThereEmptied
    <3>3. b[r + 1] = at + Len(bytes)
      <4>1. PICK k \in 1 .. Len(w) : k = r + 1 /\ k - 1 = r
        <5>1. r + 1 \in 1 .. Len(w) /\ r + 1 - 1 = r
          BY <2>5
        <5> QED
          BY <5>1
      <4>2. b[k] = b[k - 1] + Len(Raw(w[k]))
        BY <1>3, <1>4 DEF OnLine, Laid
      <4> QED
        BY <2>1, <2>2, <2>5, <3>1, <4>1, <4>2
    <3> QED
      BY <3>2, <3>3
  <2>9. OnLine(e, s, b)'
    <3>1. /\ Laid(s, b, w) /\ Torn(s, b[Len(w)], FrameSize(scenario.setting))
          /\ ~broken => b[Len(w)] = Len(s)
      BY <1>3, <1>4 DEF OnLine
    <3>2. written'[Peer(e)] = w /\ scenario' = scenario /\ (broken' = broken)
      BY <1>3, <1>9, <1>10
    <3>3. There(s, b[Len(read'[e])], got'[e], conn'[e])
      BY <1>12, <2>4, <2>6, <2>8
    <3> QED
      BY <3>1, <3>2, <3>3 DEF OnLine
  <2>10. LineInv(e)'
    BY <1>3, <1>4, <1>9, <2>9 DEF LineInv
  <2> QED
    BY <1>10, <1>13, <2>7, <2>10 DEF Link
<1> QED
  BY <1>14, <1>15

\* At the start nothing was written.
LEMMA LinkInit ==
    ASSUME Init
    PROVE  \A p \in Ends : Link(p)
<1>1. /\ scenario \in Scenarios /\ scenario.x8 \in Word /\ scenario.nonce \in Word
      /\ scenario.keyed \in BOOLEAN
  BY ScenarioFacts DEF Init
<1>2. TAKE p \in Ends
<1>3. /\ conn[p] = <<>> /\ got[p] = <<>> /\ read[p] = <<>> /\ reader[p] = "reading"
      /\ written[Peer(p)] = <<>> /\ Len(<<>>) = 0
  BY WireFacts DEF Init
<1>4. DecInv(p)
  <2>1. PICK a, b : a = Half(p # hub) /\ b = Half(Peer(p) = hub)
    OBVIOUS
  <2>2. a \in {"low", "high"} /\ b \in {"low", "high"}
    <3>1. \A k \in BOOLEAN : Half(k) \in {"low", "high"}
      BY DEF Half
    <3> QED
      BY <2>1, <3>1
  <2>3. /\ dec[p] = NewCipher(a, scenario.x8, scenario.nonce)
        /\ enc[Peer(p)] = NewCipher(b, scenario.x8, scenario.nonce)
    BY <2>1, WireFacts DEF Init
  <2>4. /\ dec[p].half = a
        /\ Place(dec[p]) \in 0 .. Bytes - 1 /\ Place(enc[Peer(p)]) = Place(dec[p])
    BY <1>1, <2>2, <2>3, NewCipherFits, SizesFact
  <2>5. PICK at \in 0 .. Bytes - 1 : at = Place(dec[p]) /\ at = Place(enc[Peer(p)])
    BY <2>4
  <2>6. (at + 0) % Bytes = at
    BY SizesFact, ModSmall
  <2>7. Masked(conn[p], scenario.keyed, dec[p].half, Place(dec[p]))
    <3>1. \A i \in 1 .. Len(conn[p]) : FALSE
      BY <1>3
    <3> QED
      BY Zenon, <3>1 DEF Masked
  <2>8. Place(enc[Peer(p)]) = (Place(dec[p]) + Len(conn[p])) % Bytes
    BY <1>3, <2>5, <2>6
  <2>9. dec[p].half = Half(p # hub)
    BY Zenon, <2>1, <2>4
  <2> QED
    BY Zenon, <2>7, <2>8, <2>9 DEF DecInv
<1>5. ReadInv(p)
  BY <1>3 DEF ReadInv
<1>6. LineInv(p)
  <2>1. PICK b \in [0 .. 0 -> Nat] : b[0] = 0
    <3>1. [k \in 0 .. 0 |-> 0] \in [0 .. 0 -> Nat] /\ [k \in 0 .. 0 |-> 0][0] = 0
      OBVIOUS
    <3> QED
      BY <3>1
  <2>2. PICK s \in Seq(Int) : s = <<>>
    BY EmptySeq
  <2>3. Laid(s, b, <<>>)
    BY <1>3, <2>1, <2>2 DEF Laid
  <2>4. Torn(s, b[0], FrameSize(scenario.setting))
    BY <1>3, <2>1, <2>2 DEF Torn
  <2>5. There(s, b[0], <<>>, <<>>)
    BY <1>3, <2>1, <2>2 DEF There
  <2>6. OnLine(p, s, b)
    BY <1>3, <2>1, <2>2, <2>3, <2>4, <2>5 DEF OnLine
  <2>7. b \in [0 .. Len(written[Peer(p)]) -> Nat]
    BY <1>3
  <2> QED
    BY <2>6, <2>7 DEF LineInv
<1> QED
  BY <1>4, <1>5, <1>6 DEF Link

\* A frame whose length is too large for readFrame ends the process.
LEMMA LinkPanics ==
    ASSUME WireTyped, NEW e \in Ends, Link(e), NEW n \in Nat, n > 0, n <= Len(conn[e]),
           Len(got[e]) + n <= Needed(got[e]), ReadPanics(e, n)
    PROVE  Link(e)'
<1>1. PICK size \in 1 .. TwoBytes - 1 :
         /\ size = FrameSize(scenario.setting)
         /\ size >= TwoBytes - HeaderSize => scenario.setting \in TwoBytes - HeaderSize .. TwoBytes - 1
  <2>1. scenario \in Scenarios
    BY DEF WireTyped, Shape
  <2> QED
    BY <2>1, ScenarioFacts, FrameSizeFits
<1>2. /\ CipherShape /\ Shape /\ reader[e] = "reading"
      /\ reader \in [Ends -> {"reading", "refused", "failed", "panicked", "crashed"}]
      /\ got[e] \in Seq(Int)
  BY DEF WireTyped, Shape, ReadPanics
<1>3. /\ reader'[e] = "crashed" /\ Overflows(got[e] \o Decrypted(e, n))
      /\ dec' = dec /\ written' = written /\ read' = read /\ scenario' = scenario
  BY <1>2 DEF ReadPanics, cipherVars
<1>4. PICK f \in Sendable(size) : Begins(got[e] \o Decrypted(e, n), f)
  BY <1>1, <1>2, LinkReads
<1>5. PICK g \in Seq(Int), x \in Seq(Int) : g = got[e] /\ x = Decrypted(e, n) /\ Len(x) = n
  BY <1>2, DecryptedFits
<1>6. PICK bytes \in Seq(Int) : bytes = g \o x
  BY Joined
<1>7. /\ Len(g) <= Len(bytes) /\ Len(bytes) <= Needed(g)
      /\ \A i \in 1 .. Len(g) : bytes[i] = g[i]
  <2>1. /\ Len(bytes) = Len(g) + Len(x)
        /\ \A i \in 1 .. Len(g) + Len(x) : bytes[i] = IF i <= Len(g) THEN g[i] ELSE x[i - Len(g)]
    BY <1>6, ConcatProperties
  <2>2. PICK lg \in Nat : lg = Len(g)
    BY LenProperties
  <2>3. \A i \in 1 .. lg : i \in 1 .. lg + n /\ i <= lg
    OBVIOUS
  <2>4. lg <= lg + n
    BY <2>2
  <2> QED
    BY <1>5, <2>1, <2>2, <2>3, <2>4
<1>8. size >= TwoBytes - HeaderSize
  <2>1. Begins(bytes, f)
    BY <1>4, <1>5, <1>6
  <2>2. Overflows(bytes)
    BY <1>3, <1>5, <1>6
  <2>3. Len(g) <= Len(bytes)
    BY <1>7
  <2>4. Len(bytes) <= Needed(g)
    BY <1>7
  <2>5. \A i \in 1 .. Len(g) : bytes[i] = g[i]
    BY <1>7
  <2> QED
    BY <2>1, <2>2, <2>3, <2>4, <2>5, PieceRead
<1>9. ReadInv(e)'
  BY <1>1, <1>3, <1>8 DEF Link, ReadInv
<1>10. DecInv(e)' /\ LineInv(e)'
  BY <1>3 DEF Link, DecInv, LineInv
<1> QED
  BY <1>9, <1>10 DEF Link

\* Nothing more goes onto a connection that is gone.
LEMMA LinkWrites ==
    ASSUME WireTyped, \A p \in Ends : Link(p), NEW e \in Ends, WriteFrame(e)
    PROVE  \A p \in Ends : Link(p)'
<1>1. PICK o \in Ends : o = Peer(e) /\ Peer(o) = e /\ o # e
  BY WireFacts
<1>2. /\ CipherShape /\ Shape /\ scenario \in Scenarios /\ \A x \in Ends : EncInv(x)
      /\ conn \in [Ends -> Seq(WireByte)] /\ enc \in [Ends -> Ciphers]
      /\ reader \in [Ends -> {"reading", "refused", "failed", "panicked", "crashed"}]
      /\ written \in [Ends -> Seq(Sendable(FrameSize(scenario.setting)))]
  BY DEF WireTyped, Shape, CipherShape
<1>3. CASE TransmitPanics(e)
  <2>1. /\ scenario' = scenario /\ read' = read /\ written' = written /\ dec' = dec /\ enc' = enc
        /\ conn' = conn /\ got' = got /\ broken' = TRUE
        /\ reader' = [reader EXCEPT ![e] = "panicked"]
    BY <1>3 DEF TransmitPanics, cipherVars
  <2>2. ASSUME NEW p \in Ends PROVE Link(p)'
    <3>1. reader'[p] \in {reader[p], "failed", "panicked"}
      BY <1>2, <2>1
    <3> QED
      BY <2>1, <3>1, LinkSame
  <2> QED
    BY <2>2
<1>4. CASE Transmit(e) \/ TransmitFails(e)
  <2>1. todo[e] # <<>>
    BY <1>4 DEF Transmit, TransmitFails
  <2>2. PICK f : f = todo[e][1] /\ Raw(f) \in Seq(Int) /\ Len(Raw(f)) \in Nat
    <3>1. FrameSize(scenario.setting) \in 1 .. TwoBytes - 1
      BY <1>2, ScenarioFacts, FrameSizeFits
    <3> QED
      BY <1>2, <2>1, <3>1, FirstFits
  <2>3. PICK len \in Nat : len = Len(Raw(f))
    BY <2>2
  <2>4. /\ CipherMoves(e, len) /\ scenario' = scenario
        /\ got' = got /\ reader' = reader /\ read' = read
    BY <1>4, <2>2, <2>3 DEF Transmit, TransmitFails
  <2>5. dec' = dec /\ enc' \in {enc, [enc EXCEPT ![e] = After(@, len)]}
    BY <1>2, <2>4, CipherMoved
  <2>6. Link(e)'
    <3>1. conn'[e] = conn[e]
      BY <1>1, <1>2, <1>4 DEF Transmit, TransmitFails
    <3>2. written'[Peer(e)] = written[Peer(e)]
      BY <1>1, <1>2, <1>4 DEF Transmit, TransmitFails
    <3>3. enc'[Peer(e)] = enc[Peer(e)]
      BY <1>1, <1>2, <2>5
    <3>4. ~broken' => ~broken
      BY <1>4 DEF Transmit, TransmitFails
    <3> QED
      BY <2>4, <2>5, <3>1, <3>2, <3>3, <3>4, LinkSame
  <2>7. CASE Transmit(e) \/ ~broken
    <3>1. Link(Peer(e))'
      BY <1>1, <1>4, <2>7, LinkGrows
    <3>2. ASSUME NEW p \in Ends PROVE p = e \/ p = Peer(e)
      BY <1>1, WireFacts
    <3> QED
      BY Zenon, <2>6, <3>1, <3>2
  <2>8. CASE TransmitFails(e) /\ broken
    <3>1. PICK x : x = Encrypted(e, Raw(f)) /\ conn' = [conn EXCEPT ![o] = @ \o SubSeq(x, 1, 0)]
      BY <1>1, <2>2, <2>8 DEF TransmitFails
    <3>2. conn'[o] = conn[o]
      <4>1. PICK c \in Seq(WireByte) : c = conn[o]
        BY <1>2
      <4>2. SubSeq(x, 1, 0) = <<>>
        BY SubSeqEmpty
      <4>3. c \o <<>> = c
        BY ConcatEmptySeq
      <4>4. conn'[o] = conn[o] \o SubSeq(x, 1, 0)
        BY <1>2, <3>1
      <4> QED
        BY <4>1, <4>2, <4>3, <4>4
    <3>3. written' = written /\ broken' = TRUE
      BY <2>8 DEF TransmitFails
    <3>4. Link(o)'
      BY <2>4, <2>5, <3>2, <3>3, LinkSame
    <3>5. ASSUME NEW p \in Ends PROVE p = e \/ p = o
      BY <1>1, WireFacts
    <3> QED
      BY Zenon, <2>6, <3>4, <3>5
  <2> QED
    BY <1>4, <2>7, <2>8
<1> QED
  BY <1>3, <1>4 DEF WriteFrame

\* A piece that is read, or cannot be, leaves the other direction alone.
LEMMA LinkTakes ==
    ASSUME WireTyped, \A p \in Ends : Link(p), NEW e \in Ends, ReadFrame(e) \/ ReadFails(e)
    PROVE  \A p \in Ends : Link(p)'
<1>1. PICK o \in Ends : o = Peer(e) /\ Peer(o) = e /\ o # e
  BY WireFacts
<1>2. /\ CipherShape /\ Shape
      /\ conn \in [Ends -> Seq(WireByte)] /\ dec \in [Ends -> Ciphers]
      /\ got \in [Ends -> Seq(Int)] /\ read \in [Ends -> Seq(Frames)]
      /\ reader \in [Ends -> {"reading", "refused", "failed", "panicked", "crashed"}]
  BY DEF WireTyped, Shape, CipherShape
<1>3. CASE ReadFails(e)
  <2>1. /\ scenario' = scenario /\ read' = read /\ written' = written /\ dec' = dec /\ enc' = enc
        /\ got' = got /\ broken' = broken
        /\ conn' = [conn EXCEPT ![e] = <<>>] /\ reader' = [reader EXCEPT ![e] = "failed"]
    BY <1>3 DEF ReadFails, cipherVars
  <2>2. ASSUME NEW p \in Ends PROVE Link(p)'
    <3>1. CASE p = e
      <4>1. reader'[p] = "failed"
        BY <1>2, <2>1, <3>1
      <4> QED
        BY <2>1, <4>1, LinkSame
    <3>2. CASE p # e
      <4>1. reader'[p] = reader[p] /\ conn'[p] = conn[p]
        BY <1>2, <2>1, <3>2
      <4> QED
        BY <2>1, <4>1, LinkSame
    <3> QED
      BY <3>1, <3>2
  <2> QED
    BY <2>2
<1>4. CASE ReadFrame(e)
  <2> DEFINE m(k) == Least(k, Least(Len(conn[e]), Needed(got[e]) - Len(got[e])))
  <2>1. PICK k \in scenario.pieces : m(k) > 0 /\ (ReadPiece(e, m(k)) \/ ReadPanics(e, m(k)))
    BY <1>4 DEF ReadFrame
  <2>2. m(k) \in Nat /\ m(k) <= Len(conn[e]) /\ Len(got[e]) + m(k) <= Needed(got[e])
    BY <1>2, <2>1, PieceFits
  <2>3. PICK n \in Nat :
           /\ n > 0 /\ n <= Len(conn[e]) /\ Len(got[e]) + n <= Needed(got[e])
           /\ ReadPiece(e, n) \/ ReadPanics(e, n)
    BY <2>1, <2>2
  <2> HIDE DEF m
  <2>4. Link(e)'
    BY <2>3, LinkPiece, LinkPanics
  <2>5. scenario' = scenario /\ written' = written /\ enc' = enc
    BY <2>3 DEF ReadPiece, ReadPanics, cipherVars
  <2>6. dec'[o] = dec[o] /\ conn'[o] = conn[o] /\ reader'[o] = reader[o]
    BY <1>1, <1>2, <2>3 DEF ReadPiece, ReadPanics, cipherVars
  <2>7. got'[o] = got[o] /\ read'[o] = read[o]
    BY <1>1, <1>2, <2>3 DEF ReadPiece, ReadPanics
  <2>8. ~broken' => ~broken
    BY <2>3 DEF ReadPiece, ReadPanics
  <2>9. Link(o)'
    BY <2>5, <2>6, <2>7, <2>8, LinkSame
  <2>10. ASSUME NEW p \in Ends PROVE p = e \/ p = o
    BY <1>1, WireFacts
  <2> QED
    BY Zenon, <2>4, <2>9, <2>10
<1> QED
  BY <1>3, <1>4

\* Whatever happens, the bytes on their way are those of the frames that were written.
LEMMA LinkNext == WireTyped /\ (\A p \in Ends : Link(p)) /\ [Next]_vars => \A p \in Ends : Link(p)'
<1> SUFFICES ASSUME WireTyped, \A p \in Ends : Link(p), [Next]_vars
             PROVE  \A p \in Ends : Link(p)'
  OBVIOUS
<1>1. CASE UNCHANGED vars \/ \E e \in Ends : Call(e)
  <2>1. UNCHANGED <<scenario, enc, dec, conn, broken, got, reader, written, read>>
    <3>1. CASE UNCHANGED vars
      BY <3>1 DEF vars
    <3>2. ASSUME NEW e \in Ends, Call(e)
          PROVE  UNCHANGED <<scenario, enc, dec, conn, broken, got, reader, written, read>>
      BY <3>2, CallsFit DEF WireTyped, cipherVars
    <3> QED
      BY <1>1, <3>1, <3>2
  <2>2. ASSUME NEW p \in Ends PROVE Link(p)'
    BY <2>1, LinkSame
  <2> QED
    BY <2>2
<1>2. ASSUME NEW e \in Ends, WriteFrame(e) PROVE \A p \in Ends : Link(p)'
  BY <1>2, LinkWrites
<1>3. ASSUME NEW e \in Ends, ReadFrame(e) \/ ReadFails(e) PROVE \A p \in Ends : Link(p)'
  BY <1>3, LinkTakes
<1> QED
  BY <1>1, <1>2, <1>3 DEF Next

\* Two sequences agree in their first n frames.
Agree(s, t, n) == \A i \in 1 .. n : s[i] \in Frames /\ t[i] \in Frames /\ s[i] = t[i]

\* So they have the same prefix.
LEMMA SamePrefix ==
    ASSUME NEW s, NEW t, NEW n \in Nat, Agree(s, t, n)
    PROVE  SubSeq(s, 1, n) = SubSeq(t, 1, n)
<1>1. PICK x, y : x = SubSeq(s, 1, n) /\ y = SubSeq(t, 1, n)
  OBVIOUS
<1>2. \A i \in 1 .. n : s[i] \in Frames
  BY DEF Agree
<1>3. \A i \in 1 .. n : t[i] \in Frames
  BY DEF Agree
<1>4. /\ x \in Seq(Frames) /\ Len(x) = IF 1 <= n THEN n - 1 + 1 ELSE 0
      /\ \A i \in 1 .. n - 1 + 1 : x[i] = s[1 + i - 1]
  BY <1>1, <1>2, SubSeqProperties
<1>5. /\ y \in Seq(Frames) /\ Len(y) = IF 1 <= n THEN n - 1 + 1 ELSE 0
      /\ \A i \in 1 .. n - 1 + 1 : y[i] = t[1 + i - 1]
  BY <1>1, <1>3, SubSeqProperties
<1>6. Len(x) = n /\ Len(y) = n /\ \A i \in 1 .. n : x[i] = s[i] /\ y[i] = t[i]
  BY <1>4, <1>5
<1>7. \A i \in 1 .. n : x[i] = y[i]
  BY <1>6 DEF Agree
<1>8. x = y
  BY <1>4, <1>5, <1>6, <1>7, SeqEqual
<1> QED
  BY <1>1, <1>8

\* The frames that are read are the first of those that were written, for a connection
\* that delivers in pieces of any size and breaks off anywhere, with a key or without,
\* for every frame size, id and length.
THEOREM FramesAlwaysIntact == Spec => []FramesIntact
<1>1. WireTyped /\ (\A p \in Ends : Link(p)) => FramesIntact
  <2> SUFFICES ASSUME WireTyped, \A p \in Ends : Link(p) PROVE FramesIntact
    OBVIOUS
  <2>1. ASSUME NEW e \in Ends PROVE IsPrefix(read[e], written[Peer(e)])
    <3>1. /\ Len(read[e]) <= Len(written[Peer(e)])
          /\ \A k \in 1 .. Len(read[e]) : read[e][k] = written[Peer(e)][k]
      BY DEF Link, ReadInv
    <3>2. PICK r \in Nat : r = Len(read[e])
      <4>1. read[e] \in Seq(Frames)
        BY DEF WireTyped, Shape
      <4> QED
        BY <4>1, LenProperties
    <3>3. SubSeq(read[e], 1, r) = SubSeq(written[Peer(e)], 1, r)
      <4>1. PICK a, w : a = read[e] /\ w = written[Peer(e)] /\ a \in Seq(Frames)
        BY DEF WireTyped, Shape
      <4>2. Agree(a, w, r)
        BY <3>1, <3>2, <4>1, ElementOfSeq DEF Agree
      <4>3. SubSeq(a, 1, r) = SubSeq(w, 1, r)
        BY <3>2, <4>2, SamePrefix
      <4> QED
        BY <4>1, <4>3
    <3> QED
      BY <3>1, <3>2, <3>3 DEF IsPrefix
  <2>2. ASSUME NEW e \in Ends
        PROVE  /\ reader[e] # "refused"
               /\ reader[e] = "crashed" => scenario.setting \in TwoBytes - HeaderSize .. TwoBytes - 1
    BY DEF Link, ReadInv
  <2> QED
    BY <2>1, <2>2 DEF FramesIntact
<1>2. Init => WireTyped /\ \A p \in Ends : Link(p)
  BY TypedInit, LinkInit
<1>3. WireTyped /\ (\A p \in Ends : Link(p)) /\ [Next]_vars => (WireTyped /\ \A p \in Ends : Link(p))'
  BY TypedNext, LinkNext
<1> QED
  BY <1>1, <1>2, <1>3, PTL DEF Spec

==============================================================================
