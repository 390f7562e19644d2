--------------------------------- MODULE Wire ---------------------------------
(***************************************************************************)
(* From a frame to the bytes of the connection and back: the configuration *)
(* of the frame size, stream ids, split, the header, Coder.Write, the      *)
(* connection, Coder.Read and readFrame                                    *)
(* (src/lib/smux/frame.go, session.go, stream.go,                          *)
(*  src/lib/streamcoder/streamcoder.go).                                   *)
(*                                                                         *)
(* A byte of the connection carries a value and the set of the key-stream  *)
(* bytes that were XORed into it: XOR with the same byte takes it out.     *)
(* Header fields have one byte, or two in place of two and four, of Base   *)
(* values; bytes of data are numbered.  The calls of one end follow each   *)
(* other (the order of frames inside sendLoop is the subject of SendLoop). *)
(***************************************************************************)
EXTENDS Cipher, FiniteSets, SequencesExt

CONSTANTS
    hub, client,    \* the two ends
    Base,           \* values of a byte of a header (256)
    DefaultFrame,   \* the frame size for a setting that is not valid (1400)
    WriteSizes,     \* bound: the lengths of the slices given to Write
    Scenarios       \* bound: see Scenario

Ends == {hub, client}
Peer(e) == IF e = hub THEN client ELSE hub

Version == 1
SYN == 0
FIN == 1
PSH == 2
HeaderSize == 6

TwoBytes == Base * Base         \* the values of a length and of an id

ASSUME WireAssumption ==
    /\ Base \in Nat /\ Base > PSH
    /\ DefaultFrame \in 1 .. TwoBytes - HeaderSize - 1
    /\ WriteSizes \subseteq Nat \ {0}
    /\ hub # client

\* Whether the ends have a key, word x[8] of it and the first word of the
\* nonces, the setting of the frame size, the id each end used last, how many
\* calls its users make, and the pieces in which the connection delivers.
Scenario(s) ==
    /\ s.keyed \in BOOLEAN
    /\ s.x8 \in Word /\ s.nonce \in Word
    /\ s.setting \in Int
    /\ s.last \in [Ends -> 0 .. TwoBytes - 1]
    /\ s.last[client] % 2 = 0 /\ s.last[hub] % 2 = 1
    /\ s.calls \in [Ends -> Nat]
    /\ s.pieces \subseteq Nat \ {0}

ASSUME ScenariosTyped == \A s \in Scenarios : Scenario(s)

VARIABLES
    scenario,       \* what does not change in a behaviour
    enc,            \* Coder.enc of each end
    dec,            \* Coder.dec of each end
    conn,           \* conn[e]: the bytes on their way to e
    broken,         \* whether the connection is gone
    nextStreamID,   \* Session.nextStreamID of each end
    goAway,         \* Session.goAway of each end
    todo,           \* the frames that the call in progress has yet to write
    calls,          \* how many calls were made
    got,            \* the part of a frame that readFrame has in its buffer
    reader,         \* what recvLoop does
    ids,            \* history: the ids OpenStream returned
    data,           \* history: how many bytes of data were given to Write
    written,        \* history: the frames the connection took, whole
    read,           \* history: the frames readFrame returned
    spent           \* history: key-stream bytes used, in order

cipherVars == <<enc, dec, spent>>
idVars     == <<nextStreamID, goAway, ids>>
vars == <<scenario, enc, dec, conn, broken, nextStreamID, goAway, todo, calls,
          got, reader, ids, data, written, read, spent>>

Frame(cmd, sid, bytes) == [cmd |-> cmd, sid |-> sid, data |-> bytes]

-----------------------------------------------------------------------------
(* Setting up *)

\* Mutant: the largest valid size is one too many.
FrameSizeOneMore(setting) ==
    IF setting <= 0 \/ setting > TwoBytes THEN DefaultFrame ELSE setting

\* main puts a valid size in place of one that is not.
FrameSize(setting) ==
    IF setting <= 0 \/ setting > TwoBytes - 1 THEN DefaultFrame ELSE setting

\* The half of the key, and of the nonce, that an end writes with.  The hub,
\* which makes its session with smux.Client, is the client of the coder too.
Half(isClient) == IF isClient THEN "low" ELSE "high"

Init ==
    /\ scenario \in Scenarios
    /\ enc = [e \in Ends |-> NewCipher(Half(e = hub), scenario.x8, scenario.nonce)]
    /\ dec = [e \in Ends |-> NewCipher(Half(e # hub), scenario.x8, scenario.nonce)]
    /\ conn = [e \in Ends |-> <<>>]
    /\ broken = FALSE
    /\ nextStreamID = scenario.last
    /\ goAway = [e \in Ends |-> FALSE]
    /\ todo = [e \in Ends |-> <<>>]
    /\ calls = [e \in Ends |-> 0]
    /\ got = [e \in Ends |-> <<>>]
    /\ reader = [e \in Ends |-> "reading"]
    /\ ids = [e \in Ends |-> <<>>]
    /\ data = [e \in Ends |-> 0]
    /\ written = [e \in Ends |-> <<>>]
    /\ read = [e \in Ends |-> <<>>]
    /\ spent = [e \in Ends |-> <<>>]

-----------------------------------------------------------------------------
(* The calls *)

\* Bound: users make no call once the connection is gone; it could not take a
\* byte of it.
Calling(e) ==
    /\ ~broken
    /\ todo[e] = <<>>
    /\ calls[e] < scenario.calls[e]
    /\ reader[e] = "reading"
    /\ calls' = [calls EXCEPT ![e] = @ + 1]

\* Mutant: an id that wrapped fails, and the next one is given out again.
OpenStreamAgain(e) ==
    LET sid == (nextStreamID[e] + 2) % TwoBytes
    IN  /\ Calling(e)
        /\ nextStreamID' = [nextStreamID EXCEPT ![e] = sid]
        /\ IF sid = sid % 2
             THEN UNCHANGED <<ids, todo, goAway>>
             ELSE /\ ids' = [ids EXCEPT ![e] = Append(@, sid)]
                  /\ todo' = [todo EXCEPT ![e] = <<Frame(SYN, sid, <<>>)>>]
                  /\ UNCHANGED goAway
        /\ UNCHANGED <<scenario, cipherVars, conn, broken, got, reader, data,
                       written, read>>

\* OpenStream takes the next id of its parity; once the ids have wrapped it
\* fails for good.
OpenStream(e) ==
    LET sid == (nextStreamID[e] + 2) % TwoBytes
    IN  /\ Calling(e)
        /\ IF goAway[e]
             THEN UNCHANGED <<idVars, todo>>
             ELSE /\ nextStreamID' = [nextStreamID EXCEPT ![e] = sid]
                  /\ IF sid = sid % 2
                       THEN /\ goAway' = [goAway EXCEPT ![e] = TRUE]
                            /\ UNCHANGED <<ids, todo>>
                       ELSE /\ ids' = [ids EXCEPT ![e] = Append(@, sid)]
                            /\ todo' = [todo EXCEPT ![e] = <<Frame(SYN, sid, <<>>)>>]
                            /\ UNCHANGED goAway
        /\ UNCHANGED <<scenario, cipherVars, conn, broken, got, reader, data,
                       written, read>>

\* The streams an end can write on: those it opened or saw a SYN for.
Streams(e) ==
    Range(ids[e]) \cup {f.sid : f \in {g \in Range(read[e]) : g.cmd = SYN}}

\* split: full frames, and a last one that is not empty.
Split(bytes, size, sid) ==
    [k \in 1 .. (Len(bytes) + size - 1) \div size |->
        Frame(PSH, sid,
              SubSeq(bytes, (k - 1) * size + 1, Least(k * size, Len(bytes))))]

Write(e, len) ==
    /\ Calling(e)
    /\ \E sid \in Streams(e) :
         todo' = [todo EXCEPT ![e] =
            Split([i \in 1 .. len |-> data[e] + i], FrameSize(scenario.setting), sid)]
    /\ data' = [data EXCEPT ![e] = @ + len]
    /\ UNCHANGED <<scenario, cipherVars, conn, broken, idVars, got, reader,
                   written, read>>

CloseStream(e) ==
    /\ Calling(e)
    /\ \E sid \in Streams(e) :
         todo' = [todo EXCEPT ![e] = <<Frame(FIN, sid, <<>>)>>]
    /\ UNCHANGED <<scenario, cipherVars, conn, broken, idVars, got, reader, data,
                   written, read>>

-----------------------------------------------------------------------------
(* Writing a frame *)

\* Little endian, in two bytes: what does not fit is cut off.
LittleEndian(n) == <<n % Base, (n \div Base) % Base>>

\* The header, and the data copied behind it.
Raw(f) ==
    <<Version, f.cmd>> \o LittleEndian(Len(f.data)) \o LittleEndian(f.sid) \o f.data

Xor(value, mask, key) == [value |-> value, mask |-> SymDiff(mask, {key})]

\* Coder.Write: the whole slice is encrypted, whatever the connection takes.
Encrypted(e, raw) ==
    LET keys == KeyBytes(enc[e], Len(raw))
    IN  [i \in DOMAIN raw |->
            IF scenario.keyed THEN Xor(raw[i], {}, keys[i])
            ELSE [value |-> raw[i], mask |-> {}]]

CipherMoves(e, len) ==
    IF scenario.keyed
      THEN /\ ~Panics(enc[e], len)
           /\ enc' = [enc EXCEPT ![e] = After(@, len)]
           /\ spent' = [spent EXCEPT ![e] = @ \o KeyBytes(enc[e], len)]
           /\ UNCHANGED dec
      ELSE UNCHANGED cipherVars

\* The connection takes the frame.
Transmit(e) ==
    /\ todo[e] # <<>>
    /\ ~broken
    /\ LET raw == Raw(todo[e][1])
       IN  /\ CipherMoves(e, Len(raw))
           /\ conn' = [conn EXCEPT ![Peer(e)] = @ \o Encrypted(e, raw)]
    /\ written' = [written EXCEPT ![e] = Append(@, todo[e][1])]
    /\ todo' = [todo EXCEPT ![e] = Tail(@)]
    /\ UNCHANGED <<scenario, broken, idVars, calls, got, reader, data, read>>

\* It takes a part of the frame, or nothing, and is gone; the call returns.
TransmitFails(e) ==
    /\ todo[e] # <<>>
    /\ LET raw == Raw(todo[e][1])
       IN  /\ CipherMoves(e, Len(raw))
           /\ \E n \in IF broken THEN {0} ELSE {0, HeaderSize, Len(raw) - 1} :
                /\ n < Len(raw)
                /\ conn' = [conn EXCEPT ![Peer(e)] =
                                @ \o SubSeq(Encrypted(e, raw), 1, n)]
    /\ broken' = TRUE
    /\ todo' = [todo EXCEPT ![e] = <<>>]
    /\ UNCHANGED <<scenario, idVars, calls, got, reader, data, written, read>>

\* XORKeyStream panics, which ends the process and with it the connection.
TransmitPanics(e) ==
    /\ todo[e] # <<>>
    /\ scenario.keyed
    /\ Panics(enc[e], Len(Raw(todo[e][1])))
    /\ reader' = [reader EXCEPT ![e] = "panicked"]
    /\ broken' = TRUE
    /\ todo' = [todo EXCEPT ![e] = <<>>]
    /\ UNCHANGED <<scenario, cipherVars, conn, idVars, calls, got, data, written,
                   read>>

-----------------------------------------------------------------------------
(* Reading a frame *)

\* What a byte is once its mask should be gone: another value if it is not.
Value(b) == IF b.mask = {} THEN b.value ELSE b.value + 1

TwoAt(bytes, i) == (bytes[i] % Base) + Base * (bytes[i + 1] % Base)

\* Where the data ends in the buffer: the sum has the width of the length.
DataEnd(bytes) == (HeaderSize + TwoAt(bytes, 3)) % TwoBytes

\* Mutant: the length is one more.
NeededOneMore(bytes) ==
    IF Len(bytes) < HeaderSize THEN HeaderSize ELSE DataEnd(bytes) + 1

\* How many bytes readFrame wants in its buffer: the header, and once it has
\* it the data as well.
Needed(bytes) ==
    IF Len(bytes) < HeaderSize THEN HeaderSize ELSE DataEnd(bytes)

\* A slice that ends before it begins: readFrame panics.
Overflows(bytes) ==
    Len(bytes) = HeaderSize /\ bytes[1] = Version /\ DataEnd(bytes) < HeaderSize

\* Coder.Read decrypts the n bytes that conn.Read returned.
Decrypted(e, n) ==
    LET keys == KeyBytes(dec[e], n)
    IN  [i \in 1 .. n |->
            IF scenario.keyed
              THEN Value(Xor(conn[e][i].value, conn[e][i].mask, keys[i]))
              ELSE conn[e][i].value]

\* io.ReadFull reads a piece of what it wants.  After the last one readFrame
\* returns, and with a header of another version it fails.  A piece needs no
\* more blocks at once than the frame did when it was written, so this end does
\* not panic where the other did not: FramesArrive would not hold otherwise.
ReadPiece(e, n) ==
    LET bytes == got[e] \o Decrypted(e, n)
    IN  /\ reader[e] = "reading"
        /\ scenario.keyed => ~Panics(dec[e], n)
        /\ ~Overflows(bytes)
        /\ conn' = [conn EXCEPT ![e] = SubSeq(@, n + 1, Len(@))]
        /\ dec' = IF scenario.keyed THEN [dec EXCEPT ![e] = After(@, n)] ELSE dec
        /\ IF Len(bytes) < Needed(bytes)
             THEN got' = [got EXCEPT ![e] = bytes] /\ UNCHANGED read
             ELSE /\ got' = [got EXCEPT ![e] = <<>>]
                  /\ read' = [read EXCEPT ![e] = Append(@,
                         Frame(bytes[2], TwoAt(bytes, 5),
                               SubSeq(bytes, HeaderSize + 1, Len(bytes))))]
        /\ reader' = [reader EXCEPT ![e] =
               IF Len(bytes) >= HeaderSize /\ bytes[1] # Version THEN "refused" ELSE @]
        /\ broken' = (broken \/ reader'[e] = "refused")
        /\ UNCHANGED <<scenario, enc, spent, idVars, todo, calls, data, written>>

\* The length in the header is too large for readFrame, which ends the process.
ReadPanics(e, n) ==
    /\ reader[e] = "reading"
    /\ Overflows(got[e] \o Decrypted(e, n))
    /\ reader' = [reader EXCEPT ![e] = "crashed"]
    /\ broken' = TRUE
    /\ conn' = [conn EXCEPT ![e] = <<>>]
    /\ todo' = [todo EXCEPT ![e] = <<>>]
    /\ UNCHANGED <<scenario, cipherVars, idVars, calls, got, data, written, read>>

\* The connection is gone and nothing is left to read, or what is left is
\* lost with it: readFrame fails and recvLoop closes the session.
ReadFails(e) ==
    /\ reader[e] = "reading"
    /\ broken
    /\ reader' = [reader EXCEPT ![e] = "failed"]
    /\ conn' = [conn EXCEPT ![e] = <<>>]
    /\ UNCHANGED <<scenario, cipherVars, broken, idVars, todo, calls, got,
                   data, written, read>>

-----------------------------------------------------------------------------
Call(e)      == OpenStream(e) \/ CloseStream(e) \/ \E n \in WriteSizes : Write(e, n)
WriteFrame(e) == Transmit(e) \/ TransmitFails(e) \/ TransmitPanics(e)
ReadFrame(e) ==
    \E k \in scenario.pieces :
        LET n == Least(k, Least(Len(conn[e]), Needed(got[e]) - Len(got[e])))
        IN  n > 0 /\ (ReadPiece(e, n) \/ ReadPanics(e, n))

Next == \E e \in Ends : Call(e) \/ WriteFrame(e) \/ ReadFrame(e) \/ ReadFails(e)

\* The goroutines of the sessions run.
Spec ==
    /\ Init
    /\ [][Next]_vars
    /\ \A e \in Ends : WF_vars(ReadFrame(e) \/ ReadFails(e)) /\ WF_vars(WriteFrame(e))

-----------------------------------------------------------------------------
(* Properties *)

\* Every variable keeps its type; lengths and ids fit their fields, and a
\* buffer of readFrame never holds more than a whole frame.
TypeOK ==
    /\ scenario \in Scenarios
    /\ \A e \in Ends :
        /\ enc[e] \in Ciphers /\ dec[e] \in Ciphers
        /\ nextStreamID[e] \in 0 .. TwoBytes - 1
        /\ goAway[e] \in BOOLEAN
        /\ reader[e] \in {"reading", "refused", "failed", "panicked", "crashed"}
        /\ \A i \in DOMAIN todo[e] :
              /\ todo[e][i].cmd \in {SYN, FIN, PSH}
              /\ Len(todo[e][i].data) < TwoBytes
              /\ todo[e][i].cmd = PSH => todo[e][i].data # <<>>
        /\ Len(got[e]) < HeaderSize + TwoBytes
        /\ calls[e] <= scenario.calls[e]
    /\ broken \in BOOLEAN

\* Whatever pieces the connection delivers and wherever it breaks off, the
\* frames that readFrame returns are the first of those that were written,
\* with their ids and data, and no header is taken for one of another version.
\* Only a frame of one of the HeaderSize largest lengths stops a reader, and
\* there are such frames only where the frame size is set that large.
FramesIntact ==
    \A e \in Ends :
        /\ IsPrefix(read[e], written[Peer(e)])
        /\ reader[e] # "refused"
        /\ reader[e] = "crashed" =>
              scenario.setting \in TwoBytes - HeaderSize .. TwoBytes - 1

\* No byte of the key stream is XORed into two bytes of the connection,
\* neither by one end nor by both, although calls of any length leave blocks
\* half used and the counter carries into the nonce.
KeyUsedOnce ==
    /\ \A e \in Ends : Cardinality(Range(spent[e])) = Len(spent[e])
    /\ Range(spent[hub]) \cap Range(spent[client]) = {}

\* OpenStream never gives an id twice, never gives one of the other parity,
\* and never one that the wrap has made too small, however often it is called
\* after the wrap.
IdsFresh ==
    /\ \A e \in Ends :
        /\ IsInjective(ids[e])
        /\ \A i \in DOMAIN ids[e] : ids[e][i] > scenario.last[e]
    /\ Range(ids[hub]) \cap Range(ids[client]) = {}

\* As long as the connection holds, what was written is read, to the last
\* frame.
FramesArrive ==
    \A e \in Ends : []<>(broken \/ read[e] = written[Peer(e)])
===============================================================================
