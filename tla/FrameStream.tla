---------------------------- MODULE FrameStream ----------------------------
(***************************************************************************)
(* The decoder of the Bluetooth stream: decode_stream (protocol.py) and    *)
(* the buffer that _on_notify (ble.py) keeps between notifications.        *)
(*                                                                         *)
(* A frame is a header of two bytes, a byte for its length, the payload    *)
(* and a byte for its checksum: the prefix and the opcode, which decoding  *)
(* does not look at, are left out, and length and CRC take one byte each   *)
(* instead of two.  Any byte may be part of a payload or of the padding,   *)
(* the bytes of the header too.                                            *)
(*                                                                         *)
(* External: the unit and the radio, which deliver some stream of bytes in *)
(* notifications of any size, frames damaged or not.                       *)
(***************************************************************************)
EXTENDS Integers, Sequences

CONSTANTS
    H1, H2,         \* HEADER
    Bytes,          \* the bytes there are
    MaxDataLength,  \* MAX_DATA_LENGTH: frames do not claim more
    Checksum(_),    \* crc16_modbus of a payload and its length
    MaxBuffer,      \* MAX_BUFFER
    MaxChunk,       \* bound: bytes in a notification
    MaxStream       \* bound: bytes in a connection

ASSUME ByteAssumption == Bytes \subseteq Nat /\ H1 \in Bytes /\ H2 \in Bytes /\ H1 # H2
ASSUME LengthAssumption ==
    /\ MaxDataLength \in Nat /\ MaxBuffer \in Nat /\ MaxStream \in Nat
    /\ MaxChunk \in Nat \ {0}

\* Bytes before the payload, and around it.
Lead == 3
Around == 4

\* The buffer holds any frame that still waits for its last byte.
ASSUME BufferAssumption == MaxBuffer >= MaxDataLength + Around - 1

VARIABLES
    received,  \* history: the bytes of this connection
    buffer,    \* self._buffer
    frames     \* history: the frames handled in this connection

streamVars == <<received, buffer, frames>>

-----------------------------------------------------------------------------
(* decode_stream; positions count from 0, as in the code *)

HeaderAt(buf, i) == i + 2 =< Len(buf) /\ buf[i + 1] = H1 /\ buf[i + 2] = H2
LengthAt(buf, i) == buf[i + Lead]
DataAt(buf, i) == SubSeq(buf, i + Lead + 1, i + Lead + LengthAt(buf, i))
TotalAt(buf, i) == LengthAt(buf, i) + Around
CrcAt(buf, i) == Checksum(DataAt(buf, i)) = buf[i + TotalAt(buf, i)]

\* What the loop finds at a header.  (Variant: no length is impossible.)
Partial(buf, i) == i + Lead > Len(buf)
NeverImpossible(buf, i) == FALSE
Impossible(buf, i) == LengthAt(buf, i) > MaxDataLength
Incomplete(buf, i) == i + TotalAt(buf, i) > Len(buf)

FrameAt(buf, i) == [data |-> DataAt(buf, i), ok |-> CrcAt(buf, i)]

Nothing == [frames |-> <<>>, consumed |-> 0]
Consuming(n, rest) ==
    [rest EXCEPT !.consumed = IF rest.consumed > n THEN rest.consumed ELSE n]
Emitting(frame, rest) == [rest EXCEPT !.frames = <<frame>> \o rest.frames]

\* Where it goes on after a frame.  (Variant: a damaged frame too is as long as it
\* claims.)
AfterAnyFrame(buf, i) == i + TotalAt(buf, i)
AfterFrame(buf, i) == i + (IF CrcAt(buf, i) THEN TotalAt(buf, i) ELSE 1)

\* The loop at position i, given what comes of going on at later ones: the frames,
\* and `consumed' where it ends.
Round(buf, from, i) ==
    CASE i >= Len(buf) - 1 -> Nothing
      [] i < Len(buf) - 1 /\ ~HeaderAt(buf, i) -> from[i + 1]
      [] HeaderAt(buf, i) /\ Partial(buf, i) -> Nothing
      [] HeaderAt(buf, i) /\ ~Partial(buf, i) ->
           CASE Impossible(buf, i) -> Consuming(i + 1, from[i + 1])
             [] ~Impossible(buf, i) /\ Incomplete(buf, i) -> Nothing
             [] ~Impossible(buf, i) /\ ~Incomplete(buf, i) ->
                  LET next == AfterFrame(buf, i)
                  IN  Emitting(FrameAt(buf, i), Consuming(next, from[next]))

Loop(buf) == LET from[i \in 0 .. Len(buf)] == Round(buf, from, i) IN from

\* The bytes after `consumed' that cannot begin a frame are dropped.  (Variant: so
\* is the first half of a header.)
TrimmedHalf(buf, consumed) ==
    LET headers == {i \in consumed .. Len(buf) : HeaderAt(buf, i)}
    IN  IF headers # {} THEN CHOOSE i \in headers : \A j \in headers : i =< j ELSE Len(buf)
Trimmed(buf, consumed) ==
    LET headers == {i \in consumed .. Len(buf) : HeaderAt(buf, i)}
    IN  IF headers # {}
        THEN CHOOSE i \in headers : \A j \in headers : i =< j
        ELSE IF consumed < Len(buf) /\ buf[Len(buf)] = H1 THEN Len(buf) - 1 ELSE Len(buf)

DecodeStream(buf) ==
    LET result == Loop(buf)[0]
    IN  [frames |-> result.frames, consumed |-> Trimmed(buf, result.consumed)]

-----------------------------------------------------------------------------
StreamInit == received = <<>> /\ buffer = <<>> /\ frames = <<>>

\* _on_notify, up to the frames it handles.
OnBytes(payload) ==
    /\ Len(received) + Len(payload) =< MaxStream
    /\ received' = received \o payload
    /\ LET buf == buffer \o payload
           result == DecodeStream(buf)
           rest == SubSeq(buf, result.consumed + 1, Len(buf))
       IN  /\ frames' = frames \o result.frames
           /\ buffer' = IF Len(rest) > MaxBuffer THEN <<>> ELSE rest

\* _connect_once starts a connection with an empty buffer.
Reconnect ==
    /\ received # <<>>
    /\ received' = <<>> /\ buffer' = <<>> /\ frames' = <<>>

Payloads == UNION {[1 .. n -> Bytes] : n \in 1 .. MaxChunk}

StreamNext == (\E payload \in Payloads : OnBytes(payload)) \/ Reconnect

StreamSpec == StreamInit /\ [][StreamNext]_streamVars
-----------------------------------------------------------------------------
(* What decoding promises, said of the whole stream at once *)

Whole(s, i) == HeaderAt(s, i) /\ ~Partial(s, i) /\ ~Impossible(s, i) /\ ~Incomplete(s, i)

Good(s, i) == Whole(s, i) /\ CrcAt(s, i)

Waiting(s, i) ==
    /\ HeaderAt(s, i)
    /\ Partial(s, i) \/ (~Impossible(s, i) /\ Incomplete(s, i))

Inside(s, i, j) == j < i /\ i < j + TotalAt(s, j)

\* A frame with a good checksum counts unless it lies inside an earlier one that
\* counts, or behind a header that still waits for its bytes.
CountsAt(s, counts, i) ==
    /\ Good(s, i)
    /\ \A j \in 0 .. i - 1 : counts[j] => ~Inside(s, i, j)
    /\ \A j \in 0 .. i - 1 :
         Waiting(s, j) => \E k \in 0 .. j - 1 : counts[k] /\ Inside(s, j, k)

Counting(s) == LET counts[i \in 0 .. Len(s)] == CountsAt(s, counts, i) IN counts

Counts(s) == {i \in 0 .. Len(s) : Counting(s)[i]}

\* What _on_notify handles does not depend on how the radio cuts the stream
\* into notifications: no frame is lost, found or found twice because of a cut, be
\* it inside a header.
CutsAreInvisible == frames = DecodeStream(received).frames

\* Every frame handled, damaged or not, is one that the stream has, in the order of
\* the stream, and the good ones are those that count: no damage, a damaged length
\* included, makes decode_stream swallow a good frame behind it, and no frame is made up
\* of the inside of another.
GoodFramesAreFound ==
    \E place \in [DOMAIN frames -> {i \in 0 .. Len(received) : Whole(received, i)}] :
        /\ \A m, n \in DOMAIN frames : m < n => place[m] < place[n]
        /\ \A n \in DOMAIN frames : frames[n] = FrameAt(received, place[n])
        /\ Counts(received) = {place[n] : n \in {m \in DOMAIN frames : frames[m].ok}}

\* What _on_notify keeps never reaches the size of the longest frame: padding and junk do
\* not pile up, and the buffer is never thrown away for being too long.
BufferIsBounded == Len(buffer) < MaxDataLength + Around
=============================================================================
