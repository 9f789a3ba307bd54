------------------------------ MODULE Receiver ------------------------------
(***************************************************************************)
(* iss/receiver.cpp: a stream of binary and text packets, cut into chunks  *)
(* at arbitrary places, is put together and handed to a callback packet by *)
(* packet.  The stream is fixed in the initial state; how it is cut is     *)
(* chosen step by step.                                                    *)
(***************************************************************************)
EXTENDS Integers, Sequences, FiniteSetsExt

CONSTANTS
    Streams,    \* the streams considered, sequences of bytes
    ByteBase    \* values of a byte of the size field: 256 in the code

BINARY_PKT_START == 36
TEXT_PKT_FINISH  == <<13, 10, 13, 10>>
SizeLen          == 4       \* sizeof(packetSize)

ASSUME StreamsAssumption ==
    /\ ByteBase \in 2 .. 256
    /\ \A s \in Streams : s \in Seq(0 .. 255)

VARIABLES
    stream,     \* the bytes to come and those that came
    fed,        \* how many of them Receive has been given
    packet,     \* _currentPacket
    out         \* what the callback has been given

vars == <<stream, fed, packet, out>>

Delivered(type, data) == [type |-> type, data |-> data]

\* The number in a size field, least significant byte first.
Number(bytes) == bytes[1] + ByteBase * (bytes[2] + ByteBase * (bytes[3] + ByteBase * bytes[4]))

-----------------------------------------------------------------------------
(* The buffer.  data[1 .. offset] has been read.                           *)

dataAvailable(p) == Len(p.data) - p.offset
getData(p) == SubSeq(p.data, p.offset + 1, Len(p.data))
dataRead(p, amount) == [p EXCEPT !.offset = @ + amount]

\* Faulty variant: the buffer does not grow.
append_in_place(p, chunk) == [p EXCEPT !.data = @ \o chunk]

append(p, chunk) ==
    [p EXCEPT !.data = @ \o chunk,
              !.reserved = IF @ < Len(p.data) + Len(chunk) THEN Len(p.data) + Len(chunk) ELSE @]

shift(p) == [p EXCEPT !.data = getData(p), !.offset = 0]

\* Where the needle begins in the haystack, as an offset; -1 when it does not.
memmem(haystack, needle) ==
    LET At == {i \in 0 .. Len(haystack) - Len(needle) :
                   SubSeq(haystack, i + 1, i + Len(needle)) = needle}
    IN  IF At = {} THEN -1 ELSE CHOOSE i \in At : \A j \in At : i <= j

-----------------------------------------------------------------------------
(* Packet processors: the packet afterwards, and what was delivered.       *)

Waiting(p) == [packet |-> p, delivered |-> <<>>]

\* Faulty variant: the terminator of a text packet is left in the buffer.
packetFinished_keeps_rest(p, data, sizeToRead) ==
    [packet    |-> [shift(dataRead(p, Len(data))) EXCEPT !.type = "NONE"],
     delivered |-> <<Delivered(p.type, data)>>]

packetFinished(p, data, sizeToRead) ==
    [packet    |-> [shift(dataRead(p, sizeToRead)) EXCEPT !.type = "NONE"],
     delivered |-> <<Delivered(p.type, data)>>]

binaryPacketData(p) ==
    IF dataAvailable(p) < p.packetSize THEN Waiting(p)
    ELSE packetFinished(p, SubSeq(p.data, p.offset + 1, p.offset + p.packetSize), p.packetSize)

\* Faulty variant: the size is read before all of its bytes have come.
binaryPacketHeader_hasty(p) ==
    IF dataAvailable(p) = 0 THEN Waiting(p)
    ELSE LET n == IF dataAvailable(p) < SizeLen THEN dataAvailable(p) ELSE SizeLen IN
         binaryPacketData([dataRead(p, n) EXCEPT
             !.packetSize = Number(SubSeq(getData(p), 1, n) \o <<0, 0, 0>>), !.bps = "DATA"])

binaryPacketHeader(p) ==
    IF dataAvailable(p) < SizeLen THEN Waiting(p)
    ELSE binaryPacketData([dataRead(p, SizeLen) EXCEPT
             !.packetSize = Number(SubSeq(getData(p), 1, SizeLen)), !.bps = "DATA"])

packetContinueBinary(p) ==
    IF p.bps = "HEADER" THEN binaryPacketHeader(p) ELSE binaryPacketData(p)

\* Faulty variant: all that has been searched is skipped, so that a terminator
\* cut by the end of a chunk is missed.
packetContinueText_skips(p) ==
    LET found == memmem(getData(p), TEXT_PKT_FINISH) IN
    IF found # -1
    THEN packetFinished(p, SubSeq(p.data, 1, p.offset + found), found + Len(TEXT_PKT_FINISH))
    ELSE Waiting(dataRead(p, dataAvailable(p)))

\* The text starts at the beginning of the data; what has been searched is
\* skipped but for the last bytes, which may begin a terminator.
packetContinueText(p) ==
    LET found == memmem(getData(p), TEXT_PKT_FINISH) IN
    IF found # -1
    THEN packetFinished(p, SubSeq(p.data, 1, p.offset + found), found + Len(TEXT_PKT_FINISH))
    ELSE IF dataAvailable(p) >= Len(TEXT_PKT_FINISH)
         THEN Waiting(dataRead(p, dataAvailable(p) - Len(TEXT_PKT_FINISH)))
         ELSE Waiting(p)

packetStarted(p) ==
    IF p.data[1] = BINARY_PKT_START
    THEN packetContinueBinary([dataRead(p, 1) EXCEPT !.type = "BINARY", !.bps = "HEADER"])
    ELSE packetContinueText([p EXCEPT !.type = "TEXT"])

anotherChunkReceivedImpl(p) ==
    CASE p.type = "NONE"   -> packetStarted(p)
      [] p.type = "BINARY" -> packetContinueBinary(p)
      [] p.type = "TEXT"   -> packetContinueText(p)

-----------------------------------------------------------------------------

Init ==
    /\ stream \in Streams
    /\ fed = 0
    /\ packet = [type |-> "NONE", bps |-> "NONE", packetSize |-> 0,
                 data |-> <<>>, reserved |-> 0, offset |-> 0]
    /\ out = <<>>

\* Receive, of the next size bytes.
Receive(size) ==
    LET res == anotherChunkReceivedImpl(append(packet, SubSeq(stream, fed + 1, fed + size))) IN
    /\ fed + size <= Len(stream)
    /\ fed' = fed + size
    /\ packet' = res.packet
    /\ out' = out \o res.delivered
    /\ UNCHANGED stream

Next == \E size \in 1 .. Len(stream) - fed : Receive(size)

Spec == Init /\ [][Next]_vars

-----------------------------------------------------------------------------
(* Properties.                                                             *)

\* Nothing is read that was not written: offset <= actualDataSize <=
\* reservedDataSize, which is what the comment on the fields in receiver.h
\* means.
BufferFits ==
    /\ fed \in 0 .. Len(stream)
    /\ packet.type \in {"NONE", "BINARY", "TEXT"}
    /\ packet.bps \in {"NONE", "HEADER", "DATA"}
    /\ packet.packetSize \in Nat
    /\ packet.offset \in 0 .. Len(packet.data)
    /\ Len(packet.data) <= packet.reserved

\* Where the packet that begins after the first i bytes of s ends, as iss/task.txt
\* defines packets; beyond the end of s when s does not hold all of it.
PacketEnd(s, i) ==
    LET Terminators == {e \in i + 4 .. Len(s) : SubSeq(s, e - 3, e) = TEXT_PKT_FINISH} IN
    IF i < Len(s) /\ s[i + 1] = BINARY_PKT_START /\ i + 5 <= Len(s)
    THEN i + 5 + Number(SubSeq(s, i + 2, i + 5))
    ELSE IF i < Len(s) /\ s[i + 1] # BINARY_PKT_START /\ Terminators # {}
    THEN Min(Terminators)
    ELSE Len(s) + 1

\* Where the k-th packet of s ends.
Cut(s) == LET cut[k \in Nat] == IF k = 0 THEN 0 ELSE PacketEnd(s, cut[k - 1]) IN cut

\* The packet in s[i + 1 .. e].
PacketIn(s, i, e) ==
    IF s[i + 1] = BINARY_PKT_START THEN Delivered("BINARY", SubSeq(s, i + 6, e))
                                   ELSE Delivered("TEXT", SubSeq(s, i + 1, e - 4))

\* However the stream is cut, the callback gets the packets of the stream, each
\* whole, in their order, of the right type and without headers (task.txt): a
\* size field or a terminator split over chunks, terminators inside binary data
\* and partial terminators in text make no difference.
DeliversPackets ==
    LET cut == Cut(stream) IN
    \A k \in DOMAIN out : cut[k] <= fed /\ out[k] = PacketIn(stream, cut[k - 1], cut[k])

\* What has not been delivered is kept, to the last byte (shift, append): the
\* buffer begins with the first packet not delivered and ends where the stream
\* has come to.
KeepsTheRest == packet.data = SubSeq(stream, Cut(stream)[Len(out)] + 1, fed)

\* A chunk delivers a packet whenever it completes one, or finds one completed
\* by an earlier chunk; never two (packetFinished does not go on to the rest).
OnePacketPerChunk ==
    [][Len(out') = Len(out) + IF Cut(stream)[Len(out) + 1] <= fed' THEN 1 ELSE 0]_vars
=============================================================================
