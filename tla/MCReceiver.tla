----------------------------- MODULE MCReceiver -----------------------------
(* Streams of three packets.  Size fields are written in base 2, so that   *)
(* small sizes use several of their bytes.                                 *)
EXTENDS Receiver

Texts == {<<>>, <<1>>, <<13>>, <<13, 10, 13>>}

\* Texts do not begin with the byte that begins a binary packet.
TextPackets == {t \o TEXT_PKT_FINISH : t \in Texts}

BinaryPackets == {
    <<36, 0, 0, 0, 0>>,
    <<36, 1, 0, 0, 0, 36>>,
    <<36, 0, 1, 0, 0, 13, 10>>,
    <<36, 0, 0, 1, 0>> \o TEXT_PKT_FINISH }

AnyPacket == TextPackets \cup BinaryPackets

ThreePackets == {p \o q \o r : p \in AnyPacket, q \in AnyPacket, r \in AnyPacket}
=============================================================================
