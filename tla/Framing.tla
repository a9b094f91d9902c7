------------------------------ MODULE Framing ------------------------------
(***************************************************************************)
(* The length-prefixed frames of a connection.  The sender writes each     *)
(* packet behind its length (server/PacketLengthPrefixer.java; the client  *)
(* does the same); TCP delivers the bytes in segments cut anywhere; the    *)
(* receiver puts the packets together (server/PacketDefragmentation.java). *)
(*                                                                         *)
(* PacketDefragmentation is a netty ByteToMessageDecoder: decode is called *)
(* with the bytes of one segment (it leaves none over), and an exception   *)
(* it throws goes to ExceptionHandler, which disconnects the channel, so   *)
(* nothing is read after it.                                               *)
(*                                                                         *)
(* A byte carries what a length prefix makes of it (VarInt's Byte) and the *)
(* place it has in its packet, so that what comes out can be told.         *)
(***************************************************************************)
EXTENDS VarInt

CONSTANTS Lengths,     \* the lengths of packets that are sent
          MaxPackets   \* bound on the packets sent

ASSUME LengthsAssumption ==
    /\ Lengths \subseteq Ints
    /\ MaxPackets \in Nat

VARIABLES
    sent,       \* the packets sent, each the sequence of its bytes
    wire,       \* bytes sent and not delivered
    in,         \* bytes of the current segment that decode has not consumed
    buf,        \* PacketDefragmentation.buf: <<>> for null, <<bytes>> for a buffer
    remaining,  \* PacketDefragmentation.remaining
    out,        \* the packets handed to the next handler
    open        \* the channel has not been disconnected

vars == <<sent, wire, in, buf, remaining, out, open>>

\* The i-th packet, with n bytes: data bytes look like bytes without a
\* continue bit to a reader that takes them for a prefix.
DataByte(i, j) == [digit |-> 0, more |-> FALSE, at |-> <<i, j>>]
Packet(i, n) == [j \in 1 .. n |-> DataByte(i, j)]
Prefix(n) ==
    [j \in 1 .. Len(WriteVarInt[n]) |->
        [digit |-> WriteVarInt[n][j].digit, more |-> WriteVarInt[n][j].more, at |-> <<>>]]

Init ==
    /\ sent = <<>>
    /\ wire = <<>>
    /\ in = <<>>
    /\ buf = <<>>
    /\ remaining = 0
    /\ out = <<>>
    /\ open = TRUE

\* PacketLengthPrefixer.encode.
SendPacket(n) ==
    /\ Len(sent) < MaxPackets
    /\ LET p == Packet(Len(sent) + 1, n)
       IN  /\ sent' = Append(sent, p)
           /\ wire' = wire \o Prefix(n) \o p
    /\ UNCHANGED <<in, buf, remaining, out, open>>

\* TCP delivers the next k bytes as one segment.
Segment(k) ==
    /\ open
    /\ in = <<>>
    /\ in' = SubSeq(wire, 1, k)
    /\ wire' = SubSeq(wire, k + 1, Len(wire))
    /\ UNCHANGED <<sent, buf, remaining, out, open>>

\* Slips in the second half of a round: more is copied than the packet has; a
\* packet without bytes waits.
FillTakesAll(b, rem, bytes) ==
    LET n == Len(bytes)
        filled == b \o bytes
    IN  /\ in' = <<>>
        /\ remaining' = IF rem <= n THEN 0 ELSE rem - n
        /\ IF n >= rem
           THEN out' = Append(out, filled) /\ buf' = <<>>
           ELSE buf' = <<filled>> /\ UNCHANGED out

FillWaitsForBytes(b, rem, bytes) ==
    LET n == IF rem <= Len(bytes) THEN rem ELSE Len(bytes)
        filled == b \o SubSeq(bytes, 1, n)
    IN  /\ in' = SubSeq(bytes, n + 1, Len(bytes))
        /\ remaining' = rem - n
        /\ IF n > 0 /\ n = rem
           THEN out' = Append(out, filled) /\ buf' = <<>>
           ELSE buf' = <<filled>> /\ UNCHANGED out

\* The second half of a round of decode's loop, on a buffer b that waits for
\* rem bytes: copies what there is, and hands the buffer on when it is full.
Fill(b, rem, bytes) ==
    LET n == IF rem <= Len(bytes) THEN rem ELSE Len(bytes)
        filled == b \o SubSeq(bytes, 1, n)
    IN  /\ in' = SubSeq(bytes, n + 1, Len(bytes))
        /\ remaining' = rem - n
        /\ IF n = rem
           THEN out' = Append(out, filled) /\ buf' = <<>>
           ELSE buf' = <<filled>> /\ UNCHANGED out

\* A round of decode's loop that starts a packet by reading its length.
DecodePrefix ==
    LET r == ReadVarInt(in)
    IN  /\ open
        /\ in # <<>>
        /\ buf = <<>>
        /\ r.result = "ok"
        /\ Fill(<<>>, r.value, SubSeq(in, r.used + 1, Len(in)))
        /\ UNCHANGED <<sent, wire, open>>

\* A round in which readVarInt throws, with buf already set.
DecodeFails ==
    /\ open
    /\ in # <<>>
    /\ buf = <<>>
    /\ ReadVarInt(in).result # "ok"
    /\ open' = FALSE
    /\ buf' = <<(<<>>)>>
    /\ in' = <<>>
    /\ UNCHANGED <<sent, wire, remaining, out>>

\* A round that goes on with a packet of an earlier segment.
DecodeMore ==
    /\ open
    /\ in # <<>>
    /\ buf # <<>>
    /\ Fill(buf[1], remaining, in)
    /\ UNCHANGED <<sent, wire, open>>

Decode == DecodePrefix \/ DecodeFails \/ DecodeMore

Next ==
    \/ \E n \in Lengths : SendPacket(n)
    \/ \E k \in 1 .. Len(wire) : Segment(k)
    \/ Decode

Spec == Init /\ [][Next]_vars

\* TCP delivers what was sent and the event loop decodes what was delivered.
Fairness == WF_vars(\E k \in 1 .. Len(wire) : Segment(k)) /\ WF_vars(Decode)

FairSpec == Spec /\ Fairness

-----------------------------------------------------------------------------
(* Properties.                                                             *)

\* readVarInt reads back every int writeVarInt wrote and takes as many bytes as
\* sizeofVarInt said, with nothing or one byte behind it.  (No state matters: TLC
\* evaluates it once.)
RoundTrip == sent = <<>> => RoundTripBefore({<<>>} \cup {<<b>> : b \in AllBytes})

\* However TCP cuts the bytes, the defragmentation hands on the packets that
\* were sent: whole, in order and each once (PacketDefragmentation.decode).
Stream == INSTANCE PacketStream
              WITH received <- out,
                   Packets <- {Packet(i, n) : i \in 1 .. MaxPackets, n \in Lengths}

FramesAreReliable == Stream!Spec

\* No packet is stuck in the buffer: what was sent comes out, or the channel was
\* disconnected.
AllDelivered == <>[](~open \/ out = sent)

\* When every byte that was sent has been read, every packet has been handed on:
\* none waits for the bytes of a later one (PacketDefragmentation.decode lines 21 to 32).
NothingHeldBack == open /\ in = <<>> /\ wire = <<>> => out = sent

\* "tcp fragmentation" (PacketDefragmentation.java:11): the class is there for
\* packets that TCP cuts, so no cut makes decode fail.
FragmentationHandled == open
=============================================================================
