------------------------------- MODULE VarInt -------------------------------
(***************************************************************************)
(* The variable-length integers of server/BufUtils.java: base-128 digits,  *)
(* least significant first, every byte but the last marked with a          *)
(* continue bit.  A Java int is its bit pattern, a number below            *)
(* 2^IntBits: ">>> 7" divides the pattern and "|" adds digits that do not  *)
(* overlap, dropping what is shifted past the width.                       *)
(***************************************************************************)
EXTENDS Integers, Sequences, FiniteSetsExt

CONSTANTS SegBits,   \* digits have SegBits bits: 7 (SEGMENT_BITS = 0x7F)
          IntBits    \* width: 32 for a VarInt, 64 for a VarLong

ASSUME WidthAssumption ==
    /\ SegBits \in Nat \ {0}
    /\ IntBits \in Nat \ {0}

\* What a shift by n places multiplies or divides by.
Pow2[n \in Nat] == IF n = 0 THEN 1 ELSE 2 * Pow2[n - 1]

Base == Pow2[SegBits]
Ints == 0 .. Pow2[IntBits] - 1

\* A byte: its low bits and its continue bit.
Byte(digit, more) == [digit |-> digit, more |-> more]

\* writeVarInt: a byte per round until what is left fits in one digit.
WriteVarInt[v \in Ints] ==
    IF v < Base THEN <<Byte(v, FALSE)>>
    ELSE <<Byte(v % Base, TRUE)>> \o WriteVarInt[v \div Base]

\* sizeofVarInt: the same loop, counting.
SizeofVarInt[v \in Ints] == IF v < Base THEN 1 ELSE 1 + SizeofVarInt[v \div Base]

\* Slip: the position is tested one digit too early.
MaxRoundsShort == IntBits \div SegBits

\* The rounds readVarInt makes before the position passes the width.
MaxRounds == (IntBits + SegBits - 1) \div SegBits

\* The value readVarInt has after so many rounds, before Java drops the bits past
\* the width.
Value(bytes) ==
    LET value[k \in 0 .. Len(bytes)] ==
            IF k = 0 THEN 0
            ELSE value[k - 1] + bytes[k].digit * Pow2[SegBits * (k - 1)]
    IN  value

\* What readVarInt leaves on the bytes of a buffer: it throws "VarInt is too
\* big" after MaxRounds bytes with a continue bit, and the buffer's own
\* IndexOutOfBoundsException when the bytes end before that.
ReadVarInt(bytes) ==
    LET last == {i \in 1 .. Len(bytes) : i <= MaxRounds /\ ~bytes[i].more}
        used == Min(last)
    IN  IF last # {}
        THEN [result |-> "ok", used |-> used, value |-> Value(bytes)[used] % Pow2[IntBits]]
        ELSE IF Len(bytes) >= MaxRounds
             THEN [result |-> "too big", used |-> MaxRounds, value |-> 0]
             ELSE [result |-> "short", used |-> Len(bytes), value |-> 0]

-----------------------------------------------------------------------------
(* Properties.                                                             *)

\* Whatever bytes of a set follow it in a buffer, readVarInt reads back every int
\* writeVarInt wrote, negative ones included, and takes the bytes sizeofVarInt
\* announced, no more; a VarInt whose last bytes are not there yet is never mistaken
\* for another value, but ends in the buffer's exception.
RoundTripBefore(tails) ==
    \A v \in Ints :
        /\ \A t \in tails :
              ReadVarInt(WriteVarInt[v] \o t) =
                  [result |-> "ok", used |-> SizeofVarInt[v], value |-> v]
        /\ \A k \in 0 .. Len(WriteVarInt[v]) - 1 :
              ReadVarInt(SubSeq(WriteVarInt[v], 1, k)).result = "short"

\* All the bytes there are.
AllBytes == [digit : 0 .. Base - 1, more : BOOLEAN]
=============================================================================
