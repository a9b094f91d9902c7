---------------------------- MODULE PacketStream ----------------------------
(***************************************************************************)
(* What the framing of a connection promises to the handlers behind it:    *)
(* the packets that were sent come out once, whole and in order, until the *)
(* connection is closed.                                                   *)
(***************************************************************************)
EXTENDS Naturals, Sequences

CONSTANT Packets    \* what can be sent

VARIABLES sent,     \* the packets sent so far
          received, \* the packets handed on so far
          open      \* whether the connection still reads

Init ==
    /\ sent = <<>>
    /\ received = <<>>
    /\ open = TRUE

Send ==
    /\ \E p \in Packets : sent' = Append(sent, p)
    /\ UNCHANGED <<received, open>>

\* Some packets at once: a segment may complete several.
Receive ==
    /\ open
    /\ \E n \in Len(received) + 1 .. Len(sent) : received' = SubSeq(sent, 1, n)
    /\ UNCHANGED <<sent, open>>

Close ==
    /\ open
    /\ open' = FALSE
    /\ UNCHANGED <<sent, received>>

Next == Send \/ Receive \/ Close

Spec == Init /\ [][Next]_<<sent, received, open>>
=============================================================================
