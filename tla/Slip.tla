-------------------------------- MODULE Slip --------------------------------
(***************************************************************************)
(* slip.h (esputil.c has a copy of it): SLIP framing on a serial line that *)
(* also carries plain text.  A byte is what the code tells apart: the four  *)
(* special bytes and Data, any others.  END opens and closes a frame.       *)
(***************************************************************************)
EXTENDS Naturals, Sequences, SequencesExt

CONSTANTS
    Data,  \* bytes that mean nothing to SLIP
    Size   \* slip.size, the size of the receive buffer

ASSUME DataAssumption == Data \cap {"END", "ESC", "ESC_END", "ESC_ESC"} = {}
ASSUME BufferAssumption == Size \in Nat \ {0}

Byte == {"END", "ESC", "ESC_END", "ESC_ESC"} \cup Data

\* Mutant: ESC is sent as it is.
Escaped_EndOnly(c) == IF c = "END" THEN <<"ESC", "ESC_END">> ELSE <<c>>

Escaped(c) == CASE c = "END" -> <<"ESC", "ESC_END">>
                [] c = "ESC" -> <<"ESC", "ESC_ESC">>
                [] OTHER     -> <<c>>

\* slip_send: the bytes put on the line for a frame.
slip_send(frame) ==
    <<"END">> \o FlattenSeq([i \in DOMAIN frame |-> Escaped(frame[i])]) \o <<"END">>

\* struct slip; buf stands for the len bytes that are buffered.
SlipState == [buf : Seq(Byte), mode : {0, 1}, prev : Byte \cup {"none"}]
slip_init == [buf |-> << >>, mode |-> 0, prev |-> "none"]

\* What network mode appends to the buffer for byte c.
Stored(c, slip) ==
    CASE slip.prev = "ESC" /\ c = "ESC_END" -> <<"END">>
      [] slip.prev = "ESC" /\ c = "ESC_ESC" -> <<"ESC">>
      [] ~(slip.prev = "ESC" /\ c \in {"ESC_END", "ESC_ESC"}) ->
           IF c \in {"END", "ESC"} THEN << >> ELSE <<c>>

\* Mutants: the overflow test comes a byte too late; an overflow ends the frame.
Buffered_Late(c, slip) ==
    LET buf == slip.buf \o Stored(c, slip) IN IF Len(buf) > Size THEN << >> ELSE buf
slip_recv_OverflowEnds(c, slip) ==
    LET buf  == IF slip.mode = 1 THEN slip.buf \o Stored(c, slip) ELSE slip.buf
        full == Len(buf) >= Size
    IN  [buf  |-> IF c = "END" \/ full THEN << >> ELSE buf,
         mode |-> IF c = "END" \/ full THEN 1 - slip.mode ELSE slip.mode,
         prev |-> c]

\* slip_recv: a full buffer is silently emptied, END flips the mode.
Buffered(c, slip) ==
    LET buf == slip.buf \o Stored(c, slip) IN IF Len(buf) >= Size THEN << >> ELSE buf
slip_recv(c, slip) ==
    [buf  |-> IF c = "END" THEN << >>
              ELSE IF slip.mode = 1 THEN Buffered(c, slip) ELSE slip.buf,
     mode |-> IF c = "END" THEN 1 - slip.mode ELSE slip.mode,
     prev |-> c]

\* The packet whose size slip_recv returns; << >> stands for the result 0.
Packet(c, slip) == IF slip.mode = 1 /\ c = "END" THEN slip.buf ELSE << >>
=============================================================================
