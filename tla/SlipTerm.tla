------------------------------ MODULE SlipTerm ------------------------------
(***************************************************************************)
(* The loops that bridge a serial line to a network: slipterm's main loop  *)
(* and esputil's monitor.  "up" is from the device to the host's console   *)
(* and network, "down" from the keyboard and the network to the device.    *)
(* Either side writes whole frames and plain text in any order; the line   *)
(* delivers bytes in order, and may lose some.                             *)
(***************************************************************************)
EXTENDS Slip, Functions

CONSTANTS
    Tool,       \* "slipterm" or "monitor"
    Frames,     \* the frames either side may send
    TextBytes,  \* the bytes either side may send outside frames
    Lossable,   \* the bytes the line may lose
    MaxItems,   \* bound: frames and text bytes sent in all
    MaxLosses   \* bound: bytes lost in all

ASSUME ToolAssumption == Tool \in {"slipterm", "monitor"}
\* Text is no SLIP: it never holds END, and an empty frame is never sent.
ASSUME ItemAssumption ==
    /\ Frames \subseteq Seq(Byte) \ {<< >>}
    /\ TextBytes \subseteq Byte \ {"END"}
    /\ Lossable \subseteq Byte
    /\ MaxItems \in Nat /\ MaxLosses \in Nat

Way == {"up", "down"}

VARIABLES
    line,     \* bytes on their way
    slip,     \* the receiver's state machine
    text,     \* bytes the receiver took for text
    packets,  \* frames the receiver passed on to the network
    sent,     \* history: the text and the frames that were sent
    losses    \* history: how many bytes the line lost

vars == <<line, slip, text, packets, sent, losses>>

Init ==
    /\ line = [w \in Way |-> << >>]
    /\ slip = [w \in Way |-> slip_init]
    /\ text = [w \in Way |-> << >>]
    /\ packets = [w \in Way |-> << >>]
    /\ sent = [w \in Way |-> [text |-> << >>, frames |-> << >>]]
    /\ losses = 0

Items(w) == Len(sent[w].text) + Len(sent[w].frames)
MaySend  == Items("up") + Items("down") < MaxItems

\* A frame from the network ("down": "Inject frame") or from the device.
SendFrame(w, frame) ==
    /\ MaySend
    /\ line' = [line EXCEPT ![w] = @ \o slip_send(frame)]
    /\ sent' = [sent EXCEPT ![w].frames = Append(@, frame)]
    /\ UNCHANGED <<slip, text, packets, losses>>

\* A byte typed on stdin ("down") or printed by the device.
SendText(w, c) ==
    /\ MaySend
    /\ line' = [line EXCEPT ![w] = Append(@, c)]
    /\ sent' = [sent EXCEPT ![w].text = Append(@, c)]
    /\ UNCHANGED <<slip, text, packets, losses>>

\* The bytes a tool sends to the network after slip_recv left the state after:
\* monitor looks at the mode and the length that are left, slipterm at the result.
Forwarded(w, packet, after) ==
    IF w = "up" /\ Tool = "monitor"
    THEN IF packet # << >> /\ after.mode = 1 THEN <<after.buf>> ELSE << >>
    ELSE IF packet # << >> THEN <<packet>> ELSE << >>

\* One byte is read and passed to the SLIP state machine.
Receive(w) ==
    /\ line[w] # << >>
    /\ LET c      == Head(line[w])
           packet == Packet(c, slip[w])
           after  == slip_recv(c, slip[w])
       IN  /\ slip' = [slip EXCEPT ![w] = after]
           /\ text' = IF packet = << >> /\ after.mode = 0
                      THEN [text EXCEPT ![w] = Append(@, c)] ELSE text
           /\ packets' = [packets EXCEPT ![w] = @ \o Forwarded(w, packet, after)]
    /\ line' = [line EXCEPT ![w] = Tail(@)]
    /\ UNCHANGED <<sent, losses>>

\* The line loses a byte.
Lose(w) ==
    /\ losses < MaxLosses
    /\ \E i \in DOMAIN line[w] :
         line[w][i] \in Lossable /\ line' = [line EXCEPT ![w] = RemoveAt(@, i)]
    /\ losses' = losses + 1
    /\ UNCHANGED <<slip, text, packets, sent>>

Next == \E w \in Way :
           \/ \E frame \in Frames : SendFrame(w, frame)
           \/ \E c \in TextBytes : SendText(w, c)
           \/ Receive(w)
           \/ Lose(w)

Spec == Init /\ [][Next]_vars

-----------------------------------------------------------------------------
\* Every variable keeps its type, and a buffer index stays inside the buffer.
TypeOK ==
    /\ line \in [Way -> Seq(Byte)]
    /\ slip \in [Way -> SlipState]
    /\ \A w \in Way : Len(slip[w].buf) < Size
    /\ text \in [Way -> Seq(Byte)]
    /\ packets \in [Way -> Seq(Seq(Byte))]
    /\ losses \in 0 .. MaxLosses

\* The line has lost nothing, and every frame sent this way fits the buffer.
Sound(w) == losses = 0 /\ \A i \in DOMAIN sent[w].frames : Len(sent[w].frames[i]) < Size

\* On a line that has lost nothing, whatever bytes the frames hold and however text
\* is mixed with them, the network gets the very frames sent and the console
\* the very text, in order, as soon as the line is drained.
RoundTrip ==
    \A w \in Way : Sound(w) =>
        /\ IsPrefix(packets[w], sent[w].frames) /\ IsPrefix(text[w], sent[w].text)
        /\ line[w] = << >> => packets[w] = sent[w].frames /\ text[w] = sent[w].text

\* As long as the line loses no END, damage stays inside the frame it hit: no
\* byte of a frame is printed as text and no text is passed on as a packet.  (A
\* frame that lost all its bytes leaves its closing END on the console.)
NoMixing ==
    \A w \in Way :
        /\ \A i \in DOMAIN text[w] : text[w][i] \in TextBytes \cup {"END"}
        /\ \A i \in DOMAIN packets[w] : Range(packets[w][i]) \cap TextBytes = {}

-----------------------------------------------------------------------------
\* What NoMixing takes for granted: the line loses no END, and no byte of text is a
\* byte of a frame or one that SLIP escapes with.
Apart ==
    /\ "END" \notin Lossable
    /\ TextBytes \cap {"ESC", "ESC_END", "ESC_ESC"} = {}
    /\ \A frame \in Frames : Range(frame) \cap TextBytes = {}
=============================================================================
