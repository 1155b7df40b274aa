--------------------------- MODULE SlipTermProofs ---------------------------
(***************************************************************************)
(* What SLIP framing promises on a line that also carries text, for every  *)
(* set of bytes, every frame and every buffer size.                        *)
(***************************************************************************)
EXTENDS SlipTerm, SequenceLemmas

\* What slip_send puts between the two ENDs.
Body(frame) == FlattenSeq([i \in DOMAIN frame |-> Escaped(frame[i])])

\* The bytes of a sequence are escaped one after the other.
LEMMA EscapedType ==
    ASSUME NEW c \in Byte
    PROVE  Escaped(c) \in Seq(Byte)
<1>1. "END" \in Byte /\ "ESC" \in Byte /\ "ESC_END" \in Byte /\ "ESC_ESC" \in Byte
  BY DEF Byte
<1>2. \/ Escaped(c) = <<"ESC", "ESC_END">> \/ Escaped(c) = <<"ESC", "ESC_ESC">>
      \/ Escaped(c) = <<c>>
  BY DEF Escaped
<1>3. \A S : \A x, y \in S : <<x, y>> \in Seq(S) /\ <<x>> \in Seq(S)
  OBVIOUS
<1> QED  BY <1>1, <1>2, <1>3

\* Each byte of a frame becomes a sequence of bytes.
LEMMA EscapedBytes ==
    ASSUME NEW frame \in Seq(Byte)
    PROVE  /\ [i \in DOMAIN frame |-> Escaped(frame[i])] \in Seq(Seq(Byte))
           /\ Body(frame) \in Seq(Byte)
<1>1. DOMAIN frame = 1 .. Len(frame) /\ Len(frame) \in Nat
  BY LenProperties
<1>2. \A i \in 1 .. Len(frame) : Escaped(frame[i]) \in Seq(Byte)
  BY EscapedType, ElementOfSeq
<1>3. [i \in DOMAIN frame |-> Escaped(frame[i])] \in Seq(Seq(Byte))
  BY <1>1, <1>2, IsASeq
<1> QED  BY <1>3, FlattenType DEF Body

\* slip_send escapes an empty frame to nothing.
LEMMA BodyEmpty == Body(<< >>) = << >>
<1>1. DOMAIN << >> = {}
  BY EmptySeq, LenProperties
<1>2. [i \in DOMAIN << >> |-> Escaped(<< >>[i])] = << >>
  BY <1>1
<1> QED  BY <1>2, FlattenEmpty DEF Body

\* slip_send escapes one byte after the other.
LEMMA BodyAppend ==
    ASSUME NEW frame \in Seq(Byte), NEW c \in Byte
    PROVE  Body(Append(frame, c)) = Body(frame) \o Escaped(c)
<1> DEFINE E(f) == [i \in DOMAIN f |-> Escaped(f[i])]
           n == Len(frame)
           longer == Append(frame, c)
<1>1. /\ longer \in Seq(Byte) /\ Len(longer) = n + 1 /\ longer[n + 1] = c
      /\ \A i \in 1 .. n : longer[i] = frame[i]
      /\ n \in Nat
  BY AppendProperties
<1>2. E(frame) \in Seq(Seq(Byte)) /\ E(longer) \in Seq(Seq(Byte)) /\ Escaped(c) \in Seq(Byte)
  BY <1>1, EscapedBytes, EscapedType
<1>3. DOMAIN frame = 1 .. n /\ DOMAIN longer = 1 .. n + 1
  <2> HIDE DEF longer
  <2> QED  BY <1>1, LenProperties
<1>4. /\ Len(E(frame)) = n /\ Len(E(longer)) = n + 1
      /\ \A i \in 1 .. n : E(frame)[i] = Escaped(frame[i])
      /\ \A i \in 1 .. n + 1 : E(longer)[i] = Escaped(longer[i])
  <2> HIDE DEF longer, n
  <2>1. Len(E(frame)) = n /\ Len(E(longer)) = n + 1
    BY <1>1, <1>2, <1>3, LenProperties
  <2> QED  BY <2>1, <1>3
<1>5. Append(E(frame), Escaped(c)) = E(longer)
  <2> DEFINE e == E(frame)
             x == Escaped(c)
  <2>1. /\ Append(e, x) \in Seq(Seq(Byte)) /\ Len(Append(e, x)) = n + 1
        /\ \A i \in 1 .. n : Append(e, x)[i] = e[i]
        /\ Append(e, x)[n + 1] = x
    <3> HIDE DEF e, x
    <3>1. e \in Seq(Seq(Byte)) /\ x \in Seq(Byte) /\ Len(e) = n
      BY <1>2, <1>4 DEF e, x
    <3> QED  BY <3>1, AppendProperties
  <2>2. \A i \in 1 .. n + 1 : Append(e, x)[i] = E(longer)[i]
    <3> SUFFICES ASSUME NEW i \in 1 .. n + 1 PROVE Append(e, x)[i] = E(longer)[i]
      OBVIOUS
    <3>0. i \in 1 .. n \/ i = n + 1
      BY <1>1
    <3> HIDE DEF longer, n
    <3> QED  BY <2>1, <1>1, <1>4, <3>0
  <2> HIDE DEF e, x, E, longer, n
  <2>3. Append(e, x) \in Seq(Seq(Byte)) /\ E(longer) \in Seq(Seq(Byte))
    BY <2>1, <1>2
  <2>4. Len(Append(e, x)) = Len(E(longer)) /\ Len(E(longer)) = n + 1
    BY <2>1, <1>4
  <2>5. Append(e, x) = E(longer)
    BY <2>2, <2>3, <2>4, SeqEqual
  <2> QED  BY <2>5 DEF e, x
<1>6. FlattenSeq(Append(E(frame), Escaped(c))) = FlattenSeq(E(frame)) \o Escaped(c)
  <2> HIDE DEF E
  <2> QED  BY <1>2, FlattenAppend
<1>7. Body(longer) = FlattenSeq(E(longer)) /\ Body(frame) = FlattenSeq(E(frame))
  BY DEF Body
<1> HIDE DEF E
<1> QED  BY <1>5, <1>6, <1>7

-----------------------------------------------------------------------------
\* One end of the line: its state machine, its console, its network.
Bridge == {b \in [slip : SlipState, text : Seq(Byte), packets : Seq(Seq(Byte))] :
             Len(b.slip.buf) < Size}

\* What one byte does to it.
Taken(w, c, b) ==
    LET packet == Packet(c, b.slip)
        after  == slip_recv(c, b.slip)
    IN  [slip    |-> after,
         text    |-> IF packet = << >> /\ after.mode = 0 THEN Append(b.text, c) ELSE b.text,
         packets |-> b.packets \o Forwarded(w, packet, after)]

\* The receiver w as it is.
Here(w) == [slip |-> slip[w], text |-> text[w], packets |-> packets[w]]

\* The types of the variables, those of the history included.
TypeInv ==
    /\ line \in [Way -> Seq(Byte)]
    /\ slip \in [Way -> SlipState]
    /\ text \in [Way -> Seq(Byte)]
    /\ packets \in [Way -> Seq(Seq(Byte))]
    /\ \A w \in Way : Here(w) \in Bridge
    /\ sent \in [Way -> [text : Seq(TextBytes), frames : Seq(Frames)]]
    /\ losses \in 0 .. MaxLosses

\* slip_recv: the buffer never fills, so that the index stays inside it.
LEMMA RecvType ==
    ASSUME NEW c \in Byte, NEW s \in SlipState, Len(s.buf) < Size
    PROVE  /\ slip_recv(c, s) \in SlipState
           /\ Len(slip_recv(c, s).buf) < Size
           /\ Packet(c, s) \in Seq(Byte)
<1>1. s.buf \in Seq(Byte) /\ s.mode \in {0, 1} /\ Size \in Nat \ {0}
  BY BufferAssumption DEF SlipState
<1>2. << >> \in Seq(Byte) /\ Len(<< >>) < Size
  BY <1>1
<1>3. Stored(c, s) \in Seq(Byte)
  <2>1. "END" \in Byte /\ "ESC" \in Byte
    BY DEF Byte
  <2>2. \/ Stored(c, s) = <<"END">> \/ Stored(c, s) = <<"ESC">>
        \/ Stored(c, s) = << >> \/ Stored(c, s) = <<c>>
    BY DEF Stored
  <2>3. \A S : \A x \in S : <<x>> \in Seq(S)
    OBVIOUS
  <2> QED  BY <1>2, <2>1, <2>2, <2>3
<1>4. s.buf \o Stored(c, s) \in Seq(Byte)
  BY <1>1, <1>3, ConcatProperties
<1>5. Buffered(c, s) \in Seq(Byte) /\ Len(Buffered(c, s)) < Size
  <2>1. CASE Len(s.buf \o Stored(c, s)) >= Size
    BY <1>2, <2>1 DEF Buffered
  <2>2. CASE ~(Len(s.buf \o Stored(c, s)) >= Size)
    <3>1. Len(s.buf \o Stored(c, s)) \in Nat
      BY <1>4, LenProperties
    <3> QED  BY <1>1, <1>4, <2>2, <3>1 DEF Buffered
  <2> QED  BY <2>1, <2>2
<1> DEFINE buf  == IF c = "END" THEN << >> ELSE IF s.mode = 1 THEN Buffered(c, s) ELSE s.buf
           mode == IF c = "END" THEN 1 - s.mode ELSE s.mode
<1>6. buf \in Seq(Byte) /\ Len(buf) < Size /\ mode \in {0, 1}
  BY <1>1, <1>2, <1>5
<1>7. slip_recv(c, s) = [buf |-> buf, mode |-> mode, prev |-> c]
  BY DEF slip_recv
<1>8. c \in Byte \cup {"none"}
  OBVIOUS
<1>9. [buf |-> buf, mode |-> mode, prev |-> c] \in SlipState
  <2> HIDE DEF buf, mode
  <2> QED  BY <1>6, <1>8 DEF SlipState
<1>10. Packet(c, s) \in Seq(Byte)
  BY <1>1, <1>2 DEF Packet
<1> HIDE DEF buf, mode
<1> QED  BY <1>6, <1>7, <1>9, <1>10

\* A byte leaves the bridge a bridge, and its console and its network grow.
LEMMA TakenType ==
    ASSUME NEW w, NEW c \in Byte, NEW b \in Bridge
    PROVE  /\ Taken(w, c, b) \in Bridge
           /\ Taken(w, c, b).text \in {b.text, b.text \o <<c>>}
           /\ \E sq \in Seq(Seq(Byte)) : Taken(w, c, b).packets = b.packets \o sq
<1> DEFINE packet == Packet(c, b.slip)
           after  == slip_recv(c, b.slip)
           fwd    == Forwarded(w, packet, after)
           txt    == IF packet = << >> /\ after.mode = 0 THEN Append(b.text, c) ELSE b.text
<1>1. b.slip \in SlipState /\ b.text \in Seq(Byte) /\ b.packets \in Seq(Seq(Byte))
      /\ Len(b.slip.buf) < Size
  BY DEF Bridge
<1>2. after \in SlipState /\ Len(after.buf) < Size /\ packet \in Seq(Byte)
  BY <1>1, RecvType
<1>3. fwd \in Seq(Seq(Byte))
  <2>1. after.buf \in Seq(Byte)
    BY <1>2 DEF SlipState
  <2>2. fwd = << >> \/ fwd = <<packet>> \/ fwd = <<after.buf>>
    BY DEF Forwarded
  <2>3. \A S : << >> \in Seq(S) /\ \A x \in S : <<x>> \in Seq(S)
    OBVIOUS
  <2> HIDE DEF packet, after, fwd
  <2> QED  BY <1>2, <2>1, <2>2, <2>3
<1>4. Append(b.text, c) = b.text \o <<c>> /\ Append(b.text, c) \in Seq(Byte)
  BY <1>1, AppendIsConcat, AppendProperties
<1>5. txt \in Seq(Byte) /\ txt \in {b.text, b.text \o <<c>>}
  BY <1>1, <1>4
<1>6. b.packets \o fwd \in Seq(Seq(Byte))
  BY <1>1, <1>3, ConcatProperties
<1>7. Taken(w, c, b) = [slip |-> after, text |-> txt, packets |-> b.packets \o fwd]
  BY DEF Taken
<1> HIDE DEF packet, after, fwd, txt
<1>8. Taken(w, c, b) \in Bridge
  BY <1>2, <1>5, <1>6, <1>7 DEF Bridge
<1>9. Taken(w, c, b).text = txt /\ Taken(w, c, b).packets = b.packets \o fwd
  BY <1>7
<1> QED  BY <1>3, <1>5, <1>8, <1>9

\* What the types say of one receiver.
LEMMA HereType ==
    ASSUME TypeInv, NEW w \in Way
    PROVE  /\ Here(w) \in Bridge /\ line[w] \in Seq(Byte)
           /\ sent[w] \in [text : Seq(TextBytes), frames : Seq(Frames)]
           /\ sent[w].text \in Seq(Byte) /\ sent[w].frames \in Seq(Seq(Byte))
<1>1. Here(w) \in Bridge /\ line[w] \in Seq(Byte)
      /\ sent[w] \in [text : Seq(TextBytes), frames : Seq(Frames)]
  BY DEF TypeInv
<1>2. sent[w].text \in Seq(TextBytes) /\ sent[w].frames \in Seq(Frames)
  BY <1>1
<1>3. TextBytes \subseteq Byte /\ Frames \subseteq Seq(Byte)
  BY ItemAssumption
<1>4. sent[w].text \in Seq(Byte) /\ sent[w].frames \in Seq(Seq(Byte))
  BY <1>2, <1>3, SeqMonotonic
<1> QED  BY <1>1, <1>4

\* Receive: the receiver takes the first byte of its line; the other way rests.
LEMMA ReceiveTakes ==
    ASSUME TypeInv, NEW w \in Way, Receive(w)
    PROVE  /\ line[w] # << >> /\ Head(line[w]) \in Byte
           /\ line' = [line EXCEPT ![w] = Tail(@)]
           /\ slip' = [slip EXCEPT ![w] = Taken(w, Head(line[w]), Here(w)).slip]
           /\ text' = [text EXCEPT ![w] = Taken(w, Head(line[w]), Here(w)).text]
           /\ packets' = [packets EXCEPT ![w] = Taken(w, Head(line[w]), Here(w)).packets]
           /\ UNCHANGED <<sent, losses>>
<1> DEFINE c == Head(line[w])
           packet == Packet(c, slip[w])
           after  == slip_recv(c, slip[w])
<1>1. line[w] # << >> /\ line[w] \in Seq(Byte)
  BY DEF Receive, TypeInv
<1>2. c \in Byte
  BY <1>1, HeadTailProperties
<1>3. /\ slip' = [slip EXCEPT ![w] = after]
      /\ text' = IF packet = << >> /\ after.mode = 0
                 THEN [text EXCEPT ![w] = Append(@, c)] ELSE text
      /\ packets' = [packets EXCEPT ![w] = @ \o Forwarded(w, packet, after)]
      /\ line' = [line EXCEPT ![w] = Tail(@)]
      /\ UNCHANGED <<sent, losses>>
  BY DEF Receive
<1>4. /\ Taken(w, c, Here(w)).slip = after
      /\ Taken(w, c, Here(w)).text =
           IF packet = << >> /\ after.mode = 0 THEN Append(text[w], c) ELSE text[w]
      /\ Taken(w, c, Here(w)).packets = packets[w] \o Forwarded(w, packet, after)
  BY DEF Taken, Here
<1> DEFINE t == Taken(w, c, Here(w)).text
<1> HIDE DEF c, packet, after
<1>5. text' = [text EXCEPT ![w] = t]
  <2>1. text \in [Way -> Seq(Byte)]
    BY DEF TypeInv
  <2>2. CASE packet = << >> /\ after.mode = 0
    BY <1>3, <1>4, <2>2
  <2>3. CASE ~(packet = << >> /\ after.mode = 0)
    BY <1>3, <1>4, <2>1, <2>3
  <2> QED  BY <2>2, <2>3
<1>6. slip' = [slip EXCEPT ![w] = Taken(w, c, Here(w)).slip]
      /\ packets' = [packets EXCEPT ![w] = Taken(w, c, Here(w)).packets]
  BY <1>3, <1>4
<1> QED  BY <1>1, <1>2, <1>3, <1>5, <1>6 DEF c

\* Receive: how both receivers are afterwards.
LEMMA ReceiveHere ==
    ASSUME TypeInv, NEW w \in Way, Receive(w)
    PROVE  /\ Here(w)' = Taken(w, Head(line[w]), Here(w))
           /\ line'[w] = Tail(line[w])
           /\ \A v \in Way \ {w} : Here(v)' = Here(v) /\ line'[v] = line[v]
<1> DEFINE b == Taken(w, Head(line[w]), Here(w))
<1>1. /\ line' = [line EXCEPT ![w] = Tail(@)]
      /\ slip' = [slip EXCEPT ![w] = b.slip]
      /\ text' = [text EXCEPT ![w] = b.text]
      /\ packets' = [packets EXCEPT ![w] = b.packets]
  BY ReceiveTakes
<1>2. /\ DOMAIN line = Way /\ DOMAIN slip = Way /\ DOMAIN text = Way /\ DOMAIN packets = Way
  BY DEF TypeInv
<1>3. b = [slip |-> b.slip, text |-> b.text, packets |-> b.packets]
  BY DEF Taken
<1> HIDE DEF b
<1>4. /\ slip'[w] = b.slip /\ text'[w] = b.text /\ packets'[w] = b.packets
      /\ line'[w] = Tail(line[w])
  BY <1>1, <1>2
<1>5. Here(w)' = b
  BY <1>3, <1>4 DEF Here
<1>6. ASSUME NEW v \in Way \ {w}
      PROVE  Here(v)' = Here(v) /\ line'[v] = line[v]
  <2>1. slip'[v] = slip[v] /\ text'[v] = text[v] /\ packets'[v] = packets[v] /\ line'[v] = line[v]
    BY <1>1, <1>2
  <2> QED  BY <2>1 DEF Here
<1> QED  BY <1>4, <1>5, <1>6 DEF b

-----------------------------------------------------------------------------
\* The types hold of the initial state.
LEMMA TypeInit ==
    ASSUME Init
    PROVE  TypeInv
<1>1. slip_init \in SlipState /\ Len(slip_init.buf) = 0 /\ Size > 0
  BY BufferAssumption DEF slip_init, SlipState
<1>2. /\ line \in [Way -> Seq(Byte)] /\ slip \in [Way -> SlipState]
      /\ text \in [Way -> Seq(Byte)] /\ packets \in [Way -> Seq(Seq(Byte))]
      /\ sent \in [Way -> [text : Seq(TextBytes), frames : Seq(Frames)]]
  BY <1>1 DEF Init
<1>3. losses \in 0 .. MaxLosses
  BY ItemAssumption DEF Init
<1>4. ASSUME NEW w \in Way
      PROVE  Here(w) \in Bridge
  BY <1>1, <1>4 DEF Init, Here, Bridge
<1> QED  BY <1>2, <1>3, <1>4 DEF TypeInv

\* The bytes of a frame on the line.
LEMMA SendType ==
    ASSUME NEW frame \in Frames
    PROVE  /\ frame \in Seq(Byte) /\ frame # << >>
           /\ slip_send(frame) = <<"END">> \o Body(frame) \o <<"END">>
           /\ slip_send(frame) \in Seq(Byte)
<1>1. frame \in Seq(Byte) /\ frame # << >>
  BY ItemAssumption
<1>2. slip_send(frame) = <<"END">> \o Body(frame) \o <<"END">>
  BY DEF slip_send, Body
<1>3. <<"END">> \in Seq(Byte)
  <2>1. "END" \in Byte
    BY DEF Byte
  <2> HIDE DEF Byte
  <2>2. \A S : \A x \in S : <<x>> \in Seq(S)
    OBVIOUS
  <2> QED  BY <2>1, <2>2
<1>4. Body(frame) \in Seq(Byte)
  BY <1>1, EscapedBytes
<1>5. <<"END">> \o Body(frame) \in Seq(Byte)
  BY <1>3, <1>4, ConcatProperties
<1>6. (<<"END">> \o Body(frame)) \o <<"END">> \in Seq(Byte)
  BY <1>3, <1>5, ConcatProperties
<1> QED  BY <1>1, <1>2, <1>6

\* Nothing is received while either side sends or the line loses a byte.
LEMMA Resting ==
    ASSUME UNCHANGED <<slip, text, packets>>
    PROVE  \A v \in Way : Here(v)' = Here(v)
BY DEF Here

\* SendFrame: the line and the history afterwards.
LEMMA FrameSent ==
    ASSUME TypeInv, NEW w \in Way, NEW frame \in Frames, SendFrame(w, frame)
    PROVE  /\ UNCHANGED <<slip, text, packets, losses>>
           /\ line' = [line EXCEPT ![w] = @ \o slip_send(frame)]
           /\ line'[w] = line[w] \o slip_send(frame)
           /\ sent' = [sent EXCEPT ![w] = [sent[w] EXCEPT !.frames = Append(sent[w].frames, frame)]]
           /\ sent'[w].text = sent[w].text
           /\ sent'[w].frames = Append(sent[w].frames, frame)
           /\ \A v \in Way \ {w} : line'[v] = line[v] /\ sent'[v] = sent[v]
<1>1. /\ UNCHANGED <<slip, text, packets, losses>>
      /\ line' = [line EXCEPT ![w] = @ \o slip_send(frame)]
      /\ sent' = [sent EXCEPT ![w].frames = Append(@, frame)]
  BY DEF SendFrame
<1>2. /\ DOMAIN line = Way /\ DOMAIN sent = Way
      /\ sent[w] \in [text : Seq(TextBytes), frames : Seq(Frames)]
  BY DEF TypeInv
<1>3. sent' = [sent EXCEPT ![w] = [sent[w] EXCEPT !.frames = Append(sent[w].frames, frame)]]
  BY <1>1
<1>4. sent'[w] = [sent[w] EXCEPT !.frames = Append(sent[w].frames, frame)]
  BY <1>2, <1>3
<1>5. sent'[w].text = sent[w].text /\ sent'[w].frames = Append(sent[w].frames, frame)
  BY <1>2, <1>4
<1>6. \A v \in Way \ {w} : line'[v] = line[v] /\ sent'[v] = sent[v]
  BY <1>1, <1>2, <1>3
<1> QED  BY <1>1, <1>2, <1>3, <1>5, <1>6

\* SendText: the line and the history afterwards.
LEMMA TextSent ==
    ASSUME TypeInv, NEW w \in Way, NEW c \in TextBytes, SendText(w, c)
    PROVE  /\ UNCHANGED <<slip, text, packets, losses>>
           /\ line' = [line EXCEPT ![w] = Append(@, c)]
           /\ line'[w] = Append(line[w], c)
           /\ sent' = [sent EXCEPT ![w] = [sent[w] EXCEPT !.text = Append(sent[w].text, c)]]
           /\ sent'[w].text = Append(sent[w].text, c)
           /\ sent'[w].frames = sent[w].frames
           /\ \A v \in Way \ {w} : line'[v] = line[v] /\ sent'[v] = sent[v]
<1>1. /\ UNCHANGED <<slip, text, packets, losses>>
      /\ line' = [line EXCEPT ![w] = Append(@, c)]
      /\ sent' = [sent EXCEPT ![w].text = Append(@, c)]
  BY DEF SendText
<1>2. /\ DOMAIN line = Way /\ DOMAIN sent = Way
      /\ sent[w] \in [text : Seq(TextBytes), frames : Seq(Frames)]
  BY DEF TypeInv
<1>3. sent' = [sent EXCEPT ![w] = [sent[w] EXCEPT !.text = Append(sent[w].text, c)]]
  BY <1>1
<1>4. sent'[w] = [sent[w] EXCEPT !.text = Append(sent[w].text, c)]
  BY <1>2, <1>3
<1>5. sent'[w].text = Append(sent[w].text, c) /\ sent'[w].frames = sent[w].frames
  BY <1>2, <1>4
<1>6. \A v \in Way \ {w} : line'[v] = line[v] /\ sent'[v] = sent[v]
  BY <1>1, <1>2, <1>3
<1> QED  BY <1>1, <1>2, <1>3, <1>5, <1>6

\* Lose: the line is one byte shorter; everything else stays.
LEMMA ByteLost ==
    ASSUME TypeInv, NEW w \in Way, Lose(w)
    PROVE  /\ UNCHANGED <<slip, text, packets, sent>>
           /\ losses' \in 1 .. MaxLosses
           /\ \E i \in 1 .. Len(line[w]) :
                /\ line[w][i] \in Lossable
                /\ line' = [line EXCEPT ![w] = RemoveAt(@, i)]
                /\ line'[w] = RemoveAt(line[w], i)
           /\ \A v \in Way \ {w} : line'[v] = line[v]
<1>1. /\ UNCHANGED <<slip, text, packets, sent>>
      /\ losses < MaxLosses /\ losses' = losses + 1
  BY DEF Lose
<1>2. PICK i \in DOMAIN line[w] :
        line[w][i] \in Lossable /\ line' = [line EXCEPT ![w] = RemoveAt(@, i)]
  BY DEF Lose
<1>3. DOMAIN line = Way /\ line[w] \in Seq(Byte) /\ losses \in 0 .. MaxLosses /\ MaxLosses \in Nat
  BY ItemAssumption DEF TypeInv
<1>4. losses' \in 1 .. MaxLosses
  BY <1>1, <1>3
<1>5. i \in 1 .. Len(line[w])
  BY <1>3, LenProperties
<1>6. line'[w] = RemoveAt(line[w], i) /\ \A v \in Way \ {w} : line'[v] = line[v]
  BY <1>2, <1>3
<1> QED  BY <1>1, <1>2, <1>4, <1>5, <1>6

\* slip_send behind what the line holds: END, the bytes of the frame, END.
LEMMA FramedLine ==
    ASSUME NEW bytes \in Seq(Byte), NEW frame \in Frames
    PROVE  Append(Append(bytes, "END") \o Body(frame), "END") = bytes \o slip_send(frame)
<1> DEFINE e == <<"END">>
           x == Body(frame)
           opened == Append(bytes, "END")
           whole == opened \o x
<1>0. "END" \in Byte
  BY DEF Byte
<1>1. e \in Seq(Byte) /\ x \in Seq(Byte) /\ slip_send(frame) = (e \o x) \o e
  <2>1. \A S : \A y \in S : <<y>> \in Seq(S)
    OBVIOUS
  <2>2. x \in Seq(Byte) /\ slip_send(frame) = (e \o x) \o e
    BY SendType, EscapedBytes
  <2> QED  BY <1>0, <2>1, <2>2
<1>2. opened = bytes \o e /\ opened \in Seq(Byte)
  BY <1>0, AppendIsConcat, AppendProperties
<1> HIDE DEF opened
<1>3. whole \in Seq(Byte)
  BY <1>1, <1>2, ConcatProperties
<1>4. Append(whole, "END") = whole \o e
  BY <1>0, <1>3, AppendIsConcat
<1> HIDE DEF e, x
<1>5. \A y, z \in Seq(Byte) : y \o z \in Seq(Byte)
  BY ConcatProperties
<1>6. ((bytes \o e) \o x) \o e = (bytes \o (e \o x)) \o e
  <2>1. Regroups(bytes, e, x)
    BY <1>1, ConcatRegroups, Zenon
  <2> QED  BY <2>1, Zenon DEF Regroups
<1>7. (bytes \o (e \o x)) \o e = bytes \o ((e \o x) \o e)
  <2>1. e \o x \in Seq(Byte)
    BY <1>1, <1>5
  <2>2. Regroups(bytes, e \o x, e)
    BY <1>1, <2>1, ConcatRegroups, Zenon
  <2> QED  BY <2>2, Zenon DEF Regroups
<1> QED  BY <1>1, <1>2, <1>4, <1>6, <1>7 DEF opened, x

\* Every step keeps the types.
LEMMA TypeNext ==
    ASSUME TypeInv, [Next]_vars
    PROVE  TypeInv'
<1>1. /\ line \in [Way -> Seq(Byte)] /\ slip \in [Way -> SlipState]
      /\ text \in [Way -> Seq(Byte)] /\ packets \in [Way -> Seq(Seq(Byte))]
      /\ \A w \in Way : Here(w) \in Bridge
      /\ sent \in [Way -> [text : Seq(TextBytes), frames : Seq(Frames)]]
      /\ losses \in 0 .. MaxLosses
  BY DEF TypeInv
<1>2. CASE UNCHANGED vars
  <2>1. \A v \in Way : Here(v)' = Here(v)
    BY <1>2, Resting DEF vars
  <2> QED  BY <1>1, <1>2, <2>1 DEF TypeInv, vars
<1>3. ASSUME NEW w \in Way, NEW frame \in Frames, SendFrame(w, frame)
      PROVE  TypeInv'
  <2>1. /\ UNCHANGED <<slip, text, packets, losses>>
        /\ line' = [line EXCEPT ![w] = @ \o slip_send(frame)]
        /\ sent' = [sent EXCEPT ![w] = [sent[w] EXCEPT !.frames = Append(sent[w].frames, frame)]]
    BY <1>3, FrameSent
  <2>2. line[w] \o slip_send(frame) \in Seq(Byte)
    BY <1>1, SendType, ConcatProperties
  <2>3. sent[w] \in [text : Seq(TextBytes), frames : Seq(Frames)]
    BY <1>1
  <2>4. Append(sent[w].frames, frame) \in Seq(Frames)
    BY <2>3, AppendProperties
  <2>5. [sent[w] EXCEPT !.frames = Append(sent[w].frames, frame)]
          \in [text : Seq(TextBytes), frames : Seq(Frames)]
    BY <2>3, <2>4
  <2>6. line' \in [Way -> Seq(Byte)] /\ sent' \in [Way -> [text : Seq(TextBytes), frames : Seq(Frames)]]
    BY <1>1, <2>1, <2>2, <2>5
  <2>7. \A v \in Way : Here(v)' = Here(v)
    BY <2>1, Resting
  <2> QED  BY <1>1, <2>1, <2>6, <2>7 DEF TypeInv
<1>4. ASSUME NEW w \in Way, NEW c \in TextBytes, SendText(w, c)
      PROVE  TypeInv'
  <2>1. /\ UNCHANGED <<slip, text, packets, losses>>
        /\ line' = [line EXCEPT ![w] = Append(@, c)]
        /\ sent' = [sent EXCEPT ![w] = [sent[w] EXCEPT !.text = Append(sent[w].text, c)]]
    BY <1>4, TextSent
  <2>2. Append(line[w], c) \in Seq(Byte)
    BY <1>1, ItemAssumption, AppendProperties
  <2>3. sent[w] \in [text : Seq(TextBytes), frames : Seq(Frames)]
    BY <1>1
  <2>4. Append(sent[w].text, c) \in Seq(TextBytes)
    BY <2>3, AppendProperties
  <2>5. [sent[w] EXCEPT !.text = Append(sent[w].text, c)]
          \in [text : Seq(TextBytes), frames : Seq(Frames)]
    BY <2>3, <2>4
  <2>6. line' \in [Way -> Seq(Byte)] /\ sent' \in [Way -> [text : Seq(TextBytes), frames : Seq(Frames)]]
    BY <1>1, <2>1, <2>2, <2>5
  <2>7. \A v \in Way : Here(v)' = Here(v)
    BY <2>1, Resting
  <2> QED  BY <1>1, <2>1, <2>6, <2>7 DEF TypeInv
<1>5. ASSUME NEW w \in Way, Receive(w)
      PROVE  TypeInv'
  <2> DEFINE b == Taken(w, Head(line[w]), Here(w))
  <2>1. /\ line[w] # << >> /\ Head(line[w]) \in Byte
        /\ line' = [line EXCEPT ![w] = Tail(@)]
        /\ slip' = [slip EXCEPT ![w] = b.slip]
        /\ text' = [text EXCEPT ![w] = b.text]
        /\ packets' = [packets EXCEPT ![w] = b.packets]
        /\ UNCHANGED <<sent, losses>>
    BY <1>5, ReceiveTakes
  <2>2. b \in Bridge
    BY <1>1, <2>1, TakenType
  <2>3. b.slip \in SlipState /\ b.text \in Seq(Byte) /\ b.packets \in Seq(Seq(Byte))
    <3> HIDE DEF b
    <3> QED  BY <2>2 DEF Bridge
  <2>4. Tail(line[w]) \in Seq(Byte)
    BY <1>1, <2>1, HeadTailProperties
  <2>5. Here(w)' = b /\ \A v \in Way \ {w} : Here(v)' = Here(v)
    BY <1>5, ReceiveHere
  <2> HIDE DEF b
  <2>6. \A v \in Way : Here(v)' \in Bridge
    BY <1>1, <2>2, <2>5
  <2>7. /\ line' \in [Way -> Seq(Byte)] /\ slip' \in [Way -> SlipState]
        /\ text' \in [Way -> Seq(Byte)] /\ packets' \in [Way -> Seq(Seq(Byte))]
    BY <1>1, <2>1, <2>3, <2>4
  <2> QED  BY <1>1, <2>1, <2>6, <2>7 DEF TypeInv
<1>6. ASSUME NEW w \in Way, Lose(w)
      PROVE  TypeInv'
  <2>1. UNCHANGED <<slip, text, packets, sent>> /\ losses' \in 1 .. MaxLosses
    BY <1>6, ByteLost
  <2>2. PICK i \in 1 .. Len(line[w]) : line' = [line EXCEPT ![w] = RemoveAt(@, i)]
    BY <1>6, ByteLost
  <2>3. RemoveAt(line[w], i) \in Seq(Byte)
    BY <1>1, RemoveAtProperties
  <2>4. line' \in [Way -> Seq(Byte)]
    BY <1>1, <2>2, <2>3
  <2>5. losses' \in 0 .. MaxLosses
    BY <2>1
  <2>6. \A v \in Way : Here(v)' = Here(v)
    BY <2>1, Resting
  <2> QED  BY <1>1, <2>1, <2>4, <2>5, <2>6 DEF TypeInv
<1> QED  BY <1>2, <1>3, <1>4, <1>5, <1>6 DEF Next

\* The types, those of the history included, hold in every state.
LEMMA AlwaysTyped == Spec => []TypeInv
<1>1. Init => TypeInv
  BY TypeInit
<1>2. TypeInv /\ [Next]_vars => TypeInv'
  BY TypeNext
<1> QED  BY <1>1, <1>2, PTL DEF Spec

\* Whatever bytes arrive, lost ones and overlong frames included, every variable keeps
\* its type and slip_recv never writes outside its buffer, whatever its size.
THEOREM TypeCorrect == Spec => []TypeOK
<1>1. TypeInv => TypeOK
  <2> SUFFICES ASSUME TypeInv PROVE TypeOK
    OBVIOUS
  <2>1. ASSUME NEW w \in Way
        PROVE  Len(slip[w].buf) < Size
    BY DEF TypeInv, Here, Bridge
  <2> QED  BY <2>1 DEF TypeInv, TypeOK
<1> QED  BY <1>1, AlwaysTyped, PTL

-----------------------------------------------------------------------------
\* Every byte of a line arrives in order: the bridge a becomes b.
Runs(w, a, bytes, b) ==
    \E r \in [1 .. Len(bytes) + 1 -> Bridge] :
        /\ r[1] = a /\ r[Len(bytes) + 1] = b
        /\ \A i \in 1 .. Len(bytes) : r[i + 1] = Taken(w, bytes[i], r[i])

\* No byte, no change.
LEMMA RunNone ==
    ASSUME NEW w, NEW a \in Bridge, NEW b
    PROVE  Runs(w, a, << >>, b) <=> b = a
<1>1. Len(<< >>) = 0
  OBVIOUS
<1>2. 1 .. Len(<< >>) = {} /\ 1 .. Len(<< >>) + 1 = {1}
  OBVIOUS
<1>3. ASSUME Runs(w, a, << >>, b)
      PROVE  b = a
  BY <1>1, <1>3 DEF Runs
<1>4. ASSUME b = a
      PROVE  Runs(w, a, << >>, b)
  <2> DEFINE r == [i \in {1} |-> a]
  <2>1. r \in [1 .. Len(<< >>) + 1 -> Bridge] /\ r[1] = a
    BY <1>2
  <2> HIDE DEF r
  <2> QED  BY <1>1, <1>2, <1>4, <2>1 DEF Runs
<1> QED  BY <1>3, <1>4

\* One byte more at the end.
LEMMA RunMore ==
    ASSUME NEW w, NEW a \in Bridge, NEW bytes \in Seq(Byte), NEW b \in Bridge, NEW c \in Byte,
           Runs(w, a, bytes, b)
    PROVE  Runs(w, a, Append(bytes, c), Taken(w, c, b))
<1> DEFINE n == Len(bytes)
           longer == Append(bytes, c)
           last == Taken(w, c, b)
<1>1. PICK r \in [1 .. n + 1 -> Bridge] :
        /\ r[1] = a /\ r[n + 1] = b
        /\ \A i \in 1 .. n : r[i + 1] = Taken(w, bytes[i], r[i])
  BY DEF Runs
<1>2. /\ n \in Nat /\ Len(longer) = n + 1 /\ longer[n + 1] = c
      /\ \A i \in 1 .. n : longer[i] = bytes[i]
  BY AppendProperties
<1>3. last \in Bridge
  BY TakenType
<1> HIDE DEF n, longer, last
<1> DEFINE q == [i \in 1 .. n + 2 |-> IF i <= n + 1 THEN r[i] ELSE last]
<1>4. q \in [1 .. n + 2 -> Bridge]
  <2> SUFFICES ASSUME NEW i \in 1 .. n + 2 PROVE q[i] \in Bridge
    OBVIOUS
  <2>1. i \in 1 .. n + 1 \/ ~(i <= n + 1)
    BY <1>2
  <2> QED  BY <1>1, <1>3, <2>1
<1>5. q[1] = a /\ q[n + 2] = last
  <2>1. 1 \in 1 .. n + 2 /\ 1 <= n + 1 /\ n + 2 \in 1 .. n + 2 /\ ~(n + 2 <= n + 1)
    BY <1>2
  <2> QED  BY <2>1, <1>1
<1>6. ASSUME NEW i \in 1 .. n + 1
      PROVE  q[i + 1] = Taken(w, longer[i], q[i])
  <2>1. i \in 1 .. n + 2 /\ i <= n + 1 /\ i + 1 \in 1 .. n + 2 /\ q[i] = r[i]
    BY <1>2
  <2>2. CASE i <= n
    <3>1. i \in 1 .. n /\ i + 1 <= n + 1
      BY <1>2, <2>2
    <3> QED  BY <2>1, <3>1, <1>1, <1>2
  <2>3. CASE ~(i <= n)
    <3>1. i = n + 1 /\ ~(i + 1 <= n + 1)
      BY <1>2, <2>3
    <3> QED  BY <2>1, <3>1, <1>1, <1>2 DEF last
  <2> QED  BY <2>2, <2>3
<1> HIDE DEF q
<1>7. (n + 1) + 1 = n + 2
  BY <1>2
<1> QED  BY <1>2, <1>4, <1>5, <1>6, <1>7, SMTT(60) DEF Runs, longer, last

\* One byte less at the beginning.
LEMMA RunTail ==
    ASSUME NEW w, NEW a \in Bridge, NEW bytes \in Seq(Byte), NEW b \in Bridge,
           bytes # << >>, Runs(w, a, bytes, b)
    PROVE  Runs(w, Taken(w, Head(bytes), a), Tail(bytes), b)
<1> DEFINE n == Len(bytes)
           rest == Tail(bytes)
<1>1. PICK r \in [1 .. n + 1 -> Bridge] :
        /\ r[1] = a /\ r[n + 1] = b
        /\ \A i \in 1 .. n : r[i + 1] = Taken(w, bytes[i], r[i])
  BY DEF Runs
<1>2. /\ n \in Nat /\ n >= 1 /\ Len(rest) = n - 1 /\ Head(bytes) = bytes[1]
      /\ \A i \in 1 .. n - 1 : rest[i] = bytes[i + 1]
  OBVIOUS
<1> HIDE DEF n, rest
<1> DEFINE q == [i \in 1 .. n |-> r[i + 1]]
<1>3. \A i \in 1 .. n : i + 1 \in 1 .. n + 1
  BY <1>2
<1>4. q \in [1 .. n -> Bridge]
  BY <1>1, <1>3
<1>5. 1 \in 1 .. n /\ n \in 1 .. n /\ 1 + 1 \in 1 .. n + 1
  BY <1>2
<1>6. q[1] = Taken(w, Head(bytes), a) /\ q[n] = b
  BY <1>1, <1>2, <1>5
<1>7. ASSUME NEW i \in 1 .. n - 1
      PROVE  q[i + 1] = Taken(w, rest[i], q[i])
  <2>1. i \in 1 .. n /\ i + 1 \in 1 .. n
    BY <1>2
  <2> QED  BY <1>1, <1>2, <2>1
<1> HIDE DEF q
<1>8. Len(rest) + 1 = n
  BY <1>2
<1> QED  BY <1>2, <1>4, <1>6, <1>7, <1>8 DEF Runs, rest

\* What a console and a network have, they keep.
LEMMA RunPrefix ==
    ASSUME NEW w, NEW a \in Bridge, NEW bytes \in Seq(Byte), NEW b, Runs(w, a, bytes, b)
    PROVE  IsPrefix(a.text, b.text) /\ IsPrefix(a.packets, b.packets)
<1> DEFINE n == Len(bytes)
<1>1. PICK r \in [1 .. n + 1 -> Bridge] :
        /\ r[1] = a /\ r[n + 1] = b
        /\ \A i \in 1 .. n : r[i + 1] = Taken(w, bytes[i], r[i])
  BY DEF Runs
<1>2. n \in Nat /\ \A i \in 1 .. n : bytes[i] \in Byte
  BY LenProperties, ElementOfSeq
<1> DEFINE Grown(c, d) == IsPrefix(c.text, d.text) /\ IsPrefix(c.packets, d.packets)
           U == {m \in Nat : m <= n => Grown(a, r[m + 1])}
<1> HIDE DEF n
<1>3. a.text \in Seq(Byte) /\ a.packets \in Seq(Seq(Byte))
  BY DEF Bridge
<1>4. 0 \in U
  <2>1. Grown(a, a)
    BY <1>3, PrefixSelf
  <2> HIDE DEF Grown
  <2> QED  BY <1>1, <2>1
<1>5. ASSUME NEW m \in Nat, m \in U PROVE m + 1 \in U
  <2> SUFFICES ASSUME m + 1 <= n PROVE Grown(a, r[(m + 1) + 1])
    BY DEF U
  <2> DEFINE d == r[m + 1]
             e == Taken(w, bytes[m + 1], d)
  <2>1. m + 1 \in 1 .. n /\ m + 1 \in 1 .. n + 1 /\ m <= n
    BY <1>2
  <2>2. d \in Bridge /\ r[(m + 1) + 1] = e /\ Grown(a, d)
    BY <1>1, <1>5, <2>1
  <2> HIDE DEF d, e
  <2>3. d.text \in Seq(Byte) /\ d.packets \in Seq(Seq(Byte))
    BY <2>2 DEF Bridge
  <2>4. e.text \in {d.text, d.text \o <<bytes[m + 1]>>}
        /\ \E sq \in Seq(Seq(Byte)) : e.packets = d.packets \o sq
    BY <1>2, <2>1, <2>2, TakenType DEF e
  <2>5. IsPrefix(a.text, e.text)
    <3>1. <<bytes[m + 1]>> \in Seq(Byte)
      BY <1>2, <2>1
    <3>2. IsPrefix(a.text, d.text \o <<bytes[m + 1]>>)
      BY <1>3, <2>2, <2>3, <3>1, PrefixLonger
    <3> QED  BY <2>2, <2>4, <3>2
  <2>6. IsPrefix(a.packets, e.packets)
    BY <1>3, <2>2, <2>3, <2>4, PrefixLonger
  <2> QED  BY <2>2, <2>5, <2>6
<1>6. n \in U
  <2>1. Nat \subseteq U
    <3> HIDE DEF U
    <3> QED  BY <1>4, <1>5, SetInduction
  <2> QED  BY <1>2, <2>1
<1>7. Grown(a, r[n + 1])
  <2> HIDE DEF Grown
  <2> QED  BY <1>2, <1>6
<1> QED  BY <1>1, <1>7

\* The bridge b in the middle of a frame: buf has arrived, p was the last byte.
Network(buf, p) == [buf |-> buf, mode |-> 1, prev |-> p]
Inside(b, buf, p) ==
    [slip |-> Network(buf, p), text |-> b.text, packets |-> b.packets]

\* In the middle of a frame that fits, a bridge is a bridge.
LEMMA InsideType ==
    ASSUME NEW b \in Bridge, NEW buf \in Seq(Byte), Len(buf) < Size, NEW p \in Byte
    PROVE  Inside(b, buf, p) \in Bridge
<1>1. Network(buf, p) \in SlipState
  <2>1. p \in Byte \cup {"none"} /\ 1 \in {0, 1}
    OBVIOUS
  <2> QED  BY <2>1 DEF SlipState, Network
<1>2. b.text \in Seq(Byte) /\ b.packets \in Seq(Seq(Byte))
  BY DEF Bridge
<1>3. Network(buf, p).buf = buf
  BY DEF Network
<1> QED  BY <1>1, <1>2, <1>3 DEF Inside, Bridge

\* The bytes that are buffered after c has arrived behind p.
Grows(longer, buf, p, c) == longer = buf \o Stored(c, Network(buf, p))

\* slip_recv in network mode: a byte that is not END.
LEMMA InsideTaken ==
    ASSUME NEW w, NEW b \in Bridge, NEW buf \in Seq(Byte), NEW p \in Byte, NEW c \in Byte,
           c # "END", NEW longer \in Seq(Byte), Len(longer) < Size,
           Grows(longer, buf, p, c)
    PROVE  Taken(w, c, Inside(b, buf, p)) = Inside(b, longer, c)
<1> DEFINE s == Network(buf, p)
<1>1. s.buf = buf /\ s.mode = 1 /\ buf \o Stored(c, s) = longer
  BY DEF Network, Grows
<1> HIDE DEF s
<1>2. Size \in Nat /\ Len(longer) \in Nat
  BY LenProperties, BufferAssumption
<1>3. Buffered(c, s) = longer
  <2>1. ~(Len(longer) >= Size)
    BY <1>2
  <2> QED  BY <1>1, <2>1 DEF Buffered
<1>4. slip_recv(c, s) = [buf |-> longer, mode |-> 1, prev |-> c]
  BY <1>1, <1>3 DEF slip_recv
<1>5. Packet(c, s) = << >>
  BY DEF Packet
<1>6. Forwarded(w, << >>, slip_recv(c, s)) = << >>
  BY DEF Forwarded
<1>7. b.packets \o << >> = b.packets
  <2>1. b.packets \in Seq(Seq(Byte))
    BY DEF Bridge
  <2> QED  BY <2>1
<1>8. /\ Inside(b, buf, p).slip = s /\ Inside(b, buf, p).text = b.text
      /\ Inside(b, buf, p).packets = b.packets
  BY DEF Inside, s
<1>9. slip_recv(c, s).mode # 0
  BY <1>4
<1>10. Taken(w, c, Inside(b, buf, p)) =
         [slip |-> slip_recv(c, s), text |-> b.text, packets |-> b.packets]
  BY <1>5, <1>6, <1>7, <1>8, <1>9 DEF Taken
<1>11. slip_recv(c, s) = Network(longer, c)
  BY <1>4 DEF Network
<1> QED  BY <1>10, <1>11 DEF Inside

\* One byte of a frame, escaped, adds just that byte.
LEMMA ByteRun ==
    ASSUME NEW w, NEW a \in Bridge, NEW bytes \in Seq(Byte), NEW b \in Bridge,
           NEW buf \in Seq(Byte), NEW p \in Byte, p # "ESC", NEW c \in Byte, Len(buf) + 1 < Size,
           Runs(w, a, bytes, Inside(b, buf, p))
    PROVE  \E q \in Byte : q # "ESC" /\ Runs(w, a, bytes \o Escaped(c), Inside(b, Append(buf, c), q))
<1>0. "END" \in Byte /\ "ESC" \in Byte /\ "ESC_END" \in Byte /\ "ESC_ESC" \in Byte
  BY DEF Byte
<1> DEFINE longer == buf \o <<c>>
<1>1. /\ Size \in Nat /\ Len(buf) \in Nat /\ Len(buf) < Size
      /\ buf \o << >> = buf /\ << >> \in Seq(Byte) /\ Append(buf, c) = longer
      /\ Len(longer) < Size /\ longer \in Seq(Byte)
  <2>1. Size \in Nat /\ Len(buf) \in Nat
    BY BufferAssumption, LenProperties
  <2>2. buf \o << >> = buf /\ << >> \in Seq(Byte) /\ Append(buf, c) = buf \o <<c>>
        /\ <<c>> \in Seq(Byte) /\ Len(buf \o <<c>>) = Len(buf) + 1 /\ buf \o <<c>> \in Seq(Byte)
    OBVIOUS
  <2> QED  BY <2>1, <2>2
<1> HIDE DEF longer
<1>2. Inside(b, buf, p) \in Bridge
  BY <1>1, InsideType
<1>3. ASSUME NEW e \in {"ESC_END", "ESC_ESC"},
             Escaped(c) = <<"ESC", e>>,
             \A s : s.prev = "ESC" => Stored(e, s) = <<c>>
      PROVE  Runs(w, a, bytes \o Escaped(c), Inside(b, Append(buf, c), e))
  <2>0. e \in Byte /\ e # "END"
    BY <1>0
  <2>1. Stored("ESC", Network(buf, p)) = << >>
    BY DEF Stored, Network
  <2>2. Taken(w, "ESC", Inside(b, buf, p)) = Inside(b, buf, "ESC")
    <3>1. Grows(buf, buf, p, "ESC")
      BY <1>1, <2>1 DEF Grows
    <3> QED  BY <1>0, <1>1, <3>1, InsideTaken
  <2>3. Runs(w, a, Append(bytes, "ESC"), Inside(b, buf, "ESC"))
    BY <1>0, <1>1, <1>2, <2>2, RunMore
  <2>4. Stored(e, Network(buf, "ESC")) = <<c>>
    BY <1>3 DEF Network
  <2>5. Taken(w, e, Inside(b, buf, "ESC")) = Inside(b, longer, e)
    <3>1. Grows(longer, buf, "ESC", e)
      BY <2>4 DEF longer, Grows
    <3> QED  BY <1>0, <1>1, <2>0, <3>1, InsideTaken
  <2>6. Inside(b, buf, "ESC") \in Bridge /\ Append(bytes, "ESC") \in Seq(Byte)
    BY <1>0, <1>1, InsideType, AppendProperties
  <2>7. Runs(w, a, Append(Append(bytes, "ESC"), e), Inside(b, longer, e))
    BY <2>0, <2>3, <2>5, <2>6, RunMore
  <2>8. Append(Append(bytes, "ESC"), e) = bytes \o <<"ESC", e>>
    <3> HIDE DEF Byte
    <3> QED  BY <1>0, <2>0
  <2> QED  BY <1>1, <1>3, <2>7, <2>8
<1>4. CASE c = "END"
  <2>1. Escaped(c) = <<"ESC", "ESC_END">>
    BY <1>4 DEF Escaped
  <2>2. \A s : s.prev = "ESC" => Stored("ESC_END", s) = <<c>>
    BY <1>4 DEF Stored
  <2> QED  BY <1>0, <1>3, <2>1, <2>2
<1>5. CASE c = "ESC"
  <2>1. Escaped(c) = <<"ESC", "ESC_ESC">>
    BY <1>5 DEF Escaped
  <2>2. \A s : s.prev = "ESC" => Stored("ESC_ESC", s) = <<c>>
    BY <1>5 DEF Stored
  <2> QED  BY <1>0, <1>3, <2>1, <2>2
<1>6. CASE c # "END" /\ c # "ESC"
  <2>1. Escaped(c) = <<c>>
    BY <1>6 DEF Escaped
  <2>2. Stored(c, Network(buf, p)) = <<c>>
    BY <1>6 DEF Stored, Network
  <2>3. Taken(w, c, Inside(b, buf, p)) = Inside(b, longer, c)
    <3>1. Grows(longer, buf, p, c)
      BY <2>2 DEF longer, Grows
    <3> QED  BY <1>1, <1>6, <3>1, InsideTaken
  <2>4. Runs(w, a, Append(bytes, c), Inside(b, longer, c))
    BY <1>2, <2>3, RunMore
  <2>5. Append(bytes, c) = bytes \o <<c>>
    BY AppendIsConcat
  <2> QED  BY <1>1, <1>6, <2>1, <2>4, <2>5
<1> QED  BY <1>4, <1>5, <1>6

\* A bridge between two frames: p was the last byte, t the text and f the frames so far.
Outside(p, t, f) ==
    [slip |-> [buf |-> << >>, mode |-> 0, prev |-> p], text |-> t, packets |-> f]

\* A whole frame that fits the buffer adds just that frame to what the network gets.
LEMMA FrameRun ==
    ASSUME Tool = "slipterm",
           NEW w, NEW a \in Bridge, NEW bytes \in Seq(Byte), NEW b \in Bridge,
           b.slip.buf = << >>, b.slip.mode = 0, NEW frame \in Frames, Len(frame) < Size,
           Runs(w, a, bytes, b)
    PROVE  Runs(w, a, bytes \o slip_send(frame),
                Outside("END", b.text, Append(b.packets, frame)))
<1>0. "END" \in Byte
  BY DEF Byte
<1>1. /\ frame \in Seq(Byte) /\ frame # << >>
      /\ slip_send(frame) = <<"END">> \o Body(frame) \o <<"END">>
  BY SendType
<1>2. Size \in Nat \ {0} /\ Len(frame) \in Nat
  BY <1>1, BufferAssumption, LenProperties
<1>3. /\ b.slip \in SlipState /\ b.text \in Seq(Byte) /\ b.packets \in Seq(Seq(Byte))
  BY DEF Bridge
<1>4. Taken(w, "END", b) = Inside(b, << >>, "END")
  <2>1. slip_recv("END", b.slip) = [buf |-> << >>, mode |-> 1, prev |-> "END"]
    BY DEF slip_recv
  <2>2. Packet("END", b.slip) = << >>
    BY DEF Packet
  <2>3. Forwarded(w, << >>, slip_recv("END", b.slip)) = << >>
    BY DEF Forwarded
  <2>4. b.packets \o << >> = b.packets
    BY <1>3
  <2>5. slip_recv("END", b.slip).mode # 0
    BY <2>1
  <2>6. Taken(w, "END", b) =
          [slip |-> slip_recv("END", b.slip), text |-> b.text, packets |-> b.packets]
    BY <2>2, <2>3, <2>4, <2>5 DEF Taken
  <2> QED  BY <2>1, <2>6 DEF Inside, Network
<1> DEFINE opened == Append(bytes, "END")
           Part(n) == SubSeq(frame, 1, n)
           Arrived(n) == \E p \in Byte : p # "ESC" /\ Runs(w, a, opened \o Body(Part(n)), Inside(b, Part(n), p))
           U == {n \in Nat : n <= Len(frame) => Arrived(n)}
<1>5. opened \in Seq(Byte) /\ Runs(w, a, opened, Inside(b, << >>, "END"))
  BY <1>0, <1>4, RunMore, AppendProperties
<1> HIDE DEF opened
<1>6. 0 \in U
  <2>1. \A x : SubSeq(x, 1, 0) = << >>
    BY SubSeqEmpty
  <2>2. Part(0) = << >>
    BY <2>1
  <2>3. opened \o << >> = opened
    BY <1>5
  <2>4. "END" # "ESC"
    OBVIOUS
  <2>5. Arrived(0)
    <3> HIDE DEF Part
    <3> QED  BY <1>0, <1>5, <2>2, <2>3, <2>4, BodyEmpty
  <2> HIDE DEF Arrived
  <2> QED  BY <2>5
<1>7. ASSUME NEW n \in Nat, n \in U PROVE n + 1 \in U
  <2> SUFFICES ASSUME n + 1 <= Len(frame) PROVE Arrived(n + 1)
    BY DEF U
  <2> DEFINE c == frame[n + 1]
             part == Part(n)
  <2>1. n + 1 \in 1 .. Len(frame) /\ n <= Len(frame)
    BY <1>2
  <2>2. c \in Byte
    BY <1>1, <2>1, ElementOfSeq
  <2>3. part \in Seq(Byte) /\ Len(part) = n /\ Part(n + 1) = Append(part, c)
    BY <1>1, <1>2, <2>1
  <2>4. Arrived(n)
    <3> HIDE DEF Arrived
    <3> QED  BY <1>7, <2>1
  <2> HIDE DEF c
  <2>5. PICK p \in Byte : p # "ESC" /\ Runs(w, a, opened \o Body(part), Inside(b, part, p))
    BY <2>4
  <2> HIDE DEF part, Part
  <2>6. Body(part) \in Seq(Byte) /\ Escaped(c) \in Seq(Byte)
        /\ Body(Append(part, c)) = Body(part) \o Escaped(c)
    BY <2>2, <2>3, EscapedBytes, EscapedType, BodyAppend
  <2>7. opened \o Body(part) \in Seq(Byte)
    BY <1>5, <2>6, ConcatProperties
  <2>8. Len(part) + 1 < Size
    BY <1>2, <2>1, <2>3
  <2>9. \E q \in Byte : /\ q # "ESC"
                        /\ Runs(w, a, (opened \o Body(part)) \o Escaped(c), Inside(b, Append(part, c), q))
    BY <2>2, <2>3, <2>5, <2>7, <2>8, ByteRun
  <2>10. (opened \o Body(part)) \o Escaped(c) = opened \o Body(Append(part, c))
    <3>1. Regroups(opened, Body(part), Escaped(c))
      BY <1>5, <2>6, ConcatRegroups, Zenon
    <3> QED  BY <2>6, <3>1, Zenon DEF Regroups
  <2> QED  BY <2>3, <2>9, <2>10
<1>8. Arrived(Len(frame))
  <2>1. Nat \subseteq U
    <3> HIDE DEF U
    <3> QED  BY <1>6, <1>7, SetInduction
  <2>2. Len(frame) \in U /\ Len(frame) <= Len(frame)
    BY <1>2, <2>1
  <2> HIDE DEF Arrived
  <2> QED  BY <2>2
<1>9. Part(Len(frame)) = frame
  BY <1>1, SubSeqFull
<1> DEFINE whole == opened \o Body(frame)
<1>10. PICK p \in Byte : Runs(w, a, whole, Inside(b, frame, p))
  <2> HIDE DEF Part
  <2> QED  BY <1>8, <1>9
<1> HIDE DEF Part, Arrived, U
<1>11. Body(frame) \in Seq(Byte) /\ whole \in Seq(Byte)
  BY <1>1, <1>5, EscapedBytes, ConcatProperties
<1>12. Inside(b, frame, p) \in Bridge
  BY <1>1, InsideType
<1> DEFINE s == Network(frame, p)
           after == [buf |-> << >>, mode |-> 0, prev |-> "END"]
<1>13. slip_recv("END", s) = after /\ Packet("END", s) = frame
  BY DEF slip_recv, Packet, Network
<1>14. Forwarded(w, frame, after) = <<frame>>
  BY <1>1 DEF Forwarded
<1>15. b.packets \o <<frame>> = Append(b.packets, frame)
  BY <1>1, <1>3, AppendIsConcat
<1> DEFINE end == [slip |-> after, text |-> b.text, packets |-> Append(b.packets, frame)]
<1>16. Taken(w, "END", Inside(b, frame, p)) = end
  <2>1. Inside(b, frame, p).slip = s /\ Inside(b, frame, p).text = b.text
        /\ Inside(b, frame, p).packets = b.packets
    BY DEF Inside
  <2> HIDE DEF s, after
  <2>2. Taken(w, "END", Inside(b, frame, p)) =
          [slip |-> after, text |-> b.text, packets |-> b.packets \o <<frame>>]
    BY <1>1, <1>13, <1>14, <2>1 DEF Taken
  <2> QED  BY <1>15, <2>2
<1>17. Runs(w, a, Append(whole, "END"), end)
  <2> HIDE DEF whole, end
  <2> QED  BY <1>0, <1>10, <1>11, <1>12, <1>16, RunMore
<1>18. Append(whole, "END") = bytes \o slip_send(frame)
  BY <1>1, FramedLine DEF opened
<1>19. end = Outside("END", b.text, Append(b.packets, frame))
  BY DEF Outside
<1> QED  BY <1>17, <1>18, <1>19

-----------------------------------------------------------------------------
\* What the bytes on the line still lead to: everything that was sent has arrived, in
\* order, and the receiver is between two frames.
Drains(w) ==
    \E p \in Byte \cup {"none"} :
        Runs(w, Here(w), line[w], Outside(p, sent[w].text, sent[w].frames))

\* The strengthening RoundTrip needs: RoundTrip itself says nothing of a frame in the
\* middle of the line.
SoundInv == \A w \in Way : Sound(w) => Drains(w)

\* Between two frames a bridge is a bridge.
LEMMA OutsideType ==
    ASSUME NEW p \in Byte \cup {"none"}, NEW t \in Seq(Byte), NEW f \in Seq(Seq(Byte))
    PROVE  /\ Outside(p, t, f) \in Bridge
           /\ Outside(p, t, f).text = t /\ Outside(p, t, f).packets = f
           /\ Outside(p, t, f).slip.buf = << >> /\ Outside(p, t, f).slip.mode = 0
<1>1. [buf |-> << >>, mode |-> 0, prev |-> p] \in SlipState
  <2>1. << >> \in Seq(Byte) /\ 0 \in {0, 1}
    OBVIOUS
  <2> QED  BY <2>1 DEF SlipState
<1>2. Len(<< >>) < Size
  BY BufferAssumption
<1> QED  BY <1>1, <1>2 DEF Outside, Bridge

\* slip_recv between two frames: a byte that is not END is text.
LEMMA TextTaken ==
    ASSUME NEW w, NEW p \in Byte \cup {"none"}, NEW t \in Seq(Byte), NEW f \in Seq(Seq(Byte)),
           NEW c \in Byte, c # "END"
    PROVE  Taken(w, c, Outside(p, t, f)) = Outside(c, Append(t, c), f)
<1> DEFINE s == Outside(p, t, f).slip
<1>1. s.buf = << >> /\ s.mode = 0 /\ Outside(p, t, f).text = t /\ Outside(p, t, f).packets = f
  BY DEF Outside
<1> HIDE DEF s
<1>2. slip_recv(c, s) = [buf |-> << >>, mode |-> 0, prev |-> c] /\ Packet(c, s) = << >>
  BY <1>1 DEF slip_recv, Packet
<1>3. Forwarded(w, << >>, slip_recv(c, s)) = << >> /\ f \o << >> = f /\ slip_recv(c, s).mode = 0
  BY <1>2 DEF Forwarded
<1>4. Taken(w, c, Outside(p, t, f)) = [slip |-> slip_recv(c, s), text |-> Append(t, c), packets |-> f]
  BY <1>1, <1>2, <1>3 DEF Taken, s
<1> QED  BY <1>2, <1>4 DEF Outside

\* At first nothing was sent and nothing has arrived.
LEMMA SoundInit ==
    ASSUME Init
    PROVE  SoundInv
<1> SUFFICES ASSUME NEW w \in Way PROVE Drains(w)
  BY DEF SoundInv
<1>1. /\ line[w] = << >> /\ Here(w) = Outside("none", << >>, << >>)
      /\ sent[w].text = << >> /\ sent[w].frames = << >>
  BY DEF Init, Here, Outside, slip_init
<1>2. "none" \in Byte \cup {"none"} /\ << >> \in Seq(Byte) /\ << >> \in Seq(Seq(Byte))
  OBVIOUS
<1>3. Outside("none", << >>, << >>) \in Bridge
  BY <1>2, OutsideType
<1>4. Runs(w, Here(w), line[w], Outside("none", sent[w].text, sent[w].frames))
  BY <1>1, <1>3, RunNone
<1> QED  BY <1>2, <1>4 DEF Drains

\* A way none of whose variables change keeps draining.
LEMMA DrainsStays ==
    ASSUME NEW w \in Way, Drains(w), Here(w)' = Here(w), line'[w] = line[w], sent'[w] = sent[w]
    PROVE  Drains(w)'
BY DEF Drains

\* SendFrame appends a whole frame to the line.
LEMMA FrameDrains ==
    ASSUME Tool = "slipterm", TypeInv, NEW w \in Way, NEW frame \in Frames,
           SendFrame(w, frame), Len(frame) < Size, Drains(w)
    PROVE  Drains(w)'
<1> DEFINE t == sent[w].text
           f == sent[w].frames
<1>1. /\ Here(w)' = Here(w) /\ line'[w] = line[w] \o slip_send(frame)
      /\ sent'[w].text = t /\ sent'[w].frames = Append(f, frame)
  BY FrameSent, Resting
<1>2. Here(w) \in Bridge /\ line[w] \in Seq(Byte) /\ t \in Seq(Byte) /\ f \in Seq(Seq(Byte))
  BY HereType
<1> HIDE DEF t, f
<1>3. PICK p \in Byte \cup {"none"} : Runs(w, Here(w), line[w], Outside(p, t, f))
  BY DEF Drains, t, f
<1> DEFINE b == Outside(p, t, f)
<1>4. /\ b \in Bridge /\ b.text = t /\ b.packets = f
      /\ b.slip.buf = << >> /\ b.slip.mode = 0
  <2>1. b \in Bridge
    BY <1>2, OutsideType
  <2> QED  BY <2>1 DEF Outside
<1> HIDE DEF b
<1>5. Runs(w, Here(w), line[w] \o slip_send(frame), Outside("END", b.text, Append(b.packets, frame)))
  <2>1. Runs(w, Here(w), line[w], b)
    BY <1>3 DEF b
  <2> QED  BY <2>1, <1>2, <1>4, FrameRun
<1>6. Runs(w, Here(w)', line'[w], Outside("END", sent'[w].text, sent'[w].frames))
  BY <1>1, <1>4, <1>5
<1>7. "END" \in Byte \cup {"none"}
  BY DEF Byte
<1> QED  BY <1>6, <1>7 DEF Drains

\* SendText appends one byte of text to the line.
LEMMA TextDrains ==
    ASSUME TypeInv, NEW w \in Way, NEW c \in TextBytes, SendText(w, c), Drains(w)
    PROVE  Drains(w)'
<1> DEFINE t == sent[w].text
           f == sent[w].frames
<1>1. /\ Here(w)' = Here(w) /\ line'[w] = Append(line[w], c)
      /\ sent'[w].text = Append(t, c) /\ sent'[w].frames = f
  BY TextSent, Resting
<1>2. Here(w) \in Bridge /\ line[w] \in Seq(Byte) /\ t \in Seq(Byte) /\ f \in Seq(Seq(Byte))
  BY HereType
<1>3. c \in Byte /\ c # "END"
  BY ItemAssumption
<1> HIDE DEF t, f
<1>4. PICK p \in Byte \cup {"none"} : Runs(w, Here(w), line[w], Outside(p, t, f))
  BY DEF Drains, t, f
<1>5. Outside(p, t, f) \in Bridge
  BY <1>2, OutsideType
<1>6. Runs(w, Here(w), Append(line[w], c), Outside(c, Append(t, c), f))
  <2>1. Taken(w, c, Outside(p, t, f)) = Outside(c, Append(t, c), f)
    BY <1>2, <1>3, TextTaken
  <2> QED  BY <1>2, <1>3, <1>4, <1>5, <2>1, RunMore
<1>7. Runs(w, Here(w)', line'[w], Outside(c, sent'[w].text, sent'[w].frames))
  BY <1>1, <1>6
<1>8. c \in Byte \cup {"none"}
  BY <1>3
<1> QED  BY <1>7, <1>8 DEF Drains

\* Receive takes the first byte of the line.
LEMMA ReceiveDrains ==
    ASSUME TypeInv, NEW w \in Way, Receive(w), Drains(w)
    PROVE  Drains(w)'
<1>1. /\ Here(w)' = Taken(w, Head(line[w]), Here(w)) /\ line'[w] = Tail(line[w])
      /\ sent' = sent /\ line[w] # << >>
  BY ReceiveHere, ReceiveTakes
<1>2. Here(w) \in Bridge /\ line[w] \in Seq(Byte)
      /\ sent[w].text \in Seq(Byte) /\ sent[w].frames \in Seq(Seq(Byte))
  BY HereType
<1>3. PICK p \in Byte \cup {"none"} :
        Runs(w, Here(w), line[w], Outside(p, sent[w].text, sent[w].frames))
  BY DEF Drains
<1> DEFINE b == Outside(p, sent[w].text, sent[w].frames)
<1>4. b \in Bridge
  BY <1>2, OutsideType
<1> HIDE DEF b
<1>5. Runs(w, Taken(w, Head(line[w]), Here(w)), Tail(line[w]), b)
  <2>1. Runs(w, Here(w), line[w], b)
    BY <1>3 DEF b
  <2> QED  BY <1>1, <1>2, <1>4, <2>1, RunTail
<1>6. Runs(w, Here(w)', line'[w], Outside(p, sent'[w].text, sent'[w].frames))
  BY <1>1, <1>5 DEF b
<1> QED  BY <1>6 DEF Drains

\* A frame more is sound only if the frames before were.
LEMMA SoundBefore ==
    ASSUME TypeInv, NEW w \in Way, NEW frame \in Frames,
           sent'[w].frames = Append(sent[w].frames, frame), losses' = losses, Sound(w)'
    PROVE  Sound(w) /\ Len(frame) < Size
<1> DEFINE f == sent[w].frames
           n == Len(f)
<1>1. f \in Seq(Frames)
  BY HereType
<1>2. /\ DOMAIN f = 1 .. n /\ n \in Nat /\ DOMAIN Append(f, frame) = 1 .. n + 1
      /\ Append(f, frame)[n + 1] = frame
      /\ \A i \in 1 .. n : Append(f, frame)[i] = f[i]
  <2> HIDE DEF f
  <2>1. Append(f, frame) \in Seq(Frames) /\ Len(Append(f, frame)) = n + 1
    BY <1>1, AppendProperties
  <2>2. DOMAIN Append(f, frame) = 1 .. n + 1
    BY <2>1, LenProperties
  <2> QED  BY <1>1, <2>2, AppendProperties, LenProperties
<1>3. losses = 0 /\ \A i \in DOMAIN Append(f, frame) : Len(Append(f, frame)[i]) < Size
  BY DEF Sound
<1> HIDE DEF f, n
<1>4. Len(frame) < Size
  <2>1. n + 1 \in 1 .. n + 1
    BY <1>2
  <2> QED  BY <1>2, <1>3, <2>1
<1>5. \A i \in DOMAIN f : Len(f[i]) < Size
  <2> SUFFICES ASSUME NEW i \in 1 .. n PROVE Len(f[i]) < Size
    BY <1>2
  <2>1. i \in 1 .. n + 1
    BY <1>2
  <2> QED  BY <1>2, <1>3, <2>1
<1> QED  BY <1>3, <1>4, <1>5 DEF Sound, f

\* Every step of slipterm's bridge preserves SoundInv.
LEMMA SoundNext ==
    ASSUME Tool = "slipterm", TypeInv, SoundInv, [Next]_vars
    PROVE  SoundInv'
<1> SUFFICES ASSUME NEW v \in Way, Sound(v)' PROVE Drains(v)'
  BY DEF SoundInv
<1>1. ASSUME losses' = losses, sent'[v].frames = sent[v].frames
      PROVE  Drains(v)
  BY <1>1 DEF SoundInv, Sound
<1>2. CASE UNCHANGED vars
  <2>1. Here(v)' = Here(v) /\ line' = line /\ sent' = sent /\ losses' = losses
    BY <1>2, Resting DEF vars
  <2> QED  BY <1>1, <2>1, DrainsStays
<1>3. ASSUME NEW w \in Way, NEW frame \in Frames, SendFrame(w, frame)
      PROVE  Drains(v)'
  <2>1. UNCHANGED <<slip, text, packets>> /\ losses' = losses
    BY <1>3, FrameSent
  <2>2. CASE v = w
    <3>1. sent'[v].frames = Append(sent[v].frames, frame)
      BY <1>3, <2>2, FrameSent
    <3>2. Sound(v) /\ Len(frame) < Size
      BY <2>1, <3>1, SoundBefore
    <3> QED  BY <1>3, <2>2, <3>2, FrameDrains DEF SoundInv
  <2>3. CASE v # w
    <3>1. line'[v] = line[v] /\ sent'[v] = sent[v]
      BY <1>3, <2>3, FrameSent
    <3>2. Here(v)' = Here(v)
      BY <2>1, Resting
    <3> QED  BY <1>1, <2>1, <3>1, <3>2, DrainsStays
  <2> QED  BY <2>2, <2>3
<1>4. ASSUME NEW w \in Way, NEW c \in TextBytes, SendText(w, c)
      PROVE  Drains(v)'
  <2>1. UNCHANGED <<slip, text, packets>> /\ losses' = losses
    BY <1>4, TextSent
  <2>2. CASE v = w
    <3>1. sent'[v].frames = sent[v].frames
      BY <1>4, <2>2, TextSent
    <3>2. Drains(v)
      BY <1>1, <2>1, <3>1
    <3> QED  BY <1>4, <2>2, <3>2, TextDrains
  <2>3. CASE v # w
    <3>1. line'[v] = line[v] /\ sent'[v] = sent[v]
      BY <1>4, <2>3, TextSent
    <3>2. Here(v)' = Here(v)
      BY <2>1, Resting
    <3> QED  BY <1>1, <2>1, <3>1, <3>2, DrainsStays
  <2> QED  BY <2>2, <2>3
<1>5. ASSUME NEW w \in Way, Receive(w)
      PROVE  Drains(v)'
  <2>1. sent' = sent /\ losses' = losses
    BY <1>5, ReceiveTakes
  <2>2. Drains(v)
    BY <1>1, <2>1
  <2>3. CASE v = w
    BY <1>5, <2>2, <2>3, ReceiveDrains
  <2>4. CASE v # w
    <3>1. Here(v)' = Here(v) /\ line'[v] = line[v]
      BY <1>5, <2>4, ReceiveHere
    <3> QED  BY <2>1, <2>2, <3>1, DrainsStays
  <2> QED  BY <2>3, <2>4
<1>6. ASSUME NEW w \in Way, Lose(w)
      PROVE  FALSE
  <2>1. losses' \in 1 .. MaxLosses /\ losses' = 0
    BY <1>6, ByteLost DEF Sound
  <2> QED  BY <2>1
<1> QED  BY <1>2, <1>3, <1>4, <1>5, <1>6 DEF Next

\* slipterm hands the network the frames that were sent and the console the text, in
\* order and nothing else, for every set of bytes, all frames and every buffer they fit.
THEOREM DeliversInOrder ==
    ASSUME Tool = "slipterm"
    PROVE  Spec => []RoundTrip
<1>1. Init => SoundInv
  BY SoundInit
<1>2. TypeInv /\ SoundInv /\ [Next]_vars => SoundInv'
  BY SoundNext
<1>3. TypeInv /\ SoundInv => RoundTrip
  <2> SUFFICES ASSUME TypeInv, SoundInv, NEW w \in Way, Sound(w)
               PROVE  /\ IsPrefix(packets[w], sent[w].frames) /\ IsPrefix(text[w], sent[w].text)
                      /\ line[w] = << >> => packets[w] = sent[w].frames /\ text[w] = sent[w].text
    BY DEF RoundTrip
  <2>1. Here(w) \in Bridge /\ line[w] \in Seq(Byte)
        /\ sent[w].text \in Seq(Byte) /\ sent[w].frames \in Seq(Seq(Byte))
    BY HereType
  <2>2. Drains(w)
    BY DEF SoundInv
  <2>3. PICK p \in Byte \cup {"none"} :
          Runs(w, Here(w), line[w], Outside(p, sent[w].text, sent[w].frames))
    BY <2>2 DEF Drains
  <2> DEFINE b == Outside(p, sent[w].text, sent[w].frames)
  <2>4. b.text = sent[w].text /\ b.packets = sent[w].frames
    BY DEF Outside
  <2>5. Here(w).text = text[w] /\ Here(w).packets = packets[w]
    BY DEF Here
  <2> HIDE DEF b
  <2>6. Runs(w, Here(w), line[w], b)
    BY <2>3 DEF b
  <2>7. IsPrefix(Here(w).text, b.text) /\ IsPrefix(Here(w).packets, b.packets)
    BY <2>1, <2>6, RunPrefix
  <2>8. line[w] = << >> => b = Here(w)
    BY <2>1, <2>6, RunNone
  <2> QED  BY <2>4, <2>5, <2>7, <2>8
<1> QED  BY <1>1, <1>2, <1>3, AlwaysTyped, PTL DEF Spec

-----------------------------------------------------------------------------
\* What the receiver holds and has passed on: no byte of text in the buffer or in a
\* packet, no byte of a frame on the console.
CleanBridge ==
    {b \in Bridge : /\ b.slip.buf \in Seq(Byte \ TextBytes)
                    /\ b.text \in Seq(TextBytes \cup {"END"})
                    /\ b.packets \in Seq(Seq(Byte \ TextBytes))}

\* Byte c is at its place on a line whose ENDs have brought the receiver to mode m.
Fits(c, m) == (c \in TextBytes => m = 0) /\ (c \notin TextBytes \cup {"END"} => m = 1)

\* slip_recv: only END changes the mode.
Flip(c, m) == IF c = "END" THEN 1 - m ELSE m

\* Each byte is at its place, and the bytes bring the receiver from mode m to mode l.
Modes(m, bytes, l) ==
    \E mode \in [1 .. Len(bytes) + 1 -> {0, 1}] :
        /\ mode[1] = m /\ mode[Len(bytes) + 1] = l
        /\ \A i \in 1 .. Len(bytes) :
             Fits(bytes[i], mode[i]) /\ mode[i + 1] = Flip(bytes[i], mode[i])

\* No byte, no change.
LEMMA ModesNone ==
    ASSUME NEW m \in {0, 1}
    PROVE  Modes(m, << >>, m)
<1>1. Len(<< >>) = 0 /\ 1 .. Len(<< >>) = {} /\ 1 .. Len(<< >>) + 1 = {1}
  OBVIOUS
<1> DEFINE mode == [i \in {1} |-> m]
<1>2. mode \in [1 .. Len(<< >>) + 1 -> {0, 1}] /\ mode[1] = m
  BY <1>1
<1> HIDE DEF mode
<1> QED  BY <1>1, <1>2 DEF Modes

\* One byte more at the end.
LEMMA ModesMore ==
    ASSUME NEW m \in {0, 1}, NEW bytes \in Seq(Byte), NEW l \in {0, 1}, NEW c \in Byte,
           Modes(m, bytes, l), Fits(c, l)
    PROVE  Flip(c, l) \in {0, 1} /\ Modes(m, Append(bytes, c), Flip(c, l))
<1> DEFINE n == Len(bytes)
           longer == Append(bytes, c)
           last == Flip(c, l)
<1>1. PICK mode \in [1 .. n + 1 -> {0, 1}] :
        /\ mode[1] = m /\ mode[n + 1] = l
        /\ \A i \in 1 .. n : Fits(bytes[i], mode[i]) /\ mode[i + 1] = Flip(bytes[i], mode[i])
  BY DEF Modes
<1>2. /\ n \in Nat /\ Len(longer) = n + 1 /\ longer[n + 1] = c
      /\ \A i \in 1 .. n : longer[i] = bytes[i]
  BY AppendProperties
<1>3. last \in {0, 1}
  BY DEF Flip
<1> HIDE DEF n, longer, last
<1> DEFINE q == [i \in 1 .. n + 2 |-> IF i <= n + 1 THEN mode[i] ELSE last]
<1>4. q \in [1 .. n + 2 -> {0, 1}]
  <2> SUFFICES ASSUME NEW i \in 1 .. n + 2 PROVE q[i] \in {0, 1}
    OBVIOUS
  <2>1. i \in 1 .. n + 1 \/ ~(i <= n + 1)
    BY <1>2
  <2> QED  BY <1>1, <1>3, <2>1
<1>5. q[1] = m /\ q[n + 2] = last
  <2>1. 1 \in 1 .. n + 2 /\ 1 <= n + 1 /\ n + 2 \in 1 .. n + 2 /\ ~(n + 2 <= n + 1)
    BY <1>2
  <2> QED  BY <2>1, <1>1
<1>6. ASSUME NEW i \in 1 .. n + 1
      PROVE  Fits(longer[i], q[i]) /\ q[i + 1] = Flip(longer[i], q[i])
  <2>1. i \in 1 .. n + 2 /\ i <= n + 1 /\ i + 1 \in 1 .. n + 2 /\ q[i] = mode[i]
    BY <1>2
  <2>2. CASE i <= n
    <3>1. i \in 1 .. n /\ i + 1 <= n + 1
      BY <1>2, <2>2
    <3> QED  BY <2>1, <3>1, <1>1, <1>2
  <2>3. CASE ~(i <= n)
    <3>1. i = n + 1 /\ ~(i + 1 <= n + 1)
      BY <1>2, <2>3
    <3> QED  BY <2>1, <3>1, <1>1, <1>2 DEF last
  <2> QED  BY <2>2, <2>3
<1> HIDE DEF q
<1>7. (n + 1) + 1 = n + 2
  BY <1>2
<1>8. Modes(m, longer, last)
  BY <1>2, <1>4, <1>5, <1>6, <1>7 DEF Modes
<1> QED  BY <1>3, <1>8 DEF longer, last

\* One byte less at the beginning.
LEMMA ModesTail ==
    ASSUME NEW m \in {0, 1}, NEW bytes \in Seq(Byte), NEW l \in {0, 1}, bytes # << >>,
           Modes(m, bytes, l)
    PROVE  Fits(Head(bytes), m) /\ Modes(Flip(Head(bytes), m), Tail(bytes), l)
<1> DEFINE n == Len(bytes)
           rest == Tail(bytes)
<1>1. PICK mode \in [1 .. n + 1 -> {0, 1}] :
        /\ mode[1] = m /\ mode[n + 1] = l
        /\ \A i \in 1 .. n : Fits(bytes[i], mode[i]) /\ mode[i + 1] = Flip(bytes[i], mode[i])
  BY DEF Modes
<1>2. /\ n \in Nat /\ n >= 1 /\ Len(rest) = n - 1 /\ Head(bytes) = bytes[1]
      /\ \A i \in 1 .. n - 1 : rest[i] = bytes[i + 1]
  OBVIOUS
<1> HIDE DEF n, rest
<1> DEFINE q == [i \in 1 .. n |-> mode[i + 1]]
<1>3. \A i \in 1 .. n : i + 1 \in 1 .. n + 1
  BY <1>2
<1>4. q \in [1 .. n -> {0, 1}]
  BY <1>1, <1>3
<1>5. 1 \in 1 .. n /\ n \in 1 .. n /\ 1 + 1 \in 1 .. n + 1
  BY <1>2
<1>6. q[1] = Flip(Head(bytes), m) /\ q[n] = l /\ Fits(Head(bytes), m)
  BY <1>1, <1>2, <1>5
<1>7. ASSUME NEW i \in 1 .. n - 1
      PROVE  Fits(rest[i], q[i]) /\ q[i + 1] = Flip(rest[i], q[i])
  <2>1. i \in 1 .. n /\ i + 1 \in 1 .. n
    BY <1>2
  <2> QED  BY <1>1, <1>2, <2>1
<1> HIDE DEF q
<1>8. Len(rest) + 1 = n
  BY <1>2
<1> QED  BY <1>2, <1>4, <1>6, <1>7, <1>8 DEF Modes, rest

\* One byte less anywhere, if it is not END: its neighbours stay at their places.
LEMMA ModesLess ==
    ASSUME NEW m \in {0, 1}, NEW bytes \in Seq(Byte), NEW l \in {0, 1}, Modes(m, bytes, l),
           NEW k \in 1 .. Len(bytes), bytes[k] # "END"
    PROVE  Modes(m, RemoveAt(bytes, k), l)
<1> DEFINE n == Len(bytes)
           rest == RemoveAt(bytes, k)
<1>1. PICK mode \in [1 .. n + 1 -> {0, 1}] :
        /\ mode[1] = m /\ mode[n + 1] = l
        /\ \A i \in 1 .. n : Fits(bytes[i], mode[i]) /\ mode[i + 1] = Flip(bytes[i], mode[i])
  BY DEF Modes
<1>2. /\ n \in Nat /\ k \in 1 .. n /\ Len(rest) = n - 1
      /\ \A i \in 1 .. n - 1 : rest[i] = IF i < k THEN bytes[i] ELSE bytes[i + 1]
  BY RemoveAtProperties, LenProperties
<1> HIDE DEF n, rest
<1>3. mode[k + 1] = mode[k]
  BY <1>1, <1>2 DEF Flip
<1> DEFINE q == [i \in 1 .. n |-> IF i <= k THEN mode[i] ELSE mode[i + 1]]
<1>4. \A i \in 1 .. n : i \in 1 .. n + 1 /\ i + 1 \in 1 .. n + 1
  BY <1>2
<1>5. q \in [1 .. n -> {0, 1}]
  BY <1>1, <1>4
\* at k both choices agree
<1>6. \A i \in 1 .. n : (i >= k => q[i] = mode[i + 1]) /\ (i <= k => q[i] = mode[i])
  <2> SUFFICES ASSUME NEW i \in 1 .. n
               PROVE  (i >= k => q[i] = mode[i + 1]) /\ (i <= k => q[i] = mode[i])
    OBVIOUS
  <2>1. i <= k => q[i] = mode[i]
    OBVIOUS
  <2>2. i > k => q[i] = mode[i + 1]
    BY <1>2
  <2>3. i >= k => i = k \/ i > k
    BY <1>2
  <2> QED  BY <1>2, <1>3, <2>1, <2>2, <2>3
<1>7. q[1] = m /\ q[n] = l
  <2>1. 1 \in 1 .. n /\ n \in 1 .. n /\ 1 <= k /\ n >= k
    BY <1>2
  <2> QED  BY <1>1, <1>6, <2>1
<1> HIDE DEF q
<1>8. ASSUME NEW i \in 1 .. n - 1
      PROVE  Fits(rest[i], q[i]) /\ q[i + 1] = Flip(rest[i], q[i])
  <2>1. i \in 1 .. n /\ i + 1 \in 1 .. n
    BY <1>2
  <2>2. CASE i < k
    <3>1. i <= k /\ i + 1 <= k
      BY <1>2, <2>2
    <3> QED  BY <1>1, <1>2, <1>6, <2>1, <2>2, <3>1
  <2>3. CASE ~(i < k)
    <3>1. i >= k /\ i + 1 >= k
      BY <1>2, <2>3
    <3> QED  BY <1>1, <1>2, <1>6, <2>1, <2>3, <3>1
  <2> QED  BY <2>2, <2>3
<1>9. Len(rest) + 1 = n
  BY <1>2
<1> QED  BY <1>2, <1>5, <1>7, <1>8, <1>9 DEF Modes, rest

\* The bytes of a frame, escaped, bring the receiver nowhere but into the frame and out.
LEMMA ModesFrame ==
    ASSUME Apart, NEW m \in {0, 1}, NEW bytes \in Seq(Byte), Modes(m, bytes, 0),
           NEW frame \in Frames
    PROVE  Modes(m, bytes \o slip_send(frame), 0)
<1>0. /\ "END" \in Byte /\ "ESC" \in Byte /\ "ESC_END" \in Byte /\ "ESC_ESC" \in Byte
      /\ "END" \notin TextBytes
      /\ "ESC" \notin TextBytes /\ "ESC_END" \notin TextBytes /\ "ESC_ESC" \notin TextBytes
  BY ItemAssumption DEF Apart, Byte
<1>1. frame \in Seq(Byte)
      /\ slip_send(frame) = <<"END">> \o Body(frame) \o <<"END">>
  BY SendType
<1>2. \A i \in 1 .. Len(frame) : frame[i] \in Byte /\ frame[i] \notin TextBytes
  <2>1. DOMAIN frame = 1 .. Len(frame)
    BY <1>1, LenProperties
  <2>2. Range(frame) \cap TextBytes = {}
    BY DEF Apart
  <2> QED  BY <1>1, <2>1, <2>2, ElementOfSeq DEF Range
<1>3. Len(frame) \in Nat
  BY <1>1, LenProperties
<1>4. \A s \in Seq(Byte) : \A c \in Byte :
        Modes(m, s, 1) /\ c \notin TextBytes /\ c # "END" => Modes(m, Append(s, c), 1)
  <2> SUFFICES ASSUME NEW s \in Seq(Byte), NEW c \in Byte, Modes(m, s, 1),
                      c \notin TextBytes, c # "END"
               PROVE  Modes(m, Append(s, c), 1)
    OBVIOUS
  <2>1. Fits(c, 1) /\ Flip(c, 1) = 1
    BY DEF Fits, Flip
  <2>2. Modes(m, Append(s, c), Flip(c, 1))
    BY <2>1, ModesMore
  <2> QED  BY <2>1, <2>2
<1> DEFINE opened == Append(bytes, "END")
           Part(n) == SubSeq(frame, 1, n)
           U == {n \in Nat : n <= Len(frame) => Modes(m, opened \o Body(Part(n)), 1)}
<1>5. opened \in Seq(Byte) /\ Modes(m, opened, 1)
  <2>1. Fits("END", 0) /\ Flip("END", 0) = 1
    BY <1>0 DEF Fits, Flip
  <2>2. Modes(m, Append(bytes, "END"), Flip("END", 0))
    BY <1>0, <2>1, ModesMore
  <2> QED  BY <1>0, <2>1, <2>2, AppendProperties
<1> HIDE DEF opened
<1>6. 0 \in U
  <2>1. \A x : SubSeq(x, 1, 0) = << >>
    BY SubSeqEmpty
  <2>2. Part(0) = << >>
    BY <2>1
  <2>3. opened \o << >> = opened
    BY <1>5
  <2>4. Modes(m, opened \o Body(Part(0)), 1)
    <3> HIDE DEF Part
    <3> QED  BY <1>5, <2>2, <2>3, BodyEmpty
  <2> HIDE DEF Part
  <2> QED  BY <2>4
<1>7. ASSUME NEW n \in Nat, n \in U PROVE n + 1 \in U
  <2> SUFFICES ASSUME n + 1 <= Len(frame) PROVE Modes(m, opened \o Body(Part(n + 1)), 1)
    BY DEF U
  <2> DEFINE c == frame[n + 1]
             part == Part(n)
             before == opened \o Body(part)
  <2>1. n + 1 \in 1 .. Len(frame) /\ n <= Len(frame)
    BY <1>3
  <2>2. c \in Byte /\ c \notin TextBytes
    BY <1>2, <2>1
  <2>3. part \in Seq(Byte) /\ Part(n + 1) = Append(part, c)
    BY <1>1, <1>3, <2>1
  <2>4. Modes(m, before, 1)
    BY <1>7, <2>1
  <2> HIDE DEF c, part, Part
  <2>5. Body(part) \in Seq(Byte) /\ Escaped(c) \in Seq(Byte)
        /\ Body(Append(part, c)) = Body(part) \o Escaped(c)
    BY <2>2, <2>3, EscapedBytes, EscapedType, BodyAppend
  <2>6. before \in Seq(Byte)
    BY <1>5, <2>5, ConcatProperties
  <2>7. before \o Escaped(c) = opened \o Body(Append(part, c))
    <3>1. opened \in Seq(Byte) /\ Body(part) \in Seq(Byte) /\ Escaped(c) \in Seq(Byte)
      BY <1>5, <2>5
    <3>2. Regroups(opened, Body(part), Escaped(c))
      BY <3>1, ConcatRegroups, Zenon
    <3> QED  BY <2>5, <3>2, Zenon DEF Regroups
  <2> HIDE DEF before
  <2>8. Modes(m, before \o Escaped(c), 1)
    <3>1. ASSUME NEW e \in {"ESC_END", "ESC_ESC"}, Escaped(c) = <<"ESC", e>>
          PROVE  Modes(m, before \o Escaped(c), 1)
      <4>1. Append(before, "ESC") \in Seq(Byte) /\ Modes(m, Append(before, "ESC"), 1)
        BY <1>0, <1>4, <2>4, <2>6, AppendProperties
      <4>2. e \in Byte /\ e \notin TextBytes /\ e # "END"
        BY <1>0
      <4>3. Modes(m, Append(Append(before, "ESC"), e), 1)
        BY <1>4, <4>1, <4>2
      <4>4. Append(Append(before, "ESC"), e) = before \o <<"ESC", e>>
        <5> HIDE DEF Byte
        <5> QED  BY <1>0, <2>6, <4>2
      <4> QED  BY <3>1, <4>3, <4>4
    <3>2. CASE Escaped(c) = <<c>> /\ c # "END"
      <4>1. Append(before, c) = before \o <<c>>
        BY <2>2, <2>6, AppendIsConcat
      <4>2. Modes(m, Append(before, c), 1)
        BY <1>4, <2>2, <2>4, <2>6, <3>2
      <4> QED  BY <3>2, <4>1, <4>2
    <3>3. \/ Escaped(c) = <<"ESC", "ESC_END">> \/ Escaped(c) = <<"ESC", "ESC_ESC">>
          \/ Escaped(c) = <<c>> /\ c # "END"
      BY DEF Escaped
    <3> QED  BY <3>1, <3>2, <3>3
  <2> QED  BY <2>3, <2>7, <2>8
<1>8. Modes(m, opened \o Body(Part(Len(frame))), 1)
  <2>1. Nat \subseteq U
    <3> HIDE DEF U
    <3> QED  BY <1>6, <1>7, SetInduction
  <2>2. Len(frame) \in U /\ Len(frame) <= Len(frame)
    BY <1>3, <2>1
  <2> HIDE DEF Part
  <2> QED  BY <2>2
<1>9. Part(Len(frame)) = frame
  BY <1>1, SubSeqFull
<1> DEFINE whole == opened \o Body(frame)
<1>10. Modes(m, whole, 1)
  <2> HIDE DEF Part
  <2> QED  BY <1>8, <1>9
<1> HIDE DEF Part, U
<1>11. Body(frame) \in Seq(Byte) /\ whole \in Seq(Byte)
  BY <1>1, <1>5, EscapedBytes, ConcatProperties
<1>12. Modes(m, Append(whole, "END"), 0)
  <2>1. Fits("END", 1) /\ Flip("END", 1) = 0
    BY <1>0 DEF Fits, Flip
  <2> HIDE DEF whole
  <2>2. Modes(m, Append(whole, "END"), Flip("END", 1))
    BY <1>0, <1>10, <1>11, <2>1, ModesMore
  <2> QED  BY <2>1, <2>2
<1> HIDE DEF whole
<1>13. Append(whole, "END") = bytes \o slip_send(frame)
  BY <1>1, FramedLine DEF whole, opened
<1> QED  BY <1>12, <1>13

\* What one byte at its place does to a clean bridge.
LEMMA TakenClean ==
    ASSUME Apart, NEW w, NEW c \in Byte, NEW b \in CleanBridge, Fits(c, b.slip.mode)
    PROVE  Taken(w, c, b) \in CleanBridge
<1> DEFINE F == Byte \ TextBytes
           s == b.slip
           packet == Packet(c, s)
           after  == slip_recv(c, s)
           fwd    == Forwarded(w, packet, after)
           txt    == IF packet = << >> /\ after.mode = 0 THEN Append(b.text, c) ELSE b.text
<1>0. "END" \in F /\ "ESC" \in F
  BY ItemAssumption DEF Apart, Byte
<1>1. /\ b \in Bridge /\ s.buf \in Seq(F) /\ b.text \in Seq(TextBytes \cup {"END"})
      /\ b.packets \in Seq(Seq(F)) /\ s.mode \in {0, 1}
  BY DEF CleanBridge, Bridge, SlipState
<1>2. Taken(w, c, b) \in Bridge
  BY <1>1, TakenType
<1>3. Taken(w, c, b) = [slip |-> after, text |-> txt, packets |-> b.packets \o fwd]
  BY DEF Taken
<1>4. \A S : << >> \in Seq(S) /\ \A x \in S : <<x>> \in Seq(S)
  OBVIOUS
<1> HIDE DEF F, s
<1>5. after.mode = IF c = "END" THEN 1 - s.mode ELSE s.mode
  BY DEF slip_recv
<1>6. packet \in Seq(F)
  BY <1>1, <1>4 DEF Packet
<1>7. after.buf \in Seq(F)
  <2>1. CASE c = "END"
    <3>1. after.buf = << >>
      BY <2>1 DEF slip_recv
    <3> QED  BY <1>4, <3>1
  <2>2. CASE c # "END" /\ s.mode = 1
    <3>1. c \in F
      BY <2>2 DEF Fits, F, s
    <3>2. \/ Stored(c, s) = <<"END">> \/ Stored(c, s) = <<"ESC">>
          \/ Stored(c, s) = << >> \/ Stored(c, s) = <<c>>
      BY DEF Stored
    <3>3. Stored(c, s) \in Seq(F)
      BY <1>0, <1>4, <3>1, <3>2
    <3>4. s.buf \o Stored(c, s) \in Seq(F)
      BY <1>1, <3>3, ConcatProperties
    <3>5. Buffered(c, s) \in Seq(F)
      BY <1>4, <3>4 DEF Buffered
    <3>6. after.buf = Buffered(c, s)
      BY <2>2 DEF slip_recv
    <3> QED  BY <3>5, <3>6
  <2>3. CASE c # "END" /\ s.mode # 1
    <3>1. after.buf = s.buf
      BY <2>3 DEF slip_recv
    <3> QED  BY <1>1, <3>1
  <2> QED  BY <2>1, <2>2, <2>3
<1>8. fwd \in Seq(Seq(F))
  <2>1. fwd = << >> \/ fwd = <<packet>> \/ fwd = <<after.buf>>
    BY DEF Forwarded
  <2> HIDE DEF packet, after, fwd
  <2> QED  BY <1>4, <1>6, <1>7, <2>1
<1>9. txt \in Seq(TextBytes \cup {"END"})
  <2>1. CASE packet = << >> /\ after.mode = 0
    <3>1. c \in TextBytes \cup {"END"}
      BY <1>1, <1>5, <2>1 DEF Fits, s
    <3> HIDE DEF packet, after
    <3> QED  BY <1>1, <2>1, <3>1, AppendProperties
  <2>2. CASE ~(packet = << >> /\ after.mode = 0)
    <3> HIDE DEF packet, after
    <3> QED  BY <1>1, <2>2
  <2> QED  BY <2>1, <2>2
<1>10. b.packets \o fwd \in Seq(Seq(F))
  <2> HIDE DEF fwd
  <2> QED  BY <1>1, <1>8, ConcatProperties
<1> HIDE DEF packet, after, fwd, txt
<1>11. /\ Taken(w, c, b).slip = after /\ Taken(w, c, b).text = txt
       /\ Taken(w, c, b).packets = b.packets \o fwd
  BY <1>3
<1> QED  BY <1>2, <1>7, <1>9, <1>10, <1>11 DEF CleanBridge, F

\* The strengthening NoMixing needs: the bytes on the line are at their places, and no
\* byte of text has got into the buffer.
MixInv ==
    \A w \in Way : Here(w) \in CleanBridge /\ Modes(slip[w].mode, line[w], 0)

\* At first every line is empty and every receiver outside a frame.
LEMMA MixInit ==
    ASSUME Init
    PROVE  MixInv
<1> SUFFICES ASSUME NEW w \in Way PROVE Here(w) \in CleanBridge /\ Modes(slip[w].mode, line[w], 0)
  BY DEF MixInv
<1>1. /\ line[w] = << >> /\ slip[w].mode = 0 /\ Here(w).slip.buf = << >>
      /\ Here(w).text = << >> /\ Here(w).packets = << >>
  BY DEF Init, Here, slip_init
<1>2. Here(w) \in Bridge
  BY TypeInit DEF TypeInv
<1>3. \A S : << >> \in Seq(S)
  OBVIOUS
<1>4. Here(w) \in CleanBridge
  BY <1>1, <1>2, <1>3 DEF CleanBridge
<1>5. Modes(0, << >>, 0)
  BY ModesNone
<1> QED  BY <1>1, <1>4, <1>5

\* Every step preserves MixInv, whatever bytes but END the line loses.
LEMMA MixNext ==
    ASSUME Apart, TypeInv, MixInv, [Next]_vars
    PROVE  MixInv'
<1> SUFFICES ASSUME NEW v \in Way
             PROVE  (Here(v) \in CleanBridge)' /\ Modes(slip'[v].mode, line'[v], 0)
  BY DEF MixInv
<1>1. /\ Here(v) \in CleanBridge /\ Modes(slip[v].mode, line[v], 0)
      /\ Here(v) \in Bridge /\ line[v] \in Seq(Byte)
  BY HereType DEF MixInv
<1>2. Here(v).slip = slip[v] /\ Here(v)'.slip = slip'[v] /\ slip[v].mode \in {0, 1}
  BY <1>1 DEF Here, Bridge, SlipState
<1>3. ASSUME Here(v)' = Here(v), line'[v] = line[v]
      PROVE  (Here(v) \in CleanBridge)' /\ Modes(slip'[v].mode, line'[v], 0)
  <2>1. slip'[v] = slip[v]
    BY <1>2, <1>3
  <2>2. Here(v)' \in CleanBridge
    BY <1>1, <1>3
  <2> QED  BY <1>1, <1>3, <2>1, <2>2 DEF CleanBridge
<1>4. ASSUME Here(v)' = Here(v), Modes(slip[v].mode, line'[v], 0)
      PROVE  (Here(v) \in CleanBridge)' /\ Modes(slip'[v].mode, line'[v], 0)
  <2>1. slip'[v] = slip[v]
    BY <1>2, <1>4
  <2>2. Here(v)' \in CleanBridge
    BY <1>1, <1>4
  <2> QED  BY <1>4, <2>1, <2>2 DEF CleanBridge
<1>5. CASE UNCHANGED vars
  BY <1>3, <1>5, Resting DEF vars
<1>6. ASSUME NEW w \in Way, NEW frame \in Frames, SendFrame(w, frame)
      PROVE  (Here(v) \in CleanBridge)' /\ Modes(slip'[v].mode, line'[v], 0)
  <2>1. Here(v)' = Here(v)
    BY <1>6, FrameSent, Resting
  <2>2. CASE v = w
    <3>1. line'[v] = line[v] \o slip_send(frame)
      BY <1>6, <2>2, FrameSent
    <3>2. Modes(slip[v].mode, line[v] \o slip_send(frame), 0)
      BY <1>1, <1>2, ModesFrame
    <3> QED  BY <1>4, <2>1, <3>1, <3>2
  <2>3. CASE v # w
    <3>1. line'[v] = line[v]
      BY <1>6, <2>3, FrameSent
    <3> QED  BY <1>3, <2>1, <3>1
  <2> QED  BY <2>2, <2>3
<1>7. ASSUME NEW w \in Way, NEW c \in TextBytes, SendText(w, c)
      PROVE  (Here(v) \in CleanBridge)' /\ Modes(slip'[v].mode, line'[v], 0)
  <2>1. Here(v)' = Here(v)
    BY <1>7, TextSent, Resting
  <2>2. CASE v = w
    <3>1. line'[v] = Append(line[v], c)
      BY <1>7, <2>2, TextSent
    <3>2. c \in Byte /\ Fits(c, 0) /\ Flip(c, 0) = 0
      BY ItemAssumption DEF Fits, Flip
    <3>3. Modes(slip[v].mode, Append(line[v], c), Flip(c, 0))
      BY <1>1, <1>2, <3>2, ModesMore
    <3> QED  BY <1>4, <2>1, <3>1, <3>2, <3>3
  <2>3. CASE v # w
    <3>1. line'[v] = line[v]
      BY <1>7, <2>3, TextSent
    <3> QED  BY <1>3, <2>1, <3>1
  <2> QED  BY <2>2, <2>3
<1>8. ASSUME NEW w \in Way, Receive(w)
      PROVE  (Here(v) \in CleanBridge)' /\ Modes(slip'[v].mode, line'[v], 0)
  <2>1. CASE v = w
    <3> DEFINE c == Head(line[v])
    <3>1. /\ line[v] # << >> /\ c \in Byte
          /\ Here(v)' = Taken(v, c, Here(v)) /\ line'[v] = Tail(line[v])
      BY <1>8, <2>1, ReceiveTakes, ReceiveHere
    <3> HIDE DEF c
    <3>2. Fits(c, slip[v].mode) /\ Modes(Flip(c, slip[v].mode), Tail(line[v]), 0)
      BY <1>1, <1>2, <3>1, ModesTail DEF c
    <3>3. Taken(v, c, Here(v)) \in CleanBridge
      BY <1>1, <1>2, <3>1, <3>2, TakenClean
    <3>4. slip'[v].mode = Flip(c, slip[v].mode)
      <4>1. slip'[v] = slip_recv(c, slip[v])
        BY <1>2, <3>1 DEF Taken
      <4> QED  BY <4>1 DEF slip_recv, Flip
    <3>5. Here(v)' \in CleanBridge
      BY <3>1, <3>3
    <3> QED  BY <3>1, <3>2, <3>4, <3>5 DEF CleanBridge
  <2>2. CASE v # w
    <3>1. Here(v)' = Here(v) /\ line'[v] = line[v]
      BY <1>8, <2>2, ReceiveHere
    <3> QED  BY <1>3, <3>1
  <2> QED  BY <2>1, <2>2
<1>9. ASSUME NEW w \in Way, Lose(w)
      PROVE  (Here(v) \in CleanBridge)' /\ Modes(slip'[v].mode, line'[v], 0)
  <2>1. Here(v)' = Here(v)
    BY <1>9, ByteLost, Resting
  <2>2. CASE v = w
    <3>1. PICK i \in 1 .. Len(line[v]) : line[v][i] \in Lossable /\ line'[v] = RemoveAt(line[v], i)
      BY <1>9, <2>2, ByteLost
    <3>2. line[v][i] # "END"
      BY <3>1 DEF Apart
    <3>3. Modes(slip[v].mode, RemoveAt(line[v], i), 0)
      BY <1>1, <1>2, <3>2, ModesLess
    <3> QED  BY <1>4, <2>1, <3>1, <3>3
  <2>3. CASE v # w
    <3>1. line'[v] = line[v]
      BY <1>9, <2>3, ByteLost
    <3> QED  BY <1>3, <2>1, <3>1
  <2> QED  BY <2>2, <2>3
<1> QED  BY <1>5, <1>6, <1>7, <1>8, <1>9 DEF Next

\* While the line loses no END, no byte of a frame is printed as text and no text gets
\* into a packet, for both tools, however many other bytes are lost and wherever.
THEOREM NothingMixed ==
    ASSUME Apart
    PROVE  Spec => []NoMixing
<1>1. Init => MixInv
  BY MixInit
<1>2. TypeInv /\ MixInv /\ [Next]_vars => MixInv'
  BY MixNext
<1>3. MixInv => NoMixing
  <2> SUFFICES ASSUME MixInv, NEW w \in Way
               PROVE  /\ \A i \in DOMAIN text[w] : text[w][i] \in TextBytes \cup {"END"}
                      /\ \A i \in DOMAIN packets[w] : Range(packets[w][i]) \cap TextBytes = {}
    BY DEF NoMixing
  <2>1. text[w] \in Seq(TextBytes \cup {"END"}) /\ packets[w] \in Seq(Seq(Byte \ TextBytes))
    BY DEF MixInv, CleanBridge, Here
  <2>2. \A i \in DOMAIN text[w] : text[w][i] \in TextBytes \cup {"END"}
    BY <2>1, ElementOfSeq, LenProperties
  <2>3. ASSUME NEW i \in DOMAIN packets[w]
        PROVE  Range(packets[w][i]) \cap TextBytes = {}
    <3>1. packets[w][i] \in Seq(Byte \ TextBytes)
      BY <2>1, ElementOfSeq, LenProperties
    <3> DEFINE q == packets[w][i]
    <3> HIDE DEF q
    <3>2. \A j \in DOMAIN q : q[j] \in Byte \ TextBytes
      BY <3>1, ElementOfSeq, LenProperties DEF q
    <3>3. Range(q) \cap TextBytes = {}
      BY <3>2 DEF Range
    <3> QED  BY <3>3 DEF q
  <2> QED  BY <2>2, <2>3
<1> QED  BY <1>1, <1>2, <1>3, AlwaysTyped, PTL DEF Spec
=============================================================================
