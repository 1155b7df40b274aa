------------------------- MODULE ShadowStackProofs -------------------------
(***************************************************************************)
(* push and pop of shadow_stack.c are Append and Front on the sequence the *)
(* record stands for, for every size of the array.                         *)
(***************************************************************************)
EXTENDS ShadowStack, SequencesExt, SequenceTheorems, TLAPS

\* What Front and Last do to a non-empty sequence.
LEMMA FrontLast ==
    ASSUME NEW S, NEW s \in Seq(S), s # << >>
    PROVE  /\ Front(s) \in Seq(S)
           /\ Last(s) \in S
           /\ Last(s) = s[Len(s)]
           /\ Len(s) \in Nat \ {0}
           /\ Len(Front(s)) = Len(s) - 1
           /\ \A i \in 1 .. Len(s) - 1 : Front(s)[i] = s[i]
<1>1. Len(s) \in Nat \ {0}
  BY EmptySeq
<1>2. \A i \in 1 .. Len(s) : s[i] \in S
  BY ElementOfSeq
<1>3. /\ SubSeq(s, 1, Len(s) - 1) \in Seq(S)
      /\ Len(SubSeq(s, 1, Len(s) - 1)) = Len(s) - 1
      /\ \A i \in 1 .. Len(s) - 1 : SubSeq(s, 1, Len(s) - 1)[i] = s[i]
  <2>1. /\ SubSeq(s, 1, Len(s) - 1) \in Seq(S)
        /\ Len(SubSeq(s, 1, Len(s) - 1)) = IF 1 <= Len(s) - 1
                                           THEN Len(s) - 1 - 1 + 1 ELSE 0
        /\ \A i \in 1 .. Len(s) - 1 - 1 + 1 :
              SubSeq(s, 1, Len(s) - 1)[i] = s[1 + i - 1]
    BY <1>1, <1>2, SubSeqProperties
  <2>2. Len(s) - 1 - 1 + 1 = Len(s) - 1
    BY <1>1
  <2>3. Len(SubSeq(s, 1, Len(s) - 1)) = Len(s) - 1
    <3>1. CASE 1 <= Len(s) - 1
      BY <2>1, <2>2, <3>1
    <3>2. CASE ~(1 <= Len(s) - 1)
      <4>1. \A n \in Nat \ {0} : ~(1 <= n - 1) => n - 1 = 0
        OBVIOUS
      <4>2. Len(s) - 1 = 0
        BY <1>1, <3>2, <4>1, Zenon
      <4> QED  BY <2>1, <3>2, <4>2, Zenon
    <3> QED  BY <3>1, <3>2
  <2>4. \A i \in 1 .. Len(s) - 1 : 1 + i - 1 = i
    OBVIOUS
  <2>5. \A i \in 1 .. Len(s) - 1 : SubSeq(s, 1, Len(s) - 1)[i] = s[1 + i - 1]
    BY <2>1, <2>2, Zenon
  <2>6. \A i \in 1 .. Len(s) - 1 : SubSeq(s, 1, Len(s) - 1)[i] = s[i]
    BY <2>4, <2>5, Zenon
  <2> QED  BY <2>1, <2>3, <2>6, Zenon
<1> QED
  BY <1>1, <1>2, <1>3 DEF Front, Last

\* Append undoes Front and Last.
LEMMA AppendFrontLast ==
    ASSUME NEW S, NEW s \in Seq(S), s # << >>
    PROVE  Append(Front(s), Last(s)) = s
<1> DEFINE f == Front(s)
           t == Append(f, Last(s))
<1>1. /\ f \in Seq(S) /\ Last(s) \in S /\ Last(s) = s[Len(s)]
      /\ Len(s) \in Nat \ {0} /\ Len(f) = Len(s) - 1
      /\ \A i \in 1 .. Len(s) - 1 : f[i] = s[i]
  BY FrontLast
<1>2. /\ t \in Seq(S) /\ Len(t) = Len(f) + 1
      /\ \A i \in 1 .. Len(f) : t[i] = f[i]
      /\ t[Len(f) + 1] = Last(s)
  BY <1>1, AppendProperties
<1> HIDE DEF f, t
<1>3. Len(t) = Len(s)
  BY <1>1, <1>2
<1>4. ASSUME NEW i \in 1 .. Len(t) PROVE t[i] = s[i]
  <2>1. CASE i = Len(s)
    BY <2>1, <1>1, <1>2
  <2>2. CASE i # Len(s)
    BY <2>2, <1>1, <1>2, <1>3
  <2> QED  BY <2>1, <2>2
<1>5. t = s
  BY <1>2, <1>3, <1>4, SeqEqual
<1> QED  BY <1>5 DEF t, f

\* Front and Last undo Append.
LEMMA FrontLastAppend ==
    ASSUME NEW S, NEW s \in Seq(S), NEW e \in S
    PROVE  /\ Append(s, e) \in Seq(S)
           /\ Append(s, e) # << >>
           /\ Len(Append(s, e)) = Len(s) + 1
           /\ Front(Append(s, e)) = s
           /\ Last(Append(s, e)) = e
<1> DEFINE t == Append(s, e)
<1>1. /\ t \in Seq(S) /\ t # << >> /\ Len(t) = Len(s) + 1
      /\ \A i \in 1 .. Len(s) : t[i] = s[i]
      /\ t[Len(s) + 1] = e
  BY AppendProperties
<1>2. Len(s) \in Nat
  BY LenProperties
<1>3. /\ Front(t) \in Seq(S) /\ Last(t) = t[Len(t)]
      /\ Len(Front(t)) = Len(t) - 1
      /\ \A i \in 1 .. Len(t) - 1 : Front(t)[i] = t[i]
  BY <1>1, FrontLast
<1>4. Front(t) = s
  <2>1. /\ Len(Front(t)) = Len(s)
        /\ \A i \in 1 .. Len(Front(t)) : Front(t)[i] = s[i]
    BY <1>1, <1>2, <1>3
  <2> HIDE DEF t
  <2> QED  BY <2>1, <1>3, SeqEqual
<1> QED
  BY <1>1, <1>2, <1>3, <1>4

\* A legal record stands for a sequence of at most MAX_SIZE words.
LEMMA ContentsType ==
    ASSUME NEW s \in SStack
    PROVE  /\ Contents(s) \in Seq(Word)
           /\ Len(Contents(s)) = s.top + 1
           /\ \A i \in 1 .. s.top + 1 : Contents(s)[i] = s.addresses[i - 1]
           /\ isFull(s) <=> Len(Contents(s)) = MAX_SIZE
           /\ isEmpty(s) <=> Contents(s) = << >>
           /\ Len(Contents(s)) <= MAX_SIZE
<1>1. /\ s.top + 1 \in Nat /\ s.top + 1 <= MAX_SIZE
      /\ s.top \in -1 .. MAX_SIZE - 1
      /\ s.addresses \in [Index -> Word]
  BY SizeAssumption DEF SStack
<1>2. \A i \in 1 .. s.top + 1 : s.addresses[i - 1] \in Word
  BY <1>1, SizeAssumption DEF Index
<1>3. Contents(s) \in [1 .. s.top + 1 -> Word]
  BY <1>2 DEF Contents
<1>4. Contents(s) \in Seq(Word) /\ Len(Contents(s)) = s.top + 1
  BY <1>1, <1>3
<1>5. \A i \in 1 .. s.top + 1 : Contents(s)[i] = s.addresses[i - 1]
  BY DEF Contents
<1>6. Contents(s) = << >> <=> s.top + 1 = 0
  BY <1>4, EmptySeq
<1> QED
  BY <1>1, <1>4, <1>5, <1>6, SizeAssumption DEF isFull, isEmpty

\* The static initialiser is a legal empty stack.
LEMMA EmptyStackType ==
    /\ EmptyStack \in SStack
    /\ Contents(EmptyStack) = << >>
<1>1. EmptyStack \in SStack
  BY SizeAssumption, WordAssumption DEF EmptyStack, SStack, Index, Word
<1> QED
  BY <1>1, ContentsType DEF EmptyStack, isEmpty

\* push below the limit appends the address; at the limit it changes nothing
\* and says so.
THEOREM PushAppends ==
    ASSUME NEW s \in SStack, NEW a \in Word
    PROVE  /\ Push(s, a) \in SStack
           /\ Len(Contents(s)) < MAX_SIZE =>
                /\ PushResult(s) = 1
                /\ Contents(Push(s, a)) = Append(Contents(s), a)
           /\ Len(Contents(s)) = MAX_SIZE => PushResult(s) = 0 /\ Push(s, a) = s
           /\ Len(Contents(s)) <= MAX_SIZE
<1>1. CASE isFull(s)
  BY <1>1, ContentsType DEF PushResult, Push
<1>2. CASE ~isFull(s)
  <2> DEFINE t == Push(s, a)
  <2>1. /\ s.top \in -1 .. MAX_SIZE - 1 /\ s.top # MAX_SIZE - 1
        /\ s.addresses \in [Index -> Word]
    BY <1>2 DEF SStack, isFull
  <2>2. /\ t = [addresses |-> [s.addresses EXCEPT ![s.top + 1] = a],
                top |-> s.top + 1]
        /\ PushResult(s) = 1
    BY <1>2 DEF Push, PushResult
  <2>3. s.top + 1 \in Index /\ s.top + 1 \in -1 .. MAX_SIZE - 1
    BY <2>1, SizeAssumption DEF Index
  <2>4. /\ t \in SStack /\ t.top = s.top + 1
        /\ t.addresses = [s.addresses EXCEPT ![s.top + 1] = a]
    BY <2>1, <2>2, <2>3 DEF SStack
  <2> HIDE DEF t
  <2>5. /\ Contents(t) \in Seq(Word) /\ Len(Contents(t)) = s.top + 2
        /\ \A i \in 1 .. s.top + 2 : Contents(t)[i] = t.addresses[i - 1]
    <3>1. t.top + 1 = s.top + 2
      BY <2>4, <2>1
    <3> QED  BY <3>1, <2>4, ContentsType, Zenon
  <2>6. /\ Contents(s) \in Seq(Word) /\ Len(Contents(s)) = s.top + 1
        /\ \A i \in 1 .. s.top + 1 : Contents(s)[i] = s.addresses[i - 1]
    BY ContentsType
  <2>7. /\ Append(Contents(s), a) \in Seq(Word)
        /\ Len(Append(Contents(s), a)) = s.top + 2
        /\ \A i \in 1 .. s.top + 1 :
              Append(Contents(s), a)[i] = s.addresses[i - 1]
        /\ Append(Contents(s), a)[s.top + 2] = a
    <3>1. /\ Append(Contents(s), a) \in Seq(Word)
          /\ Len(Append(Contents(s), a)) = Len(Contents(s)) + 1
          /\ \A i \in 1 .. Len(Contents(s)) :
                Append(Contents(s), a)[i] = Contents(s)[i]
          /\ Append(Contents(s), a)[Len(Contents(s)) + 1] = a
      BY <2>6, AppendProperties
    <3> QED  BY <3>1, <2>6, <2>1, SizeAssumption
  <2>8. \A i \in 1 .. s.top + 2 :
           t.addresses[i - 1] = IF i = s.top + 2 THEN a ELSE s.addresses[i - 1]
    BY <2>1, <2>3, <2>4, SizeAssumption DEF Index
  <2>9. Contents(t) = Append(Contents(s), a)
    <3>1. \A i \in 1 .. Len(Contents(t)) :
             Contents(t)[i] = Append(Contents(s), a)[i]
      <4> SUFFICES ASSUME NEW i \in 1 .. s.top + 2
                   PROVE  Contents(t)[i] = Append(Contents(s), a)[i]
        BY <2>5
      <4>1. CASE i = s.top + 2
        BY <4>1, <2>5, <2>7, <2>8, Zenon
      <4>2. CASE i # s.top + 2
        <5>1. i \in 1 .. s.top + 1
          BY <4>2, <2>1
        <5>2. Contents(t)[i] = s.addresses[i - 1]
          BY <4>2, <2>5, <2>8, Zenon
        <5>3. Append(Contents(s), a)[i] = s.addresses[i - 1]
          BY <5>1, <2>7, Zenon
        <5> QED  BY <5>2, <5>3
      <4> QED  BY <4>1, <4>2
    <3> QED  BY <3>1, <2>5, <2>7, SeqEqual
  <2> QED
    BY <1>2, <2>2, <2>4, <2>9, ContentsType DEF t
<1> QED  BY <1>1, <1>2

\* pop of a non-empty stack answers the newest address and removes it; of an
\* empty one it answers 0 and changes nothing.
THEOREM PopTakesLast ==
    ASSUME NEW s \in SStack
    PROVE  /\ Pop(s) \in SStack
           /\ PopResult(s) \in Word
           /\ Contents(s) # << >> =>
                /\ PopResult(s) = Last(Contents(s))
                /\ Contents(Pop(s)) = Front(Contents(s))
           /\ Contents(s) = << >> => PopResult(s) = 0 /\ Pop(s) = s
<1>1. CASE isEmpty(s)
  BY <1>1, ContentsType, WordAssumption DEF Pop, PopResult, Word
<1>2. CASE ~isEmpty(s)
  <2> DEFINE t == Pop(s)
  <2>1. /\ s.top \in 0 .. MAX_SIZE - 1
        /\ s.addresses \in [Index -> Word]
        /\ s = [addresses |-> s.addresses, top |-> s.top]
    BY <1>2, SizeAssumption DEF SStack, isEmpty
  <2>2. t = [s EXCEPT !.top = s.top - 1] /\ PopResult(s) = s.addresses[s.top]
    BY <1>2 DEF Pop, PopResult
  <2>3. /\ t \in SStack /\ t.top = s.top - 1 /\ t.addresses = s.addresses
        /\ PopResult(s) \in Word
    BY <2>1, <2>2, SizeAssumption DEF SStack, Index
  <2> HIDE DEF t
  <2>4. /\ Contents(t) \in Seq(Word) /\ Len(Contents(t)) = s.top
        /\ \A i \in 1 .. s.top : Contents(t)[i] = s.addresses[i - 1]
    BY <2>3, <2>1, ContentsType, SizeAssumption
  <2>5. /\ Contents(s) \in Seq(Word) /\ Len(Contents(s)) = s.top + 1
        /\ \A i \in 1 .. s.top + 1 : Contents(s)[i] = s.addresses[i - 1]
        /\ Contents(s) # << >>
    BY <1>2, ContentsType
  <2>6. /\ Front(Contents(s)) \in Seq(Word)
        /\ Last(Contents(s)) = Contents(s)[s.top + 1]
        /\ Len(Front(Contents(s))) = s.top
        /\ \A i \in 1 .. s.top : Front(Contents(s))[i] = Contents(s)[i]
    <3>1. /\ Front(Contents(s)) \in Seq(Word)
          /\ Last(Contents(s)) = Contents(s)[Len(Contents(s))]
          /\ Len(Front(Contents(s))) = Len(Contents(s)) - 1
          /\ \A i \in 1 .. Len(Contents(s)) - 1 :
                Front(Contents(s))[i] = Contents(s)[i]
      BY <2>5, FrontLast
    <3> QED  BY <3>1, <2>5, <2>1, SizeAssumption
  <2>7. PopResult(s) = Last(Contents(s))
    BY <2>1, <2>2, <2>5, <2>6, SizeAssumption
  <2>8. Contents(t) = Front(Contents(s))
    <3>1. \A i \in 1 .. Len(Contents(t)) :
             Contents(t)[i] = Front(Contents(s))[i]
      <4> SUFFICES ASSUME NEW i \in 1 .. s.top
                   PROVE  Contents(t)[i] = Front(Contents(s))[i]
        BY <2>4
      <4>1. i \in 1 .. s.top + 1
        BY <2>1
      <4> QED  BY <4>1, <2>4, <2>5, <2>6, Zenon
    <3> QED  BY <3>1, <2>4, <2>6, SeqEqual
  <2> QED
    BY <2>3, <2>5, <2>7, <2>8 DEF t
<1> QED  BY <1>1, <1>2
=============================================================================
