--------------------------- MODULE BootLinkProofs ---------------------------
(***************************************************************************)
(* esputil's dialogue with the bootloader never takes one answer for        *)
(* another: for every list of files and addresses, every chip, every        *)
(* refusal, and answers that are lost, late, cut or discarded.              *)
(***************************************************************************)
EXTENDS BootLink, SequenceLemmas

\* Requests and answers.
Steps   == [op : Ops, arg : Seq(Nat), onError : {"fail", "retry", "stop", "go"}]
Replies == {r \in [op : Ops \cup {"none"}, refused : BOOLEAN,
                  id : Chips \cup {"unknown", "none"}, value : Seq(Nat)] :
              r.op = "none" => ~r.refused}
Tokens  == {t \in [kind : {"END", "body", "text"}, reply : Replies] :
              t.kind # "body" => t.reply.op = "none"}

Reading == {"readmem", "readflash"}

\* The operation a command is about: whatever it repeats, once for each block or word.
Work(c) == CASE c = "flash"     -> "flash_data"
             [] c = "readmem"   -> "read_reg"
             [] c = "readflash" -> "read_flash"
             [] c = "info"      -> "nothing"

\* What command c may still ask for once the chip is known.
LaterSteps(c) ==
    {s \in Steps : /\ s.op # "sync" /\ s.onError # "retry"
                   /\ ~(s.op = "read_reg" /\ s.onError = "fail")
                   /\ s.onError = "stop" => c \in Reading
                   /\ s.op = Work(c) => s.onError # "go"
                   /\ s.op \in {"read_reg", "read_flash"} /\ c \in Reading => s.op = Work(c)
                   /\ s.op = "flash_data" => c = "flash"}

-----------------------------------------------------------------------------
\* Sequences none, or at most one, of whose elements is in a set

None(s, S) == \A i \in 1 .. Len(s) : s[i] \notin S
One(s, S)  == \A i, j \in 1 .. Len(s) : s[i] \in S /\ s[j] \in S => i = j

\* What is true of a sequence and one element more.
LEMMA CountAppend ==
    ASSUME NEW T, NEW S, NEW s \in Seq(T), NEW e \in T
    PROVE  /\ None(s, S) /\ e \notin S => None(Append(s, e), S)
           /\ None(s, S) => One(Append(s, e), S)
           /\ One(s, S) /\ e \notin S => One(Append(s, e), S)
<1>1. /\ Len(Append(s, e)) = Len(s) + 1 /\ Len(s) \in Nat
      /\ \A i \in 1 .. Len(s) : Append(s, e)[i] = s[i]
      /\ Append(s, e)[Len(s) + 1] = e
  BY AppendProperties, LenProperties
<1>2. \A i \in 1 .. Len(s) + 1 : i \in 1 .. Len(s) \/ i = Len(s) + 1
  BY <1>1
<1> DEFINE longer == Append(s, e)
           n == Len(s)
<1> HIDE DEF longer, n
<1>3. Len(longer) = n + 1 /\ (\A i \in 1 .. n : longer[i] = s[i]) /\ longer[n + 1] = e
      /\ \A i \in 1 .. n + 1 : i \in 1 .. n \/ i = n + 1
  BY <1>1, <1>2 DEF longer, n
<1>4. ASSUME None(s, S), e \notin S
      PROVE  None(longer, S)
  BY <1>3, <1>4 DEF None, n
<1>5. ASSUME None(s, S)
      PROVE  One(longer, S)
  BY <1>3, <1>5 DEF None, One, n
<1>6. ASSUME One(s, S), e \notin S
      PROVE  One(longer, S)
  BY <1>3, <1>6 DEF One, n
<1> QED  BY <1>4, <1>5, <1>6 DEF longer

\* What is true of a sequence is true of the end of it.
LEMMA CountSuffix ==
    ASSUME NEW T, NEW S, NEW s \in Seq(T), NEW n \in 0 .. Len(s)
    PROVE  /\ SubSeq(s, n + 1, Len(s)) \in Seq(T)
           /\ None(s, S) => None(SubSeq(s, n + 1, Len(s)), S)
           /\ One(s, S) => One(SubSeq(s, n + 1, Len(s)), S)
<1> DEFINE rest == SubSeq(s, n + 1, Len(s))
           m == Len(s)
<1>1. /\ m \in Nat /\ rest \in Seq(T) /\ Len(rest) = m - n
      /\ \A i \in 1 .. m - n : rest[i] = s[n + i]
  OBVIOUS
<1>2. \A i \in 1 .. m - n : n + i \in 1 .. m
  BY <1>1
<1> HIDE DEF rest, m
<1>3. ASSUME None(s, S)
      PROVE  None(rest, S)
  BY <1>1, <1>2, <1>3 DEF None, m
<1>4. ASSUME One(s, S)
      PROVE  One(rest, S)
  <2> SUFFICES ASSUME NEW i \in 1 .. m - n, NEW j \in 1 .. m - n, rest[i] \in S, rest[j] \in S
               PROVE  i = j
    BY <1>1 DEF One
  <2>1. s[n + i] \in S /\ s[n + j] \in S
    BY <1>1
  <2>2. n + i = n + j
    BY <1>2, <1>4, <2>1 DEF One, m
  <2>3. n \in Int
    OBVIOUS
  <2> QED  BY <2>2, <2>3
<1> QED  BY <1>1, <1>3, <1>4 DEF rest, m

\* What is true of a sequence without its first element.
LEMMA CountTail ==
    ASSUME NEW T, NEW S, NEW s \in Seq(T), s # << >>
    PROVE  /\ Tail(s) \in Seq(T) /\ Head(s) \in T
           /\ None(s, S) => None(Tail(s), S) /\ Head(s) \notin S
           /\ One(s, S) => One(Tail(s), S)
           /\ One(s, S) /\ Head(s) \in S => None(Tail(s), S)
           /\ Head(s) \notin S /\ None(Tail(s), S) => None(s, S)
<1> DEFINE rest == Tail(s)
           m == Len(s)
<1>1. /\ m \in Nat /\ m >= 1 /\ rest \in Seq(T) /\ Len(rest) = m - 1
      /\ Head(s) = s[1] /\ s[1] \in T
      /\ \A i \in 1 .. m - 1 : rest[i] = s[i + 1]
  OBVIOUS
<1>2. 1 \in 1 .. m /\ \A i \in 1 .. m - 1 : i + 1 \in 1 .. m /\ i + 1 # 1
  BY <1>1
<1>3. \A i, j \in 1 .. m - 1 : i + 1 = j + 1 => i = j
  BY <1>1
<1>4. \A i \in 1 .. m : i = 1 \/ (i - 1 \in 1 .. m - 1 /\ (i - 1) + 1 = i)
  BY <1>1
<1> HIDE DEF rest, m
<1>5. ASSUME None(s, S)
      PROVE  None(rest, S) /\ s[1] \notin S
  BY <1>1, <1>2, <1>5 DEF None, m
<1>6. ASSUME One(s, S)
      PROVE  One(rest, S) /\ (s[1] \in S => None(rest, S))
  <2>1. \A i, j \in 1 .. m : s[i] \in S /\ s[j] \in S => i = j
    BY <1>6 DEF One, m
  <2>2. One(rest, S)
    <3>1. \A i, j \in 1 .. m - 1 : rest[i] \in S /\ rest[j] \in S => i + 1 = j + 1
      BY <1>1, <1>2, <2>1, Zenon
    <3>2. \A i, j \in 1 .. m - 1 : rest[i] \in S /\ rest[j] \in S => i = j
      BY <1>3, <3>1, Zenon
    <3> QED  BY <1>1, <3>2, Zenon DEF One
  <2>3. s[1] \in S => None(rest, S)
    BY <1>1, <1>2, <2>1 DEF None
  <2> QED  BY <2>2, <2>3
<1>7. ASSUME s[1] \notin S, None(rest, S)
      PROVE  None(s, S)
  <2> SUFFICES ASSUME NEW i \in 1 .. m PROVE s[i] \notin S
    BY DEF None, m
  <2>1. CASE i = 1
    BY <1>7, <2>1
  <2>2. CASE i # 1
    <3>1. i - 1 \in 1 .. m - 1 /\ (i - 1) + 1 = i
      BY <1>4, <2>2
    <3>2. rest[i - 1] = s[i] /\ rest[i - 1] \notin S
      BY <1>1, <1>7, <3>1 DEF None
    <3> QED  BY <3>2
  <2> QED  BY <2>1, <2>2
<1> QED  BY <1>1, <1>5, <1>6, <1>7 DEF rest

\* What is true of two sequences is true of both together.
LEMMA CountConcat ==
    ASSUME NEW T, NEW S, NEW s \in Seq(T), NEW t \in Seq(T)
    PROVE  /\ None(s, S) /\ None(t, S) => None(s \o t, S)
           /\ One(s, S) /\ None(t, S) => One(s \o t, S)
           /\ None(s, S) /\ One(t, S) => One(s \o t, S)
<1> DEFINE both == s \o t
           n == Len(s)
           m == Len(t)
<1>1. /\ n \in Nat /\ m \in Nat /\ Len(both) = n + m
      /\ \A i \in 1 .. n + m : both[i] = IF i <= n THEN s[i] ELSE t[i - n]
  BY ConcatProperties, LenProperties
<1>2. \A i \in 1 .. n + m : IF i <= n THEN i \in 1 .. n ELSE i - n \in 1 .. m
  BY <1>1
<1>3. \A i, j \in 1 .. n + m : i - n = j - n => i = j
  BY <1>1
<1> HIDE DEF both, n, m
<1>4. \A i \in 1 .. n + m : \/ i \in 1 .. n /\ both[i] = s[i]
                            \/ i - n \in 1 .. m /\ both[i] = t[i - n]
  BY <1>1, <1>2
<1>5. ASSUME None(s, S), None(t, S)
      PROVE  None(both, S)
  BY <1>1, <1>4, <1>5 DEF None, n, m
<1>6. ASSUME One(s, S), None(t, S)
      PROVE  One(both, S)
  <2>1. \A i \in 1 .. n + m : both[i] \in S => i \in 1 .. n /\ both[i] = s[i]
    BY <1>4, <1>6 DEF None, m
  <2> QED  BY <1>1, <1>6, <2>1 DEF One, n
<1>7. ASSUME None(s, S), One(t, S)
      PROVE  One(both, S)
  <2>1. \A i \in 1 .. n + m : both[i] \in S => i - n \in 1 .. m /\ both[i] = t[i - n]
    BY <1>4, <1>7 DEF None, n
  <2>2. \A i, j \in 1 .. n + m : both[i] \in S /\ both[j] \in S => i - n = j - n
    BY <1>7, <2>1 DEF One, m
  <2> QED  BY <1>1, <1>3, <2>2 DEF One
<1> QED  BY <1>5, <1>6, <1>7 DEF both

-----------------------------------------------------------------------------
\* What a script asks for

\* The steps of the script s for operation o are about the members of args, in order:
\* rest[i] is what is left of args before step i.
Lists(o, s, args) ==
    \E rest \in [1 .. Len(s) + 1 -> Seq(Seq(Nat))] :
        /\ rest[1] = args /\ rest[Len(s) + 1] = << >>
        /\ \A i \in 1 .. Len(s) :
             rest[i] = IF s[i].op = o THEN <<s[i].arg>> \o rest[i + 1] ELSE rest[i + 1]

\* An argument is a sequence, and so is a sequence of one.
LEMMA StepArg ==
    ASSUME NEW step \in Steps
    PROVE  step.arg \in Seq(Nat) /\ <<step.arg>> \in Seq(Seq(Nat))
<1>1. step.arg \in Seq(Nat)
  BY DEF Steps
<1>2. \A S : \A x \in S : <<x>> \in Seq(S)
  OBVIOUS
<1> QED  BY <1>1, <1>2

\* No step, no argument.
LEMMA ListsNone ==
    ASSUME NEW o, NEW args
    PROVE  Lists(o, << >>, args) <=> args = << >>
<1>1. Len(<< >>) = 0 /\ 1 .. Len(<< >>) = {} /\ 1 .. Len(<< >>) + 1 = {1}
      /\ << >> \in Seq(Seq(Nat))
  OBVIOUS
<1>2. ASSUME Lists(o, << >>, args)
      PROVE  args = << >>
  BY <1>1, <1>2 DEF Lists
<1>3. ASSUME args = << >>
      PROVE  Lists(o, << >>, args)
  <2> DEFINE rest == [i \in {1} |-> << >>]
  <2>1. rest \in [1 .. Len(<< >>) + 1 -> Seq(Seq(Nat))] /\ rest[1] = << >>
    BY <1>1
  <2> HIDE DEF rest
  <2> QED  BY <1>1, <1>3, <2>1 DEF Lists
<1> QED  BY <1>2, <1>3

\* The first step is about the first argument, or about none.
LEMMA ListsTail ==
    ASSUME NEW o, NEW s \in Seq(Steps), s # << >>, NEW args, Lists(o, s, args)
    PROVE  /\ Head(s) \in Steps /\ Tail(s) \in Seq(Steps)
           /\ Head(s).op # o => Lists(o, Tail(s), args)
           /\ Head(s).op = o => \E more \in Seq(Seq(Nat)) :
                                  args = <<Head(s).arg>> \o more /\ Lists(o, Tail(s), more)
<1> DEFINE n == Len(s)
           t == Tail(s)
<1>1. PICK rest \in [1 .. n + 1 -> Seq(Seq(Nat))] :
        /\ rest[1] = args /\ rest[n + 1] = << >>
        /\ \A i \in 1 .. n : rest[i] = IF s[i].op = o THEN <<s[i].arg>> \o rest[i + 1] ELSE rest[i + 1]
  BY DEF Lists
<1>2. /\ n \in Nat /\ n >= 1 /\ Len(t) = n - 1 /\ Head(s) = s[1] /\ s[1] \in Steps
      /\ t \in Seq(Steps) /\ \A i \in 1 .. n - 1 : t[i] = s[i + 1]
  OBVIOUS
<1> HIDE DEF n, t
<1> DEFINE q == [i \in 1 .. n |-> rest[i + 1]]
<1>3. \A i \in 1 .. n : i + 1 \in 1 .. n + 1
  BY <1>2
<1>4. q \in [1 .. n -> Seq(Seq(Nat))]
  BY <1>1, <1>3
<1>5. 1 \in 1 .. n /\ n \in 1 .. n /\ 2 \in 1 .. n + 1 /\ 1 + 1 = 2
  BY <1>2
<1>6. q[1] = rest[2] /\ q[n] = << >>
  BY <1>1, <1>5
<1>7. ASSUME NEW i \in 1 .. n - 1
      PROVE  q[i] = IF t[i].op = o THEN <<t[i].arg>> \o q[i + 1] ELSE q[i + 1]
  <2>1. i \in 1 .. n /\ i + 1 \in 1 .. n
    BY <1>2
  <2> QED  BY <1>1, <1>2, <2>1
<1> HIDE DEF q
<1>8. Len(t) + 1 = n
  BY <1>2
<1>9. Lists(o, t, rest[2])
  BY <1>2, <1>4, <1>6, <1>7, <1>8 DEF Lists
<1>10. args = IF s[1].op = o THEN <<s[1].arg>> \o rest[2] ELSE rest[2]
  BY <1>1, <1>5
<1>11. rest[2] \in Seq(Seq(Nat))
  BY <1>1, <1>5
<1> QED  BY <1>2, <1>9, <1>10, <1>11 DEF t

\* Arguments may be put together in any grouping.
LEMMA Associative ==
    \A e, z, y \in Seq(Seq(Nat)) : (e \o z) \o y = e \o (z \o y)
<1> DEFINE T == Seq(Nat)
<1> HIDE DEF T
<1>1. \A e, z, y \in Seq(T) : Regroups(e, z, y)
  BY ConcatRegroups, Zenon
<1> QED  BY <1>1, Zenon DEF T, Regroups

\* One script after the other.
LEMMA ListsConcat ==
    ASSUME NEW o, NEW s \in Seq(Steps), NEW t \in Seq(Steps),
           NEW x \in Seq(Seq(Nat)), NEW y \in Seq(Seq(Nat)), Lists(o, s, x), Lists(o, t, y)
    PROVE  Lists(o, s \o t, x \o y)
<1> DEFINE n == Len(s)
           m == Len(t)
           both == s \o t
<1>1. PICK p \in [1 .. n + 1 -> Seq(Seq(Nat))] :
        /\ p[1] = x /\ p[n + 1] = << >>
        /\ \A i \in 1 .. n : p[i] = IF s[i].op = o THEN <<s[i].arg>> \o p[i + 1] ELSE p[i + 1]
  BY DEF Lists
<1>2. PICK q \in [1 .. m + 1 -> Seq(Seq(Nat))] :
        /\ q[1] = y /\ q[m + 1] = << >>
        /\ \A i \in 1 .. m : q[i] = IF t[i].op = o THEN <<t[i].arg>> \o q[i + 1] ELSE q[i + 1]
  BY DEF Lists
<1>3. /\ n \in Nat /\ m \in Nat /\ Len(both) = n + m
      /\ \A i \in 1 .. n + m : both[i] = IF i <= n THEN s[i] ELSE t[i - n]
      /\ both \in Seq(Steps)
  BY ConcatProperties, LenProperties
<1>4. \A i \in 1 .. n : s[i] \in Steps
  BY ElementOfSeq
<1> HIDE DEF n, m, both
<1> DEFINE r == [i \in 1 .. n + m + 1 |-> IF i <= n THEN p[i] \o y ELSE q[i - n]]
<1>5. \A i \in 1 .. n + m + 1 : IF i <= n THEN i \in 1 .. n + 1 ELSE i - n \in 1 .. m + 1
  BY <1>3
<1>6. r \in [1 .. n + m + 1 -> Seq(Seq(Nat))]
  <2> SUFFICES ASSUME NEW i \in 1 .. n + m + 1 PROVE r[i] \in Seq(Seq(Nat))
    OBVIOUS
  <2>1. CASE i <= n
    <3>1. p[i] \in Seq(Seq(Nat))
      BY <1>1, <1>5, <2>1
    <3>2. p[i] \o y \in Seq(Seq(Nat))
      BY <3>1, ConcatProperties
    <3> QED  BY <2>1, <3>2
  <2>2. CASE ~(i <= n)
    BY <1>2, <1>5, <2>2
  <2> QED  BY <2>1, <2>2
\* where the scripts meet both agree
<1>7. \A i \in 1 .. n + 1 : r[i] = p[i] \o y
  <2> SUFFICES ASSUME NEW i \in 1 .. n + 1 PROVE r[i] = p[i] \o y
    OBVIOUS
  <2>1. i \in 1 .. n + m + 1
    BY <1>3
  <2>2. CASE i <= n
    BY <2>1, <2>2
  <2>3. CASE ~(i <= n)
    <3>1. i = n + 1 /\ i - n = 1
      BY <1>3, <2>3
    <3>2. << >> \o y = y
      OBVIOUS
    <3> QED  BY <1>1, <1>2, <2>1, <2>3, <3>1, <3>2
  <2> QED  BY <2>2, <2>3
<1>8. \A i \in 1 .. m + 1 : r[n + i] = q[i]
  <2> SUFFICES ASSUME NEW i \in 1 .. m + 1 PROVE r[n + i] = q[i]
    OBVIOUS
  <2>1. n + i \in 1 .. n + m + 1 /\ ~(n + i <= n) /\ (n + i) - n = i
    BY <1>3
  <2> QED  BY <2>1
<1>9. r[1] = x \o y /\ r[n + m + 1] = << >>
  <2>1. 1 \in 1 .. n + 1 /\ m + 1 \in 1 .. m + 1 /\ n + (m + 1) = n + m + 1
    BY <1>3
  <2> QED  BY <1>1, <1>2, <1>7, <1>8, <2>1
<1> HIDE DEF r
<1>10. ASSUME NEW i \in 1 .. n + m
       PROVE  r[i] = IF both[i].op = o THEN <<both[i].arg>> \o r[i + 1] ELSE r[i + 1]
  <2>1. CASE i <= n
    <3>1. i \in 1 .. n /\ i \in 1 .. n + 1 /\ i + 1 \in 1 .. n + 1
      BY <1>3, <2>1
    <3>2. both[i] = s[i] /\ r[i] = p[i] \o y /\ r[i + 1] = p[i + 1] \o y
      BY <1>3, <1>7, <2>1, <3>1
    <3>3. p[i] = IF s[i].op = o THEN <<s[i].arg>> \o p[i + 1] ELSE p[i + 1]
      BY <1>1, <3>1
    <3>4. <<s[i].arg>> \in Seq(Seq(Nat)) /\ p[i + 1] \in Seq(Seq(Nat))
      BY <1>1, <1>4, <3>1, StepArg
    <3>5. \A e \in Seq(Seq(Nat)), z \in Seq(Seq(Nat)) : (e \o z) \o y = e \o (z \o y)
      BY Zenon, Associative
    <3>6. (<<s[i].arg>> \o p[i + 1]) \o y = <<s[i].arg>> \o (p[i + 1] \o y)
      BY Zenon, <3>4, <3>5
    <3> QED  BY <3>2, <3>3, <3>6
  <2>2. CASE ~(i <= n)
    <3> DEFINE j == i - n
    <3>1. j \in 1 .. m /\ j \in 1 .. m + 1 /\ j + 1 \in 1 .. m + 1 /\ n + j = i
          /\ n + (j + 1) = i + 1
      BY <1>3, <2>2, SMTT(60)
    <3>2. both[i] = t[j]
      BY <1>3, <2>2
    <3> HIDE DEF j
    <3>3. r[i] = q[j] /\ r[i + 1] = q[j + 1]
      <4>1. r[n + j] = q[j] /\ r[n + (j + 1)] = q[j + 1]
        BY <1>8, <3>1
      <4> QED  BY <3>1, <4>1
    <3> QED  BY <1>2, <3>1, <3>2, <3>3
  <2> QED  BY <2>1, <2>2
<1>11. Lists(o, both, x \o y)
  <2>1. Len(both) = n + m
    BY <1>3
  <2> HIDE DEF both, n, m
  <2>2. /\ r \in [1 .. Len(both) + 1 -> Seq(Seq(Nat))]
        /\ r[1] = x \o y /\ r[Len(both) + 1] = << >>
        /\ \A i \in 1 .. Len(both) :
             r[i] = IF both[i].op = o THEN <<both[i].arg>> \o r[i + 1] ELSE r[i + 1]
    BY <1>6, <1>9, <1>10, <2>1, Zenon
  <2> QED  BY <2>2, Zenon DEF Lists
<1> QED  BY <1>11 DEF both

\* A script that never asks for the operation.
LEMMA ListsOther ==
    ASSUME NEW o, NEW s \in Seq(Steps), \A i \in 1 .. Len(s) : s[i].op # o
    PROVE  Lists(o, s, << >>)
<1> DEFINE n == Len(s)
           rest == [i \in 1 .. n + 1 |-> << >>]
<1>1. n \in Nat /\ << >> \in Seq(Seq(Nat))
  BY LenProperties
<1> HIDE DEF n
<1>2. 1 \in 1 .. n + 1 /\ n + 1 \in 1 .. n + 1
      /\ \A i \in 1 .. n : i \in 1 .. n + 1 /\ i + 1 \in 1 .. n + 1
  BY <1>1
<1>3. /\ rest \in [1 .. n + 1 -> Seq(Seq(Nat))] /\ rest[1] = << >> /\ rest[n + 1] = << >>
      /\ \A i \in 1 .. n : rest[i] = rest[i + 1]
  BY <1>1, <1>2
<1> HIDE DEF rest
<1>4. \A i \in 1 .. n : rest[i] = IF s[i].op = o THEN <<s[i].arg>> \o rest[i + 1] ELSE rest[i + 1]
  BY <1>3 DEF n
<1> QED  BY <1>3, <1>4 DEF Lists, n

\* A script that asks for nothing else.
LEMMA ListsAll ==
    ASSUME NEW o, NEW s \in Seq(Steps), \A i \in 1 .. Len(s) : s[i].op = o,
           NEW args \in Seq(Seq(Nat)), Len(args) = Len(s),
           \A i \in 1 .. Len(s) : args[i] = s[i].arg
    PROVE  Lists(o, s, args)
<1> DEFINE n == Len(s)
           rest == [i \in 1 .. n + 1 |-> SubSeq(args, i, n)]
<1>1. n \in Nat /\ Len(args) = n
  BY LenProperties
<1> HIDE DEF n
<1>2. 1 \in 1 .. n + 1 /\ n + 1 \in 1 .. n + 1
      /\ \A i \in 1 .. n : i \in 1 .. n + 1 /\ i + 1 \in 1 .. n + 1
  BY <1>1
<1>3. rest \in [1 .. n + 1 -> Seq(Seq(Nat))]
  <2> SUFFICES ASSUME NEW i \in 1 .. n + 1 PROVE SubSeq(args, i, n) \in Seq(Seq(Nat))
    OBVIOUS
  <2> QED  BY <1>1
<1>4. rest[1] = args /\ rest[n + 1] = << >>
  <2>1. SubSeq(args, 1, n) = args
    BY <1>1, SubSeqFull
  <2>2. SubSeq(args, n + 1, n) = << >>
    BY <1>1
  <2> QED  BY <1>2, <2>1, <2>2
<1>5. ASSUME NEW i \in 1 .. n
      PROVE  rest[i] = IF s[i].op = o THEN <<s[i].arg>> \o rest[i + 1] ELSE rest[i + 1]
  <2>1. s[i].op = o /\ args[i] = s[i].arg
    BY DEF n
  <2>2. SubSeq(args, i, n) = <<args[i]>> \o SubSeq(args, i + 1, n)
    <3>1. i \in 1 .. Len(args) /\ n \in i .. Len(args)
      BY <1>1
    <3> QED  BY <1>1, <3>1, SubSeqRecursiveFirst
  <2> QED  BY <1>2, <2>1, <2>2
<1> HIDE DEF rest
<1> QED  BY <1>3, <1>4, <1>5 DEF Lists, n

-----------------------------------------------------------------------------
\* The scripts

\* flash's image, for a list of files.
BlocksOf(files) == [file \in DOMAIN files |-> [seq \in 1 .. files[file] |-> <<file, seq>>]]
FlashBins(files) == [file \in DOMAIN files |-> flashbin(file, files[file])]

\* Later steps are steps.
LEMMA LaterAreSteps ==
    \A c : LaterSteps(c) \subseteq Steps /\ Seq(LaterSteps(c)) \subseteq Seq(Steps)
<1> TAKE c
<1>1. LaterSteps(c) \subseteq Steps
  BY DEF LaterSteps
<1> DEFINE L == LaterSteps(c)
<1>2. L \subseteq Steps
  BY <1>1
<1> HIDE DEF L
<1>3. Seq(L) \subseteq Seq(Steps)
  BY <1>2
<1> QED  BY <1>1, <1>3 DEF L

\* An argument of at most two numbers is a sequence of numbers.
LEMMA Arguments ==
    /\ << >> \in Seq(Nat)
    /\ \A n \in Nat : <<n>> \in Seq(Nat)
    /\ \A n, m \in Nat : <<n, m>> \in Seq(Nat)
OBVIOUS

\* Each of flash's steps may follow the detection of the chip.
LEMMA FlashSteps ==
    /\ Step("change_baud", << >>, "fail") \in LaterSteps("flash")
    /\ Step("spi_attach", << >>, "fail") \in LaterSteps("flash")
    /\ Step("spi_set_params", << >>, "fail") \in LaterSteps("flash")
    /\ Step("read_flash", <<0>>, "go") \in LaterSteps("flash")
    /\ Step("flash_end", << >>, "fail") \in LaterSteps("flash")
    /\ \A file \in Nat : Step("flash_begin", <<file>>, "fail") \in LaterSteps("flash")
    /\ \A file, seq \in Nat : Step("flash_data", <<file, seq>>, "fail") \in LaterSteps("flash")
BY Arguments DEF Step, LaterSteps, Steps, Ops, Work, Reading

\* So may each of the other commands' steps.
LEMMA OtherSteps ==
    /\ \A n \in Nat : Step("read_reg", <<n>>, "go") \in LaterSteps("info")
    /\ \A n \in Nat : Step("read_reg", <<n>>, "stop") \in LaterSteps("readmem")
    /\ \A n \in Nat : Step("read_flash", <<n>>, "stop") \in LaterSteps("readflash")
    /\ Step("spi_attach", << >>, "fail") \in LaterSteps("readflash")
    /\ Step("spi_set_params", << >>, "fail") \in LaterSteps("readflash")
BY Arguments DEF Step, LaterSteps, Steps, Ops, Work, Reading

\* A sequence of one or two of a kind is a sequence of the kind.
LEMMA Singles ==
    \A T : /\ << >> \in Seq(T)
           /\ \A x \in T : <<x>> \in Seq(T)
           /\ \A x, y \in T : <<x, y>> \in Seq(T)
OBVIOUS

\* One file: the steps that flash it are about its blocks.
LEMMA FlashbinLists ==
    ASSUME NEW file \in Nat, NEW blocks \in Nat
    PROVE  /\ flashbin(file, blocks) \in Seq(LaterSteps("flash"))
           /\ [seq \in 1 .. blocks |-> <<file, seq>>] \in Seq(Seq(Nat))
           /\ Lists("flash_data", flashbin(file, blocks), [seq \in 1 .. blocks |-> <<file, seq>>])
<1> DEFINE L == LaterSteps("flash")
           begin == Step("flash_begin", <<file>>, "fail")
           data == [seq \in 1 .. blocks |-> Step("flash_data", <<file, seq>>, "fail")]
           args == [seq \in 1 .. blocks |-> <<file, seq>>]
<1>1. begin \in L /\ \A seq \in 1 .. blocks : Step("flash_data", <<file, seq>>, "fail") \in L
  BY FlashSteps
<1>2. begin.op = "flash_begin" /\ begin.op # "flash_data"
  BY DEF Step
<1>3. \A seq \in 1 .. blocks : data[seq].op = "flash_data" /\ data[seq].arg = args[seq]
  BY DEF Step
<1>4. \A seq \in 1 .. blocks : <<file, seq>> \in Seq(Nat)
  BY Arguments
<1> DEFINE A == Seq(Nat)
<1> HIDE DEF L, begin, A
<1>5. data \in Seq(L) /\ Len(data) = blocks
  BY <1>1 DEF L
<1>6. args \in Seq(A) /\ Len(args) = blocks
  BY <1>4 DEF A
<1> HIDE DEF data, args
<1>7. <<begin>> \in Seq(L) /\ Len(<<begin>>) = 1 /\ <<begin>>[1] = begin
  BY <1>1, Singles
<1>8. L \subseteq Steps /\ Seq(L) \subseteq Seq(Steps)
  BY LaterAreSteps DEF L
<1>9. Lists("flash_data", <<begin>>, << >>)
  <2>1. \A i \in 1 .. Len(<<begin>>) : <<begin>>[i].op # "flash_data"
    BY <1>2, <1>7
  <2> QED  BY <1>7, <1>8, <2>1, ListsOther
<1>10. Lists("flash_data", data, args)
  BY <1>3, <1>5, <1>6, <1>8, ListsAll DEF A
<1>11. Lists("flash_data", <<begin>> \o data, << >> \o args)
  <2>1. << >> \in Seq(Seq(Nat)) /\ args \in Seq(Seq(Nat))
    BY <1>6, Singles DEF A
  <2> QED  BY <1>5, <1>7, <1>8, <1>9, <1>10, <2>1, ListsConcat
<1>12. << >> \o args = args
  BY <1>6
<1>13. <<begin>> \o data \in Seq(L)
  BY <1>5, <1>7, ConcatProperties
<1>14. flashbin(file, blocks) = <<begin>> \o data
  BY DEF flashbin, begin, data
<1> QED  BY <1>6, <1>11, <1>12, <1>13, <1>14 DEF L, A, args

\* A prefix and the element behind it.
LEMMA PrefixGrows ==
    ASSUME NEW T, NEW s \in Seq(T), NEW k \in Nat, k < Len(s)
    PROVE  /\ SubSeq(s, 1, k) \in Seq(T) /\ s[k + 1] \in T
           /\ SubSeq(s, 1, k + 1) = Append(SubSeq(s, 1, k), s[k + 1])
           /\ SubSeq(s, 1, 0) = << >> /\ SubSeq(s, 1, Len(s)) = s
<1>1. k + 1 \in 1 .. Len(s) /\ Len(s) \in Nat
  OBVIOUS
<1>2. SubSeq(s, 1, k) \in Seq(T) /\ s[k + 1] \in T
  BY <1>1
<1>3. SubSeq(s, 1, k + 1) = Append(SubSeq(s, 1, k), s[k + 1])
  <2> DEFINE long == SubSeq(s, 1, k + 1)
             short == SubSeq(s, 1, k)
             last == s[k + 1]
  <2>1. /\ long \in Seq(T) /\ Len(long) = k + 1 /\ Len(short) = k
        /\ \A i \in 1 .. k + 1 : long[i] = s[i]
        /\ \A i \in 1 .. k : short[i] = s[i]
    BY <1>1
  <2> HIDE DEF long, short, last
  <2>2. last \in T /\ short \in Seq(T) /\ last = s[k + 1]
    BY <1>2 DEF short, last
  <2>3. /\ Append(short, last) \in Seq(T) /\ Len(Append(short, last)) = k + 1
        /\ \A i \in 1 .. k : Append(short, last)[i] = short[i]
        /\ Append(short, last)[k + 1] = last
    BY <2>1, <2>2, AppendProperties
  <2>4. \A i \in 1 .. k + 1 : i \in 1 .. k \/ i = k + 1
    OBVIOUS
  <2>5. \A i \in 1 .. k + 1 : long[i] = Append(short, last)[i]
    BY <2>1, <2>2, <2>3, <2>4
  <2> DEFINE app == Append(short, last)
  <2> HIDE DEF app
  <2>6. long = app
    BY <2>1, <2>3, <2>5, SeqEqual DEF app
  <2> QED  BY <2>6 DEF long, short, last, app
<1>4. SubSeq(s, 1, 0) = << >> /\ SubSeq(s, 1, Len(s)) = s
  <2>1. \A z : SubSeq(z, 1, 0) = << >>
    BY SubSeqEmpty
  <2> QED  BY <2>1, SubSeqFull
<1> QED  BY <1>2, <1>3, <1>4

\* All the files: the steps that flash them are about their blocks, one file after the
\* other.  By induction over the number of files.
LEMMA FilesListed ==
    ASSUME NEW files \in Seq(Nat)
    PROVE  /\ FlattenSeq(FlashBins(files)) \in Seq(LaterSteps("flash"))
           /\ FlattenSeq(BlocksOf(files)) \in Seq(Seq(Nat))
           /\ Lists("flash_data", FlattenSeq(FlashBins(files)), FlattenSeq(BlocksOf(files)))
<1> DEFINE L == LaterSteps("flash")
           A == Seq(Nat)
           bins == FlashBins(files)
           blocks == BlocksOf(files)
           n == Len(files)
           Known(k) == /\ FlattenSeq(SubSeq(bins, 1, k)) \in Seq(L)
                       /\ FlattenSeq(SubSeq(blocks, 1, k)) \in Seq(A)
                       /\ Lists("flash_data", FlattenSeq(SubSeq(bins, 1, k)),
                                              FlattenSeq(SubSeq(blocks, 1, k)))
           T == {k \in Nat : k <= n => Known(k)}
<1>1. n \in Nat /\ DOMAIN files = 1 .. n /\ \A i \in 1 .. n : i \in Nat /\ files[i] \in Nat
  OBVIOUS
<1>2. \A i \in 1 .. n : /\ bins[i] \in Seq(L) /\ blocks[i] \in Seq(A)
                        /\ Lists("flash_data", bins[i], blocks[i])
  <2> SUFFICES ASSUME NEW i \in 1 .. n
               PROVE  /\ bins[i] \in Seq(L) /\ blocks[i] \in Seq(A)
                      /\ Lists("flash_data", bins[i], blocks[i])
    OBVIOUS
  <2>1. i \in Nat /\ files[i] \in Nat
    BY <1>1
  <2>2. bins[i] = flashbin(i, files[i]) /\ blocks[i] = [seq \in 1 .. files[i] |-> <<i, seq>>]
    BY <1>1 DEF FlashBins, BlocksOf
  <2> QED  BY <2>1, <2>2, FlashbinLists
<1>3. bins = [i \in 1 .. n |-> bins[i]] /\ blocks = [i \in 1 .. n |-> blocks[i]]
  BY <1>1 DEF FlashBins, BlocksOf
<1>4. L \subseteq Steps /\ Seq(L) \subseteq Seq(Steps)
  BY LaterAreSteps
<1> HIDE DEF L, A, bins, blocks, n
<1>5. bins \in Seq(Seq(L)) /\ blocks \in Seq(Seq(A)) /\ Len(bins) = n /\ Len(blocks) = n
  <2> DEFINE SL == Seq(L)
             SA == Seq(A)
  <2> HIDE DEF SL, SA
  <2>1. \A i \in 1 .. n : bins[i] \in SL /\ blocks[i] \in SA
    BY <1>2 DEF SL, SA
  <2>2. [i \in 1 .. n |-> bins[i]] \in Seq(SL) /\ Len([i \in 1 .. n |-> bins[i]]) = n
    BY <1>1, <2>1
  <2>3. [i \in 1 .. n |-> blocks[i]] \in Seq(SA) /\ Len([i \in 1 .. n |-> blocks[i]]) = n
    BY <1>1, <2>1
  <2> QED  BY <1>3, <2>2, <2>3 DEF SL, SA
<1>6. \A z : SubSeq(z, 1, 0) = << >>
  BY SubSeqEmpty
<1>7. Known(0)
  <2>1. << >> \in Seq(L) /\ << >> \in Seq(A)
    BY Singles
  <2>2. Lists("flash_data", << >>, << >>)
    BY ListsNone
  <2> QED  BY <1>6, <2>1, <2>2, FlattenEmpty
<1>8. ASSUME NEW k \in Nat, k <= n => Known(k), k + 1 <= n
      PROVE  Known(k + 1)
  <2>1. Known(k) /\ k < n /\ k + 1 \in 1 .. n
    BY <1>1, <1>8
  <2>2. /\ SubSeq(bins, 1, k) \in Seq(Seq(L))
        /\ SubSeq(bins, 1, k + 1) = Append(SubSeq(bins, 1, k), bins[k + 1])
    BY <1>5, <2>1, PrefixGrows
  <2>3. /\ SubSeq(blocks, 1, k) \in Seq(Seq(A))
        /\ SubSeq(blocks, 1, k + 1) = Append(SubSeq(blocks, 1, k), blocks[k + 1])
    BY <1>5, <2>1, PrefixGrows
  <2>4. /\ bins[k + 1] \in Seq(L) /\ blocks[k + 1] \in Seq(A)
        /\ Lists("flash_data", bins[k + 1], blocks[k + 1])
    BY <1>2, <2>1
  <2> DEFINE bs == SubSeq(bins, 1, k)
             ks == SubSeq(blocks, 1, k)
             fb == FlattenSeq(bs)
             fk == FlattenSeq(ks)
  <2>5. fb \in Seq(L) /\ fk \in Seq(A) /\ Lists("flash_data", fb, fk)
    BY <2>1
  <2> HIDE DEF bs, ks
  <2>6. FlattenSeq(Append(bs, bins[k + 1])) = fb \o bins[k + 1]
    BY <2>2, <2>4, FlattenAppend DEF bs
  <2>7. FlattenSeq(Append(ks, blocks[k + 1])) = fk \o blocks[k + 1]
    BY <2>3, <2>4, FlattenAppend DEF ks
  <2> HIDE DEF fb, fk
  <2>8. fb \o bins[k + 1] \in Seq(L) /\ fk \o blocks[k + 1] \in Seq(A)
    BY <2>4, <2>5, ConcatProperties
  <2>9. Lists("flash_data", fb \o bins[k + 1], fk \o blocks[k + 1])
    BY <1>4, <2>4, <2>5, ListsConcat DEF A
  <2> QED  BY <2>2, <2>3, <2>6, <2>7, <2>8, <2>9 DEF bs, ks
<1> HIDE DEF Known
<1>9. Nat \subseteq T
  <2>1. 0 \in T
    BY <1>7
  <2>2. \A k \in Nat : k \in T => k + 1 \in T
    BY <1>1, <1>8
  <2> QED  BY <2>1, <2>2, SetInduction
<1>10. Known(n)
  BY <1>1, <1>9
<1>11. SubSeq(bins, 1, n) = bins /\ SubSeq(blocks, 1, n) = blocks
  BY <1>5, SubSeqFull
<1> QED  BY <1>10, <1>11 DEF Known, L, A, bins, blocks

\* What a command asks its chip for, in order.
Goal == [n \in DOMAIN Words |-> <<Words[n]>>]

\* One step for each word.
LEMMA WordSteps ==
    ASSUME NEW c, NEW o, \A n \in Nat : Step(o, <<n>>, "stop") \in LaterSteps(c)
    PROVE  /\ [i \in DOMAIN Words |-> Step(o, <<Words[i]>>, "stop")] \in Seq(LaterSteps(c))
           /\ Goal \in Seq(Seq(Nat))
           /\ Lists(o, [i \in DOMAIN Words |-> Step(o, <<Words[i]>>, "stop")], Goal)
<1> DEFINE L == LaterSteps(c)
           A == Seq(Nat)
           n == Len(Words)
           s == [i \in DOMAIN Words |-> Step(o, <<Words[i]>>, "stop")]
<1>1. n \in Nat /\ DOMAIN Words = 1 .. n /\ \A i \in 1 .. n : Words[i] \in Nat
  BY ScriptAssumption
<1>2. \A i \in 1 .. n : s[i] \in L /\ s[i].op = o /\ s[i].arg = Goal[i]
  BY <1>1 DEF Step, Goal
<1>3. \A i \in 1 .. n : Goal[i] \in A
  BY <1>1, Arguments DEF Goal
<1>4. s = [i \in 1 .. n |-> s[i]] /\ Goal = [i \in 1 .. n |-> Goal[i]]
  BY <1>1 DEF Goal
<1> HIDE DEF L, A, n, s
<1>5. s \in Seq(L) /\ Len(s) = n
  <2>1. [i \in 1 .. n |-> s[i]] \in Seq(L) /\ Len([i \in 1 .. n |-> s[i]]) = n
    BY <1>1, <1>2
  <2> QED  BY <1>4, <2>1
<1>6. Goal \in Seq(A) /\ Len(Goal) = n
  <2>1. [i \in 1 .. n |-> Goal[i]] \in Seq(A) /\ Len([i \in 1 .. n |-> Goal[i]]) = n
    BY <1>1, <1>3
  <2> QED  BY <1>4, <2>1
<1>7. s \in Seq(Steps)
  BY <1>5, LaterAreSteps DEF L
<1>8. Lists(o, s, Goal)
  BY <1>2, <1>5, <1>6, <1>7, ListsAll DEF A
<1> QED  BY <1>5, <1>6, <1>8 DEF L, A, s

\* info's script.
LEMMA InfoScript == \A ch : info(ch) \in Seq(LaterSteps("info"))
<1> TAKE ch
<1>1. mac_regs[1] \in Nat /\ mac_regs[2] \in Nat
  BY DEF mac_regs
<1>2. /\ Step("read_reg", <<mac_regs[1]>>, "go") \in LaterSteps("info")
      /\ Step("read_reg", <<mac_regs[2]>>, "go") \in LaterSteps("info")
  BY <1>1, OtherSteps
<1> QED  BY <1>2, Singles DEF info

\* A script without the operation, before one with it.
LEMMA ListsBehind ==
    ASSUME NEW o, NEW s \in Seq(Steps), NEW t \in Seq(Steps),
           NEW args \in Seq(Seq(Nat)), Lists(o, s, << >>), Lists(o, t, args)
    PROVE  Lists(o, s \o t, args)
<1>1. << >> \in Seq(Seq(Nat)) /\ << >> \o args = args
  <2> DEFINE A == Seq(Nat)
  <2> HIDE DEF A
  <2>1. << >> \in Seq(A) /\ \A x \in Seq(A) : << >> \o x = x
    OBVIOUS
  <2> QED  BY <2>1 DEF A
<1>2. Lists(o, s \o t, << >> \o args)
  BY <1>1, ListsConcat
<1> QED  BY <1>1, <1>2

\* A script without the operation, behind one with it.
LEMMA ListsBefore ==
    ASSUME NEW o, NEW s \in Seq(Steps), NEW t \in Seq(Steps),
           NEW args \in Seq(Seq(Nat)), Lists(o, s, args), Lists(o, t, << >>)
    PROVE  Lists(o, s \o t, args)
<1>1. << >> \in Seq(Seq(Nat)) /\ args \o << >> = args
  <2> DEFINE A == Seq(Nat)
  <2> HIDE DEF A
  <2>1. << >> \in Seq(A) /\ \A x \in Seq(A) : x \o << >> = x
    OBVIOUS
  <2> QED  BY <2>1 DEF A
<1>2. Lists(o, s \o t, args \o << >>)
  BY <1>1, ListsConcat
<1> QED  BY <1>1, <1>2

\* spiattach attaches the flash chip, and reads and writes nothing.
LEMMA AttachScript ==
    /\ spiattach \in Seq(LaterSteps("flash")) /\ spiattach \in Seq(LaterSteps("readflash"))
    /\ \A o \in {"flash_data", "read_flash"} : Lists(o, spiattach, << >>)
<1>1. spiattach \in Seq(LaterSteps("flash")) /\ spiattach \in Seq(LaterSteps("readflash"))
  BY FlashSteps, OtherSteps, Singles DEF spiattach
<1>2. spiattach \in Seq(Steps)
  BY <1>1, LaterAreSteps
<1>3. Len(spiattach) = 2 /\ spiattach[1].op = "spi_attach" /\ spiattach[2].op = "spi_set_params"
  BY DEF spiattach, Step
<1> HIDE DEF spiattach
<1>4. \A o \in {"flash_data", "read_flash"}, i \in 1 .. Len(spiattach) : spiattach[i].op # o
  <2>1. \A i \in 1 .. 2 : i = 1 \/ i = 2
    OBVIOUS
  <2> QED  BY <1>3, <2>1
<1> QED  BY <1>1, <1>2, <1>4, ListsOther

\* readflash's script is about the words.
LEMMA ReadflashScript ==
    /\ readflash \in Seq(LaterSteps("readflash"))
    /\ Goal \in Seq(Seq(Nat)) /\ Lists("read_flash", readflash, Goal)
<1> DEFINE s == [i \in DOMAIN Words |-> Step("read_flash", <<Words[i]>>, "stop")]
           L == LaterSteps("readflash")
<1>1. s \in Seq(L) /\ Goal \in Seq(Seq(Nat)) /\ Lists("read_flash", s, Goal)
  BY OtherSteps, WordSteps
<1>2. spiattach \in Seq(L) /\ Lists("read_flash", spiattach, << >>)
  BY AttachScript
<1>3. Seq(L) \subseteq Seq(Steps)
  BY LaterAreSteps
<1>4. readflash = spiattach \o s
  BY DEF readflash
<1> HIDE DEF s, L
<1>5. spiattach \o s \in Seq(L)
  BY <1>1, <1>2, ConcatProperties
<1>6. Lists("read_flash", spiattach \o s, Goal)
  BY <1>1, <1>2, <1>3, ListsBehind
<1> QED  BY <1>1, <1>4, <1>5, <1>6 DEF L

\* flash's script is about the blocks of the image, and the image is what the files are.
LEMMA FlashScript ==
    ASSUME NEW ch, options \in Options
    PROVE  /\ flash(ch, options) \in Seq(LaterSteps("flash"))
           /\ Image \in Seq(Seq(Nat))
           /\ Lists("flash_data", flash(ch, options), Image)
<1> DEFINE L == LaterSteps("flash")
           baud == IF options.baud THEN <<Step("change_baud", << >>, "fail")>> ELSE << >>
           attach == IF ch = "esp8266" THEN << >> ELSE spiattach
           params == IF ch = "esp8266" \/ options.fpar THEN << >>
                     ELSE <<Step("read_flash", <<0>>, "go")>>
           bins == FlattenSeq([file \in DOMAIN options.files |->
                                 flashbin(file, options.files[file])])
           end == IF options.stray THEN << >> ELSE <<Step("flash_end", << >>, "fail")>>
           Quiet(s) == s \in Seq(L) /\ Lists("flash_data", s, << >>)
<1>1. options.files \in Seq(Nat)
  BY ScriptAssumption DEF Options
<1>2. bins = FlattenSeq(FlashBins(options.files)) /\ Image = FlattenSeq(BlocksOf(options.files))
  BY DEF FlashBins, Image, BlocksOf
<1>3. bins \in Seq(L) /\ Image \in Seq(Seq(Nat)) /\ Lists("flash_data", bins, Image)
  BY <1>1, <1>2, FilesListed
<1>4. Seq(L) \subseteq Seq(Steps)
  BY LaterAreSteps
<1>5. Quiet(<< >>)
  BY Singles, ListsNone
<1>6. \A x : x \in L /\ x.op # "flash_data" => Quiet(<<x>>)
  <2> SUFFICES ASSUME NEW x, x \in L, x.op # "flash_data" PROVE Quiet(<<x>>)
    OBVIOUS
  <2> HIDE DEF L
  <2>1. <<x>> \in Seq(L)
    BY Singles
  <2>2. \A i \in 1 .. Len(<<x>>) : <<x>>[i].op # "flash_data"
    OBVIOUS
  <2> QED  BY <1>4, <2>1, <2>2, ListsOther
<1>7. Quiet(baud)
  <2>1. Step("change_baud", << >>, "fail") \in L /\ Step("change_baud", << >>, "fail").op # "flash_data"
    BY FlashSteps DEF Step
  <2>2. Quiet(<<Step("change_baud", << >>, "fail")>>)
    BY <1>6, <2>1
  <2> HIDE DEF Quiet
  <2> QED  BY <1>5, <2>2
<1>8. Quiet(attach)
  BY <1>5, AttachScript
<1>9. Quiet(params)
  <2>1. Step("read_flash", <<0>>, "go") \in L /\ Step("read_flash", <<0>>, "go").op # "flash_data"
    BY FlashSteps DEF Step
  <2>2. Quiet(<<Step("read_flash", <<0>>, "go")>>)
    BY <1>6, <2>1
  <2> HIDE DEF Quiet
  <2> QED  BY <1>5, <2>2
<1>10. Quiet(end)
  <2>1. Step("flash_end", << >>, "fail") \in L /\ Step("flash_end", << >>, "fail").op # "flash_data"
    BY FlashSteps DEF Step
  <2>2. Quiet(<<Step("flash_end", << >>, "fail")>>)
    BY <1>6, <2>1
  <2> HIDE DEF Quiet
  <2> QED  BY <1>5, <2>2
<1>11. flash(ch, options) = baud \o attach \o params \o bins \o end
  BY DEF flash
<1> HIDE DEF L, baud, attach, params, bins, end
<1>12. ASSUME NEW s, NEW t, NEW args \in Seq(Seq(Nat)), s \in Seq(L), Lists("flash_data", s, args), Quiet(t)
       PROVE  s \o t \in Seq(L) /\ Lists("flash_data", s \o t, args)
  BY <1>4, <1>12, ConcatProperties, ListsBefore
<1>13. << >> \in Seq(Seq(Nat))
  BY Arguments
<1>14. Quiet(baud \o attach)
  BY <1>7, <1>8, <1>12, <1>13
<1>15. Quiet(baud \o attach \o params)
  BY <1>9, <1>12, <1>13, <1>14
<1> DEFINE before == baud \o attach \o params
<1> HIDE DEF before
<1>16. before \o bins \in Seq(L) /\ Lists("flash_data", before \o bins, Image)
  <2>1. Quiet(before)
    BY <1>15 DEF before
  <2> QED  BY <1>3, <1>4, <2>1, ConcatProperties, ListsBehind
<1>17. before \o bins \o end \in Seq(L) /\ Lists("flash_data", before \o bins \o end, Image)
  BY <1>3, <1>10, <1>12, <1>16
<1> QED  BY <1>3, <1>11, <1>17 DEF before, L

\* What a command does once the chip is known: its steps are of its kind, and those of its
\* work are about all it wants, in order.
LEMMA ScriptShape ==
    ASSUME command \in Commands, options \in Options, NEW ch
    PROVE  /\ Script(command, ch, options) \in Seq(LaterSteps(command))
           /\ command = "flash" => /\ Image \in Seq(Seq(Nat))
                                   /\ Lists(Work(command), Script(command, ch, options), Image)
           /\ command \in Reading => /\ Goal \in Seq(Seq(Nat))
                                     /\ Lists(Work(command), Script(command, ch, options), Goal)
<1>1. command \in {"info", "readmem", "readflash", "flash"}
  BY ScriptAssumption
<1>2. CASE command = "info"
  <2>1. Script(command, ch, options) = info(ch) /\ command \notin Reading
    BY <1>2 DEF Script, Reading
  <2> QED  BY <1>2, <2>1, InfoScript
<1>3. CASE command = "readmem"
  <2>1. Script(command, ch, options) = readmem /\ Work(command) = "read_reg"
    BY <1>3 DEF Script, Work
  <2>2. /\ readmem \in Seq(LaterSteps("readmem")) /\ Goal \in Seq(Seq(Nat))
        /\ Lists("read_reg", readmem, Goal)
    BY OtherSteps, WordSteps DEF readmem
  <2> QED  BY <1>3, <2>1, <2>2
<1>4. CASE command = "readflash"
  <2>1. Script(command, ch, options) = readflash /\ Work(command) = "read_flash"
    BY <1>4 DEF Script, Work
  <2> QED  BY <1>4, <2>1, ReadflashScript
<1>5. CASE command = "flash"
  <2>1. Script(command, ch, options) = flash(ch, options) /\ Work(command) = "flash_data"
        /\ command \notin Reading
    BY <1>5 DEF Script, Work, Reading
  <2> QED  BY <1>5, <2>1, FlashScript
<1> QED  BY <1>1, <1>2, <1>3, <1>4, <1>5

-----------------------------------------------------------------------------
\* What is on the line

Asks(o)      == {s \in Steps : s.op = o}
RepliesTo(o) == {r \in Replies : r.op = o}
Bodies(R)    == {t \in Tokens : t.kind = "body" /\ t.reply \in R}

\* No answer, or at most one, of those in R is on the way to the host (rep) or in its
\* receiver (buf).
NoAnswer(rep, buf, R)  == None(rep, Bodies(R)) /\ None(buf, R)
OneAnswer(rep, buf, R) == /\ One(rep, Bodies(R)) /\ One(buf, R)
                          /\ None(rep, Bodies(R)) \/ None(buf, R)

\* Whatever the host has received since, or lost, no answer has come to it.
Real == {r \in Replies : r.op # "none"}
Fewer(rep, buf, rep2, buf2) ==
    \A R \in SUBSET Real :
        /\ NoAnswer(rep, buf, R) => NoAnswer(rep2, buf2, R)
        /\ OneAnswer(rep, buf, R) => OneAnswer(rep2, buf2, R)

\* Fewer elements of fewer kinds.
LEMMA NoneSubset ==
    ASSUME NEW s, NEW S, NEW S2, S2 \subseteq S, None(s, S)
    PROVE  None(s, S2)
BY DEF None

\* An answer of none of the kinds is of none of a part of them.
LEMMA NoAnswerSubset ==
    ASSUME NEW rep, NEW buf, NEW R, NEW R2, R2 \subseteq R, NoAnswer(rep, buf, R)
    PROVE  NoAnswer(rep, buf, R2)
<1>1. Bodies(R2) \subseteq Bodies(R)
  BY DEF Bodies
<1> QED  BY <1>1, NoneSubset DEF NoAnswer

\* An answer that is none is one at most.
LEMMA NoneIsOne ==
    ASSUME NEW s, NEW S, None(s, S)
    PROVE  One(s, S)
BY DEF None, One

\* Nothing is lost or received.
LEMMA FewerSame == \A rep, buf : Fewer(rep, buf, rep, buf)
BY DEF Fewer

\* A first part of what the chip sent is lost.
LEMMA FewerCut ==
    ASSUME NEW rep \in Seq(Tokens), NEW buf \in Seq(Replies), NEW n \in 0 .. Len(rep)
    PROVE  /\ SubSeq(rep, n + 1, Len(rep)) \in Seq(Tokens)
           /\ Fewer(rep, buf, SubSeq(rep, n + 1, Len(rep)), buf)
<1> DEFINE rest == SubSeq(rep, n + 1, Len(rep))
<1>1. rest \in Seq(Tokens)
  BY CountSuffix
<1>2. \A S : (None(rep, S) => None(rest, S)) /\ (One(rep, S) => One(rest, S))
  BY CountSuffix
<1> HIDE DEF rest
<1>3. Fewer(rep, buf, rest, buf)
  BY <1>2 DEF Fewer, NoAnswer, OneAnswer
<1> QED  BY <1>1, <1>3 DEF rest

\* One lost or received after the other.
LEMMA FewerTwice ==
    ASSUME NEW r1, NEW b1, NEW r2, NEW b2, NEW r3, NEW b3,
           Fewer(r1, b1, r2, b2), Fewer(r2, b2, r3, b3)
    PROVE  Fewer(r1, b1, r3, b3)
BY DEF Fewer

\* Nothing is in no sequence.
LEMMA NothingIn == \A S : None(<< >>, S) /\ One(<< >>, S)
BY DEF None, One

\* The first element goes, and what was buffered.
LEMMA FewerEnd ==
    ASSUME NEW rep \in Seq(Tokens), NEW buf \in Seq(Replies), rep # << >>
    PROVE  Fewer(rep, buf, Tail(rep), << >>)
<1> DEFINE rest == Tail(rep)
<1>1. \A S : (None(rep, S) => None(rest, S)) /\ (One(rep, S) => One(rest, S))
  BY CountTail
<1> HIDE DEF rest
<1>2. Fewer(rep, buf, rest, << >>)
  BY <1>1, NothingIn DEF Fewer, NoAnswer, OneAnswer
<1> QED  BY <1>2 DEF rest

\* The first element goes, and what was buffered stays.
LEMMA FewerText ==
    ASSUME NEW rep \in Seq(Tokens), NEW buf \in Seq(Replies), rep # << >>
    PROVE  Fewer(rep, buf, Tail(rep), buf)
<1> DEFINE rest == Tail(rep)
<1>1. \A S : (None(rep, S) => None(rest, S)) /\ (One(rep, S) => One(rest, S))
  BY CountTail
<1> HIDE DEF rest
<1>2. Fewer(rep, buf, rest, buf)
  BY <1>1 DEF Fewer, NoAnswer, OneAnswer
<1> QED  BY <1>2 DEF rest

\* The first element is buffered.
LEMMA FewerBody ==
    ASSUME NEW rep \in Seq(Tokens), NEW buf \in Seq(Replies), rep # << >>,
           Head(rep).kind # "END"
    PROVE  /\ Buffered(buf, Head(rep).reply) \in Seq(Replies)
           /\ Fewer(rep, buf, Tail(rep), Buffered(buf, Head(rep).reply))
<1> DEFINE rest == Tail(rep)
           t == Head(rep)
           more == Append(buf, t.reply)
           kept == Buffered(buf, t.reply)
<1>1. t \in Tokens
  BY CountTail
<1>2. t.reply \in Replies /\ (t.kind = "body" \/ t.reply.op = "none")
  BY <1>1 DEF Tokens
<1>3. more \in Seq(Replies)
  BY <1>2, AppendProperties
<1>4. ASSUME NEW R \in SUBSET Real
      PROVE  t \in Bodies(R) <=> t.reply \in R
  BY <1>1, <1>2 DEF Bodies, Real
<1>5. \A S : /\ None(rep, S) => None(rest, S) /\ t \notin S
             /\ One(rep, S) => One(rest, S)
             /\ One(rep, S) /\ t \in S => None(rest, S)
  BY CountTail
<1>6. \A S : /\ None(buf, S) /\ t.reply \notin S => None(more, S)
             /\ None(buf, S) => One(more, S)
             /\ One(buf, S) /\ t.reply \notin S => One(more, S)
  BY <1>2, CountAppend
<1>9. kept = buf \/ kept = more
  BY DEF Buffered
<1>10. Fewer(rep, buf, rest, buf)
  BY FewerText
<1> HIDE DEF rest, t, more, kept
<1>7. ASSUME NEW R \in SUBSET Real
      PROVE  /\ NoAnswer(rep, buf, R) => NoAnswer(rest, more, R)
             /\ OneAnswer(rep, buf, R) => OneAnswer(rest, more, R)
  <2> DEFINE B == Bodies(R)
  <2>1. t \in B <=> t.reply \in R
    BY <1>4
  <2> HIDE DEF B
  <2>2. ASSUME None(rep, B), None(buf, R) PROVE None(rest, B) /\ None(more, R)
    BY <1>5, <1>6, <2>1, <2>2
  <2>3. ASSUME One(rep, B), One(buf, R), None(rep, B) \/ None(buf, R)
        PROVE  One(rest, B) /\ One(more, R) /\ (None(rest, B) \/ None(more, R))
    <3>1. CASE t \in B
      <4>1. ~None(rep, B) /\ None(rest, B)
        BY <1>5, <2>3, <3>1
      <4>2. One(more, R)
        BY <1>6, <2>3, <4>1
      <4> QED  BY <1>5, <2>3, <4>1, <4>2
    <3>2. CASE t \notin B
      <4>1. One(rest, B) /\ (None(rep, B) => None(rest, B))
        BY <1>5, <2>3
      <4>2. One(more, R) /\ (None(buf, R) => None(more, R))
        BY <1>6, <2>1, <2>3, <3>2
      <4> QED  BY <2>3, <4>1, <4>2
    <3> QED  BY <3>1, <3>2
  <2> QED  BY <2>2, <2>3 DEF NoAnswer, OneAnswer, B
<1>8. Fewer(rep, buf, rest, more)
  BY <1>7 DEF Fewer
<1>11. kept \in Seq(Replies) /\ Fewer(rep, buf, rest, kept)
  BY <1>3, <1>8, <1>9, <1>10
<1> QED  BY <1>11 DEF rest, t, kept

\* The chip prints something more.
LEMMA FewerPrinted ==
    ASSUME NEW rep \in Seq(Tokens), NEW buf
    PROVE  /\ Append(rep, BootText) \in Seq(Tokens)
           /\ Fewer(rep, buf, Append(rep, BootText), buf)
<1> DEFINE t == BootText
           more == Append(rep, t)
<1>1. t \in Tokens /\ \A R : t \notin Bodies(R)
  <2>1. << >> \in Seq(Nat)
    OBVIOUS
  <2> QED  BY <2>1 DEF BootText, NoReply, Tokens, Replies, Bodies
<1> HIDE DEF t
<1>2. more \in Seq(Tokens)
  BY <1>1, AppendProperties
<1>3. \A R : /\ None(rep, Bodies(R)) => None(more, Bodies(R))
             /\ One(rep, Bodies(R)) => One(more, Bodies(R))
  BY <1>1, CountAppend
<1> HIDE DEF more
<1>4. Fewer(rep, buf, more, buf)
  BY <1>3 DEF Fewer, NoAnswer, OneAnswer
<1> QED  BY <1>2, <1>4 DEF more, t

\* The only answer of its kind is taken: with what was buffered it is gone.
LEMMA AnswerTaken ==
    ASSUME NEW rep \in Seq(Tokens), NEW buf \in Seq(Replies), NEW R \in SUBSET Replies,
           rep # << >>, buf # << >>, buf[1] \in R, OneAnswer(rep, buf, R)
    PROVE  NoAnswer(Tail(rep), << >>, R)
<1>1. ~None(buf, R)
  <2>1. 1 \in 1 .. Len(buf)
    OBVIOUS
  <2> QED  BY <2>1 DEF None
<1>2. None(rep, Bodies(R))
  BY <1>1 DEF OneAnswer
<1>3. None(Tail(rep), Bodies(R))
  BY <1>2, CountTail
<1> QED  BY <1>3, NothingIn DEF NoAnswer

\* END, text and the body of an answer are tokens.
LEMMA FrameTokens ==
    ASSUME NEW r \in Replies
    PROVE  /\ END \in Tokens /\ BootText \in Tokens /\ Body(r) \in Tokens
           /\ \A R : END \notin Bodies(R) /\ (r \notin R => Body(r) \notin Bodies(R))
           /\ \A R : BootText \notin Bodies(R)
BY Arguments DEF END, BootText, Body, NoReply, Tokens, Replies, Ops, Bodies

\* What the chip sends when it answers n times.
LEMMA SentTokens ==
    ASSUME NEW r \in Replies, NEW n \in Nat
    PROVE  LET sent == FlattenSeq([m \in 1 .. n |-> Frame(r)]) IN
           /\ {END, Body(r)} \subseteq Tokens
           /\ sent \in Seq({END, Body(r)})
           /\ n = 0 => sent = << >>
           /\ n = 1 => sent = Frame(r)
<1> DEFINE parts == [m \in 1 .. n |-> Frame(r)]
           sent == FlattenSeq(parts)
           S == {END, Body(r)}
<1>1. S \subseteq Tokens
  BY FrameTokens
<1>2. Frame(r) \in Seq(S)
  BY DEF Frame
<1>3. sent \in Seq(S)
  <2> DEFINE SS == Seq(S)
  <2>1. Frame(r) \in SS
    BY <1>2
  <2> HIDE DEF SS
  <2>2. parts \in Seq(SS)
    BY <2>1
  <2> HIDE DEF S, parts
  <2> QED  BY <2>2, FlattenType DEF SS
<1>5. ASSUME n = 0
      PROVE  sent = << >>
  <2>1. parts = << >>
    BY <1>5
  <2> QED  BY <2>1, FlattenEmpty
<1>6. ASSUME n = 1
      PROVE  sent = Frame(r)
  <2> DEFINE f == Frame(r)
             T == Tokens
  <2>1. f \in Seq(T)
    BY <1>1, <1>2
  <2> HIDE DEF f, T
  <2>2. [m \in 1 .. 1 |-> f] = Append(<< >>, f)
    OBVIOUS
  <2>3. << >> \in Seq(Seq(T)) /\ << >> \o f = f
    BY <2>1
  <2>4. FlattenSeq(Append(<< >>, f)) = FlattenSeq(<< >>) \o f
    BY <2>1, <2>3, FlattenAppend
  <2> QED  BY <1>6, <2>2, <2>3, <2>4, FlattenEmpty DEF f
<1> QED  BY <1>1, <1>3, <1>5, <1>6

\* The chip's answer, sent n times, follows what it has sent before.
LEMMA FramesSent ==
    ASSUME NEW rep \in Seq(Tokens), NEW buf \in Seq(Replies), NEW r \in Replies, NEW n \in Nat
    PROVE  LET rep2 == rep \o FlattenSeq([m \in 1 .. n |-> Frame(r)]) IN
           /\ rep2 \in Seq(Tokens)
           /\ \A R \in SUBSET Replies :
                /\ r \notin R => /\ NoAnswer(rep, buf, R) => NoAnswer(rep2, buf, R)
                                 /\ OneAnswer(rep, buf, R) => OneAnswer(rep2, buf, R)
                /\ n <= 1 /\ NoAnswer(rep, buf, R) => OneAnswer(rep2, buf, R)
<1> DEFINE parts == [m \in 1 .. n |-> Frame(r)]
           sent == FlattenSeq(parts)
           S == {END, Body(r)}
<1>1. /\ S \subseteq Tokens /\ sent \in Seq(S)
      /\ n = 0 => sent = << >>
      /\ n = 1 => sent = Frame(r)
  BY SentTokens
<1>4. \A R : END \notin Bodies(R) /\ (r \notin R => Body(r) \notin Bodies(R))
  BY FrameTokens
<1> HIDE DEF parts, sent
<1>7. sent \in Seq(Tokens)
  BY <1>1
<1>8. \A R : r \notin R => None(sent, Bodies(R))
  <2> SUFFICES ASSUME NEW R, r \notin R PROVE None(sent, Bodies(R))
    OBVIOUS
  <2>1. \A x \in S : x \notin Bodies(R)
    BY <1>4
  <2> HIDE DEF S
  <2>2. \A i \in 1 .. Len(sent) : sent[i] \in S
    BY <1>1, ElementOfSeq
  <2> QED  BY <2>1, <2>2 DEF None
<1>9. ASSUME n <= 1
      PROVE  \A R : One(sent, Bodies(R))
  <2> TAKE R
  <2>1. CASE n = 0
    BY <1>1, <2>1, NothingIn
  <2>2. CASE n = 1
    <3> DEFINE body == Body(r)
               B == Bodies(R)
               e == END
    <3>1. e \notin B
      BY <1>4
    <3>2. sent = <<e, body, e>>
      BY <1>1, <2>2 DEF Frame
    <3> HIDE DEF body, B, e
    <3>3. One(<<e, body, e>>, B)
      <4> DEFINE f == <<e, body, e>>
      <4>1. Len(f) = 3 /\ f[1] = e /\ f[2] = body /\ f[3] = e
        OBVIOUS
      <4>2. \A i \in 1 .. 3 : i = 1 \/ i = 2 \/ i = 3
        OBVIOUS
      <4> HIDE DEF f
      <4>3. One(f, B)
        BY <3>1, <4>1, <4>2 DEF One
      <4> QED  BY <4>3 DEF f
    <3> QED  BY <3>2, <3>3 DEF B
  <2> QED  BY <1>9, <2>1, <2>2
<1> DEFINE rep2 == rep \o sent
<1>10. \A B : /\ None(rep, B) /\ None(sent, B) => None(rep2, B)
              /\ One(rep, B) /\ None(sent, B) => One(rep2, B)
              /\ None(rep, B) /\ One(sent, B) => One(rep2, B)
  BY <1>7, CountConcat
<1>11. rep2 \in Seq(Tokens)
  BY <1>7, ConcatProperties
<1> HIDE DEF rep2
<1>12. ASSUME NEW R \in SUBSET Replies
       PROVE  /\ r \notin R => /\ NoAnswer(rep, buf, R) => NoAnswer(rep2, buf, R)
                               /\ OneAnswer(rep, buf, R) => OneAnswer(rep2, buf, R)
              /\ n <= 1 /\ NoAnswer(rep, buf, R) => OneAnswer(rep2, buf, R)
  <2>1. ASSUME r \notin R
        PROVE  /\ NoAnswer(rep, buf, R) => NoAnswer(rep2, buf, R)
               /\ OneAnswer(rep, buf, R) => OneAnswer(rep2, buf, R)
    BY <1>8, <1>10, <2>1 DEF NoAnswer, OneAnswer
  <2>2. ASSUME n <= 1, NoAnswer(rep, buf, R)
        PROVE  OneAnswer(rep2, buf, R)
    BY <1>9, <1>10, <2>2, NoneIsOne DEF NoAnswer, OneAnswer
  <2> QED  BY <2>1, <2>2
<1> QED  BY <1>11, <1>12 DEF rep2, sent, parts

-----------------------------------------------------------------------------
\* How far the work has come

\* With done behind it, script s is about what is left of all.
Ahead(o, done, s, all) == \E more \in Seq(Seq(Nat)) : done \o more = all /\ Lists(o, s, more)

\* A step about something else brings it no further.
LEMMA AheadOther ==
    ASSUME NEW o, NEW done, NEW s \in Seq(Steps), NEW all, s # << >>,
           Head(s).op # o, Ahead(o, done, s, all)
    PROVE  Ahead(o, done, Tail(s), all)
BY ListsTail DEF Ahead

\* A step of the work brings it one further.
LEMMA AheadNext ==
    ASSUME NEW o, NEW done \in Seq(Seq(Nat)), NEW s \in Seq(Steps), NEW all, s # << >>,
           Head(s).op = o, Ahead(o, done, s, all)
    PROVE  /\ Head(s).arg \in Seq(Nat) /\ Append(done, Head(s).arg) \in Seq(Seq(Nat))
           /\ Ahead(o, Append(done, Head(s).arg), Tail(s), all)
<1> DEFINE A == Seq(Nat)
           x == Head(s).arg
<1>1. PICK more \in Seq(A) : done \o more = all /\ Lists(o, s, more)
  BY DEF Ahead
<1>2. Head(s) \in Steps
  BY ListsTail, <1>1
<1>3. x \in A
  BY <1>2, StepArg
<1>4. PICK rest \in Seq(A) : more = <<x>> \o rest /\ Lists(o, Tail(s), rest)
  BY <1>1, ListsTail
<1>5. done \in Seq(A)
  OBVIOUS
<1> HIDE DEF A, x
<1>6. <<x>> \in Seq(A)
  BY <1>3
<1>7. Append(done, x) \in Seq(A) /\ Append(done, x) = done \o <<x>>
  BY <1>3, <1>5, AppendProperties
<1>8. Regroups(done, <<x>>, rest)
  BY <1>4, <1>5, <1>6, ConcatRegroups, Zenon
<1>9. (done \o <<x>>) \o rest = done \o (<<x>> \o rest)
  BY <1>8, Zenon DEF Regroups
<1>10. Append(done, x) \o rest = all
  BY <1>1, <1>4, <1>7, <1>9
<1>11. Ahead(o, Append(done, x), Tail(s), all)
  BY <1>4, <1>10 DEF Ahead, A
<1> QED  BY <1>3, <1>7, <1>11 DEF A, x

\* What is done is a first part of all.
LEMMA AheadPrefix ==
    ASSUME NEW o, NEW done \in Seq(Seq(Nat)), NEW s, NEW all, Ahead(o, done, s, all)
    PROVE  IsPrefix(done, all)
<1> DEFINE A == Seq(Nat)
<1>1. PICK more \in Seq(A) : done \o more = all
  BY DEF Ahead
<1>2. done \in Seq(A)
  OBVIOUS
<1> HIDE DEF A
<1>3. IsPrefix(done, done)
  BY <1>2, PrefixSelf
<1>4. IsPrefix(done, done \o more)
  BY <1>1, <1>2, <1>3, PrefixLonger
<1> QED  BY <1>1, <1>4

\* At the end of the script all is done.
LEMMA AheadDone ==
    ASSUME NEW o, NEW done \in Seq(Seq(Nat)), NEW all, Ahead(o, done, << >>, all)
    PROVE  done = all
<1> DEFINE A == Seq(Nat)
<1>1. PICK more \in Seq(A) : done \o more = all /\ Lists(o, << >>, more)
  BY DEF Ahead
<1>2. more = << >>
  BY <1>1, ListsNone
<1>3. done \in Seq(A)
  OBVIOUS
<1> HIDE DEF A
<1>4. done \o << >> = done
  BY <1>3
<1> QED  BY <1>1, <1>2, <1>4

\* At its beginning nothing is.
LEMMA AheadStart ==
    ASSUME NEW o, NEW s, NEW all \in Seq(Seq(Nat)), Lists(o, s, all)
    PROVE  Ahead(o, << >>, s, all)
<1> DEFINE A == Seq(Nat)
<1>1. all \in Seq(A)
  OBVIOUS
<1> HIDE DEF A
<1>2. << >> \o all = all
  BY <1>1
<1> QED  BY <1>1, <1>2 DEF Ahead, A

-----------------------------------------------------------------------------
\* The inductive invariant

\* esputil still tries to connect, or to find out which chip it talks to.
Connecting == todo \in {Connect, Tail(Connect)}

\* The current request is one of the work, and is or has been sent.
Asked == todo # << >> /\ Head(todo).op = Work(command) /\ (waiting \/ status # "running")

TypeInv ==
    /\ command \in Commands /\ options \in Options /\ device \in Devices
    /\ todo \in Seq(Steps) /\ waiting \in BOOLEAN /\ (waiting => todo # << >>)
    /\ tries \in 0 .. MaxSync /\ (status = "running" => tries < MaxSync)
    /\ slip \in [mode : {0, 1}, buf : Seq(Replies)] /\ (slip.mode = 0 => slip.buf = << >>)
    /\ chip \in Chips \cup {"unknown", "none"} /\ status \in {"running", "done", "failed"}
    /\ requests \in Seq(Steps) /\ replies \in Seq(Tokens)
    /\ out \in Seq([arg : Seq(Nat), value : Seq(Nat)]) /\ flashed \in Seq(Seq(Nat))

\* No chip whose refusals are not looked for where an ESP8266 has them refuses to say
\* which chip it is.
DetectionAnswered == \A d \in Devices : d # "esp8266" => "read_id" \notin MayRefuse[d]

\* What is left to ask for is of the command's kind, and the chip is taken for one that
\* answers the way it does.
ScriptInv ==
    /\ Connecting => chip = "unknown" /\ out = << >> /\ flashed = << >>
    /\ ~Connecting => /\ todo \in Seq(LaterSteps(command))
                      /\ DetectionAnswered => (chip \in {"unknown", "esp8266"} <=> device = "esp8266")
    /\ command # "flash" => flashed = << >> /\ None(requests, Asks("flash_data"))
    /\ status = "done" => todo = << >>

\* Until the chip is known no register has been read but the one with its ID: it is there,
\* or the refusal is an ESP8266's, which is seen.
Strange == {s \in Steps : s.op = "read_reg" /\ ~ReadsId(s)}
Misled(d) == {r \in Replies : r.op = "read_reg" /\ IF r.refused THEN d # "esp8266" ELSE r.id # d}
IdInv == Connecting => /\ None(requests, Strange)
                       /\ DetectionAnswered => NoAnswer(replies, slip.buf, Misled(device))

\* A frame that is no answer to SYNC is whole, and arrives as a packet of its own: only
\* chip_connect discards what may be half of a frame, and it asks for nothing else.
Later      == {r \in Replies : r.op \notin {"sync", "none"}}
LaterAsked == {s \in Steps : s.op # "sync"}
Ends(t)    == t.kind = "END"
Framed(rep) ==
    \A n \in 1 .. Len(rep) : rep[n] \in Bodies(Later) =>
        /\ n < Len(rep) /\ Ends(rep[n + 1])
        /\ n > 1 => Ends(rep[n - 1])
Arriving(rep, buf) ==
    /\ rep # << >> /\ rep[1] \in Bodies(Later) => buf = << >>
    /\ \A n \in 1 .. Len(buf) : buf[n] \in Later => Len(buf) = 1 /\ rep # << >> /\ Ends(rep[1])
FrameInv ==
    /\ Framed(replies)
    /\ slip.mode = 1 => Arriving(replies, slip.buf)
    /\ todo # << >> /\ Head(todo).op = "sync" =>
           None(requests, LaterAsked) /\ NoAnswer(replies, slip.buf, Later)

\* At most one request of the work, or one answer to one, is on its way.
Quiet(o) == None(requests, Asks(o)) /\ NoAnswer(replies, slip.buf, RepliesTo(o))
Alone(o) ==
    /\ One(requests, Asks(o)) /\ OneAnswer(replies, slip.buf, RepliesTo(o))
    /\ None(requests, Asks(o)) \/ NoAnswer(replies, slip.buf, RepliesTo(o))

\* It is about the current request, or the command has given up.
Differ(s)  == {x \in Asks(s.op) : x # s}
Wrong(s)   == {r \in RepliesTo(s.op) : ~r.refused /\ r.value # s.arg}
Accepted(o) == {r \in RepliesTo(o) : ~r.refused}
Match(o) ==
    \/ Quiet(o)
    \/ todo = << >> /\ command # "flash"
    \/ /\ Asked /\ None(requests, Differ(Head(todo)))
       /\ NoAnswer(replies, slip.buf, Wrong(Head(todo)))

\* The chip has written what the script has left behind, and perhaps one block more, whose
\* answer is then on its way or lost.
FlashInv ==
    DetectionAnswered /\ command = "flash" /\ ~Connecting =>
        LET Left(s) == Ahead("flash_data", flashed, s, Image) IN
        /\ \/ Left(todo)
           \/ Asked /\ None(requests, Asks("flash_data")) /\ Left(Tail(todo))
        /\ None(requests, Asks("flash_data")) \/ Left(todo)
        /\ \/ NoAnswer(replies, slip.buf, Accepted("flash_data"))
           \/ todo # << >> /\ Left(Tail(todo))

\* esputil has printed what the script has left behind.
Outs == [n \in DOMAIN out |-> out[n].arg]
ReadInv ==
    DetectionAnswered /\ command \in Reading =>
        /\ \A n \in DOMAIN out : out[n].value = out[n].arg
        /\ IsPrefix(Outs, Goal)
        /\ todo # << >> /\ ~Connecting => Ahead(Work(command), Outs, todo, Goal)

IInv == /\ TypeInv /\ ScriptInv /\ IdInv
        /\ Alone(Work(command)) /\ Match(Work(command)) /\ FlashInv /\ ReadInv

\* The image is a sequence of blocks, whatever the command.
LEMMA ImageType ==
    ASSUME options \in Options
    PROVE  Image \in Seq(Seq(Nat)) /\ Goal \in Seq(Seq(Nat))
<1>1. options.files \in Seq(Nat)
  BY ScriptAssumption DEF Options
<1>2. Image = FlattenSeq(BlocksOf(options.files))
  BY DEF Image, BlocksOf
<1>3. Goal \in Seq(Seq(Nat))
  BY OtherSteps, WordSteps
<1> QED  BY <1>1, <1>2, <1>3, FilesListed

\* An empty sequence is a first part of every other.
LEMMA PrefixEmpty ==
    ASSUME NEW S, NEW s \in Seq(S)
    PROVE  IsPrefix(<< >>, s)
<1>0. << >> \in Seq(S)
  OBVIOUS
<1>1. IsPrefix(<< >>, << >>)
  BY <1>0, PrefixSelf
<1>2. IsPrefix(<< >>, << >> \o s)
  BY <1>0, <1>1, PrefixLonger
<1> QED  BY <1>2

\* The invariant implies the type invariant that is checked.
LEMMA IInvTypeOK == IInv => TypeOK
<1> SUFFICES ASSUME IInv PROVE TypeOK
  OBVIOUS
<1>1. TypeInv
  BY DEF IInv
<1>2. \A n \in DOMAIN todo : todo[n] \in Steps
  BY <1>1 DEF TypeInv
<1>3. \A n \in DOMAIN todo : todo[n].op \in Ops
  BY <1>2 DEF Steps
<1>4. slip.mode \in {0, 1}
  BY <1>1 DEF TypeInv
<1> QED  BY <1>1, <1>3, <1>4 DEF TypeInv, TypeOK

\* ... that the chip is given the blocks in order,
LEMMA IInvFlashed == DetectionAnswered /\ IInv => FlashedRight
<1> SUFFICES ASSUME DetectionAnswered, IInv PROVE FlashedRight
  OBVIOUS
<1>1. TypeInv /\ ScriptInv /\ FlashInv
  BY DEF IInv
<1>2. Image \in Seq(Seq(Nat)) /\ flashed \in Seq(Seq(Nat))
  BY <1>1, ImageType DEF TypeInv
<1>3. CASE flashed = << >> /\ ~(command = "flash" /\ status = "done")
  BY <1>2, <1>3, PrefixEmpty DEF FlashedRight
<1>4. CASE command = "flash" /\ ~Connecting
  <2>1. \E s : Ahead("flash_data", flashed, s, Image)
    BY <1>1, <1>4 DEF FlashInv
  <2>2. IsPrefix(flashed, Image)
    BY <1>2, <2>1, AheadPrefix
  <2>3. ASSUME status = "done" PROVE flashed = Image
    <3>1. todo = << >>
      BY <1>1, <2>3 DEF ScriptInv
    <3>2. Ahead("flash_data", flashed, << >>, Image)
      BY <1>1, <1>4, <3>1 DEF FlashInv, Asked
    <3> QED  BY <1>2, <3>2, AheadDone
  <2> QED  BY <2>2, <2>3 DEF FlashedRight
<1>5. CASE command # "flash"
  BY <1>1, <1>3, <1>5 DEF ScriptInv
<1>6. CASE Connecting
  <2>1. todo # << >>
    BY <1>6 DEF Connecting, Connect
  <2> QED  BY <1>1, <1>3, <1>6, <2>1 DEF ScriptInv
<1> QED  BY <1>4, <1>5, <1>6

\* ... and that the words printed are the right ones.
LEMMA IInvRead == DetectionAnswered /\ IInv => ReadsRight
<1> SUFFICES ASSUME DetectionAnswered, IInv PROVE ReadsRight
  OBVIOUS
<1>1. ReadInv
  BY DEF IInv
<1> QED  BY <1>1 DEF ReadInv, ReadsRight, Outs, Goal, Reading

\* The steps of chip_connect.
LEMMA ConnectSteps ==
    /\ Connect \in Seq(Steps) /\ Tail(Connect) \in Seq(Steps)
    /\ Connect # << >> /\ Tail(Connect) # << >>
    /\ Head(Connect).op = "sync" /\ Head(Connect).onError = "retry"
    /\ ~Detects(Head(Connect)) /\ Head(Connect) \notin Strange
    /\ Head(Tail(Connect)).op = "read_reg" /\ Head(Tail(Connect)).onError = "fail"
    /\ Detects(Head(Tail(Connect))) /\ Head(Tail(Connect)) \notin Strange
    /\ Tail(Connect) # Connect
<1> DEFINE a == Step("sync", << >>, "retry")
           b == Step("read_reg", <<chip_id_reg>>, "fail")
<1>1. a \in Steps /\ b \in Steps
  <2>1. << >> \in Seq(Nat) /\ <<chip_id_reg>> \in Seq(Nat)
    BY Arguments DEF chip_id_reg
  <2> QED  BY <2>1 DEF Step, Steps, Ops
<1>2. a.op = "sync" /\ a.onError = "retry" /\ ~Detects(a) /\ a \notin Strange
  BY DEF Step, Detects, ReadsId, Strange
<1>3. b.op = "read_reg" /\ b.onError = "fail" /\ Detects(b) /\ b \notin Strange
  BY DEF Step, Detects, ReadsId, Strange
<1>4. Connect = <<a, b>>
  BY DEF Connect
<1> HIDE DEF a, b
<1>5. Connect \in Seq(Steps) /\ Head(Connect) = a /\ Tail(Connect) = <<b>>
  BY <1>1, <1>4
<1>6. <<b>> \in Seq(Steps) /\ Head(<<b>>) = b /\ <<b>> # << >> /\ <<a, b>> # << >> /\ <<b>> # <<a, b>>
  BY <1>1
<1> QED  BY <1>2, <1>3, <1>4, <1>5, <1>6

\* A script for a known chip is not one of chip_connect.
LEMMA LaterNotConnecting ==
    ASSUME NEW c, NEW s \in Seq(LaterSteps(c))
    PROVE  /\ s \notin {Connect, Tail(Connect)}
           /\ s # << >> => /\ Head(s) \in LaterSteps(c) /\ Tail(s) \in Seq(LaterSteps(c))
                           /\ ~Detects(Head(s)) /\ Head(s).onError # "retry"
                           /\ Head(s).op # "sync"
<1> DEFINE L == LaterSteps(c)
<1>1. \A x \in L : x.op # "sync" /\ x.onError # "retry" /\ ~Detects(x)
  BY DEF LaterSteps, Detects, ReadsId
<1> HIDE DEF L
<1>2. s # << >> => Head(s) \in L /\ Tail(s) \in Seq(L)
  BY DEF L
<1>3. s \notin {Connect, Tail(Connect)}
  BY <1>1, <1>2, ConnectSteps
<1> QED  BY <1>1, <1>2, <1>3 DEF L

\* The work is never to synchronise, and for flash it is to flash blocks.
LEMMA WorkOps ==
    ASSUME command \in Commands
    PROVE  /\ Work(command) # "sync" /\ Work(command) # "none"
           /\ command = "flash" <=> Work(command) = "flash_data"
           /\ command \in Reading => Work(command) \in {"read_reg", "read_flash"}
BY ScriptAssumption DEF Work, Reading

\* Initially nothing has been asked.
LEMMA IInvInit == Init => IInv
<1> SUFFICES ASSUME Init PROVE IInv
  OBVIOUS
<1>1. << >> \in Seq(Nat) /\ << >> \in Seq(Steps) /\ << >> \in Seq(Replies) /\ << >> \in Seq(Tokens)
      /\ << >> \in Seq([arg : Seq(Nat), value : Seq(Nat)]) /\ << >> \in Seq(Seq(Nat))
  BY Singles
<1>2. Image \in Seq(Seq(Nat)) /\ Goal \in Seq(Seq(Nat))
  BY ImageType DEF Init
<1>5. replies \in Seq(Tokens)
  BY <1>1 DEF Init
<1>6. \A R : None(replies, Bodies(R))
  BY NothingIn DEF Init
<1>7. \A R : NoAnswer(replies, slip.buf, R)
  BY <1>6, NothingIn DEF Init, NoAnswer
<1>8. TypeInv
  <2>1. slip \in [mode : {0, 1}, buf : Seq(Replies)] /\ slip.buf = << >>
    BY <1>1 DEF Init
  <2>2. options \in Options /\ command \in Commands /\ device \in Devices
    BY DEF Init
  <2>3. 0 \in 0 .. MaxSync /\ 0 < MaxSync
    BY ScriptAssumption
  <2> QED  BY <1>1, <1>5, <2>1, <2>2, <2>3, ConnectSteps DEF Init, TypeInv
<1>9. Connecting
  BY DEF Init, Connecting
<1>10. requests = << >> /\ out = << >> /\ flashed = << >> /\ status = "running" /\ chip = "unknown"
  BY DEF Init
<1>11. ScriptInv /\ IdInv
  BY <1>7, <1>9, <1>10, NothingIn DEF ScriptInv, IdInv
<1>12. Quiet(Work(command))
  BY <1>7, <1>10, NothingIn DEF Quiet
<1>13. OneAnswer(replies, slip.buf, RepliesTo(Work(command)))
  BY <1>7, NoneIsOne DEF NoAnswer, OneAnswer
<1>14. Alone(Work(command)) /\ Match(Work(command))
  BY <1>12, <1>13, NoneIsOne DEF Alone, Match, Quiet
<1>15. FlashInv
  BY <1>9 DEF FlashInv
<1>16. ReadInv
  <2>1. Outs = << >> /\ DOMAIN out = {}
    BY <1>10 DEF Outs
  <2> QED  BY <1>2, <1>9, <2>1, PrefixEmpty DEF ReadInv
<1> QED  BY <1>8, <1>11, <1>14, <1>15, <1>16 DEF IInv

-----------------------------------------------------------------------------
\* The invariant and the steps

\* The sets of answers and of requests the invariant speaks of.
LEMMA AnswerSets ==
    /\ \A o : RepliesTo(o) \in SUBSET Replies /\ Accepted(o) \subseteq RepliesTo(o)
    /\ \A o : o # "none" => RepliesTo(o) \in SUBSET Real /\ Accepted(o) \in SUBSET Real
    /\ \A s \in Steps : /\ Wrong(s) \in SUBSET Real /\ Wrong(s) \subseteq Accepted(s.op)
                         /\ Differ(s) \subseteq Asks(s.op)
    /\ \A d : Misled(d) \in SUBSET Real
BY DEF RepliesTo, Accepted, Wrong, Differ, Misled, Real, Steps, Ops

\* What the host has received or lost since, without taking it for an answer.
LEMMA Unanswered ==
    ASSUME IInv, UNCHANGED <<setting, script, requests, flashed>>,
           slip' \in [mode : {0, 1}, buf : Seq(Replies)], slip'.mode = 0 => slip'.buf = << >>,
           replies' \in Seq(Tokens), Fewer(replies, slip.buf, replies', slip'.buf)
    PROVE  IInv'
<1> DEFINE o == Work(command)
<1>1. /\ command' = command /\ options' = options /\ device' = device
      /\ todo' = todo /\ waiting' = waiting /\ tries' = tries /\ chip' = chip
      /\ out' = out /\ status' = status /\ requests' = requests /\ flashed' = flashed
  BY DEF setting, script
<1>2. /\ TypeInv /\ ScriptInv /\ IdInv /\ Alone(o) /\ Match(o) /\ FlashInv /\ ReadInv
  BY DEF IInv
<1>3. \A R \in SUBSET Real :
        /\ NoAnswer(replies, slip.buf, R) => NoAnswer(replies', slip'.buf, R)
        /\ OneAnswer(replies, slip.buf, R) => OneAnswer(replies', slip'.buf, R)
  BY DEF Fewer
<1> o # "none" /\ (todo # << >> => Head(todo) \in Steps)
  BY <1>2, WorkOps DEF TypeInv
<1>4. TypeInv'
  BY <1>1, <1>2 DEF TypeInv
<1>5. (Connecting <=> Connecting') /\ (Asked <=> Asked')
  BY <1>1 DEF Connecting, Asked
<1>6. ScriptInv'
  BY <1>1, <1>2, <1>5 DEF ScriptInv
<1>7. IdInv'
  BY <1>1, <1>2, <1>3, <1>5, AnswerSets DEF IdInv
<1>8. Alone(o)' /\ (Quiet(o) => Quiet(o)')
  BY <1>1, <1>2, <1>3, AnswerSets DEF Alone, Quiet
<1>9. Match(o)'
  <2>1. CASE Quiet(o)
    BY <1>8, <2>1 DEF Match
  <2>2. CASE todo = << >> /\ command # "flash"
    BY <1>1, <2>2 DEF Match
  <2>3. CASE /\ Asked /\ None(requests, Differ(Head(todo)))
             /\ NoAnswer(replies, slip.buf, Wrong(Head(todo)))
    <3>1. Head(todo) \in Steps
      BY <2>3 DEF Asked
    <3>2. NoAnswer(replies', slip'.buf, Wrong(Head(todo)))
      BY <1>3, <2>3, <3>1, AnswerSets
    <3> QED  BY <1>1, <1>5, <2>3, <3>2 DEF Match
  <2> QED  BY <1>2, <2>1, <2>2, <2>3 DEF Match
<1>10. Image' = Image
  BY <1>1 DEF Image
<1>11. FlashInv'
  BY <1>1, <1>2, <1>3, <1>5, <1>10, AnswerSets DEF FlashInv
<1>12. Outs' = Outs
  BY <1>1 DEF Outs
<1>13. ReadInv'
  BY <1>1, <1>2, <1>5, <1>12 DEF ReadInv
<1> QED  BY <1>1, <1>4, <1>6, <1>7, <1>8, <1>9, <1>11, <1>13 DEF IInv

\* The receiver takes the next token.
LEMMA Received ==
    ASSUME TypeInv, replies # << >>
    PROVE  LET next == slip_recv(Head(replies)) IN
           /\ next \in [mode : {0, 1}, buf : Seq(Replies)] /\ (next.mode = 0 => next.buf = << >>)
           /\ Tail(replies) \in Seq(Tokens)
           /\ Fewer(replies, slip.buf, Tail(replies), next.buf)
<1> DEFINE t == Head(replies)
           next == slip_recv(t)
<1>1. /\ slip \in [mode : {0, 1}, buf : Seq(Replies)] /\ (slip.mode = 0 => slip.buf = << >>)
      /\ replies \in Seq(Tokens)
  BY DEF TypeInv
<1>2. slip.mode \in {0, 1} /\ slip.buf \in Seq(Replies)
  BY <1>1
<1>3. Tail(replies) \in Seq(Tokens)
  BY <1>1, CountTail
<1>4. CASE t.kind = "END"
  <2>1. next = [mode |-> 1 - slip.mode, buf |-> << >>]
    BY <1>4 DEF slip_recv
  <2>2. next.mode \in {0, 1} /\ next.buf = << >> /\ << >> \in Seq(Replies)
    BY <1>2, <2>1
  <2>3. next \in [mode : {0, 1}, buf : Seq(Replies)]
    BY <2>1, <2>2
  <2>4. Fewer(replies, slip.buf, Tail(replies), << >>)
    BY <1>1, <1>2, FewerEnd
  <2> QED  BY <1>3, <2>2, <2>3, <2>4
<1>5. CASE t.kind # "END" /\ slip.mode = 1
  <2>1. /\ Buffered(slip.buf, t.reply) \in Seq(Replies)
        /\ Fewer(replies, slip.buf, Tail(replies), Buffered(slip.buf, t.reply))
    BY <1>1, <1>2, <1>5, FewerBody
  <2>2. next = [slip EXCEPT !.buf = Buffered(slip.buf, t.reply)]
    BY <1>5 DEF slip_recv
  <2> HIDE DEF t
  <2>3. next.mode = 1 /\ next.buf = Buffered(slip.buf, t.reply)
        /\ next \in [mode : {0, 1}, buf : Seq(Replies)]
    BY <1>1, <1>5, <2>1, <2>2
  <2> HIDE DEF next
  <2>4. Fewer(replies, slip.buf, Tail(replies), next.buf) /\ (next.mode = 0 => next.buf = << >>)
    BY <2>1, <2>3
  <2> QED  BY <1>3, <2>3, <2>4 DEF t, next
<1>6. CASE t.kind # "END" /\ slip.mode # 1
  <2>1. next = slip
    BY <1>6 DEF slip_recv
  <2>2. Fewer(replies, slip.buf, Tail(replies), slip.buf)
    BY <1>1, <1>2, FewerText
  <2> QED  BY <1>1, <1>3, <2>1, <2>2
<1> QED  BY <1>4, <1>5, <1>6

\* What cmd and flushio leave.
LEMMA Discarded ==
    ASSUME NEW tokens \in Seq(Tokens), NEW buf \in Seq(Replies), Discard(tokens)
    PROVE  replies' \in Seq(Tokens) /\ Fewer(tokens, buf, replies', buf)
<1>1. PICK n \in 0 .. Len(tokens) : replies' = SubSeq(tokens, n + 1, Len(tokens))
  BY DEF Discard
<1> QED  BY <1>1, FewerCut

\* cmd has failed: the work is as far as it was, and nothing else is asked in its place.
LEMMA FailKeeps ==
    ASSUME IInv, Running, waiting, Fail, UNCHANGED <<setting, requests, flashed>>,
           slip' \in [mode : {0, 1}, buf : Seq(Replies)], slip'.mode = 0 => slip'.buf = << >>,
           replies' \in Seq(Tokens), Fewer(replies, slip.buf, replies', slip'.buf)
    PROVE  IInv'
<1> DEFINE o == Work(command)
           h == Head(todo)
<1>1. /\ command' = command /\ options' = options /\ device' = device
      /\ requests' = requests /\ flashed' = flashed
  BY DEF setting
<1>2. /\ TypeInv /\ ScriptInv /\ IdInv /\ Alone(o) /\ Match(o) /\ FlashInv /\ ReadInv
  BY DEF IInv
<1>3. \A R \in SUBSET Real :
        /\ NoAnswer(replies, slip.buf, R) => NoAnswer(replies', slip'.buf, R)
        /\ OneAnswer(replies, slip.buf, R) => OneAnswer(replies', slip'.buf, R)
  BY DEF Fewer
<1>4. /\ o # "none" /\ todo # << >> /\ todo \in Seq(Steps) /\ h \in Steps /\ Tail(todo) \in Seq(Steps)
      /\ command \in Commands
  BY <1>2, WorkOps, CountTail DEF TypeInv
<1>5. /\ waiting' = FALSE /\ chip' = chip /\ out' = out /\ status = "running"
      /\ tries' = IF h.onError = "retry" THEN tries + 1 ELSE tries
      /\ status' = IF h.onError = "fail" \/ tries' = MaxSync THEN "failed" ELSE status
      /\ todo' = CASE h.onError = "go"   -> Tail(todo)
                   [] h.onError = "stop" -> << >>
                   [] OTHER              -> todo
  BY DEF Fail, Running
<1>6. h.onError \in {"fail", "retry", "stop", "go"}
  BY <1>4 DEF Steps
\* the new script
<1>7. \/ h.onError \in {"fail", "retry"} /\ todo' = todo
      \/ h.onError = "go" /\ todo' = Tail(todo)
      \/ h.onError = "stop" /\ todo' = << >>
  BY <1>5, <1>6
<1>8. CASE Connecting
  <2>1. h.onError \in {"fail", "retry"} /\ (h.onError = "retry" => h.op = "sync")
    BY <1>8, ConnectSteps DEF Connecting
  <2>2. todo' = todo /\ Connecting'
    BY <1>7, <1>8, <2>1 DEF Connecting
  <2>3. TypeInv'
    <3>1. tries' \in 0 .. MaxSync /\ (status' = "running" => tries' < MaxSync)
      <4>1. tries \in Nat /\ tries < MaxSync /\ MaxSync \in Nat
        BY <1>2, <1>5, ScriptAssumption DEF TypeInv
      <4>2. tries' = tries \/ tries' = tries + 1
        BY <1>5, Zenon
      <4>3. tries' \in 0 .. MaxSync
        BY <4>1, <4>2
      <4>4. status' = "running" => tries' # MaxSync
        BY <1>5
      <4> QED  BY <4>1, <4>3, <4>4
    <3> QED  BY <1>1, <1>2, <1>5, <2>2, <3>1 DEF TypeInv
  <2>4. ScriptInv'
    BY <1>1, <1>2, <1>5, <1>8, <2>2 DEF ScriptInv
  <2>5. IdInv'
    BY <1>1, <1>2, <1>3, <1>8, AnswerSets DEF IdInv
  <2>6. Alone(o)' /\ (Quiet(o) => Quiet(o)')
    BY <1>1, <1>2, <1>3, <1>4, AnswerSets DEF Alone, Quiet
  <2>7. Match(o)'
    <3>1. CASE Quiet(o)
      BY <2>6, <3>1 DEF Match
    <3>2. CASE ~Quiet(o)
      <4>1. /\ Asked /\ None(requests, Differ(h))
            /\ NoAnswer(replies, slip.buf, Wrong(h))
        BY <1>2, <1>4, <3>2 DEF Match
      <4>2. status' # "running"
        BY <1>4, <1>5, <2>1, <4>1, WorkOps DEF Asked
      <4>3. Asked'
        BY <1>1, <2>2, <4>1, <4>2 DEF Asked
      <4>4. NoAnswer(replies', slip'.buf, Wrong(h))
        BY <1>3, <1>4, <4>1, AnswerSets
      <4> QED  BY <1>1, <2>2, <4>1, <4>3, <4>4 DEF Match
    <3> QED  BY <3>1, <3>2
  <2>8. FlashInv'
    BY <2>2 DEF FlashInv
  <2>9. ReadInv'
    BY <1>1, <1>2, <1>5, <2>2 DEF ReadInv, Outs
  <2> QED  BY <1>1, <2>3, <2>4, <2>5, <2>6, <2>7, <2>8, <2>9 DEF IInv
<1>9. CASE ~Connecting
  <2>1. /\ h \in LaterSteps(command) /\ Tail(todo) \in Seq(LaterSteps(command))
        /\ todo \in Seq(LaterSteps(command)) /\ h.onError # "retry"
    BY <1>2, <1>4, <1>9, LaterNotConnecting DEF ScriptInv
  <2>2. (h.op = o => h.onError # "go") /\ (h.onError = "stop" => command \in Reading)
    BY <2>1 DEF LaterSteps
  <2>3. todo' \in Seq(LaterSteps(command))
    BY <1>7, <2>1, Singles
  <2>4. ~Connecting'
    BY <2>3, LaterNotConnecting DEF Connecting
  <2>5. TypeInv'
    <3>1. tries' = tries
      BY <1>5, <2>1
    <3>2. todo' \in Seq(Steps)
      BY <2>3, LaterAreSteps
    <3> QED  BY <1>1, <1>2, <1>5, <3>1, <3>2 DEF TypeInv
  <2>6. ScriptInv'
    BY <1>1, <1>2, <1>5, <1>9, <2>3, <2>4 DEF ScriptInv
  <2>7. IdInv'
    BY <2>4 DEF IdInv
  <2>8. Alone(o)' /\ (Quiet(o) => Quiet(o)')
    BY <1>1, <1>2, <1>3, <1>4, AnswerSets DEF Alone, Quiet
  <2>9. command \in Reading <=> command \in {"readmem", "readflash"}
    BY DEF Reading
  <2>10. h.op # o => Quiet(o)
    BY <1>2, <1>4 DEF Match, Asked
  <2>11. Match(o)'
    <3>1. CASE Quiet(o)
      BY <2>8, <3>1 DEF Match
    <3>2. CASE h.onError = "stop"
      BY <1>1, <1>7, <2>2, <2>9, <3>2 DEF Match
    <3>3. CASE ~Quiet(o) /\ h.onError # "stop"
      <4>1. /\ Asked /\ None(requests, Differ(h))
            /\ NoAnswer(replies, slip.buf, Wrong(h))
        BY <1>2, <1>4, <3>3 DEF Match
      <4>2. todo' = todo /\ status' = "failed"
        BY <1>5, <1>7, <2>1, <2>2, <3>3, <4>1 DEF Asked
      <4>3. Asked'
        BY <1>1, <4>1, <4>2 DEF Asked
      <4>4. NoAnswer(replies', slip'.buf, Wrong(h))
        BY <1>3, <1>4, <4>1, AnswerSets
      <4> QED  BY <1>1, <4>1, <4>2, <4>3, <4>4 DEF Match
    <3> QED  BY <3>1, <3>2, <3>3
  <2>12. FlashInv'
    <3> SUFFICES ASSUME DetectionAnswered, command = "flash"
                 PROVE  FlashInv'
      BY <1>1 DEF FlashInv
    <3> DEFINE Left(s) == Ahead("flash_data", flashed, s, Image)
    <3>1. Image' = Image /\ o = "flash_data"
      BY <1>1, WorkOps, <1>4 DEF Image
    <3>2. /\ \/ Left(todo)
             \/ Asked /\ None(requests, Asks("flash_data")) /\ Left(Tail(todo))
          /\ None(requests, Asks("flash_data")) \/ Left(todo)
          /\ \/ NoAnswer(replies, slip.buf, Accepted("flash_data"))
             \/ todo # << >> /\ Left(Tail(todo))
      BY <1>2, <1>9 DEF FlashInv
    <3>3. NoAnswer(replies, slip.buf, Accepted(o)) => NoAnswer(replies', slip'.buf, Accepted(o))
      BY <1>3, <1>4, AnswerSets
    <3>4. CASE h.onError = "go"
      <4>1. h.op # o /\ Quiet(o) /\ todo' = Tail(todo)
        BY <1>7, <2>2, <2>10, <3>4
      <4>2. Left(todo)
        BY <3>1, <3>2, <4>1 DEF Asked
      <4>3. Left(Tail(todo))
        BY <1>4, <3>1, <4>1, <4>2, AheadOther
      <4>4. Quiet(o)'
        BY <2>8, <4>1
      <4>5. None(requests', Asks(o)) /\ NoAnswer(replies', slip'.buf, Accepted(o))
        BY <1>1, <4>4, AnswerSets, NoAnswerSubset DEF Quiet
      <4> HIDE DEF o
      <4> QED  BY <1>1, <3>1, <4>1, <4>3, <4>5 DEF FlashInv
    <3>5. CASE h.onError # "go"
      <4>1. todo' = todo /\ status' = "failed"
        BY <1>5, <1>7, <2>1, <2>2, <2>9, <3>5
      <4>2. Asked => Asked'
        BY <1>1, <4>1 DEF Asked
      <4> QED  BY <1>1, <3>1, <3>2, <3>3, <4>1, <4>2 DEF FlashInv
    <3> QED  BY <3>4, <3>5
  <2>13. ReadInv'
    <3> SUFFICES ASSUME DetectionAnswered, command \in Reading
                 PROVE  ReadInv'
      BY <1>1 DEF ReadInv
    <3>1. Outs' = Outs
      BY <1>5 DEF Outs
    <3>2. Ahead(o, Outs, todo, Goal)
      BY <1>2, <1>4, <1>9 DEF ReadInv
    <3>3. todo' # << >> => Ahead(o, Outs, todo', Goal)
      <4>1. CASE todo' = todo
        BY <3>2, <4>1
      <4>2. CASE h.onError = "go" /\ todo' = Tail(todo)
        BY <1>4, <2>2, <3>2, <4>2, AheadOther
      <4> QED  BY <1>7, <4>1, <4>2
    <3> QED  BY <1>1, <1>2, <1>5, <3>1, <3>3 DEF ReadInv
  <2> QED  BY <1>1, <2>5, <2>6, <2>7, <2>8, <2>11, <2>12, <2>13 DEF IInv
<1> QED  BY <1>8, <1>9

\* cmd has returned 0 with the reply it had in the buffer: it was the answer to the current
\* request, and to no other; the script goes on behind it.
LEMMA SucceedKeeps ==
    ASSUME IInv, Running, waiting, NEW reply, slip.buf \in Seq(Replies),
           slip.buf # << >>, slip.buf[1] = reply, reply.op = Head(todo).op,
           reply.op # "sync" => ~ErrorSeen(reply), Succeed(reply), UNCHANGED <<setting, requests, flashed>>,
           slip' \in [mode : {0, 1}, buf : Seq(Replies)], slip'.mode = 0 => slip'.buf = << >>,
           replies' \in Seq(Tokens), Fewer(replies, slip.buf, replies', slip'.buf),
           \A R \in SUBSET Real : reply \in R /\ OneAnswer(replies, slip.buf, R)
                                    => NoAnswer(replies', slip'.buf, R)
    PROVE  IInv'
<1> DEFINE o == Work(command)
           h == Head(todo)
<1>1. /\ command' = command /\ options' = options /\ device' = device
      /\ requests' = requests /\ flashed' = flashed
  BY DEF setting
<1>2. /\ TypeInv /\ ScriptInv /\ IdInv /\ Alone(o) /\ Match(o) /\ FlashInv /\ ReadInv
  BY DEF IInv
<1>3. \A R \in SUBSET Real :
        /\ NoAnswer(replies, slip.buf, R) => NoAnswer(replies', slip'.buf, R)
        /\ OneAnswer(replies, slip.buf, R) => OneAnswer(replies', slip'.buf, R)
  BY DEF Fewer
<1>4. /\ o # "none" /\ todo # << >> /\ todo \in Seq(Steps) /\ h \in Steps /\ Tail(todo) \in Seq(Steps)
      /\ command \in Commands /\ options \in Options
  BY <1>2, WorkOps, CountTail DEF TypeInv
<1>5. /\ waiting' = FALSE /\ status = "running" /\ tries' = tries
      /\ chip' = IF Detects(h) THEN reply.id ELSE chip
      /\ todo' = IF Detects(h) THEN Script(command, chip', options) ELSE Tail(todo)
      /\ status' = IF Detects(h) /\ command = "readflash" /\ chip' = "esp8266"
                   THEN "failed" ELSE status
      /\ out' = IF ~Detects(h) /\ h.op \in {"read_reg", "read_flash"}
                THEN Append(out, [arg |-> h.arg, value |-> reply.value]) ELSE out
  BY DEF Succeed, Running
<1>6. reply \in Replies /\ \A R : NoAnswer(replies, slip.buf, R) => reply \notin R
  <2>1. 1 \in 1 .. Len(slip.buf)
    OBVIOUS
  <2> QED  BY <2>1, ElementOfSeq DEF NoAnswer, None
\* nothing of the work is left on the line
<1>7. Quiet(o)'
  <2>1. CASE h.op = o
    <3>1. reply \in RepliesTo(o)
      BY <1>6, <2>1 DEF RepliesTo
    <3>2. ~NoAnswer(replies, slip.buf, RepliesTo(o))
      BY <1>6, <3>1
    <3>3. None(requests, Asks(o)) /\ OneAnswer(replies, slip.buf, RepliesTo(o))
      BY <1>2, <3>2 DEF Alone
    <3>4. NoAnswer(replies', slip'.buf, RepliesTo(o))
      BY <1>4, <3>1, <3>3, AnswerSets
    <3> QED  BY <1>1, <3>3, <3>4 DEF Quiet
  <2>2. CASE h.op # o
    <3>1. Quiet(o)
      BY <1>2, <1>4, <2>2 DEF Match, Asked
    <3>2. NoAnswer(replies', slip'.buf, RepliesTo(o))
      BY <1>3, <1>4, <3>1, AnswerSets DEF Quiet
    <3> QED  BY <1>1, <3>1, <3>2 DEF Quiet
  <2> QED  BY <2>1, <2>2
<1>8. Alone(o)' /\ Match(o)'
  <2>1. OneAnswer(replies', slip'.buf, RepliesTo(o))
    BY <1>2, <1>3, <1>4, AnswerSets DEF Alone
  <2>2. One(requests', Asks(o))
    BY <1>1, <1>2 DEF Alone
  <2>3. Alone(o)'
    BY <1>1, <1>7, <2>1, <2>2 DEF Alone, Quiet
  <2>4. Match(o)'
    BY <1>7 DEF Match
  <2> QED  BY <2>3, <2>4
\* and no block is taken for written
<1>9. None(requests', Asks(o)) /\ NoAnswer(replies', slip'.buf, Accepted(o))
  <2>1. None(requests', Asks(o)) /\ NoAnswer(replies', slip'.buf, RepliesTo(o))
    BY <1>1, <1>7 DEF Quiet
  <2> QED  BY <2>1, AnswerSets, NoAnswerSubset
<1>10. tries' \in 0 .. MaxSync /\ (status' = "running" => tries' < MaxSync)
       /\ status' \in {"running", "failed"}
  BY <1>2, <1>5 DEF TypeInv
<1>11. Image' = Image /\ Image \in Seq(Seq(Nat)) /\ Goal \in Seq(Seq(Nat))
  BY <1>1, <1>4, ImageType DEF Image
<1>12. CASE Connecting /\ ~Detects(h)
  <2>1. todo = Connect /\ todo' = Tail(Connect) /\ h.op = "sync"
    BY <1>5, <1>12, ConnectSteps DEF Connecting
  <2>2. Connecting' /\ out' = out /\ chip' = chip /\ todo' \in Seq(Steps) /\ status' = status
    BY <1>5, <1>12, <2>1, ConnectSteps DEF Connecting
  <2>3. TypeInv'
    BY <1>1, <1>2, <1>5, <1>10, <2>2 DEF TypeInv
  <2>4. ScriptInv'
    BY <1>1, <1>2, <1>5, <1>12, <2>2 DEF ScriptInv
  <2>5. IdInv'
    BY <1>1, <1>2, <1>3, <1>12, AnswerSets DEF IdInv
  <2>6. FlashInv'
    BY <2>2 DEF FlashInv
  <2>7. ReadInv'
    BY <1>1, <1>2, <2>2 DEF ReadInv, Outs
  <2> QED  BY <1>1, <1>8, <2>3, <2>4, <2>5, <2>6, <2>7 DEF IInv
<1>13. CASE Detects(h)
  <2>1. Connecting
    BY <1>2, <1>4, <1>13, LaterNotConnecting DEF ScriptInv
  <2>2. chip = "unknown" /\ out = << >> /\ flashed = << >> /\ h.op = "read_reg"
    BY <1>2, <1>13, <2>1 DEF ScriptInv, Detects, ReadsId
  <2>3. ASSUME DetectionAnswered PROVE chip' = device
    <3>1. reply \notin Misled(device)
      BY <1>2, <1>6, <2>1, <2>3 DEF IdInv
    <3>2. reply.refused => device # "esp8266"
      BY <2>2 DEF ErrorSeen
    <3>3. reply.id = device
      BY <1>6, <2>2, <3>1, <3>2 DEF Misled
    <3> QED  BY <1>5, <1>13, <3>3
  <2>4. device \in {"esp8266", "esp32c3"}
    BY <1>2, ScriptAssumption DEF TypeInv, Chips
  <2>5. /\ chip' \in Chips \cup {"unknown", "none"}
        /\ DetectionAnswered => (chip' \in {"unknown", "esp8266"} <=> device = "esp8266")
    BY <1>5, <1>6, <1>13, <2>3, <2>4 DEF Replies
  <2>6. /\ todo' = Script(command, chip', options) /\ out' = << >>
        /\ todo' \in Seq(LaterSteps(command))
        /\ command = "flash" => Lists(o, todo', Image)
        /\ command \in Reading => Lists(o, todo', Goal)
    BY <1>4, <1>5, <1>13, <2>2, ScriptShape
  <2>7. ~Connecting'
    BY <2>6, LaterNotConnecting DEF Connecting
  <2>8. TypeInv'
    <3>1. todo' \in Seq(Steps)
      BY <2>6, LaterAreSteps
    <3>2. << >> \in Seq([arg : Seq(Nat), value : Seq(Nat)])
      BY Singles
    <3> QED  BY <1>1, <1>2, <1>5, <1>10, <2>5, <2>6, <3>1, <3>2 DEF TypeInv
  <2>9. ScriptInv'
    BY <1>1, <1>2, <1>10, <2>5, <2>6, <2>7 DEF ScriptInv
  <2>10. IdInv'
    BY <2>7 DEF IdInv
  <2>11. FlashInv'
    <3> SUFFICES ASSUME DetectionAnswered, command = "flash"
                 PROVE  FlashInv'
      BY <1>1 DEF FlashInv
    <3>1. o = "flash_data"
      BY <1>4, WorkOps
    <3>2. Ahead("flash_data", flashed', todo', Image)
      BY <1>1, <1>11, <2>2, <2>6, <3>1, AheadStart
    <3> QED  BY <1>9, <1>11, <3>1, <3>2 DEF FlashInv
  <2>12. ReadInv'
    <3> SUFFICES ASSUME DetectionAnswered, command \in Reading
                 PROVE  ReadInv'
      BY <1>1 DEF ReadInv
    <3>1. Outs' = << >> /\ DOMAIN out' = {}
      BY <2>6 DEF Outs
    <3>2. Ahead(o, << >>, todo', Goal)
      BY <1>11, <2>6, AheadStart
    <3>3. IsPrefix(<< >>, Goal)
      BY <1>11, PrefixEmpty
    <3> QED  BY <1>1, <3>1, <3>2, <3>3 DEF ReadInv
  <2> QED  BY <1>1, <1>8, <2>8, <2>9, <2>10, <2>11, <2>12 DEF IInv
<1>14. CASE ~Connecting
  <2>1. /\ h \in LaterSteps(command) /\ todo' = Tail(todo) /\ todo' \in Seq(LaterSteps(command))
        /\ ~Detects(h) /\ chip' = chip /\ status' = status /\ h.op # "sync"
        /\ DetectionAnswered => (chip \in {"unknown", "esp8266"} <=> device = "esp8266")
    BY <1>2, <1>4, <1>5, <1>14, LaterNotConnecting DEF ScriptInv
  <2>2. DetectionAnswered => ~reply.refused
    BY <2>1 DEF ErrorSeen
  <2>3. ~Connecting'
    BY <2>1, LaterNotConnecting DEF Connecting
  <2>4. h.arg \in Seq(Nat) /\ reply.value \in Seq(Nat)
    BY <1>4, <1>6, StepArg DEF Replies
  <2>5. TypeInv'
    <3>1. todo' \in Seq(Steps)
      BY <2>1, LaterAreSteps
    <3>2. out' \in Seq([arg : Seq(Nat), value : Seq(Nat)])
      <4> DEFINE P == [arg : Seq(Nat), value : Seq(Nat)]
                 e == [arg |-> h.arg, value |-> reply.value]
      <4>1. e \in P
        BY <2>4
      <4>2. out \in Seq(P) /\ (out' = Append(out, e) \/ out' = out)
        BY <1>2, <1>5 DEF TypeInv
      <4> HIDE DEF P, e
      <4>3. Append(out, e) \in Seq(P)
        BY <4>1, <4>2, AppendProperties
      <4>4. out' \in Seq(P)
        BY <4>2, <4>3
      <4> QED  BY <4>4 DEF P
    <3> QED  BY <1>1, <1>2, <1>5, <1>10, <2>1, <3>1, <3>2 DEF TypeInv
  <2>6. ScriptInv'
    BY <1>1, <1>2, <1>10, <1>14, <2>1, <2>3 DEF ScriptInv
  <2>7. IdInv'
    BY <2>3 DEF IdInv
  <2>8. FlashInv'
    <3> SUFFICES ASSUME DetectionAnswered, command = "flash"
                 PROVE  FlashInv'
      BY <1>1 DEF FlashInv
    <3> DEFINE Left(s) == Ahead("flash_data", flashed, s, Image)
    <3>1. o = "flash_data"
      BY <1>4, WorkOps
    <3>2. /\ \/ Left(todo)
             \/ Asked /\ None(requests, Asks("flash_data")) /\ Left(Tail(todo))
          /\ \/ NoAnswer(replies, slip.buf, Accepted("flash_data"))
             \/ todo # << >> /\ Left(Tail(todo))
      BY <1>2, <1>14 DEF FlashInv
    <3>3. Left(todo')
      <4>1. CASE h.op = o
        <5>1. reply \in Accepted("flash_data")
          BY <1>6, <2>2, <3>1, <4>1 DEF Accepted, RepliesTo
        <5> QED  BY <1>6, <2>1, <3>2, <5>1
      <4>2. CASE h.op # o
        <5>1. Left(todo)
          BY <3>1, <3>2, <4>2 DEF Asked
        <5> QED  BY <1>4, <2>1, <3>1, <4>2, <5>1, AheadOther
      <4> QED  BY <4>1, <4>2
    <3> QED  BY <1>1, <1>9, <1>11, <3>1, <3>3 DEF FlashInv
  <2>9. ReadInv'
    <3> SUFFICES ASSUME DetectionAnswered, command \in Reading
                 PROVE  ReadInv'
      BY <1>1 DEF ReadInv
    <3>1. /\ \A n \in DOMAIN out : out[n].value = out[n].arg
          /\ IsPrefix(Outs, Goal) /\ Ahead(o, Outs, todo, Goal)
      BY <1>2, <1>4, <1>14 DEF ReadInv
    <3>2. CASE h.op # o
      <4>1. out' = out
        BY <1>5, <2>1, <3>2 DEF LaterSteps
      <4>2. Ahead(o, Outs, todo', Goal)
        BY <1>4, <2>1, <3>1, <3>2, AheadOther
      <4> QED  BY <1>1, <3>1, <4>1, <4>2 DEF ReadInv, Outs
    <3>3. CASE h.op = o
      <4>1. reply.value = h.arg
        <5>1. reply \in RepliesTo(o)
          BY <1>6, <3>3 DEF RepliesTo
        <5>2. ~Quiet(o)
          BY <1>6, <5>1 DEF Quiet
        <5>3. NoAnswer(replies, slip.buf, Wrong(h))
          BY <1>2, <1>4, <5>2 DEF Match
        <5>4. reply \notin Wrong(h)
          BY <1>6, <5>3
        <5> QED  BY <2>2, <3>3, <5>1, <5>4 DEF Wrong
      <4> DEFINE P == [arg : Seq(Nat), value : Seq(Nat)]
                 e == [arg |-> h.arg, value |-> reply.value]
      <4>2. e \in P /\ e.arg = h.arg /\ e.value = h.arg
        BY <2>4, <4>1
      <4>3. out \in Seq(P) /\ out' = Append(out, e)
        <5>1. h.op \in {"read_reg", "read_flash"}
          BY <1>4, <3>3, WorkOps
        <5> QED  BY <1>2, <1>5, <2>1, <5>1 DEF TypeInv
      <4> HIDE DEF P, e
      <4> DEFINE n == Len(out)
      <4>4. /\ n \in Nat /\ DOMAIN out = 1 .. n /\ DOMAIN out' = 1 .. n + 1 /\ Len(out') = n + 1
            /\ \A i \in 1 .. n : out'[i] = out[i]
            /\ out'[n + 1] = e /\ n + 1 \in 1 .. n + 1
            /\ \A i \in 1 .. n + 1 : i \in 1 .. n \/ i = n + 1
        BY <4>2, <4>3, AppendProperties
      <4> HIDE DEF n
      <4>5. \A i \in DOMAIN out' : out'[i].value = out'[i].arg
        BY <3>1, <4>2, <4>4
      <4>6. Outs \in Seq(Seq(Nat)) /\ Len(Outs) = n /\ \A i \in 1 .. n : Outs[i] = out[i].arg
        <5> DEFINE A == Seq(Nat)
        <5>1. \A i \in 1 .. n : out[i] \in P
          BY <4>3, <4>4
        <5>2. \A i \in 1 .. n : out[i].arg \in A
          BY <5>1 DEF P
        <5> HIDE DEF A
        <5>3. Outs = [i \in 1 .. n |-> out[i].arg]
          BY <4>4 DEF Outs
        <5>4. Outs \in Seq(A) /\ Len(Outs) = n /\ \A i \in 1 .. n : Outs[i] = out[i].arg
          BY <4>4, <5>2, <5>3
        <5> QED  BY <5>4 DEF A
      <4>7. Outs' = Append(Outs, h.arg)
        <5> DEFINE A == Seq(Nat)
                   x == h.arg
        <5>1. Outs \in Seq(A) /\ x \in A
          BY <2>4, <4>6
        <5> HIDE DEF A, x
        <5>2. /\ Append(Outs, x) \in Seq(A) /\ Len(Append(Outs, x)) = n + 1
              /\ \A i \in 1 .. n : Append(Outs, x)[i] = Outs[i]
              /\ Append(Outs, x)[n + 1] = x
          BY <4>6, <5>1, AppendProperties
        <5>3. Outs' = [i \in 1 .. n + 1 |-> out'[i].arg]
          BY <4>4 DEF Outs
        <5>4. \A i \in 1 .. n + 1 : out'[i].arg = Append(Outs, x)[i]
          BY <4>2, <4>4, <4>6, <5>2 DEF x
        <5>5. \A i \in 1 .. n + 1 : Append(Outs, x)[i] \in A
          BY <5>2
        <5> DEFINE l == Append(Outs, x)
        <5>9. \A i \in 1 .. n + 1 : l[i] \in A
          BY <5>5
        <5> HIDE DEF l
        <5> DEFINE m == [i \in 1 .. n + 1 |-> l[i]]
        <5>6. m \in Seq(A) /\ Len(m) = n + 1 /\ \A i \in 1 .. n + 1 : m[i] = l[i]
          BY <4>4, <5>9
        <5>7. Outs' = m
          BY <5>3, <5>4 DEF l
        <5> HIDE DEF m
        <5>8. m = l
          BY <5>2, <5>6, SeqEqual DEF l
        <5> QED  BY <5>7, <5>8 DEF l, x
      <4>8. Outs' \in Seq(Seq(Nat)) /\ Ahead(o, Outs', todo', Goal)
        BY <1>4, <2>1, <3>1, <3>3, <4>6, <4>7, AheadNext
      <4>9. IsPrefix(Outs', Goal)
        BY <4>8, AheadPrefix
      <4> QED  BY <1>1, <4>5, <4>8, <4>9 DEF ReadInv
    <3> QED  BY <3>2, <3>3
  <2> QED  BY <1>1, <1>8, <2>5, <2>6, <2>7, <2>8, <2>9 DEF IInv
<1> QED  BY <1>12, <1>13, <1>14

\* An answer to anything but SYNC is all of its packet.
LEMMA AnswerWhole ==
    ASSUME TypeInv, FrameInv, waiting, replies # << >>, Answers(Packet(Head(replies))),
           Packet(Head(replies))[1].op # "sync"
    PROVE  /\ Packet(Head(replies)) = slip.buf /\ Len(slip.buf) = 1
           /\ Last(Packet(Head(replies))) = Packet(Head(replies))[1]
<1> DEFINE packet == Packet(Head(replies))
<1>1. packet # << >> /\ packet[1].op = Head(todo).op
  BY DEF Answers
<1>2. packet = slip.buf /\ slip.mode = 1
  BY <1>1 DEF Packet
<1>3. slip.buf \in Seq(Replies) /\ todo \in Seq(Steps) /\ todo # << >>
  BY DEF TypeInv
<1>4. Head(todo).op \in Ops
  <2>1. Head(todo) \in Steps
    BY <1>3, CountTail
  <2> QED  BY <2>1 DEF Steps
<1> HIDE DEF packet
<1>5. Len(slip.buf) \in Nat /\ Len(slip.buf) # 0
  BY <1>1, <1>2, <1>3, EmptySeq, LenProperties
<1>6. 1 \in 1 .. Len(slip.buf) /\ slip.buf[1] \in Replies
  BY <1>3, <1>5, ElementOfSeq
<1>7. slip.buf[1] \in Later
  BY <1>1, <1>2, <1>4, <1>6 DEF Later, Ops, packet
<1>8. Len(slip.buf) = 1
  BY <1>2, <1>6, <1>7 DEF FrameInv, Arriving
<1> QED  BY <1>2, <1>8 DEF Last, packet

\* cmd reads on.
LEMMA ReceiveKeeps ==
    ASSUME IInv, FrameInv, Receive
    PROVE  IInv'
<1> DEFINE t == Head(replies)
           next == slip_recv(t)
           packet == Packet(t)
<1>1. /\ Running /\ waiting /\ replies # << >> /\ slip' = next
      /\ UNCHANGED <<setting, requests, flashed>>
  BY DEF Receive
<1>2. TypeInv /\ replies \in Seq(Tokens) /\ slip.buf \in Seq(Replies)
  BY DEF IInv, TypeInv
<1>3. /\ next \in [mode : {0, 1}, buf : Seq(Replies)] /\ (next.mode = 0 => next.buf = << >>)
      /\ Tail(replies) \in Seq(Tokens)
      /\ Fewer(replies, slip.buf, Tail(replies), next.buf)
  BY <1>1, <1>2, Received
<1>4. CASE ~Answers(packet)
  <2>1. replies' = Tail(replies) /\ UNCHANGED script
    BY <1>4 DEF Receive
  <2> HIDE DEF next
  <2> QED  BY <1>1, <1>3, <2>1, Unanswered
<1>5. CASE Answers(packet)
  <2>1. /\ \/ Fail
           \/ ~ErrorSeen(Last(packet)) /\ Succeed(packet[1])
        /\ Discard(Tail(replies))
    BY <1>5 DEF Receive
  <2>2. packet # << >> /\ packet[1].op = Head(todo).op
    BY <1>5 DEF Answers
  <2>3. packet = slip.buf /\ next.buf = << >>
    <3>1. t.kind = "END" /\ packet = slip.buf
      BY <2>2 DEF Packet
    <3> QED  BY <3>1 DEF slip_recv
  <2>10. packet[1].op # "sync" => Last(packet) = packet[1]
    BY <1>1, <1>2, <1>5, AnswerWhole
  <2> HIDE DEF next, packet
  <2>4. next.buf \in Seq(Replies)
    BY <1>3
  <2>5. replies' \in Seq(Tokens) /\ Fewer(Tail(replies), next.buf, replies', next.buf)
    BY <1>3, <2>1, <2>4, Discarded
  <2>6. Fewer(replies, slip.buf, replies', slip'.buf)
    BY <1>1, <1>3, <2>5, FewerTwice
  <2>7. \A R \in SUBSET Real : packet[1] \in R /\ OneAnswer(replies, slip.buf, R)
                                 => NoAnswer(replies', slip'.buf, R)
    <3> SUFFICES ASSUME NEW R \in SUBSET Real, packet[1] \in R, OneAnswer(replies, slip.buf, R)
                 PROVE  NoAnswer(replies', slip'.buf, R)
      OBVIOUS
    <3>1. R \in SUBSET Replies
      BY DEF Real
    <3>2. NoAnswer(Tail(replies), << >>, R)
      BY <1>1, <1>2, <2>2, <2>3, <3>1, AnswerTaken
    <3> QED  BY <1>1, <2>3, <2>5, <3>2 DEF Fewer
  <2>8. CASE Fail
    BY <1>1, <1>3, <2>5, <2>6, <2>8, FailKeeps
  <2>9. CASE ~ErrorSeen(Last(packet)) /\ Succeed(packet[1])
    <3> DEFINE reply == packet[1]
    <3>1. Succeed(reply) /\ (reply.op # "sync" => ~ErrorSeen(reply)) /\ reply.op = Head(todo).op
      BY <2>2, <2>9, <2>10
    <3>2. slip.buf # << >> /\ slip.buf[1] = reply
      BY <2>2, <2>3
    <3>3. \A R \in SUBSET Real : reply \in R /\ OneAnswer(replies, slip.buf, R)
                                   => NoAnswer(replies', slip'.buf, R)
      BY <2>7
    <3> HIDE DEF reply
    <3> QED  BY <1>1, <1>2, <1>3, <2>5, <2>6, <3>1, <3>2, <3>3, SucceedKeeps
  <2> QED  BY <2>1, <2>8, <2>9
<1> QED  BY <1>4, <1>5

\* No answer in time.
LEMMA InterruptedKeeps ==
    ASSUME IInv, Interrupted
    PROVE  IInv'
<1>1. Running /\ waiting /\ Fail /\ slip' = slip /\ UNCHANGED <<setting, requests, flashed>>
  BY DEF Interrupted
<1>2. /\ slip \in [mode : {0, 1}, buf : Seq(Replies)] /\ (slip.mode = 0 => slip.buf = << >>)
      /\ replies \in Seq(Tokens) /\ slip.buf \in Seq(Replies)
  BY DEF IInv, TypeInv
<1>3. replies' \in Seq(Tokens) /\ Fewer(replies, slip.buf, replies', slip.buf)
  <2>1. CASE \E n \in 0 .. Len(replies) : replies' = SubSeq(replies, n + 1, Len(replies))
    BY <1>2, <2>1, FewerCut
  <2>2. CASE replies' = replies
    BY <1>2, <2>2, FewerSame
  <2> QED  BY <2>1, <2>2 DEF Interrupted
<1> QED  BY <1>1, <1>2, <1>3, FailKeeps

\* The line was closed, or the script is at its end: nothing is asked any more.
LEMMA StopsKeep ==
    ASSUME IInv, Unplugged \/ Finish
    PROVE  IInv'
<1> DEFINE o == Work(command)
<1>1. /\ command' = command /\ options' = options /\ device' = device
      /\ todo' = todo /\ waiting' = waiting /\ tries' = tries /\ chip' = chip /\ slip' = slip
      /\ out' = out /\ replies' = replies /\ flashed' = flashed
      /\ status' \in {"done", "failed"} /\ (status' = "done" => todo = << >>)
      /\ requests' = requests \/ requests' = << >>
  BY DEF Unplugged, Finish, setting
<1>2. /\ TypeInv /\ ScriptInv /\ IdInv /\ Alone(o) /\ Match(o) /\ FlashInv /\ ReadInv
  BY DEF IInv
<1>3. \A S : (None(requests, S) => None(requests', S)) /\ (One(requests, S) => One(requests', S))
  BY <1>1, NothingIn
<1>4. (Connecting <=> Connecting') /\ (Asked => Asked')
  BY <1>1 DEF Connecting, Asked
<1>5. TypeInv'
  <2>1. requests' \in Seq(Steps)
    BY <1>1, <1>2, Singles DEF TypeInv
  <2> QED  BY <1>1, <1>2, <2>1 DEF TypeInv
<1>6. ScriptInv'
  BY <1>1, <1>2, <1>3, <1>4 DEF ScriptInv
<1>7. IdInv'
  BY <1>1, <1>2, <1>3, <1>4 DEF IdInv
<1>8. Alone(o)' /\ (Quiet(o) => Quiet(o)')
  BY <1>1, <1>2, <1>3 DEF Alone, Quiet
<1>9. Match(o)'
  <2>1. CASE Quiet(o)
    BY <1>8, <2>1 DEF Match
  <2>2. CASE todo = << >> /\ command # "flash"
    BY <1>1, <2>2 DEF Match
  <2>3. CASE /\ Asked /\ None(requests, Differ(Head(todo)))
             /\ NoAnswer(replies, slip.buf, Wrong(Head(todo)))
    BY <1>1, <1>3, <1>4, <2>3 DEF Match
  <2> QED  BY <1>2, <2>1, <2>2, <2>3 DEF Match
<1>10. Image' = Image /\ Outs' = Outs
  BY <1>1 DEF Image, Outs
<1>11. FlashInv'
  BY <1>1, <1>2, <1>3, <1>4, <1>10 DEF FlashInv
<1>12. ReadInv'
  BY <1>1, <1>2, <1>4, <1>10 DEF ReadInv
<1> QED  BY <1>1, <1>5, <1>6, <1>7, <1>8, <1>9, <1>11, <1>12 DEF IInv

\* A request goes out: of the work nothing else is on the line.
LEMMA SendKeeps ==
    ASSUME IInv, SendCommand
    PROVE  IInv'
<1> DEFINE o == Work(command)
           h == Head(todo)
<1>1. /\ command' = command /\ options' = options /\ device' = device
      /\ todo' = todo /\ tries' = tries /\ chip' = chip /\ slip' = slip /\ status' = status
      /\ out' = out /\ replies' = replies /\ flashed' = flashed
      /\ waiting = FALSE /\ waiting' = TRUE /\ status = "running" /\ todo # << >>
      /\ requests' = Append(requests, h)
  <2>1. waiting \in BOOLEAN
    BY DEF IInv, TypeInv
  <2> QED  BY <2>1 DEF SendCommand, setting, Running
<1>2. /\ TypeInv /\ ScriptInv /\ IdInv /\ Alone(o) /\ Match(o) /\ FlashInv /\ ReadInv
  BY DEF IInv
<1>3. /\ requests \in Seq(Steps) /\ h \in Steps /\ o # "none" /\ command \in Commands
  BY <1>1, <1>2, WorkOps, CountTail DEF TypeInv
<1>4. /\ requests' \in Seq(Steps)
      /\ \A S : /\ None(requests, S) /\ h \notin S => None(requests', S)
                /\ None(requests, S) => One(requests', S)
  BY <1>1, <1>3, CountAppend, AppendProperties
<1>5. Quiet(o) /\ ~Asked
  BY <1>1, <1>2 DEF Match, Asked
<1>6. h \in Asks(o) <=> h.op = o
  BY <1>3 DEF Asks
<1>7. Connecting <=> Connecting'
  BY <1>1 DEF Connecting
<1>8. TypeInv'
  BY <1>1, <1>2, <1>4 DEF TypeInv
<1>9. Connecting => h \notin Strange /\ h.op \in {"sync", "read_reg"}
  BY ConnectSteps DEF Connecting
<1>10. command # "flash" => h.op # "flash_data"
  <2>1. CASE Connecting
    BY <1>9, <2>1
  <2>2. CASE ~Connecting
    <3>1. h \in LaterSteps(command)
      BY <1>1, <1>2, <2>2, LaterNotConnecting DEF ScriptInv
    <3> QED  BY <3>1 DEF LaterSteps
  <2> QED  BY <2>1, <2>2
<1>11. ScriptInv'
  <2>1. command # "flash" => None(requests', Asks("flash_data"))
    BY <1>2, <1>4, <1>10 DEF ScriptInv, Asks
  <2> QED  BY <1>1, <1>2, <1>7, <2>1 DEF ScriptInv
<1>12. IdInv'
  BY <1>1, <1>2, <1>4, <1>7, <1>9 DEF IdInv
<1>13. Alone(o)'
  <2>1. One(requests', Asks(o))
    BY <1>4, <1>5 DEF Quiet
  <2> QED  BY <1>1, <1>2, <1>5, <2>1 DEF Alone, Quiet
<1>14. Match(o)'
  <2>1. CASE h.op # o
    <3>1. Quiet(o)'
      BY <1>1, <1>4, <1>5, <1>6, <2>1 DEF Quiet
    <3> QED  BY <3>1 DEF Match
  <2>2. CASE h.op = o
    <3>1. Asked'
      BY <1>1, <2>2 DEF Asked
    <3>2. None(requests', Differ(h))
      <4>1. None(requests, Differ(h))
        BY <1>3, <1>5, <2>2, AnswerSets, NoneSubset DEF Quiet
      <4>2. h \notin Differ(h)
        BY DEF Differ
      <4> QED  BY <1>4, <4>1, <4>2
    <3>3. NoAnswer(replies', slip'.buf, Wrong(h))
      <4>1. Wrong(h) \subseteq RepliesTo(o)
        BY <1>3, <2>2, AnswerSets
      <4> QED  BY <1>1, <1>5, <4>1, NoAnswerSubset DEF Quiet
    <3> QED  BY <1>1, <3>1, <3>2, <3>3 DEF Match
  <2> QED  BY <2>1, <2>2
<1>15. Image' = Image /\ Outs' = Outs
  BY <1>1 DEF Image, Outs
<1>16. FlashInv'
  <2> SUFFICES ASSUME DetectionAnswered, command = "flash", ~Connecting
               PROVE  FlashInv'
    BY <1>1, <1>7 DEF FlashInv
  <2>1. o = "flash_data"
    BY <1>3, WorkOps
  <2>2. Ahead("flash_data", flashed, todo, Image)
    BY <1>2, <1>5 DEF FlashInv
  <2>3. NoAnswer(replies', slip'.buf, Accepted(o))
    BY <1>1, <1>5, AnswerSets, NoAnswerSubset DEF Quiet
  <2> QED  BY <1>1, <1>15, <2>1, <2>2, <2>3 DEF FlashInv
<1>17. ReadInv'
  BY <1>1, <1>2, <1>7, <1>15 DEF ReadInv
<1> QED  BY <1>1, <1>8, <1>11, <1>12, <1>13, <1>14, <1>16, <1>17 DEF IInv

\* A last part of framed tokens is framed.
LEMMA FramedShorter ==
    ASSUME NEW rep \in Seq(Tokens), NEW n \in 0 .. Len(rep), Framed(rep)
    PROVE  Framed(SubSeq(rep, n + 1, Len(rep)))
<1> DEFINE rest == SubSeq(rep, n + 1, Len(rep))
           l == Len(rep)
<1>1. /\ l \in Nat /\ n \in 0 .. l
      /\ Len(rest) = l - n /\ \A i \in 1 .. l - n : rest[i] = rep[i + n]
  BY CountSuffix, LenProperties, SubSeqProperties
<1> HIDE DEF rest, l
<1>2. ASSUME NEW i \in 1 .. Len(rest), rest[i] \in Bodies(Later)
      PROVE  /\ i < Len(rest) /\ Ends(rest[i + 1])
             /\ i > 1 => Ends(rest[i - 1])
  <2>1. i + n \in 1 .. l /\ rep[i + n] \in Bodies(Later)
    BY <1>1, <1>2
  <2>2. i + n < l /\ Ends(rep[(i + n) + 1]) /\ (i + n > 1 => Ends(rep[(i + n) - 1]))
    BY <2>1 DEF Framed, l
  <2>3. i < l - n /\ (i + 1) + n = (i + n) + 1 /\ i + 1 \in 1 .. l - n
    BY <1>1, <2>2
  <2>4. i > 1 => i - 1 \in 1 .. l - n /\ (i - 1) + n = (i + n) - 1 /\ i + n > 1
    BY <1>1
  <2> QED  BY <1>1, <2>2, <2>3, <2>4
<1>3. Framed(rest)
  BY <1>2 DEF Framed
<1> QED  BY <1>3 DEF rest

\* Framed tokens may follow framed tokens, unless they start in the middle of a frame.
LEMMA FramedLonger ==
    ASSUME NEW rep \in Seq(Tokens), NEW more \in Seq(Tokens), Framed(rep), Framed(more),
           1 \in 1 .. Len(more) => more[1] \notin Bodies(Later)
    PROVE  Framed(rep \o more)
<1> DEFINE both == rep \o more
           l == Len(rep)
           k == Len(more)
<1>1. /\ l \in Nat /\ k \in Nat /\ Len(both) = l + k
      /\ \A i \in 1 .. l : both[i] = rep[i]
      /\ \A i \in l + 1 .. l + k : both[i] = more[i - l]
  <2>1. both \in Seq(Tokens)
    BY ConcatProperties
  <2> QED  BY <2>1, ConcatProperties, LenProperties
<1>2. \A i \in 1 .. l : rep[i] \in Bodies(Later) =>
        i < l /\ Ends(rep[i + 1]) /\ (i > 1 => Ends(rep[i - 1]))
  BY DEF Framed
<1>3. \A i \in 1 .. k : more[i] \in Bodies(Later) =>
        i < k /\ Ends(more[i + 1]) /\ (i > 1 => Ends(more[i - 1])) /\ i # 1
  BY DEF Framed
<1> HIDE DEF both, l, k
<1>4. ASSUME NEW i \in 1 .. Len(both), both[i] \in Bodies(Later)
      PROVE  i < Len(both) /\ Ends(both[i + 1]) /\ (i > 1 => Ends(both[i - 1]))
  <2>1. CASE i \in 1 .. l
    <3>1. i < l /\ Ends(rep[i + 1]) /\ (i > 1 => Ends(rep[i - 1]))
      BY <1>1, <1>2, <1>4, <2>1
    <3>2. i + 1 \in 1 .. l /\ (i > 1 => i - 1 \in 1 .. l)
      BY <1>1, <2>1, <3>1
    <3> QED  BY <1>1, <2>1, <3>1, <3>2
  <2>2. CASE i \in l + 1 .. l + k
    <3> DEFINE j == i - l
    <3>1. j \in 1 .. k /\ more[j] \in Bodies(Later)
      BY <1>1, <1>4, <2>2
    <3>2. j < k /\ Ends(more[j + 1]) /\ Ends(more[j - 1]) /\ j > 1
      BY <1>3, <3>1
    <3>3. /\ i + 1 \in l + 1 .. l + k /\ (i + 1) - l = j + 1
          /\ i - 1 \in l + 1 .. l + k /\ (i - 1) - l = j - 1
      BY <1>1, <2>2, <3>1, <3>2
    <3> QED  BY <1>1, <3>2, <3>3
  <2> QED  BY <1>1, <2>1, <2>2
<1>5. Framed(both)
  BY <1>4 DEF Framed
<1> QED  BY <1>5 DEF both

\* Tokens none of which is part of a later frame are framed.
LEMMA FramedNone ==
    ASSUME NEW rep, None(rep, Bodies(Later))
    PROVE  Framed(rep)
BY DEF None, Framed

\* What the chip sends is framed, and starts with no body.
LEMMA FramedSent ==
    ASSUME NEW r \in Replies, NEW n \in Nat, r.op # "sync" => n <= 1
    PROVE  LET sent == FlattenSeq([m \in 1 .. n |-> Frame(r)]) IN
           /\ sent \in Seq(Tokens) /\ Framed(sent)
           /\ 1 \in 1 .. Len(sent) => sent[1] \notin Bodies(Later)
<1> DEFINE sent == FlattenSeq([m \in 1 .. n |-> Frame(r)])
           S == {END, Body(r)}
           e == END
           b == Body(r)
<1>1. /\ S \subseteq Tokens /\ sent \in Seq(S)
      /\ n = 0 => sent = << >>
      /\ n = 1 => sent = <<e, b, e>>
  BY SentTokens DEF Frame
<1>2. sent \in Seq(Tokens)
  BY <1>1
<1>3. e \notin Bodies(Later) /\ Ends(e) /\ (r \notin Later => b \notin Bodies(Later))
  BY FrameTokens DEF END, Ends
<1>4. \A x \in S : x = e \/ x = b
  OBVIOUS
<1> HIDE DEF S, sent, e, b
<1>5. CASE r.op = "sync"
  <2>1. \A x \in S : x \notin Bodies(Later)
    BY <1>3, <1>4, <1>5 DEF Later
  <2>2. \A i \in 1 .. Len(sent) : sent[i] \in S
    BY <1>1, ElementOfSeq
  <2>3. None(sent, Bodies(Later))
    BY <2>1, <2>2 DEF None
  <2>4. 1 \in 1 .. Len(sent) => sent[1] \notin Bodies(Later)
    BY <2>3 DEF None
  <2>5. Framed(sent)
    BY <2>3, FramedNone
  <2> QED  BY <1>2, <2>4, <2>5 DEF sent
<1>6. CASE n = 0
  <2>1. Framed(<< >>) /\ 1 \notin 1 .. Len(<< >>)
    BY NothingIn, FramedNone
  <2> QED  BY <1>1, <1>2, <1>6, <2>1 DEF sent
<1>7. CASE n = 1
  <2> DEFINE f == <<e, b, e>>
  <2>1. Len(f) = 3 /\ f[1] = e /\ f[2] = b /\ f[3] = e
    OBVIOUS
  <2>2. \A i \in 1 .. 3 : i = 1 \/ (i = 2 /\ i + 1 = 3 /\ i - 1 = 1 /\ i < 3) \/ i = 3
    OBVIOUS
  <2> HIDE DEF f
  <2>3. Framed(f) /\ f[1] \notin Bodies(Later)
    BY <1>3, <2>1, <2>2 DEF Framed
  <2> QED  BY <1>1, <1>2, <1>7, <2>3 DEF sent, f
<1> QED  BY <1>5, <1>6, <1>7

\* The first token of none is of no frame; the first of more is the first of some.
LEMMA ArrivingLonger ==
    ASSUME NEW rep \in Seq(Tokens), NEW more \in Seq(Tokens), NEW buf, Arriving(rep, buf),
           1 \in 1 .. Len(more) => more[1] \notin Bodies(Later)
    PROVE  Arriving(rep \o more, buf)
<1> DEFINE both == rep \o more
<1>1. CASE rep = << >>
  <2>1. both = more
    BY <1>1
  <2>2. more # << >> => 1 \in 1 .. Len(more)
    BY EmptySeq, LenProperties
  <2> HIDE DEF both
  <2>3. Arriving(both, buf)
    BY <1>1, <2>1, <2>2 DEF Arriving
  <2> QED  BY <2>3 DEF both
<1>2. CASE rep # << >>
  <2>1. 1 \in 1 .. Len(rep)
    BY <1>2, EmptySeq, LenProperties
  <2>2. both # << >> /\ both[1] = rep[1]
    <3>1. both \in Seq(Tokens) /\ Len(both) = Len(rep) + Len(more) /\ both[1] = rep[1]
      BY <2>1, ConcatProperties
    <3>2. Len(both) # 0
      BY <2>1, <3>1, LenProperties
    <3> QED  BY <3>1, <3>2, EmptySeq
  <2> HIDE DEF both
  <2>3. Arriving(both, buf)
    BY <1>2, <2>2 DEF Arriving
  <2> QED  BY <2>3 DEF both
<1> QED  BY <1>1, <1>2

\* The chip's answer is one, and is about the request.
LEMMA AnswerType ==
    ASSUME NEW step \in Steps, NEW refused \in BOOLEAN, NEW number \in {"unknown", "none"},
           device \in Devices, refused => Kind(step) \in MayRefuse[device]
    PROVE  LET r == Answer(step, refused, number) IN
           /\ r \in Replies /\ r.op = step.op /\ r.refused = refused
           /\ \A o : r \in RepliesTo(o) <=> step.op = o
           /\ r \notin Wrong(step) /\ (refused => \A o : r \notin Accepted(o))
           /\ DetectionAnswered /\ step \notin Strange => r \notin Misled(device)
<1> DEFINE r == Answer(step, refused, number)
           id == CASE ~ReadsId(step) -> "none" [] refused -> number [] OTHER -> device
<1>1. /\ r.op = step.op /\ r.refused = refused /\ r.id = id
      /\ r.value = IF refused THEN << >> ELSE step.arg
  BY DEF Answer
<1>2. step.op \in Ops /\ step.arg \in Seq(Nat)
  BY DEF Steps
<1>3. r \in Replies
  <2> DEFINE value == IF refused THEN << >> ELSE step.arg
  <2>1. id \in Chips \cup {"unknown", "none"} /\ value \in Seq(Nat)
    <3>1. device \in Chips
      BY ScriptAssumption
    <3> QED  BY <1>2, <3>1, Arguments
  <2>2. r = [op |-> step.op, refused |-> refused, id |-> id, value |-> value]
    BY DEF Answer
  <2> HIDE DEF id, value
  <2>3. r \in [op : Ops \cup {"none"}, refused : BOOLEAN,
              id : Chips \cup {"unknown", "none"}, value : Seq(Nat)]
    BY <1>2, <2>1, <2>2
  <2> QED  BY <1>1, <1>2, <2>3 DEF Replies, Ops
<1>4. r \notin Wrong(step) /\ (refused => \A o : r \notin Accepted(o))
  BY <1>1 DEF Wrong, Accepted
<1>5. ASSUME DetectionAnswered, step \notin Strange PROVE r \notin Misled(device)
  <2>1. step.op = "read_reg" => ReadsId(step)
    BY <1>5 DEF Strange
  <2>2. step.op = "read_reg" /\ refused => device = "esp8266"
    BY <1>5, <2>1 DEF DetectionAnswered, Kind
  <2> QED  BY <1>1, <2>1, <2>2 DEF Misled
<1> QED  BY <1>1, <1>3, <1>4, <1>5 DEF RepliesTo

\* The chip loses, refuses or does what it is asked: of the work it is asked one thing at a
\* time, the current one.
LEMMA DeviceKeeps ==
    ASSUME IInv, DeviceHandle
    PROVE  IInv'
<1> DEFINE o == Work(command)
           step == Head(requests)
<1>1. /\ command' = command /\ options' = options /\ device' = device
      /\ todo' = todo /\ waiting' = waiting /\ tries' = tries /\ chip' = chip /\ slip' = slip
      /\ out' = out /\ status' = status
      /\ requests # << >> /\ requests' = Tail(requests)
  BY DEF DeviceHandle, setting, script
<1>2. /\ TypeInv /\ ScriptInv /\ IdInv /\ Alone(o) /\ Match(o) /\ FlashInv /\ ReadInv
  BY DEF IInv
<1>3. /\ replies \in Seq(Tokens) /\ slip.buf \in Seq(Replies) /\ device \in Devices
      /\ step \in Steps /\ o # "none" /\ o # "sync" /\ command \in Commands
      /\ todo \in Seq(Steps) /\ flashed \in Seq(Seq(Nat)) /\ requests \in Seq(Steps)
      /\ (command = "flash" <=> o = "flash_data")
  BY <1>1, <1>2, WorkOps, CountTail, ScriptAssumption DEF TypeInv
<1>4. /\ requests' \in Seq(Steps)
      /\ \A S : /\ None(requests, S) => None(requests', S) /\ step \notin S
                /\ One(requests, S) => One(requests', S)
                /\ One(requests, S) /\ step \in S => None(requests', S)
  BY <1>1, <1>3, CountTail
<1>5. /\ Connecting <=> Connecting'
      /\ Asked <=> Asked'
      /\ Image' = Image /\ Outs' = Outs
  BY <1>1 DEF Connecting, Asked, Image, Outs
<1>6. ReadInv'
  BY <1>1, <1>2, <1>5 DEF ReadInv
<1>7. step \in Asks(o) <=> step.op = o
  BY <1>3 DEF Asks
\* the request is lost
<1>8. CASE replies' = replies /\ flashed' = flashed
  <2>1. TypeInv'
    BY <1>1, <1>2, <1>4, <1>8 DEF TypeInv
  <2>2. ScriptInv'
    BY <1>1, <1>2, <1>4, <1>5, <1>8 DEF ScriptInv
  <2>3. IdInv'
    BY <1>1, <1>2, <1>4, <1>5, <1>8 DEF IdInv
  <2>4. Alone(o)'
    BY <1>1, <1>2, <1>4, <1>8 DEF Alone
  <2>5. Match(o)'
    <3>1. CASE Quiet(o)
      BY <1>1, <1>4, <1>8, <3>1 DEF Match, Quiet
    <3>2. CASE todo = << >> /\ command # "flash"
      BY <1>1, <3>2 DEF Match
    <3>3. CASE /\ Asked /\ None(requests, Differ(Head(todo)))
               /\ NoAnswer(replies, slip.buf, Wrong(Head(todo)))
      BY <1>1, <1>4, <1>5, <1>8, <3>3 DEF Match
    <3> QED  BY <1>2, <3>1, <3>2, <3>3 DEF Match
  <2>6. FlashInv'
    BY <1>1, <1>2, <1>4, <1>5, <1>8 DEF FlashInv
  <2> QED  BY <1>1, <1>6, <2>1, <2>2, <2>3, <2>4, <2>5, <2>6 DEF IInv
\* the request is answered
<1>9. ASSUME NEW refused \in BOOLEAN, NEW number \in {"unknown", "none"},
             NEW n \in 0 .. (IF step.op = "sync" THEN SyncReplies ELSE 1),
             refused => Kind(step) \in MayRefuse[device],
             flashed' = IF step.op = "flash_data" /\ ~refused
                        THEN Append(flashed, step.arg) ELSE flashed,
             replies' = replies \o FlattenSeq([m \in 1 .. n |-> Frame(Answer(step, refused, number))])
      PROVE  IInv'
  <2> DEFINE r == Answer(step, refused, number)
  <2>1. n \in Nat /\ (step.op # "sync" => n <= 1)
    BY ScriptAssumption
  <2>2. /\ r \in Replies /\ r.op = step.op /\ r.refused = refused
        /\ \A q : r \in RepliesTo(q) <=> step.op = q
        /\ r \notin Wrong(step) /\ (refused => \A q : r \notin Accepted(q))
        /\ DetectionAnswered /\ step \notin Strange => r \notin Misled(device)
    BY <1>3, <1>9, AnswerType
  <2>3. replies' = replies \o FlattenSeq([m \in 1 .. n |-> Frame(r)])
    BY <1>9
  <2> HIDE DEF r
  <2>4. /\ replies' \in Seq(Tokens)
        /\ \A R \in SUBSET Replies :
             /\ r \notin R => /\ NoAnswer(replies, slip.buf, R) => NoAnswer(replies', slip.buf, R)
                              /\ OneAnswer(replies, slip.buf, R) => OneAnswer(replies', slip.buf, R)
             /\ n <= 1 /\ NoAnswer(replies, slip.buf, R) => OneAnswer(replies', slip.buf, R)
    BY <1>3, <2>1, <2>2, <2>3, FramesSent
  <2>5. \A R : R \in SUBSET Real => R \in SUBSET Replies
    BY DEF Real
  <2>6. flashed' \in Seq(Seq(Nat))
    <3> DEFINE A == Seq(Nat)
               x == step.arg
    <3>1. x \in A /\ flashed \in Seq(A) /\ (flashed' = Append(flashed, x) \/ flashed' = flashed)
      BY <1>3, <1>9, StepArg
    <3> HIDE DEF A, x
    <3>2. flashed' \in Seq(A)
      BY <3>1, AppendProperties
    <3> QED  BY <3>2 DEF A
  <2>7. TypeInv'
    BY <1>1, <1>2, <1>4, <2>4, <2>6 DEF TypeInv
  <2>8. step.op = "flash_data" => command = "flash" /\ ~Connecting
    <3>1. command # "flash" => step.op # "flash_data"
      BY <1>2, <1>3, <1>4 DEF ScriptInv, Asks
    <3>2. ASSUME step.op = "flash_data", command = "flash" PROVE ~Connecting
      <4>1. ~Quiet(o)
        BY <1>3, <1>4, <1>7, <3>2 DEF Quiet
      <4>2. Asked
        BY <1>2, <3>2, <4>1 DEF Match
      <4> QED  BY <1>3, <3>2, <4>2, ConnectSteps DEF Asked, Connecting
    <3> QED  BY <3>1, <3>2
  <2>9. ScriptInv'
    <3>1. Connecting => flashed' = flashed
      BY <1>9, <2>8
    <3>2. command # "flash" => flashed' = flashed
      BY <1>9, <2>8
    <3> QED  BY <1>1, <1>2, <1>4, <1>5, <3>1, <3>2 DEF ScriptInv
  <2>10. IdInv'
    <3> SUFFICES ASSUME Connecting PROVE IdInv'
      BY <1>5 DEF IdInv
    <3>1. /\ None(requests, Strange)
          /\ DetectionAnswered => NoAnswer(replies, slip.buf, Misled(device))
      BY <1>2 DEF IdInv
    <3>2. None(requests', Strange) /\ (DetectionAnswered => r \notin Misled(device))
      BY <1>4, <2>2, <3>1
    <3>3. DetectionAnswered => NoAnswer(replies', slip.buf, Misled(device))
      BY <2>4, <2>5, <3>1, <3>2, AnswerSets
    <3> QED  BY <1>1, <3>2, <3>3 DEF IdInv
  <2>11. CASE step.op # o
    <3>1. r \notin RepliesTo(o) /\ r \notin Accepted(o)
      BY <2>2, <2>11, AnswerSets
    <3>2. flashed' = flashed
      BY <1>3, <1>9, <2>8, <2>11
    <3>3. Alone(o)' /\ (Quiet(o) => Quiet(o)')
      BY <1>1, <1>2, <1>4, <2>4, <3>1, AnswerSets DEF Alone, Quiet
    <3>4. Match(o)'
      <4>1. CASE Quiet(o)
        BY <3>3, <4>1 DEF Match
      <4>2. CASE todo = << >> /\ command # "flash"
        BY <1>1, <4>2 DEF Match
      <4>3. CASE /\ Asked /\ None(requests, Differ(Head(todo)))
                 /\ NoAnswer(replies, slip.buf, Wrong(Head(todo)))
        <5>1. Head(todo) \in Steps /\ Head(todo).op = o
          BY <1>3, <4>3, CountTail DEF Asked
        <5>2. Wrong(Head(todo)) \in SUBSET Replies /\ r \notin Wrong(Head(todo))
          BY <2>5, <3>1, <5>1, AnswerSets
        <5>3. NoAnswer(replies', slip.buf, Wrong(Head(todo)))
          BY <2>4, <4>3, <5>2
        <5>4. None(requests', Differ(Head(todo)))
          BY <1>4, <4>3
        <5> QED  BY <1>1, <1>5, <4>3, <5>3, <5>4 DEF Match
      <4> QED  BY <1>2, <4>1, <4>2, <4>3 DEF Match
    <3>5. FlashInv'
      <4> SUFFICES ASSUME DetectionAnswered, command = "flash", ~Connecting PROVE FlashInv'
        BY <1>1, <1>5 DEF FlashInv
      <4>1. o = "flash_data"
        BY <1>3
      <4>2. NoAnswer(replies, slip.buf, Accepted(o)) => NoAnswer(replies', slip.buf, Accepted(o))
        BY <1>3, <2>4, <2>5, <3>1, AnswerSets
      <4> QED  BY <1>1, <1>2, <1>4, <1>5, <3>2, <4>1, <4>2 DEF FlashInv
    <3> QED  BY <1>1, <1>6, <2>7, <2>9, <2>10, <3>3, <3>4, <3>5 DEF IInv
  <2>12. CASE step.op = o
    <3>1. ~None(requests, Asks(o)) /\ None(requests', Asks(o))
      BY <1>2, <1>4, <1>7, <2>12 DEF Alone
    <3>2. NoAnswer(replies, slip.buf, RepliesTo(o))
      BY <1>2, <3>1 DEF Alone
    <3>3. Alone(o)'
      <4>1. OneAnswer(replies', slip.buf, RepliesTo(o))
        BY <1>3, <2>1, <2>4, <2>12, <3>2, AnswerSets
      <4> QED  BY <1>1, <3>1, <4>1, NoneIsOne DEF Alone
    <3>4. \/ todo = << >> /\ command # "flash"
          \/ Asked /\ step = Head(todo)
      <4>1. CASE todo = << >> /\ command # "flash"
        BY <4>1
      <4>2. CASE Asked /\ None(requests, Differ(Head(todo)))
        <5>1. step \notin Differ(Head(todo)) /\ Head(todo).op = o
          BY <1>4, <4>2 DEF Asked
        <5>2. step = Head(todo)
          BY <1>7, <2>12, <5>1 DEF Differ
        <5> QED  BY <4>2, <5>2
      <4> QED  BY <1>2, <3>1, <4>1, <4>2 DEF Match, Quiet
    <3>5. Match(o)'
      <4>1. CASE todo = << >> /\ command # "flash"
        BY <1>1, <4>1 DEF Match
      <4>2. CASE Asked /\ step = Head(todo)
        <5>1. None(requests', Differ(step))
          BY <1>3, <2>12, <3>1, AnswerSets, NoneSubset
        <5>2. Wrong(step) \subseteq RepliesTo(o) /\ Wrong(step) \in SUBSET Replies
          BY <1>3, <2>5, <2>12, AnswerSets
        <5>3. NoAnswer(replies, slip.buf, Wrong(step))
          BY <3>2, <5>2, NoAnswerSubset
        <5>4. NoAnswer(replies', slip.buf, Wrong(step))
          BY <2>2, <2>4, <5>2, <5>3
        <5> QED  BY <1>1, <1>5, <4>2, <5>1, <5>4 DEF Match
      <4> QED  BY <3>4, <4>1, <4>2
    <3>6. FlashInv'
      <4> SUFFICES ASSUME DetectionAnswered, command = "flash", ~Connecting PROVE FlashInv'
        BY <1>1, <1>5 DEF FlashInv
      <4> DEFINE f == "flash_data"
      <4>1. o = f /\ Asked /\ step = Head(todo) /\ step.op = f /\ todo # << >>
        BY <1>3, <2>12, <3>4 DEF Asked
      <4>2. Ahead(f, flashed, todo, Image)
        BY <1>2, <3>1, <4>1 DEF FlashInv
      <4>3. NoAnswer(replies, slip.buf, Accepted(o))
        BY <3>2, AnswerSets, NoAnswerSubset
      <4>4. CASE refused
        <5>1. flashed' = flashed
          BY <1>9, <4>4
        <5>2. NoAnswer(replies', slip.buf, Accepted(o))
          BY <1>3, <2>2, <2>4, <2>5, <4>3, <4>4, AnswerSets
        <5> QED  BY <1>1, <1>5, <3>1, <4>1, <4>2, <5>1, <5>2 DEF FlashInv
      <4>5. CASE ~refused
        <5>1. flashed' = Append(flashed, Head(todo).arg)
          BY <1>9, <4>1, <4>5
        <5>2. Ahead(f, flashed', Tail(todo), Image)
          BY <1>3, <4>1, <4>2, <5>1, AheadNext
        <5> QED  BY <1>1, <1>5, <3>1, <4>1, <5>2 DEF FlashInv
      <4> QED  BY <4>4, <4>5
    <3> QED  BY <1>1, <1>6, <2>7, <2>9, <2>10, <3>3, <3>5, <3>6 DEF IInv
  <2> QED  BY <2>11, <2>12
<1> QED  BY <1>8, <1>9 DEF DeviceHandle

\* The chip prints something.
LEMMA ChatterKeeps ==
    ASSUME IInv, Chatter
    PROVE  IInv'
<1>1. /\ UNCHANGED <<setting, script, requests, flashed>> /\ slip' = slip
      /\ replies' = Append(replies, BootText)
  BY DEF Chatter
<1>2. /\ slip \in [mode : {0, 1}, buf : Seq(Replies)] /\ (slip.mode = 0 => slip.buf = << >>)
      /\ replies \in Seq(Tokens)
  BY DEF IInv, TypeInv
<1>3. replies' \in Seq(Tokens) /\ Fewer(replies, slip.buf, replies', slip'.buf)
  BY <1>1, <1>2, FewerPrinted
<1> QED  BY <1>1, <1>2, <1>3, Unanswered

\* Every step keeps the invariant.
LEMMA IInvNext == IInv /\ FrameInv /\ [Next]_vars => IInv'
<1> SUFFICES ASSUME IInv, FrameInv, [Next]_vars PROVE IInv'
  OBVIOUS
<1>1. CASE SendCommand
  BY <1>1, SendKeeps
<1>2. CASE Receive
  BY <1>2, ReceiveKeeps
<1>3. CASE Interrupted
  BY <1>3, InterruptedKeeps
<1>4. CASE Unplugged \/ Finish
  BY <1>4, StopsKeep
<1>5. CASE DeviceHandle
  BY <1>5, DeviceKeeps
<1>6. CASE Chatter
  BY <1>6, ChatterKeeps
<1>7. CASE UNCHANGED vars
  <2>1. UNCHANGED <<setting, script, requests, flashed>> /\ slip' = slip /\ replies' = replies
    BY <1>7 DEF vars
  <2>2. /\ slip \in [mode : {0, 1}, buf : Seq(Replies)] /\ (slip.mode = 0 => slip.buf = << >>)
        /\ replies \in Seq(Tokens)
    BY DEF IInv, TypeInv
  <2>3. Fewer(replies, slip.buf, replies', slip'.buf)
    BY <2>1, FewerSame
  <2> QED  BY <2>1, <2>2, <2>3, Unanswered
<1> QED  BY <1>1, <1>2, <1>3, <1>4, <1>5, <1>6, <1>7 DEF Next

-----------------------------------------------------------------------------
\* ... and the framing

\* Nothing is on the line yet.
LEMMA FrameInit == Init => FrameInv
<1> SUFFICES ASSUME Init PROVE FrameInv
  OBVIOUS
<1>1. replies = << >> /\ requests = << >> /\ slip.mode = 0 /\ slip.buf = << >>
  BY DEF Init
<1>2. \A S : None(<< >>, S)
  BY NothingIn
<1>3. Framed(replies)
  BY <1>1, <1>2, FramedNone
<1> QED  BY <1>1, <1>2, <1>3 DEF FrameInv, NoAnswer

\* The command goes on to synchronise only if it was about to.
LEMMA StillSync ==
    ASSUME IInv, waiting, Running, NEW reply, Fail \/ Succeed(reply), UNCHANGED setting,
           todo' # << >>, Head(todo').op = "sync"
    PROVE  todo' = todo
<1>1. /\ TypeInv /\ ScriptInv /\ todo # << >> /\ todo \in Seq(Steps) /\ Head(todo) \in Steps
      /\ command \in Commands /\ options \in Options /\ command' = command
  BY CountTail DEF IInv, TypeInv, setting
<1>2. CASE ~Connecting
  <2>1. /\ todo \in Seq(LaterSteps(command)) /\ Tail(todo) \in Seq(LaterSteps(command))
        /\ ~Detects(Head(todo))
    BY <1>1, <1>2, LaterNotConnecting DEF ScriptInv
  <2>2. todo' = todo \/ todo' = Tail(todo) \/ todo' = << >>
    BY <1>1, <2>1 DEF Fail, Succeed, Steps
  <2>3. Tail(todo) # << >> => Head(Tail(todo)).op # "sync"
    BY <2>1, LaterNotConnecting
  <2> QED  BY <2>2, <2>3
<1>3. CASE Connecting /\ Fail
  <2>1. Head(todo).onError \in {"fail", "retry"}
    BY <1>3, ConnectSteps DEF Connecting
  <2> QED  BY <1>3, <2>1 DEF Fail
<1>4. CASE Connecting /\ Succeed(reply)
  <2>1. CASE todo = Connect
    <3>1. todo' = Tail(Connect)
      BY <1>4, <2>1, ConnectSteps DEF Succeed
    <3> QED  BY <3>1, ConnectSteps
  <2>2. CASE todo = Tail(Connect)
    <3>1. todo' = Script(command, chip', options)
      BY <1>4, <2>2, ConnectSteps DEF Succeed
    <3>2. todo' \in Seq(LaterSteps(command))
      BY <1>1, <3>1, ScriptShape
    <3> QED  BY <3>2, LaterNotConnecting
  <2> QED  BY <1>4, <2>1, <2>2 DEF Connecting
<1> QED  BY <1>2, <1>3, <1>4

\* The tokens the host reads on come one by one.
LEMMA FrameRead ==
    ASSUME TypeInv, FrameInv, replies # << >>
    PROVE  LET next == slip_recv(Head(replies)) IN
           /\ Framed(Tail(replies))
           /\ next.mode = 1 => Arriving(Tail(replies), next.buf)
<1> DEFINE t == Head(replies)
           next == slip_recv(t)
           rest == Tail(replies)
           l == Len(replies)
<1>1. /\ slip \in [mode : {0, 1}, buf : Seq(Replies)] /\ (slip.mode = 0 => slip.buf = << >>)
      /\ replies \in Seq(Tokens)
  BY DEF TypeInv
<1>2. /\ l \in Nat /\ 1 \in 1 .. l /\ rest \in Seq(Tokens) /\ Len(rest) = l - 1 /\ t = replies[1]
      /\ \A i \in 1 .. l - 1 : rest[i] = replies[i + 1]
      /\ rest # << >> <=> l > 1
      /\ t \in Tokens
  <2>1. l \in Nat /\ l # 0 /\ t = replies[1]
    BY <1>1, EmptySeq, LenProperties
  <2>2. rest \in Seq(Tokens) /\ Len(rest) = l - 1 /\ t \in Tokens
        /\ \A i \in 1 .. l - 1 : rest[i] = replies[i + 1]
    BY <1>1, CountTail, HeadTailProperties
  <2>3. rest = << >> <=> Len(rest) = 0
    BY <2>2, EmptySeq
  <2> QED  BY <2>1, <2>2, <2>3
<1>3. Framed(replies) /\ (slip.mode = 1 => Arriving(replies, slip.buf))
  BY DEF FrameInv
<1>4. \A n \in 1 .. l : replies[n] \in Bodies(Later) =>
        n < l /\ Ends(replies[n + 1]) /\ (n > 1 => Ends(replies[n - 1]))
  BY <1>3 DEF Framed
<1>5. slip.mode = 1 =>
        /\ t \in Bodies(Later) => slip.buf = << >>
        /\ \A n \in 1 .. Len(slip.buf) : slip.buf[n] \in Later => Ends(t)
  BY <1>2, <1>3 DEF Arriving
<1>6. /\ Ends(t) => next = [mode |-> 1 - slip.mode, buf |-> << >>]
      /\ ~Ends(t) /\ slip.mode = 1 => next = [slip EXCEPT !.buf = Buffered(slip.buf, t.reply)]
      /\ ~Ends(t) /\ slip.mode # 1 => next = slip
  BY DEF slip_recv, Ends
<1>7. ~Ends(t) => (t \in Bodies(Later) <=> t.reply \in Later)
  BY <1>2 DEF Ends, Bodies, Later, Tokens
<1> HIDE DEF t, next, rest, l
<1>8. Framed(rest)
  <2> SUFFICES ASSUME NEW i \in 1 .. Len(rest), rest[i] \in Bodies(Later)
               PROVE  i < Len(rest) /\ Ends(rest[i + 1]) /\ (i > 1 => Ends(rest[i - 1]))
    BY DEF Framed
  <2>1. i + 1 \in 1 .. l /\ replies[i + 1] \in Bodies(Later) /\ i \in 1 .. l - 1
    BY <1>2
  <2>2. i + 1 < l /\ Ends(replies[(i + 1) + 1]) /\ Ends(replies[(i + 1) - 1])
    BY <1>2, <1>4, <2>1
  <2>3. i < l - 1 /\ i + 1 \in 1 .. l - 1 /\ (i + 1) - 1 = i
    BY <1>2, <2>1, <2>2
  <2>4. i > 1 => i - 1 \in 1 .. l - 1 /\ (i - 1) + 1 = i
    BY <1>2, <2>1
  <2> QED  BY <1>2, <2>1, <2>2, <2>3, <2>4
\* the next token
<1>9. rest # << >> => rest[1] = replies[2] /\ 2 \in 1 .. l
  <2>1. l > 1 => 1 \in 1 .. l - 1 /\ 1 + 1 = 2 /\ 2 \in 1 .. l
    BY <1>2
  <2> QED  BY <1>2, <2>1
<1>10. rest # << >> /\ rest[1] \in Bodies(Later) => Ends(t)
  <2>1. 2 > 1 /\ 2 - 1 = 1
    OBVIOUS
  <2> QED  BY <1>2, <1>4, <1>9, <2>1
<1>11. t \in Bodies(Later) => rest # << >> /\ Ends(rest[1])
  <2>1. 1 + 1 = 2
    OBVIOUS
  <2> QED  BY <1>2, <1>4, <1>9, <2>1
<1>12. ASSUME next.mode = 1
       PROVE  Arriving(rest, next.buf)
  <2>1. CASE Ends(t)
    <3>1. next.buf = << >> /\ Len(<< >>) = 0
      BY <1>6, <2>1
    <3> QED  BY <3>1 DEF Arriving
  <2>2. CASE ~Ends(t) /\ slip.mode # 1
    <3>1. next.buf = << >> /\ Len(<< >>) = 0
      BY <1>1, <1>6, <2>2
    <3> QED  BY <3>1 DEF Arriving
  <2>3. CASE ~Ends(t) /\ slip.mode = 1
    <3> DEFINE buf == slip.buf
               more == Append(buf, t.reply)
    <3>1. buf \in Seq(Replies) /\ next.buf = Buffered(buf, t.reply) /\ t.reply \in Replies
      BY <1>1, <1>2, <1>6, <2>3 DEF Tokens
    <3>2. next.buf = buf \/ next.buf = more
      BY <3>1 DEF Buffered
    <3>3. \A n \in 1 .. Len(buf) : buf[n] \notin Later
      BY <1>5, <2>3
    <3>4. /\ Len(buf) \in Nat /\ Len(more) = Len(buf) + 1 /\ more[Len(buf) + 1] = t.reply
          /\ \A n \in 1 .. Len(buf) : more[n] = buf[n]
      BY <3>1, AppendProperties, LenProperties
    <3>5. t \in Bodies(Later) => Len(buf) = 0
      BY <1>5, <2>3
    <3> HIDE DEF buf, more
    <3>6. ASSUME NEW n \in 1 .. Len(more), more[n] \in Later
          PROVE  Len(more) = 1 /\ rest # << >> /\ Ends(rest[1])
      <4>1. n = Len(buf) + 1
        BY <3>3, <3>4, <3>6
      <4>2. t \in Bodies(Later)
        BY <1>7, <2>3, <3>4, <3>6, <4>1
      <4> QED  BY <1>11, <3>4, <3>5, <4>2
    <3>7. rest # << >> => rest[1] \notin Bodies(Later)
      BY <1>10, <2>3
    <3> QED  BY <3>2, <3>3, <3>6, <3>7 DEF Arriving
  <2> QED  BY <2>1, <2>2, <2>3
<1> QED  BY <1>8, <1>12 DEF t, next, rest

\* Where the first few tokens are not received, the rest is framed as before.
LEMMA FrameCut ==
    ASSUME NEW tokens \in Seq(Tokens), Framed(tokens),
           \E n \in 0 .. Len(tokens) : replies' = SubSeq(tokens, n + 1, Len(tokens))
    PROVE  Framed(replies')
BY FramedShorter

\* Every step keeps the framing.
LEMMA FrameNext == IInv /\ FrameInv /\ [Next]_vars => FrameInv'
<1> SUFFICES ASSUME IInv, FrameInv, [Next]_vars PROVE FrameInv'
  OBVIOUS
<1>1. /\ TypeInv /\ replies \in Seq(Tokens) /\ requests \in Seq(Steps) /\ slip.buf \in Seq(Replies)
      /\ slip.mode \in {0, 1} /\ device \in Devices
  BY DEF IInv, TypeInv
<1>2. Later \in SUBSET Real /\ Later \in SUBSET Replies
  BY DEF Later, Real
<1> DEFINE Syncing == todo # << >> /\ Head(todo).op = "sync"
<1>3. /\ Framed(replies) /\ (slip.mode = 1 => Arriving(replies, slip.buf))
      /\ Syncing => None(requests, LaterAsked) /\ NoAnswer(replies, slip.buf, Later)
  BY DEF FrameInv
<1>4. CASE SendCommand
  <2>1. /\ slip' = slip /\ replies' = replies /\ todo' = todo /\ todo # << >>
        /\ requests' = Append(requests, Head(todo)) /\ Head(todo) \in Steps
    BY <1>1, <1>4, CountTail DEF SendCommand, TypeInv
  <2>2. Syncing => Head(todo) \notin LaterAsked
    BY DEF LaterAsked
  <2>3. Syncing => None(requests', LaterAsked)
    BY <1>1, <1>3, <2>1, <2>2, CountAppend
  <2> QED  BY <1>3, <2>1, <2>3 DEF FrameInv
<1>5. CASE Receive
  <2> DEFINE next == slip_recv(Head(replies))
             packet == Packet(Head(replies))
  <2>1. replies # << >> /\ slip' = next /\ Running /\ waiting /\ UNCHANGED <<setting, requests>>
    BY <1>5 DEF Receive
  <2>2. Framed(Tail(replies)) /\ (next.mode = 1 => Arriving(Tail(replies), next.buf))
    BY <1>1, <2>1, FrameRead
  <2>3. /\ Tail(replies) \in Seq(Tokens) /\ next.buf \in Seq(Replies)
        /\ Fewer(replies, slip.buf, Tail(replies), next.buf)
    <3>1. next \in [mode : {0, 1}, buf : Seq(Replies)]
      BY <1>1, <2>1, Received
    <3>2. next.buf \in Seq(Replies)
      BY <3>1
    <3> QED  BY <1>1, <2>1, <3>2, Received
  <2>4. CASE replies' = Tail(replies) /\ UNCHANGED script
    <3>1. todo' = todo
      BY <2>4 DEF script
    <3>2. NoAnswer(replies, slip.buf, Later) => NoAnswer(replies', slip'.buf, Later)
      BY <1>2, <2>1, <2>3, <2>4 DEF Fewer
    <3> QED  BY <1>3, <2>1, <2>2, <2>4, <3>1, <3>2 DEF FrameInv
  <2>5. CASE packet # << >> /\ Discard(Tail(replies)) /\ (Fail \/ Succeed(packet[1]))
    <3>1. next.mode = 0
      BY <2>5 DEF Packet, slip_recv
    <3>2. Framed(replies')
      BY <2>2, <2>3, <2>5, FrameCut DEF Discard
    <3>3. todo' # << >> /\ Head(todo').op = "sync" => todo' = todo
      BY <2>1, <2>5, StillSync
    <3>4. Fewer(replies, slip.buf, replies', slip'.buf)
      <4> HIDE DEF next
      <4>1. Fewer(Tail(replies), next.buf, replies', next.buf)
        BY <2>3, <2>5, Discarded
      <4> QED  BY <2>1, <2>3, <4>1, FewerTwice
    <3>5. NoAnswer(replies, slip.buf, Later) => NoAnswer(replies', slip'.buf, Later)
      BY <1>2, <3>4 DEF Fewer
    <3> HIDE DEF next
    <3> QED  BY <1>3, <2>1, <3>1, <3>2, <3>3, <3>5 DEF FrameInv
  <2>6. CASE Answers(packet)
    BY <1>5, <2>5, <2>6 DEF Receive, Answers
  <2>7. CASE ~Answers(packet)
    BY <1>5, <2>4, <2>7 DEF Receive
  <2> QED  BY <2>6, <2>7
<1>6. CASE Interrupted
  <2>1. slip' = slip /\ requests' = requests /\ Fail /\ Running /\ waiting /\ UNCHANGED setting
    BY <1>6 DEF Interrupted
  <2>2. todo' # << >> /\ Head(todo').op = "sync" => todo' = todo
    BY <2>1, StillSync
  <2>3. CASE replies' = replies
    BY <1>3, <2>1, <2>2, <2>3 DEF FrameInv
  <2>4. CASE \E n \in 0 .. Len(replies) : replies' = SubSeq(replies, n + 1, Len(replies))
    <3>1. Framed(replies') /\ Fewer(replies, slip.buf, replies', slip'.buf)
      BY <1>1, <1>3, <2>1, <2>4, FrameCut, FewerCut
    <3>2. CASE Syncing
      <4>1. NoAnswer(replies', slip'.buf, Later)
        BY <1>2, <1>3, <3>1, <3>2 DEF Fewer
      <4>2. replies' \in Seq(Tokens)
        BY <1>1, <2>4, FewerCut
      <4>3. Arriving(replies', slip'.buf)
        <5>1. \A n \in 1 .. Len(slip'.buf) : slip'.buf[n] \notin Later
          BY <4>1 DEF NoAnswer, None
        <5>2. replies' # << >> => 1 \in 1 .. Len(replies')
          BY <4>2, EmptySeq, LenProperties
        <5>3. replies' # << >> => replies'[1] \notin Bodies(Later)
          BY <4>1, <5>2 DEF NoAnswer, None
        <5> QED  BY <5>1, <5>3 DEF Arriving
      <4> QED  BY <1>3, <2>1, <2>2, <3>1, <3>2, <4>1, <4>3 DEF FrameInv
    <3>3. CASE ~Syncing
      <4>1. todo # << >> /\ Head(todo).onError # "retry"
        <5>1. /\ todo # << >> /\ Head(todo) \in Steps /\ todo \in Seq(Steps)
          BY <1>1, <2>1, CountTail DEF TypeInv
        <5>2. CASE Connecting
          <6>1. todo = Tail(Connect)
            BY <3>3, <5>1, <5>2, ConnectSteps DEF Connecting
          <6> QED  BY <5>1, <6>1, ConnectSteps
        <5>3. CASE ~Connecting
          BY <5>1, <5>3, LaterNotConnecting DEF IInv, ScriptInv
        <5> QED  BY <5>2, <5>3
      <4> QED  BY <1>6, <2>3, <4>1 DEF Interrupted
    <3> QED  BY <3>2, <3>3
  <2> QED  BY <1>6, <2>3, <2>4 DEF Interrupted
<1>7. CASE Unplugged \/ Finish
  <2>1. /\ slip' = slip /\ replies' = replies /\ todo' = todo
        /\ requests' = requests \/ requests' = << >>
    BY <1>7 DEF Unplugged, Finish
  <2>2. None(requests, LaterAsked) => None(requests', LaterAsked)
    BY <2>1, NothingIn
  <2> QED  BY <1>3, <2>1, <2>2 DEF FrameInv
<1>8. CASE DeviceHandle
  <2> DEFINE step == Head(requests)
  <2>1. slip' = slip /\ todo' = todo /\ requests # << >> /\ requests' = Tail(requests) /\ step \in Steps
    BY <1>1, <1>8, CountTail DEF DeviceHandle, script
  <2>2. None(requests, LaterAsked) => None(requests', LaterAsked) /\ step \notin LaterAsked
    BY <1>1, <2>1, CountTail
  <2>3. CASE replies' = replies
    BY <1>3, <2>1, <2>2, <2>3 DEF FrameInv
  <2>4. ASSUME NEW refused \in BOOLEAN, NEW number \in {"unknown", "none"},
               NEW n \in 0 .. (IF step.op = "sync" THEN SyncReplies ELSE 1),
               refused => Kind(step) \in MayRefuse[device],
               replies' = replies \o FlattenSeq([m \in 1 .. n |-> Frame(Answer(step, refused, number))])
        PROVE  FrameInv'
    <3> DEFINE r == Answer(step, refused, number)
               sent == FlattenSeq([m \in 1 .. n |-> Frame(r)])
    <3>1. r \in Replies /\ r.op = step.op
      BY <1>1, <2>1, <2>4, AnswerType
    <3>2. n \in Nat /\ (step.op # "sync" => n <= 1) /\ replies' = replies \o sent
      BY <2>4, ScriptAssumption
    <3> HIDE DEF r
    <3>3. /\ sent \in Seq(Tokens) /\ Framed(sent)
          /\ 1 \in 1 .. Len(sent) => sent[1] \notin Bodies(Later)
      BY <3>1, <3>2, FramedSent
    <3>4. r \notin Later =>
            (NoAnswer(replies, slip.buf, Later) => NoAnswer(replies', slip.buf, Later))
      BY <1>1, <1>2, <3>1, <3>2, FramesSent
    <3> HIDE DEF sent
    <3>5. Framed(replies') /\ (slip.mode = 1 => Arriving(replies', slip.buf))
      BY <1>1, <1>3, <3>2, <3>3, FramedLonger, ArrivingLonger
    <3>6. Syncing => r \notin Later
      BY <1>3, <2>1, <2>2, <3>1 DEF Later, LaterAsked
    <3> QED  BY <1>3, <2>1, <2>2, <3>4, <3>5, <3>6 DEF FrameInv
  <2> QED  BY <1>8, <2>3, <2>4 DEF DeviceHandle
<1>9. CASE Chatter
  <2> DEFINE t == BootText
             more == <<t>>
  <2>1. /\ slip' = slip /\ todo' = todo /\ requests' = requests /\ replies' = Append(replies, t)
    BY <1>9 DEF Chatter, script
  <2>2. t \in Tokens /\ t \notin Bodies(Later)
    <3>1. << >> \in Seq(Nat)
      OBVIOUS
    <3> QED  BY <3>1 DEF BootText, NoReply, Tokens, Replies, Bodies
  <2>6. Fewer(replies, slip.buf, replies', slip.buf)
    BY <1>1, <2>1, FewerPrinted
  <2> HIDE DEF t
  <2>3. more \in Seq(Tokens) /\ Len(more) = 1 /\ more[1] = t /\ replies' = replies \o more
    BY <1>1, <2>1, <2>2, AppendProperties
  <2>4. None(more, Bodies(Later))
    BY <2>2, <2>3 DEF None
  <2>5. Framed(more)
    BY <2>4, FramedNone
  <2> HIDE DEF more
  <2>7. Framed(replies') /\ (slip.mode = 1 => Arriving(replies', slip.buf))
    BY <1>1, <1>3, <2>2, <2>3, <2>5, FramedLonger, ArrivingLonger
  <2>8. NoAnswer(replies, slip.buf, Later) => NoAnswer(replies', slip.buf, Later)
    BY <1>2, <2>6 DEF Fewer
  <2> QED  BY <1>3, <2>1, <2>7, <2>8 DEF FrameInv
<1>10. CASE UNCHANGED vars
  BY <1>3, <1>10 DEF FrameInv, vars, script
<1> QED  BY <1>4, <1>5, <1>6, <1>7, <1>8, <1>9, <1>10 DEF Next

\* The invariant holds in every reachable state.
LEMMA Invariant == Spec => [](IInv /\ FrameInv)
BY IInvInit, IInvNext, FrameInit, FrameNext, PTL DEF Spec

-----------------------------------------------------------------------------
\* The host's state keeps its type, and no answer is awaited without a request.
THEOREM TypeCorrect == Spec => []TypeOK
BY Invariant, IInvTypeOK, PTL

\* Unless a chip other than an ESP8266 refuses to say what it is: whatever else is refused,
\* lost, late or cut, the chip is given the blocks of the files one after the other, and has
\* written them all when flash is done (flashbin, flash and cmd of esputil.c).
THEOREM FlashesRight ==
    ASSUME DetectionAnswered
    PROVE  Spec => []FlashedRight
<1>1. IInv => FlashedRight
  BY IInvFlashed
<1> QED  BY <1>1, Invariant, PTL

\* Under the same condition, whatever else is refused, lost, late or cut, readmem and
\* readflash print the words at the addresses asked for, in order (readmem, readflash and
\* cmd of esputil.c).
THEOREM ReadsInOrder ==
    ASSUME DetectionAnswered
    PROVE  Spec => []ReadsRight
<1>1. IInv => ReadsRight
  BY IInvRead
<1> QED  BY <1>1, Invariant, PTL

-----------------------------------------------------------------------------
\* Refusals

\* A chip whose refusals are not looked for where an ESP8266 has them answers what it is
\* asked before it is known.
ConnectAnswered == \A d \in Devices : d # "esp8266" => MayRefuse[d] \cap {"sync", "read_id"} = {}

\* No refused SYNC of such a chip is on its way.
RefusedSyncs == {r \in Replies : r.refused /\ r.op = "sync"}
RefInv == device # "esp8266" => NoAnswer(replies, slip.buf, RefusedSyncs)

\* Such a refusal never comes to be.
LEMMA RefInvHolds ==
    ASSUME ConnectAnswered
    PROVE  Spec => []RefInv
<1>1. RefusedSyncs \in SUBSET Real
  BY DEF RefusedSyncs, Real
<1>2. Init => RefInv
  BY NothingIn DEF Init, RefInv, NoAnswer
<1>3. IInv /\ RefInv /\ [Next]_vars => RefInv'
  <2> SUFFICES ASSUME IInv, RefInv, [Next]_vars PROVE RefInv'
    OBVIOUS
  <2>1. /\ TypeInv /\ slip.buf \in Seq(Replies) /\ replies \in Seq(Tokens) /\ device \in Devices
        /\ requests \in Seq(Steps)
    BY DEF IInv, TypeInv
  <2>2. device' = device
    BY DEF Next, SendCommand, Receive, Interrupted, Unplugged, Finish, DeviceHandle, Chatter,
           setting, vars
  <2>3. ASSUME Fewer(replies, slip.buf, replies', slip'.buf)
        PROVE  RefInv'
    BY <1>1, <2>2, <2>3 DEF Fewer, RefInv
  <2>4. CASE slip' = slip /\ replies' = replies
    BY <2>2, <2>4 DEF RefInv
  <2>5. CASE Receive
    <3> DEFINE next == slip_recv(Head(replies))
    <3>1. replies # << >> /\ slip' = next
          /\ (replies' = Tail(replies) \/ Discard(Tail(replies)))
      BY <2>5 DEF Receive
    <3>2. /\ next \in [mode : {0, 1}, buf : Seq(Replies)] /\ Tail(replies) \in Seq(Tokens)
          /\ Fewer(replies, slip.buf, Tail(replies), next.buf)
      BY <2>1, <3>1, Received
    <3> HIDE DEF next
    <3>3. Fewer(Tail(replies), next.buf, replies', next.buf)
      BY <3>1, <3>2, Discarded, FewerSame
    <3>4. Fewer(replies, slip.buf, replies', slip'.buf)
      BY <3>1, <3>2, <3>3, FewerTwice
    <3> QED  BY <2>3, <3>4
  <2>6. CASE Interrupted
    <3>1. slip' = slip
      BY <2>6 DEF Interrupted
    <3>2. CASE \E n \in 0 .. Len(replies) : replies' = SubSeq(replies, n + 1, Len(replies))
      BY <2>1, <2>3, <3>1, <3>2, FewerCut
    <3>3. CASE replies' = replies
      BY <2>4, <3>1, <3>3
    <3> QED  BY <2>6, <3>2, <3>3 DEF Interrupted
  <2>7. CASE DeviceHandle
    <3> DEFINE step == Head(requests)
    <3>1. slip' = slip /\ step \in Steps
      BY <2>1, <2>7, CountTail DEF DeviceHandle
    <3>2. ASSUME NEW refused \in BOOLEAN, NEW number \in {"unknown", "none"},
                 NEW n \in 0 .. (IF step.op = "sync" THEN SyncReplies ELSE 1),
                 refused => Kind(step) \in MayRefuse[device],
                 replies' = replies \o FlattenSeq([m \in 1 .. n |-> Frame(Answer(step, refused, number))])
          PROVE  RefInv'
      <4> DEFINE r == Answer(step, refused, number)
      <4>1. r \in Replies /\ r.op = step.op /\ r.refused = refused
        BY <2>1, <3>1, <3>2, AnswerType
      <4>2. device # "esp8266" => r \notin RefusedSyncs
        <5>1. ASSUME step.op = "sync" PROVE Kind(step) = "sync"
          BY <5>1 DEF Kind, ReadsId
        <5>2. device # "esp8266" => "sync" \notin MayRefuse[device]
          BY <2>1 DEF ConnectAnswered
        <5> QED  BY <3>2, <4>1, <5>1, <5>2 DEF RefusedSyncs
      <4>3. n \in Nat /\ replies' = replies \o FlattenSeq([m \in 1 .. n |-> Frame(r)])
        BY <3>2, ScriptAssumption
      <4> HIDE DEF r
      <4>4. \A R \in SUBSET Replies :
              r \notin R => (NoAnswer(replies, slip.buf, R) => NoAnswer(replies', slip.buf, R))
        BY <2>1, <4>1, <4>3, FramesSent
      <4>5. RefusedSyncs \in SUBSET Replies
        BY DEF RefusedSyncs
      <4> QED  BY <2>2, <3>1, <4>2, <4>4, <4>5 DEF RefInv
    <3> QED  BY <2>4, <2>7, <3>1, <3>2 DEF DeviceHandle
  <2>8. CASE Chatter
    <3>1. slip' = slip /\ replies' = Append(replies, BootText)
      BY <2>8 DEF Chatter
    <3>2. Fewer(replies, slip.buf, replies', slip'.buf)
      BY <2>1, <3>1, FewerPrinted
    <3> QED  BY <2>3, <3>2
  <2>9. CASE SendCommand \/ Unplugged \/ Finish \/ UNCHANGED vars
    BY <2>4, <2>9 DEF SendCommand, Unplugged, Finish, vars
  <2> QED  BY <2>5, <2>6, <2>7, <2>8, <2>9 DEF Next
<1> QED  BY <1>2, <1>3, Invariant, PTL DEF Spec

\* The answer to the current request is a refusal: it is looked for in the right place.
LEMMA RefusalFound ==
    ASSUME ConnectAnswered, IInv, FrameInv, RefInv, waiting, replies # << >>,
           Answers(Packet(Head(replies))), Last(Packet(Head(replies))).refused
    PROVE  ErrorSeen(Last(Packet(Head(replies))))
<1> DEFINE packet == Packet(Head(replies))
           last == Last(packet)
<1>1. /\ TypeInv /\ ScriptInv /\ IdInv /\ slip.buf \in Seq(Replies) /\ todo # << >>
      /\ todo \in Seq(Steps) /\ device \in Devices
  BY DEF IInv, TypeInv
<1>2. packet # << >> /\ packet[1].op = Head(todo).op
  BY DEF Answers
<1>3. packet = slip.buf
  BY <1>2 DEF Packet
<1>4. packet[1].op # "sync" => last = packet[1]
  BY <1>1, AnswerWhole
<1>5. last.refused
  OBVIOUS
<1> HIDE DEF packet
<1>6. Len(slip.buf) \in 1 .. Len(slip.buf) /\ last = slip.buf[Len(slip.buf)]
  <2>1. Len(slip.buf) \in Nat /\ Len(slip.buf) # 0
    BY <1>1, <1>2, <1>3, EmptySeq, LenProperties
  <2> QED  BY <1>3, <2>1 DEF Last
<1> HIDE DEF last
<1>7. last \in Replies /\ \A R : NoAnswer(replies, slip.buf, R) => last \notin R
  BY <1>1, <1>6, ElementOfSeq DEF NoAnswer, None
<1>8. DetectionAnswered
  BY DEF ConnectAnswered, DetectionAnswered
<1>9. CASE ~Connecting
  BY <1>1, <1>5, <1>8, <1>9 DEF ScriptInv, ErrorSeen
<1>10. CASE Connecting
  <2>1. chip = "unknown"
    BY <1>1, <1>10 DEF ScriptInv
  <2>2. CASE todo = Connect
    <3>1. NoAnswer(replies, slip.buf, Later)
      BY <2>2, ConnectSteps DEF FrameInv
    <3>2. last \notin Later
      BY <1>7, <3>1
    <3>3. last \in RefusedSyncs
      BY <1>5, <1>7, <3>2 DEF Later, Replies, RefusedSyncs
    <3>4. device = "esp8266"
      BY <1>7, <3>3 DEF RefInv
    <3> QED  BY <1>5, <2>1, <3>4 DEF ErrorSeen
  <2>3. CASE todo = Tail(Connect)
    <3>1. last.op = "read_reg"
      BY <1>2, <1>4, <2>3, ConnectSteps
    <3>2. last \notin Misled(device)
      BY <1>1, <1>7, <1>8, <1>10 DEF IdInv
    <3>3. device = "esp8266"
      BY <1>5, <1>7, <3>1, <3>2 DEF Misled
    <3> QED  BY <1>5, <2>1, <3>3 DEF ErrorSeen
  <2> QED  BY <1>10, <2>2, <2>3 DEF Connecting
<1> QED  BY <1>9, <1>10 DEF last, packet

\* A chip other than an ESP8266 that refuses neither SYNC nor to say what it is, and an ESP8266
\* in any case, is understood whenever it refuses: the host learns nothing from the answer, and
\* gives up, tries again, leaves its loop or goes on without it (cmd of esputil.c).
THEOREM LaterRefusalsSeen ==
    ASSUME ConnectAnswered
    PROVE  Spec => RefusalsSeen
<1> DEFINE AsError(packet, onError) ==
             Answers(packet) /\ Last(packet).refused =>
                 /\ UNCHANGED <<chip, out>>
                 /\ onError = "fail"  => status' = "failed"
                 /\ onError = "retry" => tries' = tries + 1 /\ todo' = todo
                 /\ onError = "stop"  => todo' = << >>
                 /\ onError = "go"    => todo' = Tail(todo)
<1>1. ASSUME IInv, FrameInv, RefInv, Next, waiting, ~waiting', replies # << >>
      PROVE  AsError(Packet(Head(replies)), Head(todo).onError)
  <2> DEFINE packet == Packet(Head(replies))
  <2>1. ASSUME Fail PROVE AsError(packet, Head(todo).onError)
    BY <2>1 DEF Fail
  <2>2. CASE Interrupted
    BY <2>1, <2>2 DEF Interrupted
  <2>3. CASE Receive
    <3> SUFFICES ASSUME Answers(packet), Last(packet).refused
                 PROVE  AsError(packet, Head(todo).onError)
      OBVIOUS
    <3>1. ErrorSeen(Last(packet))
      BY <1>1, RefusalFound
    <3>2. Fail
      BY <2>3, <3>1 DEF Receive
    <3> QED  BY <2>1, <3>2
  <2>4. CASE SendCommand \/ Unplugged \/ Finish \/ DeviceHandle \/ Chatter
    BY <1>1, <2>4 DEF SendCommand, Unplugged, Finish, DeviceHandle, Chatter, script
  <2> QED  BY <1>1, <2>2, <2>3, <2>4 DEF Next
<1>2. IInv /\ FrameInv /\ RefInv /\ [Next]_vars =>
        [waiting /\ ~waiting' /\ replies # << >> =>
           LET packet  == Packet(Head(replies))
               onError == Head(todo).onError
           IN  Answers(packet) /\ Last(packet).refused =>
                   /\ UNCHANGED <<chip, out>>
                   /\ onError = "fail"  => status' = "failed"
                   /\ onError = "retry" => tries' = tries + 1 /\ todo' = todo
                   /\ onError = "stop"  => todo' = << >>
                   /\ onError = "go"    => todo' = Tail(todo)]_vars
  BY <1>1
<1>3. Spec => [](IInv /\ FrameInv) /\ []RefInv
  BY Invariant, RefInvHolds
<1> QED  BY <1>2, <1>3, PTL DEF Spec, RefusalsSeen
=============================================================================
