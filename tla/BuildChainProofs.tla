-------------------------- MODULE BuildChainProofs --------------------------
(***************************************************************************)
(* For every set of projects and every order of commands, failures and     *)
(* interrupts: what the instrumenter has written are the compiler's lines  *)
(* with checks in front of some of them, and what is linked and flashed is *)
(* what the command promised.                                              *)
(***************************************************************************)
EXTENDS BuildChain, SequenceLemmas

-----------------------------------------------------------------------------
\* Guards: a file with checks against the file the compiler made

Kept(file) == {j \in DOMAIN file : file[j].kind \notin Checks}
Rank(file, j) == Cardinality({m \in Kept(file) : m <= j})

\* The lines an instrumented file keeps of its plain file are some of its lines.
LEMMA KeptFacts ==
    ASSUME NEW file \in Seq(Line)
    PROVE  /\ DOMAIN file = 1 .. Len(file) /\ Len(file) \in Nat
           /\ Kept(file) \subseteq 1 .. Len(file)
           /\ IsFiniteSet(Kept(file))
           /\ \A j : IsFiniteSet({m \in Kept(file) : m <= j})
<1>1. DOMAIN file = 1 .. Len(file) /\ Len(file) \in Nat
  BY LenProperties
<1>2. Kept(file) \subseteq 1 .. Len(file)
  BY <1>1 DEF Kept
<1>3. IsFiniteSet(1 .. Len(file))
  BY <1>1, FS_Interval
<1>4. IsFiniteSet(Kept(file))
  BY <1>2, <1>3, FS_Subset
<1>5. \A j : {m \in Kept(file) : m <= j} \subseteq Kept(file)
  OBVIOUS
<1>6. \A j : IsFiniteSet({m \in Kept(file) : m <= j})
  BY <1>4, <1>5, FS_Subset
<1> QED  BY <1>1, <1>2, <1>4, <1>6

\* Guards, said with the rank of each line that is kept instead of a sequence.
LEMMA GuardsRank ==
    ASSUME NEW file, NEW plain
    PROVE  Guards(file, plain) <=>
             /\ Cardinality(Kept(file)) = Len(plain)
             /\ \A j \in Kept(file) : file[j] = plain[Rank(file, j)]
             /\ \A j \in DOMAIN file \ Kept(file) :
                  j < Len(file) /\ file[j] = Check(file[j + 1])
BY DEF Guards, Kept, Rank

\* A check at the end of a file changes the rank of nothing.
LEMMA AppendCheck ==
    ASSUME NEW file \in Seq(Line), NEW c \in Line, c.kind \in Checks
    PROVE  /\ Kept(Append(file, c)) = Kept(file)
           /\ \A j : Rank(Append(file, c), j) = Rank(file, j)
<1>1. Kept(Append(file, c)) = Kept(file)
  BY AppendProperties, LenProperties DEF Kept
<1> QED  BY <1>1 DEF Rank

\* A line at the end of a file comes after all others.
LEMMA AppendKept ==
    ASSUME NEW file \in Seq(Line), NEW l \in SourceLine
    PROVE  LET n == Len(file) + 1 IN
           /\ Kept(Append(file, l)) = Kept(file) \cup {n}
           /\ Cardinality(Kept(Append(file, l))) = Cardinality(Kept(file)) + 1
           /\ \A j \in Kept(file) : Rank(Append(file, l), j) = Rank(file, j)
           /\ Rank(Append(file, l), n) = Cardinality(Kept(file)) + 1
<1> DEFINE n == Len(file) + 1
           new == Append(file, l)
<1>1. /\ l \in Line /\ l.kind \notin Checks
      /\ new \in Seq(Line) /\ Len(new) = n /\ new[n] = l
      /\ \A j \in 1 .. Len(file) : new[j] = file[j]
      /\ DOMAIN new = 1 .. n /\ DOMAIN file = 1 .. Len(file) /\ Len(file) \in Nat
  BY AppendProperties, LenProperties DEF SourceLine
<1> HIDE DEF new
<1>2. Kept(new) = Kept(file) \cup {n} /\ n \notin Kept(file)
  BY <1>1 DEF Kept
<1>3. IsFiniteSet(Kept(file)) /\ Kept(file) \subseteq 1 .. Len(file)
  BY KeptFacts
<1>4. Cardinality(Kept(new)) = Cardinality(Kept(file)) + 1
  BY <1>2, <1>3, FS_AddElement
<1>5. ASSUME NEW j \in Kept(file)
      PROVE  {m \in Kept(new) : m <= j} = {m \in Kept(file) : m <= j}
  BY <1>1, <1>2, <1>3
<1>6. {m \in Kept(new) : m <= n} = Kept(new)
  BY <1>1, <1>2, <1>3
<1> QED  BY <1>2, <1>4, <1>5, <1>6 DEF Rank, new

\* A file that holds no checks guards itself.
LEMMA GuardsSelf ==
    ASSUME NEW plain \in Seq(SourceLine)
    PROVE  Guards(plain, plain) /\ plain \in Seq(Line)
<1>1. plain \in Seq(Line)
  BY SeqMonotonic DEF SourceLine
<1>2. DOMAIN plain = 1 .. Len(plain) /\ Len(plain) \in Nat
  BY LenProperties
<1>3. Kept(plain) = 1 .. Len(plain)
  BY <1>2, ElementOfSeq DEF Kept, SourceLine
<1>4. Cardinality(Kept(plain)) = Len(plain)
  BY <1>2, <1>3, FS_Interval
<1>5. ASSUME NEW j \in Kept(plain)
      PROVE  Rank(plain, j) = j
  <2>1. {m \in Kept(plain) : m <= j} = 1 .. j /\ j \in Nat /\ 1 <= j
    BY <1>2, <1>3
  <2>2. Cardinality(1 .. j) = j
    BY <2>1, FS_Interval
  <2> QED  BY <2>1, <2>2 DEF Rank
<1> QED  BY <1>1, <1>2, <1>3, <1>4, <1>5, GuardsRank

\* The rank of a line is its number among the compiler's lines.
LEMMA RankRange ==
    ASSUME NEW file \in Seq(Line), NEW plain \in Seq(Line), Guards(file, plain),
           NEW j \in Kept(file)
    PROVE  Rank(file, j) \in 1 .. Len(plain)
<1>1. /\ IsFiniteSet(Kept(file)) /\ IsFiniteSet({m \in Kept(file) : m <= j})
      /\ Kept(file) \subseteq 1 .. Len(file)
      /\ Len(file) \in Nat /\ Len(plain) \in Nat
  BY KeptFacts
<1>2. j \in {m \in Kept(file) : m <= j}
  BY <1>1
<1>3. Rank(file, j) <= Len(plain)
  BY <1>1, GuardsRank, FS_Subset DEF Rank
<1>4. Rank(file, j) \in Nat /\ Rank(file, j) # 0
  BY <1>1, <1>2, FS_CardinalityType, FS_EmptySet DEF Rank
<1> QED  BY <1>1, <1>3, <1>4

\* The function e takes each line of plain to its place in the file, in their order.
Embeds(e, file, plain) ==
    /\ e \in [1 .. Len(plain) -> Kept(file)]
    /\ \A a, b \in 1 .. Len(plain) : a < b => e[a] < e[b]
    /\ \A a \in 1 .. Len(plain) : file[e[a]] = plain[a]
    /\ \A j \in Kept(file) : \E a \in 1 .. Len(plain) : e[a] = j

\* Lines of the compiler stand in the file in their order, and nothing else does
\* but checks.
LEMMA Embedding ==
    ASSUME NEW file \in Seq(Line), NEW plain \in Seq(Line), Guards(file, plain)
    PROVE  \E e : Embeds(e, file, plain)
<1> DEFINE N == 1 .. Len(plain)
           r == [j \in Kept(file) |-> Rank(file, j)]
           e == [a \in N |-> CHOOSE j \in Kept(file) : r[j] = a]
<1>1. /\ IsFiniteSet(Kept(file)) /\ \A j : IsFiniteSet({m \in Kept(file) : m <= j})
      /\ Kept(file) \subseteq 1 .. Len(file)
      /\ Len(file) \in Nat /\ Len(plain) \in Nat
  BY KeptFacts
<1>2. \A j \in Kept(file) : Rank(file, j) \in N
  BY RankRange
<1>3. ASSUME NEW j \in Kept(file), NEW l \in Kept(file), j < l
      PROVE  Rank(file, j) < Rank(file, l)
  <2> DEFINE A == {m \in Kept(file) : m <= j}
             B == {m \in Kept(file) : m <= l}
  <2>1. A \subseteq B /\ l \in B /\ l \notin A
    BY <1>1, <1>3
  <2>2. Cardinality(A) <= Cardinality(B) /\ (Cardinality(A) = Cardinality(B) => B = A)
    BY <1>1, <2>1, FS_Subset
  <2>3. Cardinality(A) # Cardinality(B)
    BY <2>1, <2>2
  <2>4. Cardinality(A) \in Nat /\ Cardinality(B) \in Nat
    BY <1>1, FS_CardinalityType
  <2> HIDE DEF A, B
  <2>5. Cardinality(A) < Cardinality(B)
    BY <2>2, <2>3, <2>4
  <2> QED  BY <2>5 DEF Rank, A, B
<1>4. r \in [Kept(file) -> N]
  BY <1>2
<1>5. \A j, l \in Kept(file) : r[j] = r[l] => j = l
  <2> SUFFICES ASSUME NEW j \in Kept(file), NEW l \in Kept(file), r[j] = r[l], j # l
               PROVE  FALSE
    OBVIOUS
  <2>1. j < l \/ l < j
    BY <1>1
  <2> QED  BY <1>1, <1>2, <1>3, <2>1
<1>6. IsFiniteSet(N) /\ Cardinality(N) = Cardinality(Kept(file))
  BY <1>1, FS_Interval, GuardsRank
<1>7. r \in Surjection(Kept(file), N)
  <2>1. r \in Injection(Kept(file), N)
    BY <1>4, <1>5 DEF Injection, IsInjective
  <2> HIDE DEF r, N
  <2> QED  BY <1>6, <2>1, FS_Injection
<1>8. \A a \in N : e[a] \in Kept(file) /\ r[e[a]] = a
  BY <1>7 DEF Surjection
<1>9. e \in [N -> Kept(file)]
  BY <1>8
<1>10. \A a \in N : Rank(file, e[a]) = a
  <2>1. \A j \in Kept(file) : r[j] = Rank(file, j)
    OBVIOUS
  <2> HIDE DEF r, e
  <2> QED  BY <1>8, <2>1
<1>11. \A j \in Kept(file) : r[j] \in N /\ e[r[j]] = j
  BY <1>4, <1>5, <1>8
<1> HIDE DEF e, r
<1>12. ASSUME NEW a \in N, NEW b \in N, a < b
       PROVE  e[a] < e[b]
  <2>1. e[a] \in Kept(file) /\ e[b] \in Kept(file) /\ e[a] \in Nat /\ e[b] \in Nat
    BY <1>1, <1>9
  <2>2. Rank(file, e[a]) = a /\ Rank(file, e[b]) = b
    BY <1>10
  <2>3. ~(e[b] < e[a])
    BY <1>3, <1>12, <2>1, <2>2
  <2>4. e[a] # e[b]
    BY <1>12, <2>2
  <2> QED  BY <2>1, <2>3, <2>4
<1>13. \A a \in N : file[e[a]] = plain[a]
  BY <1>9, <1>10, GuardsRank
<1> HIDE DEF N
<1>14. \A j \in Kept(file) : \E a \in N : e[a] = j
  BY <1>11
<1>15. Embeds(e, file, plain)
  BY <1>9, <1>12, <1>13, <1>14, Zenon DEF N, Embeds
<1> QED  BY <1>15

\* An empty file guards the empty file.
LEMMA GuardsEmpty == Guards(<< >>, << >>)
BY GuardsSelf, EmptySeq

\* One more line, with or without its check.
LEMMA GuardsMore ==
    ASSUME NEW file \in Seq(Line), NEW plain \in Seq(Line), Guards(file, plain),
           NEW l \in SourceLine,
           NEW new \in {Append(file, l), Append(Append(file, Check(l)), l)}
    PROVE  Guards(new, Append(plain, l))
<1> DEFINE front == IF new = Append(file, l) THEN file ELSE Append(file, Check(l))
<1>1. l \in Line /\ l.kind \notin Checks /\ Check(l) \in Line /\ Check(l).kind \in Checks
  BY DEF SourceLine, Check, Checks, Line
<1>2. /\ front \in Seq(Line) /\ new = Append(front, l)
      /\ Kept(front) = Kept(file) /\ \A j : Rank(front, j) = Rank(file, j)
      /\ \A j \in DOMAIN file : file[j] = front[j]
      /\ \A j \in DOMAIN front \ DOMAIN file : front[j] = Check(l) /\ j = Len(front)
      /\ Len(front) = Len(file) \/ Len(front) = Len(file) + 1
  BY <1>1, AppendProperties, AppendCheck, LenProperties, SMTT(60)
<1> HIDE DEF front
<1>3. /\ Cardinality(Kept(file)) = Len(plain)
      /\ \A j \in Kept(file) : file[j] = plain[Rank(file, j)]
      /\ \A j \in DOMAIN file \ Kept(file) :
           j < Len(file) /\ file[j] = Check(file[j + 1])
  BY GuardsRank
<1> DEFINE n == Len(front) + 1
<1>4. /\ new \in Seq(Line) /\ Len(new) = n /\ new[n] = l
      /\ \A j \in 1 .. Len(front) : new[j] = front[j]
      /\ DOMAIN new = 1 .. n /\ DOMAIN front = 1 .. Len(front) /\ Len(front) \in Nat
      /\ DOMAIN file = 1 .. Len(file) /\ Len(file) \in Nat /\ Len(plain) \in Nat
  BY <1>1, <1>2, AppendProperties, LenProperties
<1>5. /\ Kept(new) = Kept(front) \cup {n}
      /\ Cardinality(Kept(new)) = Cardinality(Kept(front)) + 1
      /\ \A j \in Kept(front) : Rank(new, j) = Rank(front, j)
      /\ Rank(new, n) = Cardinality(Kept(front)) + 1
  BY <1>2, AppendKept
<1>6. /\ Len(Append(plain, l)) = Len(plain) + 1
      /\ \A j \in 1 .. Len(plain) : Append(plain, l)[j] = plain[j]
      /\ Append(plain, l)[Len(plain) + 1] = l
  BY <1>1, AppendProperties
<1>7. \A j \in Kept(file) : Rank(file, j) \in 1 .. Len(plain)
  BY RankRange
<1>8. \A j \in Kept(new) : new[j] = Append(plain, l)[Rank(new, j)]
  <2>1. CASE TRUE
    <3> SUFFICES ASSUME NEW j \in Kept(new)
                 PROVE  new[j] = Append(plain, l)[Rank(new, j)]
      OBVIOUS
    <3>1. CASE j = n
      BY <1>2, <1>3, <1>4, <1>5, <1>6, <3>1
    <3>2. CASE j \in Kept(file)
      <4>1. j \in DOMAIN file /\ j \in 1 .. Len(front) /\ Rank(new, j) = Rank(file, j)
        BY <1>2, <1>4, <1>5, <3>2 DEF Kept
      <4> QED  BY <1>2, <1>3, <1>4, <1>6, <1>7, <3>2, <4>1
    <3> QED  BY <1>2, <1>5, <3>1, <3>2
  <2> QED  BY <2>1
<1>9. ASSUME NEW j \in DOMAIN new \ Kept(new)
      PROVE  j < Len(new) /\ new[j] = Check(new[j + 1])
  <2>1. j \in 1 .. Len(front) /\ new[j] = front[j] /\ j < n
    BY <1>4, <1>5
  <2>2. CASE j \in DOMAIN file
    <3>1. j \in DOMAIN file \ Kept(file)
      BY <1>2, <1>5, <2>2
    <3>2. j < Len(file) /\ file[j] = Check(file[j + 1])
      BY <1>3, <3>1
    <3>3. j + 1 \in DOMAIN file /\ j + 1 \in 1 .. Len(front)
      <4>1. Len(front) = Len(file) \/ Len(front) = Len(file) + 1
        BY <1>2
      <4>2. DOMAIN file = 1 .. Len(file) /\ Len(file) \in Nat
        BY <1>4
      <4>3. j \in 1 .. Len(file)
        BY <2>2, <4>2
      <4> QED  BY <3>2, <4>1, <4>2, <4>3
    <3>4. file[j] = front[j] /\ file[j + 1] = front[j + 1] /\ new[j + 1] = front[j + 1]
      BY <1>2, <1>4, <2>2, <3>3
    <3> QED  BY <1>4, <2>1, <3>2, <3>4
  <2>3. CASE j \notin DOMAIN file
    <3>1. front[j] = Check(l) /\ j = Len(front)
      BY <1>2, <1>4, <2>1, <2>3
    <3>2. j + 1 = n
      BY <3>1
    <3> QED  BY <1>4, <2>1, <3>1, <3>2
  <2> QED  BY <2>2, <2>3
<1> QED  BY <1>2, <1>3, <1>4, <1>5, <1>6, <1>8, <1>9, GuardsRank

-----------------------------------------------------------------------------
\* The pass

\* What one line of the pass makes of p.
Passed(disk, p, l, q) ==
    LET plain   == Append(p.new_lines, l)
        checked == Append(Append(p.new_lines, Check(l)), l)
    IN  /\ q.new_lines \in Seq(Line) /\ q.new_lines \in {plain, checked}
        /\ Asked(l) /\ ~is_leaf(l.name, disk) => q.new_lines = checked
        /\ Matches(l, "jr") /\ q.curr_function \notin q.leaf_functions
           => q.new_lines = checked
        /\ ~Matches(l, "jr") /\ ~(Asked(l) /\ ~is_leaf(l.name, disk))
           => q.new_lines = plain
        /\ Matches(l, "jr") /\ q.curr_function \in q.leaf_functions
           => q.new_lines = plain
        /\ q.curr_function = IF Matches(l, "label") THEN l.name ELSE p.curr_function
        /\ q.leaf_functions =
             p.leaf_functions \cup IF Asked(l) THEN Remembered(l.name, disk) ELSE {}

\* One line of the pass writes the line, with its check if it asks for one.
LEMMA PassLineFacts ==
    ASSUME NEW disk, NEW p, p.new_lines \in Seq(Line), NEW l \in SourceLine,
           NEW q, q = PassLine(disk, p, l)
    PROVE  Passed(disk, p, l, q)
<1> DEFINE new   == p.new_lines
           curr  == IF Matches(l, "label") THEN l.name ELSE p.curr_function
           leafs == p.leaf_functions \cup IF Asked(l) THEN Remembered(l.name, disk) ELSE {}
           asks  == Asked(l) /\ ~is_leaf(l.name, disk)
           rets  == Matches(l, "jr") /\ curr \notin leafs
           jump  == IF asks THEN <<[kind |-> "jump_check", name |-> l.name]>> ELSE << >>
           ret   == IF rets THEN <<[kind |-> "ret_check", name |-> l.name]>> ELSE << >>
<1>1. /\ q.new_lines = new \o jump \o ret \o <<l>>
      /\ q.curr_function = curr /\ q.leaf_functions = leafs
  BY DEF PassLine
<1>2. l \in Line /\ Check(l) \in Line /\ ~(Asked(l) /\ Matches(l, "jr"))
  BY DEF SourceLine, Check, Line, Asked, Matches
<1>3. /\ asks => jump = <<Check(l)>> /\ ret = << >>
      /\ rets => ret = <<Check(l)>> /\ jump = << >>
      /\ ~asks /\ ~rets => jump = << >> /\ ret = << >>
  BY <1>2 DEF Check, Asked, Matches
<1>8. asks => Asked(l) /\ ~Matches(l, "jr")
  BY <1>2
<1> HIDE DEF new, asks, rets, jump, ret
<1>4. new \in Seq(Line) /\ new \o << >> = new
  BY ConcatEmptySeq DEF new
<1>5. /\ Append(new, Check(l)) = new \o <<Check(l)>>
      /\ Append(new, Check(l)) \in Seq(Line)
      /\ Append(new, Check(l)) \o << >> = Append(new, Check(l))
      /\ Append(new, l) = new \o <<l>> /\ Append(new, l) \in Seq(Line)
      /\ Append(Append(new, Check(l)), l) = Append(new, Check(l)) \o <<l>>
      /\ Append(Append(new, Check(l)), l) \in Seq(Line)
  BY <1>2, <1>4, AppendIsConcat, AppendProperties, ConcatEmptySeq
<1>6. CASE asks \/ rets
  <2>1. q.new_lines = Append(Append(new, Check(l)), l)
    BY <1>1, <1>3, <1>4, <1>5, <1>6
  <2> QED  BY <1>1, <1>2, <1>5, <1>6, <1>8, <2>1 DEF new, asks, rets, Passed
<1>7. CASE ~asks /\ ~rets
  <2>1. q.new_lines = Append(new, l)
    BY <1>1, <1>3, <1>4, <1>5, <1>7
  <2> QED  BY <1>1, <1>5, <1>7, <2>1 DEF new, asks, rets, Passed
<1> QED  BY <1>6, <1>7

-----------------------------------------------------------------------------
\* What the invariant says of the files

\* The list of files names each file of usercode/ once, and no other.
LEMMA FilesFacts ==
    ASSUME Project(source), NEW fs \in SetToSeqs(DOMAIN source)
    PROVE  /\ fs \in Seq(DOMAIN source) /\ DOMAIN fs = 1 .. Len(fs)
           /\ Len(fs) \in Nat
           /\ \A m, n \in DOMAIN fs : fs[m] = fs[n] => m = n
           /\ \A f \in DOMAIN source : \E n \in DOMAIN fs : fs[n] = f
           /\ \A n \in DOMAIN fs : fs[n] \in DOMAIN source
<1> DEFINE N == Cardinality(DOMAIN source)
           D == 1 .. N
<1>1. IsFiniteSet(DOMAIN source) /\ N \in Nat
  BY NameAssumption, FS_Subset, FS_CardinalityType DEF Project
<1>2. fs \in [D -> DOMAIN source] /\ \A m, n \in D : m # n => fs[m] # fs[n]
  BY DEF SetToSeqs
<1>3. IsFiniteSet(D) /\ Cardinality(D) = N
  BY <1>1, FS_Interval
<1>4. fs \in Injection(D, DOMAIN source)
  BY <1>2 DEF Injection, IsInjective
<1> HIDE DEF N, D
<1>5. fs \in Surjection(D, DOMAIN source)
  BY <1>1, <1>3, <1>4, FS_Injection DEF N
<1>6. \A f \in DOMAIN source : \E n \in D : fs[n] = f
  BY <1>5 DEF Surjection
<1>7. fs \in Seq(DOMAIN source) /\ DOMAIN fs = D
  BY <1>1, <1>2 DEF D
<1>8. DOMAIN fs = 1 .. Len(fs) /\ Len(fs) \in Nat
  BY <1>7, LenProperties
<1> QED  BY <1>2, <1>6, <1>7, <1>8

\* Names, and the files the compiler made.
LEMMA SourceFacts ==
    ASSUME Project(source)
    PROVE  /\ DOMAIN source \subseteq UserFiles
           /\ System \notin DOMAIN source /\ OUTPUT \notin DOMAIN source \cup {System}
           /\ DOMAIN source \cup {System} \subseteq AsmFiles
           /\ \A f \in DOMAIN source :
                /\ source[f] \in Seq(SourceLine) /\ source[f] \in Seq(Line)
                /\ Guards(source[f], source[f])
           /\ SystemLines \in Seq(Line) /\ SystemLines \in Seq(SourceLine)
           /\ PlainImage[System] = SystemLines
           /\ DOMAIN PlainImage = DOMAIN source \cup {System}
           /\ \A f \in DOMAIN source : PlainImage[f] = source[f]
           /\ \A f \in DOMAIN PlainImage : PlainImage[f] \in Seq(Line)
<1>1. /\ DOMAIN source \subseteq UserFiles
      /\ \A f \in DOMAIN source : source[f] \in Seq(SourceLine)
  BY DEF Project
<1>2. /\ System \notin UserFiles /\ OUTPUT \notin UserFiles \cup {System}
      /\ SystemLines \in Seq(SourceLine) /\ SystemLines \in Seq(Line)
  BY NameAssumption, ProjectAssumption, GuardsSelf
<1>3. \A f \in DOMAIN source :
         source[f] \in Seq(Line) /\ Guards(source[f], source[f])
  BY <1>1, GuardsSelf
<1>4. DOMAIN PlainImage = DOMAIN source \cup {System} /\ PlainImage[System] = SystemLines
  BY DEF PlainImage
<1>5. \A f \in DOMAIN source : PlainImage[f] = source[f]
  BY <1>1, <1>2 DEF PlainImage
<1> QED  BY <1>1, <1>2, <1>3, <1>4, <1>5 DEF AsmFiles

\* While the pass runs, every file it reads guards the compiler's file, and the one
\* it is at is still the compiler's.
LEMMA DiskFacts ==
    ASSUME BuildInv, InFile
    PROVE  /\ Project(source) /\ files \in SetToSeqs(DOMAIN source)
           /\ k \in 1 .. Len(files) /\ k \in DOMAIN files
           /\ Lines = source[files[k]] /\ files[k] \in DOMAIN source
           /\ Lines \in Seq(SourceLine) /\ Lines \in Seq(Line) /\ Len(Lines) \in Nat
           /\ i \in 0 .. Len(Lines)
           /\ pass.new_lines \in Seq(Line)
           /\ Guards(pass.new_lines, SubSeq(Lines, 1, i))
           /\ DOMAIN assembly_files = DOMAIN files
           /\ \A n \in DOMAIN files :
                /\ files[n] \in DOMAIN source /\ files[n] \in AsmFiles
                /\ assembly_files[n] = asm[files[n]]
                /\ asm[files[n]] \in Seq(Line)
                /\ Guards(asm[files[n]], source[files[n]])
<1>1. /\ Project(source) /\ files \in SetToSeqs(DOMAIN source)
      /\ pass.new_lines \in Seq(Line) /\ Guards(pass.new_lines, SubSeq(Lines, 1, i))
      /\ k \in 1 .. Len(files) + 1 /\ k <= Len(files)
      /\ i \in 0 .. Len(Lines)
  BY DEF BuildInv, TypeOK, ProcessInv, FilesInv, InFile, Listed
<1>2. /\ DOMAIN files = 1 .. Len(files) /\ Len(files) \in Nat
      /\ \A n \in DOMAIN files : files[n] \in DOMAIN source
  BY <1>1, FilesFacts
<1>3. k \in 1 .. Len(files)
  BY <1>1, <1>2
<1>4. /\ Present = DOMAIN PlainImage
      /\ \A n \in DOMAIN files :
           IF n < k THEN Guards(asm[files[n]], source[files[n]])
           ELSE asm[files[n]] = source[files[n]]
  BY DEF BuildInv, FilesInv, InFile
<1>5. ASSUME NEW n \in DOMAIN files
      PROVE  /\ files[n] \in AsmFiles /\ asm[files[n]] \in Seq(Line)
             /\ Guards(asm[files[n]], source[files[n]])
  <2>1. files[n] \in DOMAIN PlainImage
    BY <1>1, <1>2, SourceFacts
  <2>2. files[n] \in AsmFiles /\ asm[files[n]] # Missing
    BY <1>4, <2>1 DEF Present
  <2>3. asm[files[n]] \in Seq(Line)
    BY <2>2 DEF BuildInv, TypeOK
  <2> QED  BY <1>1, <1>2, <1>4, <2>2, <2>3, SourceFacts
<1>6. Lines = source[files[k]]
  BY <1>2, <1>3, <1>4 DEF Lines
<1>7. Lines \in Seq(SourceLine) /\ Lines \in Seq(Line) /\ Len(Lines) \in Nat
  BY <1>1, <1>2, <1>3, <1>6, SourceFacts, LenProperties
<1> QED  BY <1>1, <1>2, <1>3, <1>5, <1>6, <1>7 DEF assembly_files

\* A label on disk is one of the program.
LEMMA LabelOnDisk ==
    ASSUME NEW file \in Seq(Line), NEW plain \in Seq(Line), Guards(file, plain),
           NEW j \in DOMAIN file, file[j].kind \notin Checks
    PROVE  \E a \in DOMAIN plain : plain[a] = file[j]
<1>1. j \in Kept(file)
  BY DEF Kept
<1>2. Rank(file, j) \in DOMAIN plain
  BY <1>1, RankRange, LenProperties
<1> QED  BY <1>1, <1>2, GuardsRank

\* Only functions of the program are remembered as leaves.
LEMMA RememberedFunctions ==
    ASSUME BuildInv, InFile, NEW f
    PROVE  Remembered(f, assembly_files) \subseteq Functions
<1> SUFFICES ASSUME NEW n \in DOMAIN assembly_files,
                    Scan(assembly_files[n], f) = "leaf"
             PROVE  f \in Functions
  BY DEF Remembered
<1> DEFINE file == asm[files[n]]
<1>1. /\ assembly_files[n] = file /\ file \in Seq(Line)
      /\ files[n] \in DOMAIN source
      /\ source[files[n]] \in Seq(Line) /\ Guards(file, source[files[n]])
  BY DiskFacts, SourceFacts
<1>2. \E j \in DOMAIN file : file[j] = Label(f)
  BY <1>1 DEF Scan, Label
<1>3. PICK a \in DOMAIN source[files[n]] : source[files[n]][a] = Label(f)
  BY <1>1, <1>2, LabelOnDisk, SMTT(60) DEF Label, Checks
<1>4. Label(f) \in LinesOf(source)
  BY <1>1, <1>3 DEF LinesOf, Range
<1> QED  BY <1>4 DEF Functions, Label, Matches

-----------------------------------------------------------------------------
\* Every step keeps the invariant

Typed(a) == a \in [AsmFiles -> Seq(Line) \cup {Missing}]
ImageType(m) == m \in {Missing, Broken} \/ DOMAIN m \subseteq AsmFiles

\* A process that has ended, or not begun, leaves nothing to say but types.
LEMMA EndedStep ==
    ASSUME Project(source'), source' \in Projects \cup Edits, Typed(asm'),
           ImageType(elf'), ImageType(bin'), ImageType(board'),
           command' \in Commands, at' \in Ended \cup {"clear"}, NoProcess,
           commands' \in 0 .. MaxCommands
    PROVE  BuildInv'
<1>1. /\ files' = << >> /\ k' = 1 /\ i' = 0 /\ pass' = PassStart({})
      /\ pass'.leaf_functions = {} /\ pass'.new_lines = << >>
  BY DEF NoProcess, PassStart
<1>2. at' \notin Listed /\ at' # "retrieve" /\ at' # "instrument" /\ at' # "link"
      /\ at' \notin ImageSteps /\ at' # "compile"
  BY DEF Ended, Listed, ImageSteps
<1>3. TypeOK'
  <2>1. files' \in Seq(DOMAIN source') /\ k' \in 1 .. Len(files') + 1
    BY <1>1, EmptySeq
  <2>2. i' \in 0 .. (IF InFile' THEN Len(Lines') ELSE 0)
    BY <1>1, <1>2 DEF InFile
  <2> QED  BY <1>1, <2>1, <2>2 DEF TypeOK, Typed, ImageType
<1>4. ProcessInv'
  BY <1>1, <1>2, EmptySeq DEF ProcessInv, Ended, Listed
<1>5. FilesInv'
  BY <1>2 DEF FilesInv, InFile
<1> QED  BY <1>3, <1>4, <1>5 DEF BuildInv

\* PassStart: a pass begins with no leaf found and no line written.
LEMMA StartFacts ==
    PassStart({}).leaf_functions = {} /\ PassStart({}).new_lines = << >>
BY DEF PassStart

\* Before the first command nothing was built.
LEMMA InitStep ==
    ASSUME Init
    PROVE  BuildInv
<1>1. source \in Projects \cup Edits /\ Project(source)
  BY ProjectAssumption DEF Init
<1>2. /\ files = << >> /\ k = 1 /\ i = 0 /\ at = "idle"
      /\ pass.leaf_functions = {} /\ pass.new_lines = << >> /\ pass = PassStart({})
      /\ asm = [f \in AsmFiles |-> Missing]
      /\ elf = Missing /\ bin = Missing /\ board = Missing
      /\ command = "clear" /\ commands = 0
  BY DEF Init, PassStart
<1>3. TypeOK
  <2>1. files \in Seq(DOMAIN source) /\ k \in 1 .. Len(files) + 1
    BY <1>2, EmptySeq
  <2>2. i \in 0 .. (IF InFile THEN Len(Lines) ELSE 0)
    BY <1>2 DEF InFile
  <2> QED  BY <1>1, <1>2, <2>1, <2>2, ProjectAssumption DEF TypeOK, Commands
<1>4. ProcessInv
  BY <1>1, <1>2, EmptySeq DEF ProcessInv, Ended, Listed
<1>5. FilesInv
  BY <1>2 DEF FilesInv, InFile, ImageSteps
<1> QED  BY <1>3, <1>4, <1>5 DEF BuildInv

\* What every state of the invariant says of the types.
LEMMA Types ==
    ASSUME BuildInv
    PROVE  /\ Project(source) /\ source \in Projects \cup Edits /\ Typed(asm)
           /\ ImageType(elf) /\ ImageType(bin) /\ ImageType(board)
           /\ command \in Commands /\ commands \in 0 .. MaxCommands
           /\ at \in Ended => files = << >> /\ k = 1 /\ i = 0 /\ pass = PassStart({})
BY DEF BuildInv, TypeOK, ProcessInv, Typed, ImageType, Ended, Listed

\* A command begins: nothing is built yet, so only the flags change.
LEMMA StartStep ==
    ASSUME BuildInv, NEW c \in Commands, Start(c)
    PROVE  BuildInv'
<1>1. commands' \in 0 .. MaxCommands
  BY Types, ProjectAssumption DEF Start
<1>2. /\ UNCHANGED <<source, toolsExtra, board, process>> /\ at \in Ended
      /\ command' = c /\ at' = "clear"
  BY DEF Start
<1>3. NoProcess
  BY <1>2, Types DEF NoProcess, process
<1> QED
  BY <1>1, <1>2, <1>3, Types, EndedStep DEF toolsExtra, Typed, ImageType, Project

\* The sources are edited between two commands, when nothing of the build counts.
LEMMA EditStep ==
    ASSUME BuildInv, Edit
    PROVE  BuildInv'
<1>1. /\ UNCHANGED <<toolsExtra, board, command, at, process, commands>>
      /\ at \in Ended /\ source' \in Edits
  BY DEF Edit
<1>2. NoProcess
  BY <1>1, Types DEF NoProcess, process
<1>3. Project(source')
  BY <1>1, ProjectAssumption
<1> QED
  BY <1>1, <1>2, <1>3, Types, EndedStep DEF toolsExtra, Typed, ImageType

\* A process that ends here leaves some files behind.
LEMMA LeaveStep ==
    ASSUME BuildInv, NEW from, NEW to \in Ended, Go(from, to), Typed(asm'),
           ImageType(elf'), ImageType(bin'), ImageType(board')
    PROVE  BuildInv'
<1>1. /\ at' = to /\ NoProcess /\ UNCHANGED <<source, command, commands>>
  BY DEF Go
<1> QED  BY <1>1, Types, EndedStep DEF Project

\* A command that fails ends.
LEMMA FailIsGo ==
    ASSUME NEW from, Fail(from)
    PROVE  Go(from, "failed") /\ "failed" \in Ended
BY DEF Fail, Ended

\* clear removes the files of earlier commands, or fails and leaves some of them.
LEMMA ClearStep ==
    ASSUME BuildInv, clear
    PROVE  BuildInv'
<1>1. UNCHANGED board
  BY DEF clear
<1>2. CASE /\ Go("clear", AfterClear)
           /\ asm' = [f \in AsmFiles |-> Missing] /\ elf' = Missing /\ bin' = Missing
  <2>1. Typed(asm') /\ ImageType(elf') /\ ImageType(bin') /\ ImageType(board')
    BY <1>1, <1>2, Types DEF Typed, ImageType
  <2>2. CASE command = "clear"
    <3>1. Go("clear", "done") /\ "done" \in Ended
      BY <1>2, <2>2 DEF AfterClear, Ended
    <3> QED  BY <2>1, <3>1, LeaveStep
  <2>3. CASE command # "clear"
    <3>1. /\ at = "clear" /\ at' = "retrieve"
          /\ UNCHANGED <<source, command, commands, files, k, i, pass>>
      BY <1>2, <2>3 DEF AfterClear, Go, Ended, process
    <3>2. /\ files = << >> /\ k = 1 /\ i = 0 /\ pass = PassStart({})
          /\ pass.leaf_functions = {} /\ pass.new_lines \in Seq(Line)
      BY <3>1, StartFacts DEF BuildInv, ProcessInv, Ended, Listed
    <3>3. TypeOK'
      <4>1. i' \in 0 .. (IF InFile' THEN Len(Lines') ELSE 0)
        BY <3>1, <3>2 DEF InFile
      <4> QED
        BY <2>1, <3>1, <3>2, <4>1, Types DEF BuildInv, TypeOK, Typed, ImageType, Project
    <3>4. ProcessInv'
      BY <2>3, <3>1, <3>2 DEF BuildInv, ProcessInv, Ended, Listed
    <3>5. FilesInv'
      BY <1>2, <3>1 DEF FilesInv, InFile, ImageSteps, Present
    <3> QED  BY <3>3, <3>4, <3>5 DEF BuildInv
  <2> QED  BY <2>2, <2>3
<1>3. CASE /\ Fail("clear")
           /\ \E gone \in SUBSET Present :
                asm' = [f \in AsmFiles |-> IF f \in gone THEN Missing ELSE asm[f]]
           /\ elf' \in {elf, Missing} /\ bin' \in {bin, Missing}
  <2>1. Typed(asm') /\ ImageType(elf') /\ ImageType(bin') /\ ImageType(board')
    BY <1>1, <1>3, Types DEF Typed, ImageType
  <2> QED  BY <1>3, <2>1, FailIsGo, LeaveStep
<1> QED  BY <1>2, <1>3 DEF clear

\* The lists of files are read; the build goes on with the files that are there.
LEMMA RetrieveStep ==
    ASSUME BuildInv, Retrieve
    PROVE  BuildInv'
<1>1. /\ at = "retrieve" /\ at' = IF command \in Secure THEN "compile" ELSE "link"
      /\ files' \in SetToSeqs(DOMAIN source)
      /\ UNCHANGED <<source, asm, elf, bin, board, command, commands, k, i, pass>>
  BY DEF Retrieve, toolsExtra
<1>2. /\ k = 1 /\ i = 0 /\ pass = PassStart({}) /\ pass.leaf_functions = {}
      /\ pass.new_lines \in Seq(Line) /\ command # "clear" /\ command \in Commands
  BY <1>1, Types, StartFacts DEF BuildInv, ProcessInv, Ended, Listed
<1>3. /\ files' \in Seq(DOMAIN source) /\ Len(files') \in Nat
  BY <1>1, Types, FilesFacts
<1>4. TypeOK'
  <2>1. i' \in 0 .. (IF InFile' THEN Len(Lines') ELSE 0)
    BY <1>1, <1>2 DEF InFile
  <2> QED
    BY <1>1, <1>2, <1>3, <2>1, Types DEF BuildInv, TypeOK, Typed, ImageType, Project
<1>5. ProcessInv'
  BY <1>1, <1>2, Types DEF BuildInv, ProcessInv, Ended, Listed
<1>6. FilesInv'
  BY <1>1 DEF BuildInv, FilesInv, InFile, ImageSteps, Present
<1> QED  BY <1>4, <1>5, <1>6 DEF BuildInv

\* The compiler writes an assembly file for each source, or fails.
LEMMA CompileStep ==
    ASSUME BuildInv, Compile
    PROVE  BuildInv'
<1>1. UNCHANGED <<elf, bin, board>>
  BY DEF Compile
<1>2. Project(source) /\ Typed(asm) /\ ImageType(elf) /\ ImageType(bin) /\ ImageType(board)
  BY Types
<1>3. ASSUME NEW names \in SUBSET DOMAIN PlainImage
      PROVE  Typed(Compiled(names))
  BY <1>2, SourceFacts DEF Typed, Compiled
<1>4. CASE Go("compile", "instrument") /\ asm' = Compiled(DOMAIN PlainImage)
  <2>1. /\ at = "compile" /\ at' = "instrument"
        /\ UNCHANGED <<source, command, commands, files, k, i, pass>>
    BY <1>4 DEF Go, Ended, process
  <2>2. /\ k = 1 /\ i = 0 /\ pass = PassStart({}) /\ pass.leaf_functions = {}
        /\ pass.new_lines = << >> /\ files \in SetToSeqs(DOMAIN source)
    BY <2>1, StartFacts DEF BuildInv, ProcessInv, Ended, Listed
  <2>3. /\ files \in Seq(DOMAIN source) /\ Len(files) \in Nat
        /\ DOMAIN files = 1 .. Len(files)
        /\ \A n \in DOMAIN files : files[n] \in DOMAIN source
    BY <1>2, <2>2, FilesFacts
  <2>4. /\ \A f \in DOMAIN PlainImage : asm'[f] = PlainImage[f]
        /\ \A f \in AsmFiles \ DOMAIN PlainImage : asm'[f] = Missing
    <3>1. \A f \in AsmFiles : asm[f] = Missing
      BY <2>1 DEF BuildInv, FilesInv, Present
    <3> QED  BY <1>2, <1>4, <3>1, SourceFacts DEF Compiled
  <2>5. Present' = DOMAIN PlainImage
    BY <1>2, <2>4, SourceFacts, NameAssumption DEF Present
  <2>6. asm'[System] = SystemLines /\ \A f \in DOMAIN source : asm'[f] = source[f]
    BY <1>2, <2>4, SourceFacts
  <2>7. i' \in 0 .. (IF InFile' THEN Len(Lines') ELSE 0)
    <3>1. CASE InFile'
      <4>1. k \in DOMAIN files
        BY <2>1, <2>2, <2>3, <3>1 DEF InFile
      <4>2. Lines' = source[files[k]]
        BY <2>1, <2>3, <2>6, <4>1 DEF Lines
      <4>3. Len(Lines') \in Nat
        BY <1>2, <2>3, <4>1, <4>2, SourceFacts, LenProperties
      <4> QED  BY <2>1, <2>2, <4>3
    <3> QED  BY <2>1, <2>2, <3>1
  <2>8. TypeOK'
    BY <1>1, <1>2, <1>3, <1>4, <2>1, <2>2, <2>3, <2>7
       DEF BuildInv, TypeOK, Typed, ImageType, Project
  <2>9. ProcessInv'
    BY <2>1, <2>2, EmptySeq DEF BuildInv, ProcessInv, Ended, Listed
  <2>10. FilesInv'
    <3>1. InFile' => Guards(pass.new_lines, SubSeq(Lines', 1, 0))
      <4>1. \A x : SubSeq(x, 1, 0) = << >>
        BY SubSeqEmpty
      <4>2. Guards(pass.new_lines, << >>)
        BY <2>2, GuardsEmpty
      <4> QED  BY <4>1, <4>2
    <3> QED
      BY <1>2, <2>1, <2>2, <2>3, <2>5, <2>6, <3>1 DEF FilesInv, ImageSteps, PlainImage
  <2> QED  BY <2>8, <2>9, <2>10 DEF BuildInv
<1>5. CASE /\ Fail("compile")
           /\ \E written \in SUBSET DOMAIN PlainImage : asm' = Compiled(written)
  BY <1>1, <1>2, <1>3, <1>5, FailIsGo, LeaveStep DEF ImageType
<1> QED  BY <1>4, <1>5 DEF Compile

\* The files of the pass, when only lines are read.
LEMMA InstrumentLineStep ==
    ASSUME BuildInv, InstrumentLine
    PROVE  BuildInv'
<1> DEFINE line == Lines[i + 1]
<1>1. /\ InFile /\ i < Len(Lines)
      /\ pass' = PassLine(assembly_files, pass, line) /\ i' = i + 1
      /\ UNCHANGED <<source, asm, elf, bin, board, command, at, files, k, commands>>
  BY DEF InstrumentLine, toolsExtra
<1>2. /\ Project(source) /\ Lines \in Seq(SourceLine) /\ Lines \in Seq(Line)
      /\ i \in 0 .. Len(Lines) /\ Len(Lines) \in Nat
      /\ pass.new_lines \in Seq(Line) /\ Guards(pass.new_lines, SubSeq(Lines, 1, i))
  BY <1>1, DiskFacts
<1>3. i + 1 \in 1 .. Len(Lines) /\ line \in SourceLine
  BY <1>1, <1>2, ElementOfSeq
<1>4. /\ InFile' /\ Lines' = Lines /\ at = "instrument"
  BY <1>1 DEF InFile, Lines
<1> HIDE DEF line
<1>5. SubSeq(Lines, 1, i + 1) = Append(SubSeq(Lines, 1, i), line)
      /\ SubSeq(Lines, 1, i) \in Seq(Line)
  <2>1. /\ SubSeq(Lines, 1, i) \in Seq(Line)
        /\ Len(SubSeq(Lines, 1, i)) = i
        /\ \A m \in 1 .. i : SubSeq(Lines, 1, i)[m] = Lines[m]
    BY <1>2, SubSeqProperties, ElementOfSeq
  <2>2. /\ SubSeq(Lines, 1, i + 1) \in Seq(Line)
        /\ Len(SubSeq(Lines, 1, i + 1)) = i + 1
        /\ \A m \in 1 .. i + 1 : SubSeq(Lines, 1, i + 1)[m] = Lines[m]
    BY <1>2, <1>3, SubSeqProperties, ElementOfSeq
  <2>3. /\ Append(SubSeq(Lines, 1, i), line) \in Seq(Line)
        /\ Len(Append(SubSeq(Lines, 1, i), line)) = i + 1
        /\ \A m \in 1 .. i : Append(SubSeq(Lines, 1, i), line)[m] = Lines[m]
        /\ Append(SubSeq(Lines, 1, i), line)[i + 1] = Lines[i + 1]
    BY <1>3, <2>1, AppendProperties DEF line, SourceLine
  <2>4. \A m \in 1 .. i + 1 : m \in 1 .. i \/ m = i + 1
    BY <1>2
  <2> QED  BY <1>2, <2>1, <2>2, <2>3, <2>4, SeqEqual
<1> DEFINE new == pass'.new_lines
<1>12. Passed(assembly_files, pass, line, pass')
  BY <1>1, <1>2, <1>3, PassLineFacts
<1>13. /\ new \in Seq(Line)
       /\ new \in {Append(pass.new_lines, line),
                   Append(Append(pass.new_lines, Check(line)), line)}
       /\ pass'.leaf_functions = pass.leaf_functions \cup
            IF Asked(line) THEN Remembered(line.name, assembly_files) ELSE {}
  BY <1>12 DEF Passed
<1> HIDE DEF new
<1>6. /\ pass'.new_lines \in Seq(Line)
      /\ Guards(pass'.new_lines, SubSeq(Lines, 1, i + 1))
  <2>1. Guards(new, Append(SubSeq(Lines, 1, i), line))
    BY <1>2, <1>3, <1>5, <1>13, GuardsMore
  <2> QED  BY <1>5, <1>13, <2>1 DEF new
<1>7. pass'.leaf_functions \subseteq Functions
  <2>1. pass'.leaf_functions = pass.leaf_functions \cup
          IF Asked(line) THEN Remembered(line.name, assembly_files) ELSE {}
    BY <1>13
  <2>2. pass.leaf_functions \subseteq Functions
    BY DEF BuildInv, TypeOK
  <2> QED  BY <1>1, <2>1, <2>2, RememberedFunctions
<1>8. Functions' = Functions /\ PlainImage' = PlainImage /\ Present' = Present
  BY <1>1 DEF Functions, LinesOf, PlainImage, Present
<1>9. TypeOK'
  <2>1. i' \in 0 .. (IF InFile' THEN Len(Lines') ELSE 0)
    BY <1>1, <1>2, <1>3, <1>4
  <2> QED
    BY <1>1, <1>7, <1>8, <2>1, Types DEF BuildInv, TypeOK, Typed, ImageType, Project
<1>10. ProcessInv'
  BY <1>1, <1>4, <1>6 DEF BuildInv, ProcessInv, Ended
<1>11. FilesInv'
  <2>1. InFile' => Guards(pass'.new_lines, SubSeq(Lines', 1, i'))
    BY <1>1, <1>4, <1>6
  <2> QED
    BY <1>1, <1>4, <1>8, <2>1 DEF BuildInv, FilesInv, ImageSteps
<1> QED  BY <1>9, <1>10, <1>11 DEF BuildInv

\* A finished file is written: all of its lines, the checks in front of some.
LEMMA WriteFileStep ==
    ASSUME BuildInv, WriteFile
    PROVE  BuildInv'
<1>1. /\ InFile /\ i = Len(Lines)
      /\ asm' = [asm EXCEPT ![files[k]] = pass.new_lines]
      /\ k' = k + 1 /\ i' = 0 /\ pass' = PassStart(pass.leaf_functions)
      /\ UNCHANGED <<source, elf, bin, board, command, at, files, commands>>
  BY DEF WriteFile
<1>2. /\ Project(source) /\ files \in SetToSeqs(DOMAIN source)
      /\ k \in 1 .. Len(files) /\ k \in DOMAIN files
      /\ Lines = source[files[k]] /\ Lines \in Seq(Line)
      /\ pass.new_lines \in Seq(Line) /\ Guards(pass.new_lines, SubSeq(Lines, 1, i))
      /\ \A n \in DOMAIN files :
           files[n] \in DOMAIN source /\ files[n] \in AsmFiles
  BY <1>1, DiskFacts
<1>3. /\ Len(files) \in Nat /\ DOMAIN files = 1 .. Len(files)
      /\ \A m, n \in DOMAIN files : files[m] = files[n] => m = n
      /\ files \in Seq(DOMAIN source)
  BY <1>2, FilesFacts
<1>4. Guards(pass.new_lines, source[files[k]])
  BY <1>1, <1>2, SubSeqFull
<1>5. Typed(asm) /\ at = "instrument"
  BY <1>1, Types DEF InFile
<1>6. /\ Typed(asm')
      /\ asm'[files[k]] = pass.new_lines
      /\ \A f \in AsmFiles : f # files[k] => asm'[f] = asm[f]
  BY <1>1, <1>2, <1>5 DEF Typed
<1>7. /\ pass'.leaf_functions = pass.leaf_functions /\ pass'.new_lines = << >>
      /\ pass.leaf_functions \subseteq Functions
  BY <1>1 DEF PassStart, BuildInv, TypeOK
<1>8. Functions' = Functions /\ PlainImage' = PlainImage
  BY <1>1 DEF Functions, LinesOf, PlainImage
<1>9. Present = DOMAIN PlainImage /\ asm[System] = SystemLines
      /\ \A n \in DOMAIN files :
              IF n < k THEN Guards(asm[files[n]], source[files[n]])
              ELSE asm[files[n]] = source[files[n]]
  BY <1>5 DEF BuildInv, FilesInv
<1>10. Present' = Present
  <2>1. files[k] \in Present
    BY <1>2, <1>9, SourceFacts
  <2>2. pass.new_lines # Missing
    BY <1>2, NameAssumption
  <2> QED  BY <1>2, <1>6, <2>1, <2>2 DEF Present
<1>11. /\ asm'[System] = SystemLines
       /\ \A n \in DOMAIN files :
              IF n < k + 1 THEN Guards(asm'[files[n]], source[files[n]])
              ELSE asm'[files[n]] = source[files[n]]
  <2>1. System \in AsmFiles /\ System # files[k]
    BY <1>2, SourceFacts
  <2>2. ASSUME NEW n \in DOMAIN files
        PROVE  IF n < k + 1 THEN Guards(asm'[files[n]], source[files[n]])
               ELSE asm'[files[n]] = source[files[n]]
    <3>1. CASE n = k
      BY <1>2, <1>3, <1>4, <1>6, <3>1
    <3>2. CASE n # k
      <4>1. asm'[files[n]] = asm[files[n]]
        BY <1>2, <1>3, <1>6, <3>2
      <4>2. n < k + 1 <=> n < k
        BY <1>2, <1>3, <3>2
      <4> QED  BY <1>9, <4>1, <4>2
    <3> QED  BY <3>1, <3>2
  <2> QED  BY <1>6, <1>9, <2>1, <2>2
<1>12. InFile' => Len(Lines') \in Nat
  <2> SUFFICES ASSUME InFile' PROVE Len(Lines') \in Nat
    OBVIOUS
  <2>1. k + 1 \in DOMAIN files /\ ~(k + 1 < k + 1)
    BY <1>1, <1>2, <1>3 DEF InFile
  <2>2. Lines' = source[files[k + 1]]
    BY <1>1, <1>11, <2>1 DEF Lines
  <2> QED  BY <1>2, <2>1, <2>2, SourceFacts, LenProperties
<1>13. TypeOK'
  <2>1. i' \in 0 .. (IF InFile' THEN Len(Lines') ELSE 0)
    BY <1>1, <1>12
  <2>2. k' \in 1 .. Len(files') + 1
    BY <1>1, <1>2, <1>3
  <2> QED
    BY <1>1, <1>3, <1>6, <1>7, <1>8, <2>1, <2>2, Types
       DEF BuildInv, TypeOK, Typed, ImageType, Project
<1>14. ProcessInv'
  BY <1>1, <1>5, <1>7, EmptySeq DEF BuildInv, ProcessInv, Ended
<1>15. FilesInv'
  <2>1. InFile' => Guards(pass'.new_lines, SubSeq(Lines', 1, i'))
    <3>1. \A x : SubSeq(x, 1, 0) = << >>
      BY SubSeqEmpty
    <3> QED  BY <1>1, <1>7, <3>1, GuardsEmpty
  <2> QED
    BY <1>1, <1>5, <1>8, <1>9, <1>10, <1>11, <2>1 DEF FilesInv, ImageSteps
<1> QED  BY <1>13, <1>14, <1>15 DEF BuildInv

\* The pass fails in the middle of a file; the command ends.
LEMMA InstrumentFailsStep ==
    ASSUME BuildInv, InstrumentFails
    PROVE  BuildInv'
<1>1. /\ InFile /\ Fail("instrument") /\ UNCHANGED <<elf, bin, board>>
  BY DEF InstrumentFails
<1>2. Typed(asm) /\ ImageType(elf) /\ ImageType(bin) /\ ImageType(board)
  BY Types
<1>3. Typed(asm')
  <2>1. CASE UNCHANGED asm
    BY <1>2, <2>1 DEF Typed
  <2>2. ASSUME NEW n \in 0 .. Len(pass.new_lines),
               asm' = [asm EXCEPT ![files[k]] = SubSeq(pass.new_lines, 1, n)]
        PROVE  Typed(asm')
    <3>1. SubSeq(pass.new_lines, 1, n) \in Seq(Line)
      BY <1>1, DiskFacts, SubSeqProperties, ElementOfSeq, LenProperties
    <3> QED  BY <1>2, <2>2, <3>1 DEF Typed
  <2> QED  BY <2>1, <2>2 DEF InstrumentFails
<1> QED  BY <1>1, <1>2, <1>3, FailIsGo, LeaveStep DEF ImageType

\* The pass is behind the last file, so all of them are instrumented.
LEMMA InstrumentedStep ==
    ASSUME BuildInv, Instrumented
    PROVE  BuildInv'
<1>1. /\ at = "instrument" /\ at' = "link" /\ k > Len(files)
      /\ UNCHANGED <<source, asm, elf, bin, board, command, commands, files, k, i, pass>>
  BY DEF Instrumented, Go, Ended, process, toolsExtra
<1>2. /\ k \in 1 .. Len(files) + 1 /\ Len(files) \in Nat /\ ~InFile
      /\ i = 0
  <2>1. Len(files) \in Nat
    BY <1>1, Types, FilesFacts DEF BuildInv, ProcessInv, Listed
  <2> QED  BY <1>1, <2>1 DEF BuildInv, TypeOK, InFile
<1>3. /\ Functions' = Functions /\ PlainImage' = PlainImage /\ Present' = Present
      /\ ~InFile'
  BY <1>1 DEF Functions, LinesOf, PlainImage, Present, InFile
<1>4. TypeOK'
  BY <1>1, <1>2, <1>3, Types DEF BuildInv, TypeOK, Typed, ImageType, Project
<1>5. ProcessInv'
  BY <1>1, <1>2 DEF BuildInv, ProcessInv, Ended, Listed
<1>6. FilesInv'
  BY <1>1, <1>3 DEF BuildInv, FilesInv, ImageSteps
<1> QED  BY <1>4, <1>5, <1>6 DEF BuildInv

\* What is linked is the plain program, or the instrumented one.
LEMMA LinkedImage ==
    ASSUME BuildInv, at = "link",
           elf' = IF command \in Secure THEN Restrict(asm, Present) ELSE PlainImage
    PROVE  /\ IF command \in Secure THEN Instruments(elf') ELSE elf' = PlainImage
           /\ DOMAIN elf' \subseteq AsmFiles
<1>1. Project(source) /\ files \in SetToSeqs(DOMAIN source)
  BY DEF BuildInv, TypeOK, ProcessInv, Listed
<1>2. CASE command \notin Secure
  <2>1. elf' = PlainImage
    BY <1>2
  <2> QED  BY <1>1, <1>2, <2>1, SourceFacts
<1>3. CASE command \in Secure
  <2>1. /\ DOMAIN elf' = Present /\ \A f \in Present : elf'[f] = asm[f]
    BY <1>3 DEF Restrict
  <2>2. /\ Present = DOMAIN PlainImage /\ asm[System] = SystemLines
        /\ k = Len(files) + 1
        /\ \A n \in DOMAIN files :
              IF n < k THEN Guards(asm[files[n]], source[files[n]])
              ELSE asm[files[n]] = source[files[n]]
    BY <1>3 DEF BuildInv, FilesInv, ProcessInv
  <2>3. ASSUME NEW f \in DOMAIN source
        PROVE  Guards(elf'[f], source[f])
    <3>1. PICK n \in DOMAIN files : files[n] = f
      BY <1>1, FilesFacts
    <3>2. n < k
      BY <1>1, <2>2, <3>1, FilesFacts
    <3> QED  BY <1>1, <2>1, <2>2, <3>1, <3>2, SourceFacts
  <2> QED
    BY <1>1, <1>3, <2>1, <2>2, <2>3, SourceFacts DEF Instruments
<1> QED  BY <1>2, <1>3

\* A step behind the pass that ends well: the process and its sources stay, and the
\* images keep what the next step takes for granted.
LEMMA ImageStep ==
    ASSUME BuildInv, NEW from \in {"link", "mkbin", "objdump", "flash"},
           NEW to \in ImageSteps, Go(from, to), Typed(asm'),
           DOMAIN elf' \subseteq AsmFiles, ImageType(bin'), ImageType(board'),
           IF command \in Secure THEN Instruments(elf') ELSE elf' = PlainImage,
           to # "mkbin" => bin' = elf',
           to \in {"flash", "monitor"} => command \in {"run", "secure-run"}
    PROVE  BuildInv'
<1>1. /\ at = from /\ at' = to /\ to \notin Ended
      /\ UNCHANGED <<source, command, commands, files, k, i, pass>>
  BY DEF Go, Ended, process, ImageSteps
<1>2. /\ Functions' = Functions /\ PlainImage' = PlainImage
      /\ Instruments(elf') = Instruments(elf)'
      /\ ~InFile /\ ~InFile'
  BY <1>1 DEF Functions, LinesOf, PlainImage, Instruments, InFile, ImageSteps
<1>3. TypeOK'
  BY <1>1, <1>2, Types DEF BuildInv, TypeOK, Typed, ImageType, Project
<1>4. ProcessInv'
  BY <1>1 DEF BuildInv, ProcessInv, Ended, Listed, ImageSteps
<1>5. FilesInv'
  BY <1>1, <1>2 DEF FilesInv, ImageSteps
<1> QED  BY <1>3, <1>4, <1>5 DEF BuildInv

\* The linker makes an image of the files that are listed, or fails.
LEMMA LinkStep ==
    ASSUME BuildInv, Link
    PROVE  BuildInv'
<1>1. UNCHANGED <<asm, bin, board>> /\ Typed(asm') /\ ImageType(bin') /\ ImageType(board')
  BY Types DEF Link, Typed, ImageType
<1>2. CASE /\ Go("link", "mkbin")
           /\ elf' = IF command \in Secure THEN Restrict(asm, Present) ELSE PlainImage
  <2>1. at = "link"
    BY <1>2 DEF Go
  <2> QED  BY <1>1, <1>2, <2>1, LinkedImage, ImageStep DEF ImageSteps
<1>3. CASE Fail("link") /\ elf' \in {elf, Broken}
  <2>1. ImageType(elf')
    BY <1>3, Types DEF ImageType
  <2> QED  BY <1>1, <1>3, <2>1, FailIsGo, LeaveStep
<1> QED  BY <1>2, <1>3 DEF Link

\* What the steps behind link know of the image they read.
LEMMA ImageFacts ==
    ASSUME BuildInv, at \in ImageSteps
    PROVE  /\ IF command \in Secure THEN Instruments(elf) ELSE elf = PlainImage
           /\ DOMAIN elf \subseteq AsmFiles
           /\ at # "mkbin" => bin = elf
           /\ command # "clear" /\ command \in Commands
           /\ at \in {"flash", "monitor"} => command \in {"run", "secure-run"}
<1>1. /\ IF command \in Secure THEN Instruments(elf) ELSE elf = PlainImage
      /\ at # "mkbin" => bin = elf
      /\ command # "clear" /\ command \in Commands
      /\ at \in {"flash", "monitor"} => command \in {"run", "secure-run"}
  BY DEF BuildInv, TypeOK, FilesInv, ProcessInv, Listed, ImageSteps
<1>2. DOMAIN elf \subseteq AsmFiles
  BY <1>1, Types, SourceFacts DEF Instruments
<1> QED  BY <1>1, <1>2

\* The image is converted, or the command ends with half of it.
LEMMA MkbinStep ==
    ASSUME BuildInv, Mkbin
    PROVE  BuildInv'
<1>1. /\ UNCHANGED <<asm, elf, board>> /\ Typed(asm') /\ ImageType(elf')
      /\ ImageType(board')
  BY Types DEF Mkbin, Typed, ImageType
<1>2. CASE Go("mkbin", "objdump") /\ bin' = elf
  <2>1. at = "mkbin"
    BY <1>2 DEF Go
  <2>2. ImageType(bin')
    BY <1>2, Types DEF ImageType
  <2>3. /\ IF command \in Secure THEN Instruments(elf') ELSE elf' = PlainImage
        /\ DOMAIN elf' \subseteq AsmFiles
    BY <1>1, <2>1, ImageFacts DEF ImageSteps
  <2> QED  BY <1>1, <1>2, <2>2, <2>3, ImageStep DEF ImageSteps
<1>3. CASE Fail("mkbin") /\ bin' \in {bin, Broken}
  <2>1. ImageType(bin')
    BY <1>3, Types DEF ImageType
  <2> QED  BY <1>1, <1>3, <2>1, FailIsGo, LeaveStep
<1> QED  BY <1>2, <1>3 DEF Mkbin

\* The listing is written, or the command ends.
LEMMA ObjdumpStep ==
    ASSUME BuildInv, Objdump
    PROVE  BuildInv'
<1>1. /\ UNCHANGED <<elf, bin, board>> /\ ImageType(elf') /\ ImageType(bin')
      /\ ImageType(board')
  BY Types DEF Objdump, ImageType
<1>2. Typed(asm')
  <2>1. Listing \in Seq(Line) /\ << >> \in Seq(Line)
    BY EmptySeq, ProjectAssumption
  <2>2. asm' = [asm EXCEPT ![OUTPUT] = Listing] \/ asm' = [asm EXCEPT ![OUTPUT] = << >>]
    BY DEF Objdump
  <2> QED  BY <2>1, <2>2, Types DEF Typed
<1>3. CASE Go("objdump", IF command \in {"run", "secure-run"} THEN "flash" ELSE "done")
  <2>1. CASE command \in {"run", "secure-run"}
    <3>1. Go("objdump", "flash") /\ at = "objdump"
      BY <1>3, <2>1 DEF Go
    <3>2. /\ IF command \in Secure THEN Instruments(elf') ELSE elf' = PlainImage
          /\ DOMAIN elf' \subseteq AsmFiles /\ bin' = elf'
      BY <1>1, <3>1, ImageFacts DEF ImageSteps
    <3> QED  BY <1>1, <1>2, <2>1, <3>1, <3>2, ImageStep DEF ImageSteps
  <2>2. CASE command \notin {"run", "secure-run"}
    <3>1. Go("objdump", "done") /\ "done" \in Ended
      BY <1>3, <2>2 DEF Ended
    <3> QED  BY <1>1, <1>2, <3>1, LeaveStep
  <2> QED  BY <2>1, <2>2
<1>4. CASE Fail("objdump")
  BY <1>1, <1>2, <1>4, FailIsGo, LeaveStep
<1> QED  BY <1>3, <1>4 DEF Objdump

\* The image is written to the board, or half of it.
LEMMA FlashStep ==
    ASSUME BuildInv, Flash
    PROVE  BuildInv'
<1>1. UNCHANGED <<asm, elf, bin>> /\ Typed(asm') /\ ImageType(elf') /\ ImageType(bin')
  BY Types DEF Flash, toolsExtra, Typed, ImageType
<1>2. CASE Go("flash", "monitor") /\ board' = bin
  <2>1. at = "flash" /\ ImageType(board')
    BY <1>2, Types DEF Go, ImageType
  <2>2. /\ IF command \in Secure THEN Instruments(elf') ELSE elf' = PlainImage
        /\ DOMAIN elf' \subseteq AsmFiles /\ bin' = elf'
        /\ command \in {"run", "secure-run"}
    BY <1>1, <2>1, ImageFacts DEF ImageSteps
  <2> QED  BY <1>1, <1>2, <2>1, <2>2, ImageStep DEF ImageSteps
<1>3. CASE Fail("flash") /\ board' \in {board, Broken}
  <2>1. ImageType(board')
    BY <1>3, Types DEF ImageType
  <2> QED  BY <1>1, <1>3, <2>1, FailIsGo, LeaveStep
<1> QED  BY <1>2, <1>3 DEF Flash

\* The command ends with the serial monitor; nothing of the build changes.
LEMMA MonitorStep ==
    ASSUME BuildInv, Monitor
    PROVE  BuildInv'
<1>1. Go("monitor", "done") /\ UNCHANGED <<asm, elf, bin, board>> /\ "done" \in Ended
  BY DEF Monitor, toolsExtra, Ended
<1>2. Typed(asm') /\ ImageType(elf') /\ ImageType(bin') /\ ImageType(board')
  BY <1>1, Types DEF Typed, ImageType
<1> QED  BY <1>1, <1>2, LeaveStep

\* Every step of the build preserves BuildInv.
LEMMA BuildNext ==
    ASSUME BuildInv, [Next]_vars
    PROVE  BuildInv'
<1>1. CASE UNCHANGED vars
  <2>1. UNCHANGED <<source, asm, elf, bin, board, command, at, files, k, i, pass, commands>>
    BY <1>1 DEF vars, toolsExtra, process
  <2>2. /\ Functions' = Functions /\ PlainImage' = PlainImage /\ Present' = Present
        /\ InFile' = InFile /\ Lines' = Lines /\ Instruments(elf)' = Instruments(elf)
    BY <2>1 DEF Functions, LinesOf, PlainImage, Present, InFile, Lines, Instruments
  <2> QED
    BY <2>1, <2>2 DEF BuildInv, TypeOK, ProcessInv, FilesInv, Project
<1>2. CASE Next
  BY <1>2, StartStep, EditStep, ClearStep, RetrieveStep, CompileStep,
     InstrumentLineStep, WriteFileStep, InstrumentFailsStep, InstrumentedStep,
     LinkStep, MkbinStep, ObjdumpStep, FlashStep, MonitorStep DEF Next
<1> QED  BY <1>1, <1>2

\* The files, the process and the images keep what they must, whatever fails and
\* whoever interrupts.
THEOREM Chain == Spec => []BuildInv
<1>1. Init => BuildInv
  BY InitStep
<1>2. BuildInv /\ [Next]_vars => BuildInv'
  BY BuildNext
<1> QED  BY <1>1, <1>2, PTL DEF Spec

\* Files, process and images keep their types, and only functions of the program
\* are ever taken for leaves.
THEOREM TypeCorrect == Spec => []TypeOK
<1>1. BuildInv => TypeOK
  BY DEF BuildInv
<1> QED  BY <1>1, Chain, PTL

\* The pass only ever inserts checks: what it has written and what it has not yet
\* reached hold the compiler's lines, in their order.
THEOREM InsertsOnly == Spec => []OnlyInserts
<1>1. BuildInv => OnlyInserts
  BY DEF BuildInv, FilesInv, OnlyInserts
<1> QED  BY <1>1, Chain, PTL

-----------------------------------------------------------------------------
\* Functions and their bodies

\* Each function of the program has its label in a file of usercode/.
LEMMA FunctionLabel ==
    ASSUME Project(source), NEW f \in Functions
    PROVE  \E n \in DOMAIN source : \E a \in DOMAIN source[n] : source[n][a] = Label(f)
<1>6. PICK n \in DOMAIN source :
         \E l \in Range(source[n]) : Matches(l, "label") /\ l.name = f
  BY DEF Functions, LinesOf
<1>1. PICK l \in Range(source[n]) : Matches(l, "label") /\ l.name = f
  BY <1>6
<1>2. PICK a \in DOMAIN source[n] : source[n][a] = l
  BY DEF Range
<1>3. source[n] \in Seq(Line) /\ a \in 1 .. Len(source[n])
  BY SourceFacts, LenProperties
<1>4. l \in Line
  BY <1>2, <1>3, ElementOfSeq
<1>5. l = Label(f)
  BY <1>1, <1>4 DEF Line, Matches, Label
<1> QED  BY <1>2, <1>5

\* The body stands in lines a to z of the file.
BodyAt(body, file, f, a, z) ==
    /\ file[a] = Label(f) /\ a <= z
    /\ \A m \in a + 1 .. z : ~Matches(file[m], "label")
    /\ z = Len(file) \/ Matches(file[z + 1], "label")
    /\ body \in Seq(Line) /\ Len(body) = z - a + 1
    /\ \A m \in 1 .. z - a + 1 : body[m] = file[a + m - 1]

\* The body of a function is the part of a file from its label to the next one.
LEMMA BodyFacts ==
    ASSUME NEW image, NEW f, \A n \in DOMAIN image : image[n] \in Seq(Line),
           \E n \in DOMAIN image : \E a \in DOMAIN image[n] : image[n][a] = Label(f)
    PROVE  \E n \in DOMAIN image : \E a, z \in 1 .. Len(image[n]) :
             BodyAt(Body(image, f), image[n], f, a, z)
<1> DEFINE n      == CHOOSE n_1 \in DOMAIN image : Label(f) \in Range(image[n_1])
           file   == image[n]
           a      == CHOOSE j \in DOMAIN file : file[j] = Label(f)
           labels == {j \in DOMAIN file : j > a /\ Matches(file[j], "label")}
           z      == IF labels = {} THEN Len(file) ELSE Min(labels) - 1
<1>1. n \in DOMAIN image /\ Label(f) \in Range(file)
  BY DEF Range
<1>2. Body(image, f) = SubSeq(file, a, z)
  BY DEF Body
<1> HIDE DEF n
<1>3. /\ file \in Seq(Line) /\ DOMAIN file = 1 .. Len(file) /\ Len(file) \in Nat
  BY <1>1, LenProperties
<1>4. a \in DOMAIN file /\ file[a] = Label(f)
  BY <1>1 DEF Range
<1> HIDE DEF a, file
<1>5. labels \subseteq Nat
  BY <1>3
<1>6. labels # {} => Min(labels) \in labels /\ \A y \in labels : Min(labels) <= y
  <2> HIDE DEF labels
  <2> QED  BY <1>5, MinProperties
<1>7. z \in Nat /\ a <= z /\ z <= Len(file)
  BY <1>3, <1>4, <1>6
<1>13. z = Len(file) \/ Matches(file[z + 1], "label")
  BY <1>3, <1>4, <1>6
<1>8. ASSUME NEW m \in a + 1 .. z
      PROVE  ~Matches(file[m], "label")
  <2>1. m \in DOMAIN file /\ m > a /\ m <= z
    BY <1>3, <1>4, <1>7
  <2>2. CASE labels = {}
    BY <2>1, <2>2
  <2>3. CASE labels # {}
    <3>1. ~(Min(labels) <= m)
      BY <1>5, <1>6, <2>1, <2>3
    <3> QED  BY <1>6, <2>1, <2>3, <3>1
  <2> QED  BY <2>2, <2>3
<1> HIDE DEF z
<1>9. \A m \in a .. z : file[m] \in Line
  BY <1>3, <1>4, <1>7, ElementOfSeq
<1>10. /\ SubSeq(file, a, z) \in Seq(Line)
       /\ Len(SubSeq(file, a, z)) = z - a + 1
       /\ \A m \in 1 .. z - a + 1 : SubSeq(file, a, z)[m] = file[a + m - 1]
  <2>1. a \in Int /\ z \in Int
    BY <1>3, <1>4, <1>7
  <2> QED  BY <1>7, <1>9, <2>1, SubSeqProperties
<1>11. z \in 1 .. Len(file) /\ a \in 1 .. Len(file)
  BY <1>3, <1>4, <1>7
<1>12. BodyAt(Body(image, f), file, f, a, z)
  BY <1>2, <1>4, <1>7, <1>8, <1>10, <1>13 DEF BodyAt
<1> QED
  BY <1>1, <1>11, <1>12 DEF file

\* A function that is no leaf has a call between its label and the next one.
LEMMA SourceNonLeaf ==
    ASSUME Project(source), NEW f \in NonLeaves
    PROVE  \E n \in DOMAIN source : \E a, b \in 1 .. Len(source[n]) :
             /\ a < b /\ source[n][a] = Label(f) /\ Matches(source[n][b], "call")
             /\ \A m \in a + 1 .. b - 1 : ~Matches(source[n][m], "label")
<1>1. f \in Functions /\ ~TrueLeaf(f)
  BY DEF NonLeaves
<1>2. \A n \in DOMAIN source : source[n] \in Seq(Line)
  BY SourceFacts
<1>10. PICK n \in DOMAIN source : \E a, z \in 1 .. Len(source[n]) :
         BodyAt(Body(source, f), source[n], f, a, z)
  BY <1>1, <1>2, FunctionLabel, BodyFacts
<1>3. PICK a, z \in 1 .. Len(source[n]) : BodyAt(Body(source, f), source[n], f, a, z)
  BY <1>10
<1>4. PICK m \in DOMAIN Body(source, f) : Matches(Body(source, f)[m], "call")
  BY <1>1 DEF TrueLeaf, Range
<1>5. DOMAIN Body(source, f) = 1 .. z - a + 1 /\ Len(source[n]) \in Nat
  BY <1>2, <1>3, LenProperties DEF BodyAt
<1> DEFINE b == a + m - 1
<1>6. b \in 1 .. Len(source[n]) /\ b <= z /\ a <= b
  BY <1>3, <1>4, <1>5 DEF BodyAt
<1>7. Matches(source[n][b], "call")
  BY <1>3, <1>4, <1>5 DEF BodyAt
<1> HIDE DEF b
<1>8. a # b
  BY <1>3, <1>7 DEF BodyAt, Label, Matches
<1>9. a < b /\ \A x \in a + 1 .. b - 1 : x \in a + 1 .. z
  BY <1>3, <1>6, <1>8
<1> QED  BY <1>3, <1>6, <1>7, <1>9 DEF BodyAt

-----------------------------------------------------------------------------
\* is_leaf, while files are being rewritten

\* Lines of the compiler in a file with checks, by their numbers.
LEMMA KeptLine ==
    ASSUME NEW file \in Seq(Line), NEW j \in DOMAIN file,
           \E kind \in {"label", "call", "jr"} : Matches(file[j], kind)
    PROVE  j \in Kept(file)
BY DEF Kept, Matches, Checks

\* The first label or call behind the label decides, whatever checks stand in
\* between.
LEMMA ScanFirst ==
    ASSUME NEW file \in Seq(Line), NEW plain \in Seq(Line), Guards(file, plain), NEW f,
           NEW a \in 1 .. Len(plain), NEW b \in 1 .. Len(plain), a < b,
           plain[a] = Label(f), Matches(plain[b], "label") \/ Matches(plain[b], "call"),
           \A c \in 1 .. Len(plain) : plain[c] = Label(f) => c = a
    PROVE  \E c \in a + 1 .. b :
             /\ Matches(plain[c], "label") \/ Matches(plain[c], "call")
             /\ Scan(file, f) = IF Matches(plain[c], "label") THEN "leaf" ELSE "calls"
<1> DEFINE starts == {j \in DOMAIN file : file[j] = Label(f)}
           ends   == {j \in DOMAIN file :
                     /\ Matches(file[j], "label") \/ Matches(file[j], "call")
                     /\ j \notin starts /\ \E s \in starts : s < j}
<1>1. PICK e \in [1 .. Len(plain) -> Kept(file)] :
             /\ \A c, d \in 1 .. Len(plain) : c < d => e[c] < e[d]
             /\ \A c \in 1 .. Len(plain) : file[e[c]] = plain[c]
             /\ \A j \in Kept(file) : \E c \in 1 .. Len(plain) : e[c] = j
  <2>1. PICK e : Embeds(e, file, plain)
    BY Embedding
  <2> QED  BY <2>1, Zenon DEF Embeds
<1>2. /\ Kept(file) \subseteq DOMAIN file /\ DOMAIN file \subseteq Nat
      /\ \A c \in 1 .. Len(plain) : e[c] \in DOMAIN file /\ e[c] \in Nat
      /\ Len(plain) \in Nat
  <2>1. Kept(file) \subseteq DOMAIN file /\ DOMAIN file \subseteq Nat
    BY LenProperties DEF Kept
  <2>2. Len(plain) \in Nat /\ \A c \in 1 .. Len(plain) : e[c] \in Kept(file)
    BY <1>1, LenProperties
  <2> QED  BY <2>1, <2>2
<1>3. starts = {e[a]}
  <2>1. e[a] \in starts
    BY <1>1, <1>2
  <2>2. ASSUME NEW j \in starts PROVE j = e[a]
    <3>1. j \in Kept(file)
      BY KeptLine DEF Label, Matches
    <3> QED  BY <1>1, <3>1
  <2> QED  BY <2>1, <2>2
<1>4. e[b] \in ends
  <2>1. e[a] < e[b] /\ e[b] \in DOMAIN file /\ plain[b] = file[e[b]]
    BY <1>1, <1>2
  <2> QED  BY <1>2, <1>3, <2>1
<1> DEFINE m == Min(ends)
<1>5. m \in ends /\ m <= e[b]
  <2>1. ends \in SUBSET Nat /\ ends # {}
    BY <1>2, <1>4
  <2> HIDE DEF ends
  <2> QED  BY <1>4, <2>1, MinProperties
<1>6. /\ m \in DOMAIN file /\ m \in Nat /\ e[a] < m
      /\ Matches(file[m], "label") \/ Matches(file[m], "call")
  BY <1>2, <1>3, <1>5
<1> HIDE DEF m
<1>7. PICK c \in 1 .. Len(plain) : e[c] = m
  BY <1>1, <1>6, KeptLine
<1>8. c \in a + 1 .. b
  <2>1. ~(c < a) /\ ~(b < c) /\ c # a
    BY <1>1, <1>2, <1>5, <1>6, <1>7
  <2> QED  BY <2>1
<1>9. Scan(file, f) = IF ends = {} THEN "nothing"
                      ELSE IF Matches(file[m], "label") THEN "leaf" ELSE "calls"
  BY DEF Scan, Label, m
<1>10. plain[c] = file[m]
  BY <1>1, <1>7
<1> HIDE DEF ends
<1> QED  BY <1>4, <1>6, <1>8, <1>9, <1>10

\* A call before the next label is found.
LEMMA ScanCalls ==
    ASSUME NEW file \in Seq(Line), NEW plain \in Seq(Line), Guards(file, plain), NEW f,
           NEW a \in 1 .. Len(plain), NEW b \in 1 .. Len(plain), a < b,
           plain[a] = Label(f), Matches(plain[b], "call"),
           \A m \in a + 1 .. b - 1 : ~Matches(plain[m], "label"),
           \A c \in 1 .. Len(plain) : plain[c] = Label(f) => c = a
    PROVE  Scan(file, f) = "calls"
<1>1. PICK c \in a + 1 .. b :
        /\ Matches(plain[c], "label") \/ Matches(plain[c], "call")
        /\ Scan(file, f) = IF Matches(plain[c], "label") THEN "leaf" ELSE "calls"
  BY ScanFirst
<1>2. ~Matches(plain[c], "label")
  <2>1. CASE c = b
    BY <2>1 DEF Matches
  <2>2. CASE c # b
    <3>1. c \in a + 1 .. b - 1
      BY <1>1, <2>2, LenProperties
    <3> QED  BY <3>1
  <2> QED  BY <2>1, <2>2
<1> QED  BY <1>1, <1>2

\* A function up to a label, without a call, is seen to be a leaf.
LEMMA ScanLeaf ==
    ASSUME NEW file \in Seq(Line), NEW plain \in Seq(Line), Guards(file, plain), NEW f,
           NEW a \in 1 .. Len(plain), NEW b \in 1 .. Len(plain), a < b,
           plain[a] = Label(f), Matches(plain[b], "label"),
           \A m \in a + 1 .. b - 1 : ~Matches(plain[m], "call"),
           \A c \in 1 .. Len(plain) : plain[c] = Label(f) => c = a
    PROVE  Scan(file, f) = "leaf"
<1>1. PICK c \in a + 1 .. b :
        /\ Matches(plain[c], "label") \/ Matches(plain[c], "call")
        /\ Scan(file, f) = IF Matches(plain[c], "label") THEN "leaf" ELSE "calls"
  BY ScanFirst
<1>2. Matches(plain[c], "label")
  <2>1. CASE c = b
    BY <2>1
  <2>2. CASE c # b
    <3>1. c \in a + 1 .. b - 1
      BY <1>1, <2>2, LenProperties
    <3> QED  BY <1>1, <3>1
  <2> QED  BY <2>1, <2>2
<1> QED  BY <1>1, <1>2

\* A file without the label says nothing.
LEMMA ScanNothing ==
    ASSUME NEW file \in Seq(Line), NEW plain \in Seq(Line), Guards(file, plain), NEW f,
           \A c \in 1 .. Len(plain) : plain[c] # Label(f)
    PROVE  Scan(file, f) = "nothing"
<1>1. \A j \in DOMAIN file : file[j] # Label(f)
  BY LabelOnDisk, LenProperties DEF Label, Checks
<1>2. {j \in DOMAIN file : file[j] = [kind |-> "label", name |-> f]} = {}
  BY <1>1 DEF Label
<1> QED  BY <1>2 DEF Scan

\* The files of usercode/ by their numbers and lines, when each label is in one of
\* them only.
LEMMA OneLabel ==
    ASSUME Linkable, Project(source), source \in Projects \cup Edits,
           NEW f, NEW n \in DOMAIN source, NEW a \in 1 .. Len(source[n]),
           source[n][a] = Label(f)
    PROVE  /\ \A m \in DOMAIN source : \A c \in 1 .. Len(source[m]) :
                source[m][c] = Label(f) => m = n /\ c = a
           /\ \A j \in DOMAIN SystemLines :
                SystemLines[j] # Label(f) /\ SystemLines[j] # Call(f)
<1>1. \A m \in DOMAIN source : DOMAIN source[m] = 1 .. Len(source[m])
  BY SourceFacts, LenProperties
<1>2. Matches(source[n][a], "label") /\ source[n][a].name = f
  BY DEF Label, Matches
<1>3. /\ \A m \in DOMAIN source : \A c \in DOMAIN source[m] :
            source[m][c] = source[n][a] => m = n /\ c = a
      /\ {Label(f), Call(f)} \cap Range(SystemLines) = {}
  BY <1>1, <1>2 DEF Linkable
<1>4. ASSUME NEW m \in DOMAIN source, NEW c \in 1 .. Len(source[m]), source[m][c] = Label(f)
      PROVE  m = n /\ c = a
  BY <1>1, <1>3, <1>4, Zenon
<1>5. ASSUME NEW j \in DOMAIN SystemLines
      PROVE  SystemLines[j] # Label(f) /\ SystemLines[j] # Call(f)
  <2>1. SystemLines[j] \in Range(SystemLines)
    BY Zenon DEF Range
  <2> QED  BY <1>3, <2>1
<1> QED  BY <1>4, <1>5

\* Whatever files are written back already, is_leaf takes no function for a leaf
\* that is none.
LEMMA NonLeafFound ==
    ASSUME Linkable, BuildInv, InFile, NEW f \in NonLeaves
    PROVE  ~is_leaf(f, assembly_files)
<1>1. /\ Project(source) /\ source \in Projects \cup Edits
      /\ files \in SetToSeqs(DOMAIN source)
      /\ DOMAIN assembly_files = DOMAIN files
      /\ \A m \in DOMAIN source : source[m] \in Seq(Line)
  BY Types, DiskFacts, SourceFacts
<1>2. /\ \A m, n \in DOMAIN files : files[m] = files[n] => m = n
      /\ \A g \in DOMAIN source : \E n \in DOMAIN files : files[n] = g
      /\ DOMAIN files \subseteq Nat
      /\ DOMAIN files = 1 .. Len(files)
  BY <1>1, FilesFacts
<1>3. PICK g \in DOMAIN source : \E a, b \in 1 .. Len(source[g]) :
             /\ a < b /\ source[g][a] = Label(f) /\ Matches(source[g][b], "call")
             /\ \A m \in a + 1 .. b - 1 : ~Matches(source[g][m], "label")
  BY <1>1, SourceNonLeaf
<1>4. PICK a, b \in 1 .. Len(source[g]) :
             /\ a < b /\ source[g][a] = Label(f) /\ Matches(source[g][b], "call")
             /\ \A m \in a + 1 .. b - 1 : ~Matches(source[g][m], "label")
  BY <1>3
<1>5. \A m \in DOMAIN source : \A c \in 1 .. Len(source[m]) :
                source[m][c] = Label(f) => m = g /\ c = a
  BY <1>1, <1>4, OneLabel
<1>6. PICK n \in DOMAIN files : files[n] = g
  BY <1>2
<1>7. ASSUME NEW m \in DOMAIN files
      PROVE  /\ assembly_files[m] \in Seq(Line) /\ files[m] \in DOMAIN source
             /\ Guards(assembly_files[m], source[files[m]])
  BY DiskFacts
<1>8. Scan(assembly_files[n], f) = "calls"
  BY <1>1, <1>4, <1>5, <1>6, <1>7, ScanCalls
<1>9. ASSUME NEW m \in DOMAIN files, m # n
      PROVE  Scan(assembly_files[m], f) = "nothing"
  <2>1. \A c \in 1 .. Len(source[files[m]]) : source[files[m]][c] # Label(f)
    BY <1>2, <1>5, <1>6, <1>7, <1>9
  <2> QED  BY <1>1, <1>7, <2>1, ScanNothing
<1>10. ~(\E j \in 1 .. n - 1 : Scan(assembly_files[j], f) = "leaf")
  <2> SUFFICES ASSUME NEW j \in 1 .. n - 1 PROVE Scan(assembly_files[j], f) # "leaf"
    OBVIOUS
  <2>1. j \in DOMAIN files /\ j # n
    BY <1>1, <1>2, <1>6, FilesFacts, SMTT(60)
  <2> QED  BY <1>9, <2>1
<1> QED  BY <1>1, <1>8, <1>10 DEF is_leaf

-----------------------------------------------------------------------------
\* Every step keeps what is checked

\* The file with one more line, or with the line and its check.
Added(file, l, new) ==
    /\ new \in Seq(Line) /\ DOMAIN new = 1 .. Len(new) /\ DOMAIN file = 1 .. Len(file)
    /\ Len(file) \in Nat /\ Len(new) \in Nat /\ Len(file) < Len(new)
    /\ new[Len(new)] = l
    /\ \A j \in 1 .. Len(file) : new[j] = file[j]
    /\ \A j \in Len(file) + 1 .. Len(new) - 1 : new[j] = Check(l)
    /\ new = Append(Append(file, Check(l)), l) => Preceded(new, Len(new))
    /\ new = Append(file, l) => Len(new) = Len(file) + 1
    /\ Len(new) <= Len(file) + 2

\* Where the lines of such a file are.
LEMMA LineAdded ==
    ASSUME NEW file \in Seq(Line), NEW l \in SourceLine,
           NEW new \in {Append(file, l), Append(Append(file, Check(l)), l)}
    PROVE  Added(file, l, new)
<1>1. l \in Line /\ Check(l) \in Line
  BY DEF SourceLine, Check, Checks, Line
<1> DEFINE front == Append(file, Check(l))
<1>2. /\ front \in Seq(Line) /\ Len(front) = Len(file) + 1 /\ front[Len(file) + 1] = Check(l)
      /\ \A j \in 1 .. Len(file) : front[j] = file[j]
      /\ Len(file) \in Nat
  BY <1>1, AppendProperties, LenProperties
<1> HIDE DEF front
<1>3. CASE new = Append(file, l)
  <2>1. /\ new \in Seq(Line) /\ Len(new) = Len(file) + 1 /\ new[Len(file) + 1] = l
        /\ \A j \in 1 .. Len(file) : new[j] = file[j]
        /\ \A j \in 1 .. Len(file) : new[j] = file[j]
    BY <1>1, <1>3, AppendProperties
  <2>2. new # Append(front, l)
    <3>1. Len(Append(front, l)) = Len(file) + 2
      BY <1>1, <1>2, AppendProperties
    <3> QED  BY <1>2, <2>1, <3>1
  <2> QED  BY <1>2, <2>1, <2>2, LenProperties DEF front, Added
<1>4. CASE new = Append(front, l)
  <2>1. /\ new \in Seq(Line) /\ Len(new) = Len(file) + 2 /\ new[Len(file) + 2] = l
        /\ \A j \in 1 .. Len(file) + 1 : new[j] = front[j]
    BY <1>1, <1>2, <1>4, AppendProperties
  <2>2. Preceded(new, Len(new))
    BY <1>2, <2>1 DEF Preceded
  <2> QED  BY <1>2, <2>1, <2>2, LenProperties DEF Added
<1> QED  BY <1>3, <1>4 DEF front, Added

\* What function a line is in depends on the lines before it only; a check in
\* front of it changes nothing.
LEMMA InFunctionKept ==
    ASSUME NEW file \in Seq(Line), NEW new \in Seq(Line), NEW f, NEW l \in SourceLine,
           Len(file) < Len(new),
           \A j \in 1 .. Len(file) : new[j] = file[j],
           \A j \in Len(file) + 1 .. Len(new) - 1 : new[j] = Check(l)
    PROVE  /\ \A j \in 1 .. Len(file) + 1 : InFunction(new, f, j) => InFunction(file, f, j)
           /\ InFunction(new, f, Len(new)) => InFunction(file, f, Len(file) + 1)
<1>1. /\ DOMAIN new = 1 .. Len(new) /\ DOMAIN file = 1 .. Len(file)
      /\ Len(file) \in Nat /\ Len(new) \in Nat
  BY LenProperties
<1>2. ASSUME NEW j \in 1 .. Len(file) + 1, InFunction(new, f, j)
      PROVE  InFunction(file, f, j)
  <2>1. PICK a \in DOMAIN new :
             /\ a < j /\ new[a] = Label(f)
             /\ \A m \in a + 1 .. j - 1 : ~Matches(new[m], "label")
    BY <1>2 DEF InFunction
  <2>2. a \in 1 .. Len(file) /\ file[a] = Label(f)
    BY <1>1, <2>1
  <2>3. \A m \in a + 1 .. j - 1 : ~Matches(file[m], "label")
    <3>1. \A m \in a + 1 .. j - 1 : m \in 1 .. Len(file)
      BY <1>1, <2>2
    <3> QED  BY <2>1, <3>1
  <2> QED  BY <1>1, <2>1, <2>2, <2>3 DEF InFunction
<1>3. ASSUME InFunction(new, f, Len(new))
      PROVE  InFunction(file, f, Len(file) + 1)
  <2>1. PICK a \in DOMAIN new :
             /\ a < Len(new) /\ new[a] = Label(f)
             /\ \A m \in a + 1 .. Len(new) - 1 : ~Matches(new[m], "label")
    BY <1>3 DEF InFunction
  <2>2. a \in 1 .. Len(file)
    <3> SUFFICES ASSUME a \in Len(file) + 1 .. Len(new) - 1 PROVE FALSE
      BY <1>1, <2>1
    <3>1. Label(f) = Check(l)
      BY <2>1
    <3> QED  BY <3>1 DEF Label, Check
  <2>3. \A m \in a + 1 .. (Len(file) + 1) - 1 :
             m \in 1 .. Len(file) /\ m \in a + 1 .. Len(new) - 1
    BY <1>1, <2>2
  <2>4. a \in DOMAIN file /\ a < Len(file) + 1 /\ file[a] = Label(f)
    BY <1>1, <2>1, <2>2
  <2>5. \A m \in a + 1 .. (Len(file) + 1) - 1 : ~Matches(file[m], "label")
    BY <2>1, <2>3
  <2> QED  BY <2>4, <2>5 DEF InFunction
<1> QED  BY <1>2, <1>3

\* One line of the pass: the calls of non-leaves and their returns get a check.
LEMMA FileCheckedMore ==
    ASSUME NEW file \in Seq(Line), NEW l \in SourceLine,
           NEW new \in {Append(file, l), Append(Append(file, Check(l)), l)},
           FileChecked(file),
           \A f \in NonLeaves :
              l = Call(f) \/ (l = Return /\ InFunction(file, f, Len(file) + 1))
              => new = Append(Append(file, Check(l)), l)
    PROVE  FileChecked(new)
<1>1. /\ new \in Seq(Line) /\ DOMAIN new = 1 .. Len(new) /\ DOMAIN file = 1 .. Len(file)
      /\ Len(file) \in Nat /\ Len(new) \in Nat /\ Len(file) < Len(new)
      /\ new[Len(new)] = l
      /\ \A j \in 1 .. Len(file) : new[j] = file[j]
      /\ \A j \in Len(file) + 1 .. Len(new) - 1 : new[j] = Check(l)
      /\ new = Append(Append(file, Check(l)), l) => Preceded(new, Len(new))
  <2>1. Added(file, l, new)
    BY LineAdded
  <2> QED  BY <2>1 DEF Added
<1> SUFFICES ASSUME NEW f \in NonLeaves, NEW j \in DOMAIN new,
                    new[j] = Call(f) \/ (new[j] = Return /\ InFunction(new, f, j))
             PROVE  Preceded(new, j)
  BY DEF FileChecked
<1>6. /\ \A m \in 1 .. Len(file) + 1 : InFunction(new, f, m) => InFunction(file, f, m)
      /\ InFunction(new, f, Len(new)) => InFunction(file, f, Len(file) + 1)
  BY <1>1, InFunctionKept
<1>7. Len(file) \in Nat /\ Len(new) \in Nat /\ Len(file) < Len(new) /\ j \in 1 .. Len(new)
  BY <1>1
<1>2. CASE j \in 1 .. Len(file)
  <2>1. new[j] = file[j] /\ (InFunction(new, f, j) => InFunction(file, f, j))
    <3>1. new[j] = file[j]
      BY <1>1, <1>2
    <3>2. j \in 1 .. Len(file) + 1
      BY <1>2, <1>7
    <3> QED  BY <1>6, <3>1, <3>2
  <2>2. j > 1 /\ file[j - 1] = Check(file[j])
    BY <1>1, <1>2, <2>1 DEF FileChecked, Preceded
  <2>3. new[j - 1] = file[j - 1]
    <3>1. j - 1 \in 1 .. Len(file)
      BY <1>2, <1>7, <2>2
    <3> QED  BY <1>1, <3>1
  <2> QED  BY <2>1, <2>2, <2>3 DEF Preceded
<1>3. CASE j \in Len(file) + 1 .. Len(new) - 1
  <2>1. new[j] = Check(l)
    BY <1>1, <1>3
  <2> QED  BY <2>1 DEF Check, Call, Return
<1>4. CASE j = Len(new)
  BY <1>1, <1>4, <1>6
<1>5. j \in 1 .. Len(file) \/ j \in Len(file) + 1 .. Len(new) - 1 \/ j = Len(new)
  BY <1>7
<1> QED  BY <1>2, <1>3, <1>4, <1>5

\* A file without lines has nothing to check.
LEMMA FileCheckedEmpty ==
    /\ FileChecked(<< >>)
    /\ \A f : ~InFunction(<< >>, f, 1)
<1>1. DOMAIN << >> = {}
  BY EmptySeq, LenProperties
<1> QED  BY <1>1 DEF FileChecked, InFunction

\* Before the pass and after the process has ended there is nothing to keep.
LEMMA NothingToCheck ==
    ASSUME BuildInv', at' \in Ended \cup {"clear", "retrieve", "compile"}
    PROVE  CheckInv'
<1>1. pass' = PassStart({})
  BY DEF BuildInv, ProcessInv
<1>2. pass'.leaf_functions = {}
  BY <1>1, StartFacts
<1> QED  BY <1>2 DEF CheckInv, InFile, Ended, ImageSteps

\* The pass is over its last file, or never began, and the image stays.
LEMMA NothingChanged ==
    ASSUME BuildInv, CheckInv, UNCHANGED <<source, asm, elf, files, k, pass>>,
           InFile' => InFile,
           at' = "instrument" \/ (at' = "link" /\ command' \in Secure) =>
             at = "instrument" \/ (at = "link" /\ command \in Secure),
           at' \in ImageSteps /\ command' \in Secure => ChecksNonLeaves(elf)
    PROVE  CheckInv'
<1>1. Functions' = Functions /\ NonLeaves' = NonLeaves
  BY DEF Functions, LinesOf, NonLeaves, TrueLeaf, Body
<1>2. ChecksNonLeaves(elf)' <=> ChecksNonLeaves(elf)
  BY <1>1 DEF ChecksNonLeaves, TrueLeaf
<1>3. \A file : FileChecked(file)' <=> FileChecked(file)
  BY <1>1 DEF FileChecked
<1>4. /\ pass'.leaf_functions \cap NonLeaves' = {}
      /\ InFile' =>
         /\ FileChecked(pass.new_lines)'
         /\ \A f \in Functions' :
              InFunction(pass'.new_lines, f, Len(pass'.new_lines) + 1)
              => pass'.curr_function = f
  BY <1>1, <1>3 DEF CheckInv, FileChecked
<1> QED  BY <1>1, <1>2, <1>3, <1>4 DEF CheckInv, FileChecked

\* The line the pass reads is checked if it must be.
LEMMA InstrumentLineChecks ==
    ASSUME Linkable, BuildInv, CheckInv, InstrumentLine
    PROVE  CheckInv'
<1> DEFINE line == Lines[i + 1]
           file == pass.new_lines
           new  == pass'.new_lines
           checked == Append(Append(file, Check(line)), line)
<1>1. /\ InFile /\ i < Len(Lines)
      /\ pass' = PassLine(assembly_files, pass, line)
      /\ UNCHANGED <<source, asm, elf, bin, board, command, at, files, k>>
  BY DEF InstrumentLine, toolsExtra
<1>2. /\ Lines \in Seq(SourceLine) /\ i \in 0 .. Len(Lines) /\ Len(Lines) \in Nat
      /\ file \in Seq(Line)
  BY <1>1, DiskFacts
<1>3. line \in SourceLine /\ line \in Line
  <2>1. i + 1 \in 1 .. Len(Lines)
    BY <1>1, <1>2
  <2> QED  BY <1>2, <2>1, ElementOfSeq DEF SourceLine
<1> HIDE DEF line
<1>16. Passed(assembly_files, pass, line, pass')
  BY <1>1, <1>2, <1>3, PassLineFacts
<1>4. /\ new \in {Append(file, line), checked} /\ new \in Seq(Line)
      /\ Asked(line) /\ ~is_leaf(line.name, assembly_files) => new = checked
      /\ Matches(line, "jr") /\ pass'.curr_function \notin pass'.leaf_functions
         => new = checked
  BY <1>16 DEF Passed
<1>5. /\ pass'.curr_function = IF Matches(line, "label") THEN line.name
                               ELSE pass.curr_function
      /\ pass'.leaf_functions = pass.leaf_functions \cup
           IF Asked(line) THEN Remembered(line.name, assembly_files) ELSE {}
  BY <1>16 DEF Passed
<1>6. \A f \in NonLeaves : ~is_leaf(f, assembly_files)
  BY <1>1, NonLeafFound
<1>7. pass'.leaf_functions \cap NonLeaves = {}
  BY <1>5, <1>6 DEF CheckInv, Remembered
<1>8. /\ FileChecked(file)
      /\ \A f \in Functions :
           InFunction(file, f, Len(file) + 1) => pass.curr_function = f
      /\ \A n \in DOMAIN files : n < k => FileChecked(asm[files[n]])
      /\ at = "instrument"
  BY <1>1 DEF CheckInv, InFile
<1> HIDE DEF file, new, checked
<1>9. ASSUME NEW f \in NonLeaves,
             line = Call(f) \/ (line = Return /\ InFunction(file, f, Len(file) + 1))
      PROVE  new = checked
  <2>1. CASE line = Call(f)
    <3>1. Asked(line) /\ line.name = f
      BY <2>1 DEF Asked, Call, Matches, NonLeaves
    <3> QED  BY <1>4, <1>6, <3>1
  <2>2. CASE line = Return /\ InFunction(file, f, Len(file) + 1)
    <3>1. pass'.curr_function = f /\ Matches(line, "jr")
      BY <1>5, <1>8, <2>2 DEF NonLeaves, Return, Matches
    <3> QED  BY <1>4, <1>7, <3>1
  <2> QED  BY <1>9, <2>1, <2>2
<1>10. FileChecked(new)
  BY <1>2, <1>3, <1>4, <1>8, <1>9, FileCheckedMore DEF checked, file
<1>11. ASSUME NEW f \in Functions, InFunction(new, f, Len(new) + 1)
       PROVE  pass'.curr_function = f
  <2>1. /\ DOMAIN new = 1 .. Len(new) /\ Len(file) \in Nat /\ Len(new) \in Nat
        /\ Len(file) < Len(new) /\ new[Len(new)] = line
        /\ InFunction(new, f, Len(new)) => InFunction(file, f, Len(file) + 1)
    <3>1. /\ new \in Seq(Line) /\ DOMAIN new = 1 .. Len(new) /\ DOMAIN file = 1 .. Len(file)
          /\ Len(file) \in Nat /\ Len(new) \in Nat /\ Len(file) < Len(new)
          /\ new[Len(new)] = line
          /\ \A j \in 1 .. Len(file) : new[j] = file[j]
          /\ \A j \in Len(file) + 1 .. Len(new) - 1 : new[j] = Check(line)
      <4>1. file \in Seq(Line) /\ new \in {Append(file, line),
                                           Append(Append(file, Check(line)), line)}
        BY <1>2, <1>4 DEF checked, file
      <4>2. Added(file, line, new)
        BY <1>3, <4>1, LineAdded
      <4> QED  BY <4>2 DEF Added
    <3>2. InFunction(new, f, Len(new)) => InFunction(file, f, Len(file) + 1)
      BY <1>2, <1>3, <3>1, InFunctionKept DEF file
    <3> QED  BY <3>1, <3>2
  <2>2. PICK a \in 1 .. Len(new) :
          /\ a < Len(new) + 1 /\ new[a] = Label(f)
          /\ \A m \in a + 1 .. (Len(new) + 1) - 1 : ~Matches(new[m], "label")
    BY <1>11, <2>1 DEF InFunction
  <2>3. CASE a = Len(new)
    BY <1>5, <2>1, <2>2, <2>3 DEF Label, Matches
  <2>4. CASE a < Len(new)
    <3>1. /\ \A m \in a + 1 .. Len(new) - 1 : ~Matches(new[m], "label")
          /\ ~Matches(new[Len(new)], "label")
      <4>1. \A m \in a + 1 .. Len(new) : ~Matches(new[m], "label")
        BY <2>1, <2>2
      <4>2. Len(new) \in a + 1 .. Len(new)
           /\ \A m \in a + 1 .. Len(new) - 1 : m \in a + 1 .. Len(new)
        BY <2>1, <2>2, <2>4
      <4> QED  BY <4>1, <4>2
    <3>2. InFunction(new, f, Len(new))
      BY <2>1, <2>2, <2>4, <3>1 DEF InFunction
    <3> QED  BY <1>5, <1>8, <2>1, <3>1, <3>2
  <2>5. a = Len(new) \/ a < Len(new)
    <3>1. Len(new) \in Nat
      BY <2>1
    <3> QED  BY <3>1
  <2> QED  BY <2>3, <2>4, <2>5
<1>12. Functions' = Functions /\ NonLeaves' = NonLeaves
  BY <1>1 DEF Functions, LinesOf, NonLeaves, TrueLeaf, Body
<1>13. at' \notin ImageSteps /\ at' # "link"
  BY <1>1, <1>8 DEF ImageSteps
<1>14. \A n \in DOMAIN files : n < k => FileChecked(asm[files[n]])'
  BY <1>1, <1>8, <1>12 DEF FileChecked
<1>15. InFile' =>
         /\ FileChecked(pass.new_lines)'
         /\ \A f \in Functions' :
              InFunction(pass'.new_lines, f, Len(pass'.new_lines) + 1)
              => pass'.curr_function = f
  BY <1>10, <1>11, <1>12 DEF FileChecked, new
<1> QED  BY <1>1, <1>7, <1>12, <1>13, <1>14, <1>15 DEF CheckInv

\* The file that is written back is checked, and the files before it stay.
LEMMA WriteFileChecks ==
    ASSUME BuildInv, CheckInv, WriteFile
    PROVE  CheckInv'
<1>1. /\ InFile /\ at = "instrument"
      /\ asm' = [asm EXCEPT ![files[k]] = pass.new_lines]
      /\ k' = k + 1 /\ pass' = PassStart(pass.leaf_functions)
      /\ UNCHANGED <<source, elf, bin, board, command, at, files>>
  BY DEF WriteFile, InFile
<1>2. /\ k \in 1 .. Len(files) /\ Len(files) \in Nat /\ DOMAIN files = 1 .. Len(files)
      /\ \A n \in DOMAIN files : files[n] \in AsmFiles
      /\ \A m, n \in DOMAIN files : files[m] = files[n] => m = n
  BY <1>1, DiskFacts, FilesFacts
<1>3. pass'.leaf_functions = pass.leaf_functions /\ pass'.new_lines = << >>
  BY <1>1 DEF PassStart
<1>4. Functions' = Functions /\ NonLeaves' = NonLeaves
  BY <1>1 DEF Functions, LinesOf, NonLeaves, TrueLeaf, Body
<1>5. ASSUME NEW n \in DOMAIN files, n < k + 1
      PROVE  FileChecked(asm'[files[n]])
  <2>1. DOMAIN asm = AsmFiles
    BY DEF BuildInv, TypeOK
  <2>2. CASE n = k
    <3>1. asm'[files[n]] = pass.new_lines
      BY <1>1, <1>2, <2>1, <2>2
    <3> QED  BY <1>1, <3>1 DEF CheckInv
  <2>3. CASE n # k
    <3>1. asm'[files[n]] = asm[files[n]] /\ n < k
      BY <1>1, <1>2, <1>5, <2>1, <2>3
    <3> QED  BY <1>1, <3>1 DEF CheckInv
  <2> QED  BY <2>2, <2>3
<1>6. /\ FileChecked(pass'.new_lines)
      /\ \A f : ~InFunction(pass'.new_lines, f, Len(pass'.new_lines) + 1)
  <2>1. Len(<< >>) + 1 = 1
    OBVIOUS
  <2> QED  BY <1>3, <2>1, FileCheckedEmpty
<1>7. at' \notin ImageSteps /\ at' # "link" /\ pass'.leaf_functions \cap NonLeaves' = {}
  BY <1>1, <1>3, <1>4 DEF ImageSteps, CheckInv
<1>8. \A n \in DOMAIN files' : n < k' => FileChecked(asm[files[n]])'
  BY <1>1, <1>4, <1>5 DEF FileChecked
<1>9. FileChecked(pass.new_lines)'
  BY <1>4, <1>6 DEF FileChecked
<1> QED  BY <1>6, <1>7, <1>8, <1>9 DEF CheckInv

\* The compiler's files have no checks yet and the pass knows no leaves.
LEMMA CompileChecks ==
    ASSUME BuildInv, CheckInv, BuildInv', Compile
    PROVE  CheckInv'
<1>1. CASE Go("compile", "instrument") /\ asm' = Compiled(DOMAIN PlainImage)
  <2>1. /\ at = "compile" /\ at' = "instrument"
        /\ UNCHANGED <<source, files, k, pass>>
    BY <1>1 DEF Go, Ended, process
  <2>2. k = 1 /\ pass = PassStart({})
    BY <2>1 DEF BuildInv, ProcessInv
  <2>3. pass'.leaf_functions = {} /\ pass'.new_lines = << >> /\ k' = 1
    BY <2>1, <2>2, StartFacts
  <2>4. /\ FileChecked(pass'.new_lines)
        /\ \A f : ~InFunction(pass'.new_lines, f, Len(pass'.new_lines) + 1)
    <3>1. Len(<< >>) + 1 = 1
      OBVIOUS
    <3> QED  BY <2>3, <3>1, FileCheckedEmpty
  <2>5. Functions' = Functions /\ NonLeaves' = NonLeaves
    BY <2>1 DEF Functions, LinesOf, NonLeaves, TrueLeaf, Body
  <2>6. FileChecked(pass.new_lines)'
    BY <2>4, <2>5 DEF FileChecked
  <2>7. \A n \in DOMAIN files' : ~(n < k')
    <3>1. files' \in SetToSeqs(DOMAIN source) /\ Project(source)
      BY <2>1, Types DEF BuildInv, ProcessInv, Listed
    <3>2. DOMAIN files' = 1 .. Len(files') /\ Len(files') \in Nat
      BY <3>1, FilesFacts
    <3> QED  BY <2>3, <3>2
  <2> QED  BY <2>1, <2>3, <2>4, <2>6, <2>7 DEF CheckInv, ImageSteps
<1>2. CASE Fail("compile")
  <2>1. at' \in Ended
    BY <1>2, FailIsGo DEF Go
  <2> QED  BY <2>1, NothingToCheck
<1> QED  BY <1>1, <1>2 DEF Compile

\* An image of the system and of checked files has its non-leaves checked.
LEMMA ImageChecked ==
    ASSUME Linkable, Project(source), source \in Projects \cup Edits,
           NEW image, Instruments(image),
           \A g \in DOMAIN source : image[g] \in Seq(Line) /\ FileChecked(image[g])
    PROVE  ChecksNonLeaves(image)
<1>1. /\ DOMAIN image = DOMAIN source \cup {System} /\ System \notin DOMAIN source
      /\ image[System] = SystemLines
      /\ \A g \in DOMAIN source : Guards(image[g], source[g]) /\ source[g] \in Seq(Line)
      /\ \A n \in DOMAIN image : image[n] \in Seq(Line)
  BY SourceFacts DEF Instruments
<1> SUFFICES ASSUME NEW f \in NonLeaves
             PROVE  Checked(image, Call(f)) /\ ReturnsChecked(image, f)
  BY DEF ChecksNonLeaves, NonLeaves
<1>2. PICK g \in DOMAIN source : \E a \in DOMAIN source[g] : source[g][a] = Label(f)
  BY FunctionLabel DEF NonLeaves
<1>3. PICK a \in 1 .. Len(source[g]) : source[g][a] = Label(f)
  BY <1>1, <1>2, LenProperties
<1>4. \A j \in DOMAIN SystemLines : SystemLines[j] # Label(f) /\ SystemLines[j] # Call(f)
  BY <1>3, OneLabel
<1>5. Checked(image, Call(f))
  <2> SUFFICES ASSUME NEW n \in DOMAIN image, NEW j \in DOMAIN image[n],
                      image[n][j] = Call(f)
               PROVE  j > 1 /\ image[n][j - 1] = Check(Call(f))
    BY DEF Checked
  <2>1. n \in DOMAIN source
    BY <1>1, <1>4
  <2>2. Preceded(image[n], j)
    BY <2>1 DEF FileChecked
  <2> QED  BY <2>2 DEF Preceded
<1>6. ReturnsChecked(image, f)
  <2>1. PICK e \in [1 .. Len(source[g]) -> Kept(image[g])] :
           \A b \in 1 .. Len(source[g]) : image[g][e[b]] = source[g][b]
    <3>1. PICK e : Embeds(e, image[g], source[g])
      BY <1>1, Embedding
    <3> QED  BY <3>1, Zenon DEF Embeds
  <2>2. e[a] \in DOMAIN image[g] /\ image[g][e[a]] = Label(f)
    BY <1>3, <2>1 DEF Kept
  <2>3. PICK n \in DOMAIN image : \E x, z \in 1 .. Len(image[n]) :
           BodyAt(Body(image, f), image[n], f, x, z)
    <3>1. \E n \in DOMAIN image : \E x \in DOMAIN image[n] : image[n][x] = Label(f)
      BY <1>1, <2>2
    <3> QED  BY <1>1, <3>1, BodyFacts
  <2>4. PICK x, z \in 1 .. Len(image[n]) : BodyAt(Body(image, f), image[n], f, x, z)
    BY <2>3
  <2> DEFINE body == Body(image, f)
             file == image[n]
  <2>5. /\ file[x] = Label(f) /\ x <= z
        /\ \A m \in x + 1 .. z : ~Matches(file[m], "label")
        /\ body \in Seq(Line) /\ Len(body) = z - x + 1
        /\ \A m \in 1 .. z - x + 1 : body[m] = file[x + m - 1]
    BY <2>4 DEF BodyAt
  <2>6. /\ file \in Seq(Line) /\ DOMAIN file = 1 .. Len(file) /\ Len(file) \in Nat
        /\ DOMAIN body = 1 .. z - x + 1
    BY <1>1, <2>5, LenProperties
  <2>7. n \in DOMAIN source /\ FileChecked(file)
    BY <1>1, <1>4, <2>5, <2>6
  <2> HIDE DEF body, file
  <2>8. ASSUME NEW j \in DOMAIN body, body[j] = Return
        PROVE  j > 1 /\ body[j - 1] = Check(Return)
    <3> DEFINE m == x + j - 1
    <3>1. /\ j \in 1 .. z - x + 1 /\ j \in Nat /\ x \in Nat /\ z \in Nat
          /\ x \in 1 .. Len(file)
      BY <2>6 DEF file
    <3>2. m \in 1 .. Len(file) /\ m <= z /\ x <= m /\ file[m] = Return
      <4>1. file[m] = Return
        BY <2>5, <2>8, <3>1
      <4> QED  BY <2>6, <3>1, <4>1 DEF file
    <3> HIDE DEF m
    <3>3. x # m
      BY <2>5, <3>2 DEF Label, Return
    <3>4. x < m /\ j > 1
      BY <3>1, <3>2, <3>3 DEF m
    <3>5. InFunction(file, f, m)
      <4>1. \A y \in x + 1 .. m - 1 : y \in x + 1 .. z
        BY <3>1, <3>2, <3>4
      <4>2. \A y \in x + 1 .. m - 1 : ~Matches(file[y], "label")
        BY <2>5, <4>1
      <4> QED  BY <2>5, <2>6, <3>1, <3>4, <4>2 DEF InFunction
    <3>6. file[m - 1] = Check(Return)
      BY <2>6, <2>7, <3>2, <3>5 DEF FileChecked, Preceded
    <3>7. j - 1 \in 1 .. z - x + 1 /\ x + (j - 1) - 1 = m - 1
      <4>1. j \in Int /\ x \in Int /\ z \in Int /\ j <= z - x + 1
        BY <3>1
      <4>2. j > 1
        BY <3>4
      <4> QED  BY <4>1, <4>2 DEF m
    <3>8. body[j - 1] = file[m - 1]
      BY <2>5, <3>7
    <3> QED  BY <3>4, <3>6, <3>8
  <2> QED  BY <2>8 DEF ReturnsChecked, Checked, body
<1> QED  BY <1>5, <1>6

\* What is linked after the pass has its non-leaves checked.
LEMMA LinkChecks ==
    ASSUME Linkable, BuildInv, CheckInv, BuildInv', Link
    PROVE  CheckInv'
<1>1. UNCHANGED <<asm, bin, board>>
  BY DEF Link
<1>2. CASE /\ Go("link", "mkbin")
           /\ elf' = IF command \in Secure THEN Restrict(asm, Present) ELSE PlainImage
  <2>1. /\ at = "link" /\ at' = "mkbin"
        /\ UNCHANGED <<source, command, files, k, pass>>
    BY <1>2 DEF Go, Ended, process
  <2>2. Functions' = Functions /\ NonLeaves' = NonLeaves
    BY <2>1 DEF Functions, LinesOf, NonLeaves, TrueLeaf, Body
  <2>3. command \in Secure => ChecksNonLeaves(elf')
    <3> SUFFICES ASSUME command \in Secure PROVE ChecksNonLeaves(elf')
      OBVIOUS
    <3>1. Instruments(elf')
      BY <1>2, <2>1, LinkedImage
    <3>2. /\ Project(source) /\ source \in Projects \cup Edits /\ k = Len(files) + 1
          /\ files \in SetToSeqs(DOMAIN source) /\ Present = DOMAIN PlainImage
      BY <2>1, Types DEF BuildInv, ProcessInv, FilesInv, Listed
    <3>3. ASSUME NEW g \in DOMAIN source
          PROVE  elf'[g] \in Seq(Line) /\ FileChecked(elf'[g])
      <4>1. PICK n \in DOMAIN files : files[n] = g
        BY <3>2, FilesFacts
      <4>2. n < k
        BY <3>2, FilesFacts
      <4>3. g \in Present /\ g \in AsmFiles /\ asm[g] # Missing
        BY <3>2, SourceFacts DEF Present
      <4>4. elf'[g] = asm[g]
        BY <1>2, <4>3 DEF Restrict
      <4>5. asm[g] \in Seq(Line)
        BY <4>3 DEF BuildInv, TypeOK
      <4> QED  BY <2>1, <4>1, <4>2, <4>4, <4>5 DEF CheckInv
    <3> QED  BY <3>1, <3>2, <3>3, ImageChecked
  <2>4. command \in Secure => ChecksNonLeaves(elf)'
    BY <2>2, <2>3 DEF ChecksNonLeaves, TrueLeaf, NonLeaves
  <2>5. pass'.leaf_functions \cap NonLeaves' = {}
    BY <2>1, <2>2 DEF CheckInv
  <2> QED  BY <2>1, <2>4, <2>5 DEF CheckInv, InFile, ImageSteps
<1>3. CASE Fail("link")
  <2>1. at' \in Ended
    BY <1>3, FailIsGo DEF Go
  <2> QED  BY <2>1, NothingToCheck
<1> QED  BY <1>2, <1>3 DEF Link

\* Where no file is read any more only the image counts.
LEMMA ImageStays ==
    ASSUME CheckInv, UNCHANGED <<source, pass, elf>>,
           at' \in ImageSteps \/ (at' = "link" /\ command' \notin Secure),
           at' \in ImageSteps /\ command' \in Secure => ChecksNonLeaves(elf)
    PROVE  CheckInv'
<1>1. Functions' = Functions /\ NonLeaves' = NonLeaves
  BY DEF Functions, LinesOf, NonLeaves, TrueLeaf, Body
<1>2. ChecksNonLeaves(elf)' <=> ChecksNonLeaves(elf)
  BY <1>1 DEF ChecksNonLeaves, TrueLeaf
<1>3. /\ ~InFile' /\ at' # "instrument"
      /\ at' = "link" => command' \notin Secure
  BY DEF InFile, ImageSteps
<1>4. pass'.leaf_functions \cap NonLeaves' = {}
  BY <1>1 DEF CheckInv
<1> QED  BY <1>2, <1>3, <1>4 DEF CheckInv

\* The other steps leave files, pass and image alone, or end the process.
LEMMA OtherChecks ==
    ASSUME BuildInv, CheckInv, BuildInv',
           \/ \E c \in Commands : Start(c)
           \/ Edit \/ clear \/ Retrieve \/ InstrumentFails \/ Instrumented
           \/ Mkbin \/ Objdump \/ Flash \/ Monitor
    PROVE  CheckInv'
<1>1. CASE at' \in Ended \cup {"clear", "retrieve", "compile"}
  BY <1>1, NothingToCheck
<1>2. CASE at' \notin Ended \cup {"clear", "retrieve", "compile"}
  <2>1. ~(\E c \in Commands : Start(c))
    BY <1>2 DEF Start
  <2>2. ASSUME Edit PROVE FALSE
    BY <1>2, <2>2 DEF Edit
  <2>3. ASSUME clear PROVE FALSE
    BY <1>2, <2>3 DEF clear, Fail, Go, AfterClear, Ended
  <2>4. ~InstrumentFails /\ ~Monitor
    BY <1>2 DEF InstrumentFails, Monitor, Fail, Go, Ended
  <2>5. ASSUME Retrieve PROVE CheckInv'
    <3>1. at' = "link" /\ command' \notin Secure /\ UNCHANGED <<source, pass, elf>>
      BY <1>2, <2>5 DEF Retrieve, toolsExtra
    <3> QED  BY <3>1, ImageStays DEF ImageSteps
  <2>6. ASSUME Instrumented PROVE CheckInv'
    <3>1. /\ UNCHANGED <<source, asm, elf, files, k, pass, command>>
          /\ at' = "link" /\ at = "instrument"
      BY <2>6 DEF Instrumented, Go, Ended, toolsExtra, process
    <3> QED  BY <3>1, NothingChanged DEF ImageSteps, InFile
  <2>7. ASSUME Mkbin \/ Objdump \/ Flash PROVE CheckInv'
    <3>1. /\ UNCHANGED <<source, elf, pass, command>>
          /\ at' \in ImageSteps /\ at \in ImageSteps
      <4>1. CASE Mkbin
        BY <1>2, <4>1 DEF Mkbin, Fail, Go, Ended, process, ImageSteps
      <4>2. CASE Objdump
        BY <1>2, <4>2 DEF Objdump, Fail, Go, Ended, process, ImageSteps
      <4>3. CASE Flash
        BY <1>2, <4>3 DEF Flash, Fail, Go, Ended, toolsExtra, process, ImageSteps
      <4> QED  BY <2>7, <4>1, <4>2, <4>3
    <3>2. command \in Secure => ChecksNonLeaves(elf)
      BY <3>1 DEF CheckInv
    <3> QED  BY <3>1, <3>2, ImageStays
  <2> QED  BY <2>1, <2>2, <2>3, <2>4, <2>5, <2>6, <2>7
<1> QED  BY <1>1, <1>2

\* Init: nothing is linked.
LEMMA InitChecks ==
    ASSUME Init
    PROVE  CheckInv
<1>1. at = "idle" /\ pass = PassStart({})
  BY DEF Init
<1>2. pass.leaf_functions = {}
  BY <1>1, StartFacts
<1> QED  BY <1>1, <1>2 DEF CheckInv, InFile, ImageSteps

\* Every step of the build preserves CheckInv.
LEMMA CheckNext ==
    ASSUME Linkable, BuildInv, CheckInv, [Next]_vars
    PROVE  BuildInv' /\ CheckInv'
<1>1. BuildInv'
  BY BuildNext
<1>2. CASE UNCHANGED vars
  <2>1. UNCHANGED <<source, asm, elf, command, at, files, k, pass>>
    BY <1>2 DEF vars, toolsExtra, process
  <2>2. /\ InFile' => InFile
        /\ at' \in ImageSteps /\ command' \in Secure => ChecksNonLeaves(elf)
    BY <2>1 DEF CheckInv, InFile
  <2>3. CheckInv'
    BY <2>1, <2>2, NothingChanged
  <2> QED  BY <1>1, <2>3
<1>3. CASE Next
  BY <1>1, <1>3, InstrumentLineChecks, WriteFileChecks, CompileChecks, LinkChecks,
     OtherChecks DEF Next
<1> QED  BY <1>1, <1>2, <1>3

\* In a program the linker accepts, each call of a function that is no leaf and each
\* of its returns is checked in what a secure command links, in every layout of the
\* files and every order in which os.listdir names them.
THEOREM ChecksPlaced ==
    ASSUME Linkable
    PROVE  Spec => []NonLeavesChecked
<1>1. Init => BuildInv /\ CheckInv
  BY InitStep, InitChecks
<1>2. (BuildInv /\ CheckInv) /\ [Next]_vars => (BuildInv /\ CheckInv)'
  BY CheckNext
<1>3. CheckInv => NonLeavesChecked
  BY DEF CheckInv, NonLeavesChecked, SecureLinked, ImageSteps
<1> QED  BY <1>1, <1>2, <1>3, PTL DEF Spec

\* The one step that writes the board to its end writes the image that was linked.
LEMMA FlashedImage ==
    ASSUME BuildInv, CheckInv, [Next]_vars, board' \notin {board, Broken}
    PROVE  IF command = "run" THEN board' = PlainImage
           ELSE command = "secure-run" /\ Instruments(board') /\ ChecksNonLeaves(board')
<1>1. Go("flash", "monitor") /\ board' = bin
  BY DEF Next, vars, Start, Edit, clear, Retrieve, Compile, InstrumentLine, WriteFile,
         InstrumentFails, Instrumented, Link, Mkbin, Objdump, Flash, Monitor, toolsExtra
<1>2. at = "flash" /\ at \in ImageSteps
  BY <1>1 DEF Go, ImageSteps
<1>3. /\ IF command \in Secure THEN Instruments(elf) ELSE elf = PlainImage
      /\ bin = elf /\ command \in {"run", "secure-run"}
  BY <1>2, ImageFacts
<1>4. command \in Secure => ChecksNonLeaves(elf)
  BY <1>2 DEF CheckInv
<1> QED  BY <1>1, <1>3, <1>4 DEF Secure

\* What is flashed is what the command promised for the sources as they are now,
\* whatever earlier commands left behind: the plain program, or the program with its
\* non-leaves checked and the system without any check.
THEOREM FlashesWhole ==
    ASSUME Linkable
    PROVE  Spec => FlashedWhole
<1>1. Init => BuildInv /\ CheckInv
  BY InitStep, InitChecks
<1>2. (BuildInv /\ CheckInv) /\ [Next]_vars => (BuildInv /\ CheckInv)'
  BY CheckNext
<1>3. BuildInv /\ CheckInv /\ [Next]_vars =>
        [board' \notin {board, Broken} =>
         IF command = "run" THEN board' = PlainImage
         ELSE command = "secure-run" /\ Instruments(board') /\ ChecksNonLeaves(board')]_vars
  BY FlashedImage
<1> QED  BY <1>1, <1>2, <1>3, PTL DEF Spec, FlashedWhole

-----------------------------------------------------------------------------
\* Pushes and pops: no call and no return of a leaf is checked

\* A leaf that is not the last function of its file ends at a label, with no call
\* before it.
LEMMA SourceLeaf ==
    ASSUME Linkable, Project(source), source \in Projects \cup Edits,
           NEW f \in PlacedLeaves
    PROVE  \E n \in DOMAIN source : \E a, b \in 1 .. Len(source[n]) :
             /\ a < b /\ source[n][a] = Label(f) /\ Matches(source[n][b], "label")
             /\ \A m \in a + 1 .. b - 1 : ~Matches(source[n][m], "call")
<1>1. f \in Functions /\ TrueLeaf(f) /\ LeafPlaced(f)
  BY DEF PlacedLeaves
<1>2. \A n \in DOMAIN source : source[n] \in Seq(Line)
  BY SourceFacts
<1>3. PICK n \in DOMAIN source : \E a, z \in 1 .. Len(source[n]) :
         BodyAt(Body(source, f), source[n], f, a, z)
  BY <1>1, <1>2, FunctionLabel, BodyFacts
<1>4. PICK a, z \in 1 .. Len(source[n]) : BodyAt(Body(source, f), source[n], f, a, z)
  BY <1>3
<1>5. /\ source[n][a] = Label(f) /\ a <= z
      /\ \A m \in a + 1 .. z : ~Matches(source[n][m], "label")
      /\ z = Len(source[n]) \/ Matches(source[n][z + 1], "label")
      /\ Len(Body(source, f)) = z - a + 1 /\ Body(source, f) \in Seq(Line)
      /\ \A m \in 1 .. z - a + 1 : Body(source, f)[m] = source[n][a + m - 1]
  BY <1>4 DEF BodyAt
<1>6. DOMAIN source[n] = 1 .. Len(source[n]) /\ Len(source[n]) \in Nat
  BY <1>2, LenProperties
<1>7. PICK g \in DOMAIN source : \E j, l \in DOMAIN source[g] :
         j < l /\ source[g][j] = Label(f) /\ Matches(source[g][l], "label")
  BY <1>1 DEF LeafPlaced
<1>8. PICK j, l \in DOMAIN source[g] :
         j < l /\ source[g][j] = Label(f) /\ Matches(source[g][l], "label")
  BY <1>7
<1>9. g = n /\ j = a
  <2>1. DOMAIN source[g] = 1 .. Len(source[g])
    BY <1>2, LenProperties
  <2> QED  BY <1>5, <1>8, <2>1, OneLabel
<1>10. z < Len(source[n])
  <2>1. z # Len(source[n])
    <3> SUFFICES ASSUME z = Len(source[n]) PROVE FALSE
      OBVIOUS
    <3>1. l \in a + 1 .. z
      BY <1>6, <1>8, <1>9
    <3> QED  BY <1>5, <1>8, <1>9, <3>1
  <2>2. z <= Len(source[n])
    OBVIOUS
  <2>3. z \in Int /\ Len(source[n]) \in Int
    BY <1>6
  <2> QED  BY <2>1, <2>2, <2>3
<1>11. z + 1 \in 1 .. Len(source[n]) /\ a < z + 1 /\ Matches(source[n][z + 1], "label")
  <2>1. Matches(source[n][z + 1], "label")
    BY <1>5, <1>6, <1>10
  <2>2. a <= z
    BY <1>5
  <2> QED  BY <1>6, <1>10, <2>1, <2>2
<1>12. ASSUME NEW m \in a + 1 .. (z + 1) - 1
       PROVE  ~Matches(source[n][m], "call")
  <2>1. m - a + 1 \in 1 .. z - a + 1 /\ a + (m - a + 1) - 1 = m
    BY <1>6
  <2>2. Body(source, f)[m - a + 1] = source[n][m]
    BY <1>5, <2>1
  <2>3. m - a + 1 \in DOMAIN Body(source, f)
    BY <1>5, <2>1, LenProperties
  <2> QED  BY <1>1, <2>2, <2>3 DEF TrueLeaf, Range
<1> QED  BY <1>5, <1>11, <1>12

\* A leaf that is placed so is remembered when a call of it is read.
LEMMA LeafFound ==
    ASSUME Linkable, BuildInv, InFile, NEW f \in PlacedLeaves
    PROVE  is_leaf(f, assembly_files) /\ f \in Remembered(f, assembly_files)
<1>1. /\ Project(source) /\ source \in Projects \cup Edits
      /\ files \in SetToSeqs(DOMAIN source)
      /\ DOMAIN assembly_files = DOMAIN files
      /\ \A m \in DOMAIN source : source[m] \in Seq(Line)
  BY Types, DiskFacts, SourceFacts
<1>2. /\ \A m, n \in DOMAIN files : files[m] = files[n] => m = n
      /\ \A g \in DOMAIN source : \E n \in DOMAIN files : files[n] = g
  BY <1>1, FilesFacts
<1>3. PICK g \in DOMAIN source : \E a, b \in 1 .. Len(source[g]) :
             /\ a < b /\ source[g][a] = Label(f) /\ Matches(source[g][b], "label")
             /\ \A m \in a + 1 .. b - 1 : ~Matches(source[g][m], "call")
  BY <1>1, SourceLeaf
<1>4. PICK a, b \in 1 .. Len(source[g]) :
             /\ a < b /\ source[g][a] = Label(f) /\ Matches(source[g][b], "label")
             /\ \A m \in a + 1 .. b - 1 : ~Matches(source[g][m], "call")
  BY <1>3
<1>5. \A m \in DOMAIN source : \A c \in 1 .. Len(source[m]) :
                source[m][c] = Label(f) => m = g /\ c = a
  BY <1>1, <1>4, OneLabel
<1>6. PICK n \in DOMAIN files : files[n] = g
  BY <1>2
<1>7. ASSUME NEW m \in DOMAIN files
      PROVE  /\ assembly_files[m] \in Seq(Line) /\ files[m] \in DOMAIN source
             /\ Guards(assembly_files[m], source[files[m]])
  BY DiskFacts
<1>8. Scan(assembly_files[n], f) = "leaf"
  BY <1>1, <1>4, <1>5, <1>6, <1>7, ScanLeaf
<1>9. ASSUME NEW m \in DOMAIN files
      PROVE  Scan(assembly_files[m], f) # "calls"
  <2>1. CASE m = n
    BY <1>8, <2>1
  <2>2. CASE m # n
    <3>1. \A c \in 1 .. Len(source[files[m]]) : source[files[m]][c] # Label(f)
      BY <1>2, <1>5, <1>6, <1>7, <2>2
    <3>2. Scan(assembly_files[m], f) = "nothing"
      BY <1>1, <1>7, <3>1, ScanNothing
    <3> QED  BY <3>2
  <2> QED  BY <2>1, <2>2
<1>10. is_leaf(f, assembly_files)
  BY <1>1, <1>9 DEF is_leaf
<1> QED  BY <1>1, <1>8, <1>10 DEF Remembered

\* A leaf whose label the pass has read has been called before, and is known.
LEMMA LeafKnown ==
    ASSUME Linkable, BuildInv, LeavesKnown, InFile, NEW f \in PlacedLeaves,
           InFunction(pass.new_lines, f, Len(pass.new_lines) + 1)
    PROVE  f \in pass.leaf_functions
<1> DEFINE file == pass.new_lines
           read == SubSeq(Lines, 1, i)
<1>1. /\ Project(source) /\ source \in Projects \cup Edits
      /\ files \in SetToSeqs(DOMAIN source)
      /\ k \in DOMAIN files /\ k \in Nat /\ i \in Nat
      /\ Lines = source[files[k]] /\ files[k] \in DOMAIN source
      /\ Lines \in Seq(Line) /\ Len(Lines) \in Nat /\ i \in 0 .. Len(Lines)
      /\ file \in Seq(Line) /\ Guards(file, read)
  BY Types, DiskFacts
<1>2. PICK a \in DOMAIN file : file[a] = Label(f)
  BY DEF InFunction
<1>3. /\ read \in Seq(Line) /\ Len(read) = i
      /\ \A m \in 1 .. i : read[m] = Lines[m]
  BY <1>1, SubSeqProperties, ElementOfSeq
<1> HIDE DEF file, read
<1>4. PICK b \in DOMAIN read : read[b] = Label(f)
  BY <1>1, <1>2, <1>3, LabelOnDisk DEF Label, Checks
<1>5. b \in 1 .. i /\ b \in 1 .. Len(Lines) /\ Lines[b] = Label(f)
  <2>1. DOMAIN read = 1 .. i
    BY <1>3, LenProperties
  <2> QED  BY <1>1, <1>3, <1>4, <2>1
<1>6. PICK m, n \in DOMAIN files :
        \E j \in DOMAIN source[files[m]], l \in DOMAIN source[files[n]] :
            /\ m < n \/ (m = n /\ j < l)
            /\ source[files[m]][j] = Call(f) /\ source[files[n]][l] = Label(f)
  BY DEF PlacedLeaves, LeafPlaced
<1>7. PICK j \in DOMAIN source[files[m]], l \in DOMAIN source[files[n]] :
            /\ m < n \/ (m = n /\ j < l)
            /\ source[files[m]][j] = Call(f) /\ source[files[n]][l] = Label(f)
  BY <1>6
<1>8. /\ DOMAIN files = 1 .. Len(files)
      /\ \A x, y \in DOMAIN files : files[x] = files[y] => x = y
      /\ \A x \in DOMAIN files : files[x] \in DOMAIN source
  BY <1>1, FilesFacts
<1>9. \A g \in DOMAIN source : DOMAIN source[g] = 1 .. Len(source[g]) /\ Len(source[g]) \in Nat
  BY <1>1, SourceFacts, LenProperties
<1>10. files[n] = files[k] /\ l = b
  <2>1. l \in 1 .. Len(source[files[n]])
    BY <1>8, <1>9
  <2> QED  BY <1>1, <1>5, <1>7, <1>8, <2>1, OneLabel
<1>11. n = k
  BY <1>1, <1>8, <1>10
<1>12. m < k \/ (m = k /\ j <= i)
  <2>1. j \in Nat /\ l \in Nat
    BY <1>8, <1>9
  <2> QED  BY <1>1, <1>5, <1>7, <1>10, <1>11, <2>1
<1> QED  BY <1>7, <1>12 DEF LeavesKnown

\* One line of the pass: neither calls nor returns of a leaf get a check.
LEMMA FileUncheckedMore ==
    ASSUME NEW file \in Seq(Line), NEW l \in SourceLine,
           NEW new \in {Append(file, l), Append(Append(file, Check(l)), l)},
           FileUnchecked(file),
           \A f \in PlacedLeaves :
              l = Call(f) \/ (~Matches(l, "call") /\ InFunction(file, f, Len(file) + 1))
              => new = Append(file, l)
    PROVE  FileUnchecked(new)
<1>1. /\ new \in Seq(Line) /\ DOMAIN new = 1 .. Len(new) /\ DOMAIN file = 1 .. Len(file)
      /\ Len(file) \in Nat /\ Len(new) \in Nat /\ Len(file) < Len(new)
      /\ new[Len(new)] = l
      /\ \A j \in 1 .. Len(file) : new[j] = file[j]
      /\ \A j \in Len(file) + 1 .. Len(new) - 1 : new[j] = Check(l)
      /\ new = Append(file, l) => Len(new) = Len(file) + 1
      /\ Len(new) <= Len(file) + 2
  <2>1. Added(file, l, new)
    BY LineAdded
  <2> QED  BY <2>1 DEF Added
<1> SUFFICES ASSUME NEW f \in PlacedLeaves, NEW j \in DOMAIN new
             PROVE  /\ new[j] # Check(Call(f))
                    /\ Matches(new[j], "ret_check") => ~InFunction(new, f, j)
  BY DEF FileUnchecked
<1>2. /\ \A m \in 1 .. Len(file) + 1 : InFunction(new, f, m) => InFunction(file, f, m)
      /\ InFunction(new, f, Len(new)) => InFunction(file, f, Len(file) + 1)
  BY <1>1, InFunctionKept
<1>3. /\ Len(file) \in Nat /\ Len(new) \in Nat /\ Len(file) < Len(new) /\ j \in 1 .. Len(new)
      /\ Len(new) <= Len(file) + 2
  BY <1>1
<1>4. CASE j \in 1 .. Len(file)
  <2>1. new[j] = file[j] /\ j \in DOMAIN file
    BY <1>1, <1>4
  <2>2. j \in 1 .. Len(file) + 1
    BY <1>3, <1>4
  <2>3. file[j] # Check(Call(f)) /\ (Matches(file[j], "ret_check") => ~InFunction(file, f, j))
    BY <2>1 DEF FileUnchecked
  <2> QED  BY <1>2, <2>1, <2>2, <2>3
<1>5. CASE j \in Len(file) + 1 .. Len(new) - 1
  <2>1. new[j] = Check(l)
    BY <1>1, <1>5
  <2>2. j = Len(file) + 1 /\ j \in 1 .. Len(file) + 1
    BY <1>3, <1>5
  <2>3. new # Append(file, l)
    <3>1. Len(new) # Len(file) + 1
      BY <1>3, <1>5
    <3> QED  BY <1>1, <3>1
  <2>4. l # Call(f) /\ (Matches(l, "call") \/ ~InFunction(file, f, Len(file) + 1))
    BY <2>3
  <2>5. Check(l) # Check(Call(f))
    <3>1. l \in Line
      BY DEF SourceLine
    <3> QED  BY <2>4, <3>1 DEF Check, Call, Matches, Line
  <2>6. Matches(Check(l), "ret_check") => ~Matches(l, "call")
    BY DEF Check, Matches
  <2> QED  BY <1>2, <2>1, <2>2, <2>4, <2>5, <2>6
<1>6. CASE j = Len(new)
  <2>1. l.kind \notin Checks /\ new[j] = l
    BY <1>1, <1>6 DEF SourceLine
  <2>2. Check(Call(f)).kind \in Checks
    BY DEF Check, Call, Matches, Checks
  <2>3. ~Matches(l, "ret_check")
    BY <2>1 DEF Checks, Matches
  <2> QED  BY <2>1, <2>2, <2>3
<1>7. j \in 1 .. Len(file) \/ j \in Len(file) + 1 .. Len(new) - 1 \/ j = Len(new)
  BY <1>3
<1> QED  BY <1>4, <1>5, <1>6, <1>7

\* A file without lines checks no leaf.
LEMMA FileUncheckedEmpty == FileUnchecked(<< >>)
<1>1. DOMAIN << >> = {}
  BY EmptySeq, LenProperties
<1> QED  BY <1>1 DEF FileUnchecked

\* The sources and the order of the files say which leaves are placed so.
LEMMA SameLeaves ==
    ASSUME UNCHANGED <<source, files>>
    PROVE  /\ Functions' = Functions /\ PlacedLeaves' = PlacedLeaves
           /\ \A file : FileUnchecked(file) => FileUnchecked(file)'
<1>1. Functions' = Functions
  BY DEF Functions, LinesOf
<1>2. \A f : TrueLeaf(f)' <=> TrueLeaf(f)
  BY DEF TrueLeaf, Body
<1>3. \A f : LeafPlaced(f)' <=> LeafPlaced(f)
  BY DEF LeafPlaced
<1>4. PlacedLeaves' = PlacedLeaves
  BY <1>1, <1>2, <1>3 DEF PlacedLeaves
<1> QED  BY <1>1, <1>4 DEF FileUnchecked

\* The line the pass reads is not checked where a leaf is called or returns.
LEMMA InstrumentLinePairs ==
    ASSUME Linkable, OwnNames, BuildInv, CheckInv, PairInv, InstrumentLine
    PROVE  PairInv'
<1> DEFINE line == Lines[i + 1]
           file == pass.new_lines
           new  == pass'.new_lines
           plain == Append(file, line)
<1>1. /\ InFile /\ i < Len(Lines) /\ i' = i + 1 /\ at = "instrument"
      /\ pass' = PassLine(assembly_files, pass, line)
      /\ UNCHANGED <<source, asm, elf, bin, board, command, at, files, k>>
  BY DEF InstrumentLine, toolsExtra, InFile
<1>2. /\ Lines \in Seq(SourceLine) /\ i \in 0 .. Len(Lines) /\ Len(Lines) \in Nat
      /\ file \in Seq(Line) /\ Lines = source[files[k]] /\ k \in DOMAIN files
      /\ Project(source) /\ source \in Projects \cup Edits /\ i \in Nat /\ k \in Nat
  BY <1>1, DiskFacts, Types
<1>3. line \in SourceLine /\ line \in Line
  <2>1. i + 1 \in 1 .. Len(Lines)
    BY <1>1, <1>2
  <2> QED  BY <1>2, <2>1, ElementOfSeq DEF SourceLine
<1>4. Passed(assembly_files, pass, line, pass')
  BY <1>1, <1>2, <1>3, PassLineFacts
<1>5. /\ new \in {plain, Append(Append(file, Check(line)), line)}
      /\ ~Matches(line, "jr") /\ ~(Asked(line) /\ ~is_leaf(line.name, assembly_files))
         => new = plain
      /\ Matches(line, "jr") /\ pass'.curr_function \in pass'.leaf_functions
         => new = plain
      /\ pass'.curr_function = IF Matches(line, "label") THEN line.name
                               ELSE pass.curr_function
      /\ pass'.leaf_functions = pass.leaf_functions \cup
           IF Asked(line) THEN Remembered(line.name, assembly_files) ELSE {}
  BY <1>4 DEF Passed
<1>6. \A f \in PlacedLeaves :
         is_leaf(f, assembly_files) /\ f \in Remembered(f, assembly_files)
  BY <1>1, LeafFound
<1>7. /\ FileUnchecked(file) /\ LeavesKnown
      /\ \A n \in DOMAIN files : n < k => FileUnchecked(asm[files[n]])
      /\ \A f \in Functions :
           InFunction(file, f, Len(file) + 1) => pass.curr_function = f
  BY <1>1 DEF PairInv, CheckInv
<1>8. \A f \in PlacedLeaves : f \in Functions /\ f \notin STD_C_FUNCS
  <2> SUFFICES ASSUME NEW f \in PlacedLeaves PROVE f \in Functions /\ f \notin STD_C_FUNCS
    OBVIOUS
  <2>1. f \in Functions
    BY DEF PlacedLeaves
  <2>2. PICK n \in DOMAIN source : \E a \in DOMAIN source[n] : source[n][a] = Label(f)
    BY <1>2, <2>1, FunctionLabel
  <2> QED  BY <1>2, <2>1, <2>2 DEF OwnNames, Label, Matches
<1> HIDE DEF line, file, new, plain
<1>9. ASSUME NEW f \in PlacedLeaves,
             line = Call(f) \/ (~Matches(line, "call") /\ InFunction(file, f, Len(file) + 1))
      PROVE  new = plain
  <2>1. CASE line = Call(f)
    <3>1. ~Matches(line, "jr") /\ line.name = f
      BY <2>1 DEF Call, Matches
    <3> QED  BY <1>5, <1>6, <3>1
  <2>2. CASE ~Matches(line, "call") /\ InFunction(file, f, Len(file) + 1)
    <3>1. ~Asked(line) /\ f \in pass.leaf_functions
      BY <1>1, <1>7, <2>2, LeafKnown DEF Asked, file
    <3>2. CASE Matches(line, "jr")
      <4>1. pass'.curr_function = f
        BY <1>5, <1>7, <1>8, <2>2, <3>2 DEF Matches
      <4> QED  BY <1>5, <3>1, <3>2, <4>1
    <3>3. CASE ~Matches(line, "jr")
      BY <1>5, <3>1, <3>3
    <3> QED  BY <3>2, <3>3
  <2> QED  BY <1>9, <2>1, <2>2
<1>10. FileUnchecked(new)
  BY <1>2, <1>3, <1>5, <1>7, <1>9, FileUncheckedMore DEF plain, file
<1>11. LeavesKnown'
  <2>1. ASSUME NEW f \in PlacedLeaves, NEW m \in DOMAIN files,
               NEW j \in DOMAIN source[files[m]],
               source[files[m]][j] = Call(f), m < k \/ (m = k /\ j <= i + 1)
        PROVE  f \in pass'.leaf_functions
    <3>1. CASE m < k \/ (m = k /\ j <= i)
      BY <1>5, <1>7, <2>1, <3>1 DEF LeavesKnown
    <3>2. CASE m = k /\ j = i + 1
      <4>1. line = Call(f)
        BY <1>2, <2>1, <3>2 DEF line
      <4>2. Asked(line) /\ line.name = f
        BY <1>8, <4>1 DEF Asked, Call, Matches
      <4> QED  BY <1>5, <1>6, <4>2
    <3>3. j \in Nat
      <4>1. Len(source[files[m]]) \in Nat /\ DOMAIN source[files[m]] = 1 .. Len(source[files[m]])
        BY <1>1, <1>2, DiskFacts, SourceFacts, LenProperties
      <4> QED  BY <4>1
    <3> QED  BY <1>2, <2>1, <3>1, <3>2, <3>3
  <2> QED  BY <1>1, <2>1, SameLeaves DEF LeavesKnown
<1>12. /\ FileUnchecked(pass.new_lines)'
       /\ \A n \in DOMAIN files' : n < k' => FileUnchecked(asm[files[n]])'
  <2>1. PlacedLeaves' = PlacedLeaves
    BY <1>1, SameLeaves
  <2>2. FileUnchecked(pass.new_lines)'
    BY <1>10, <2>1 DEF FileUnchecked, new
  <2>3. \A n \in DOMAIN files' : n < k' => FileUnchecked(asm[files[n]])'
    BY <1>1, <1>7, <2>1 DEF FileUnchecked
  <2> QED  BY <2>2, <2>3
<1>13. at' \notin ImageSteps /\ at' # "link" /\ at' = at
  BY <1>1 DEF ImageSteps
<1> QED  BY <1>11, <1>12, <1>13 DEF PairInv

\* Where no file is being read PairInv says nothing.
LEMMA NothingToPair ==
    ASSUME at' \in Ended \cup {"clear", "retrieve", "compile"}
    PROVE  PairInv'
BY DEF PairInv, InFile, Ended, ImageSteps

\* The pass is over its last file; nothing changes.
LEMMA PairsStay ==
    ASSUME PairInv, UNCHANGED <<source, asm, elf, files, k, i, pass, command>>,
           at' = at \/ (at = "instrument" /\ at' = "link")
    PROVE  PairInv'
<1>1. /\ PlacedLeaves' = PlacedLeaves
      /\ \A file : FileUnchecked(file) => FileUnchecked(file)'
  BY SameLeaves
<1>2. InFile' => FileUnchecked(pass.new_lines)'
  BY <1>1 DEF PairInv, InFile, FileUnchecked
<1>3. at' = "instrument" => LeavesKnown'
  BY <1>1 DEF PairInv, LeavesKnown
<1>4. at' = "instrument" \/ (at' = "link" /\ command' \in Secure) =>
         \A n \in DOMAIN files' : n < k' => FileUnchecked(asm[files[n]])'
  BY <1>1 DEF PairInv, FileUnchecked
<1>5. at' \in ImageSteps /\ command' \in Secure =>
         \A f \in PlacedLeaves' : CallsUnchecked(elf, f)' /\ ReturnsUnchecked(elf, f)'
  <2>1. \A f : /\ CallsUnchecked(elf, f)' <=> CallsUnchecked(elf, f)
              /\ ReturnsUnchecked(elf, f)' <=> ReturnsUnchecked(elf, f)
    BY DEF CallsUnchecked, ReturnsUnchecked, LinesOf, Body
  <2> QED  BY <1>1, <2>1 DEF PairInv, ImageSteps
<1> QED  BY <1>2, <1>3, <1>4, <1>5 DEF PairInv

\* Behind the pass only the image counts.
LEMMA ImagePairs ==
    ASSUME UNCHANGED <<source, elf, files>>,
           at' \in ImageSteps \/ (at' = "link" /\ command' \notin Secure),
           at' \in ImageSteps /\ command' \in Secure =>
             \A f \in PlacedLeaves : CallsUnchecked(elf, f) /\ ReturnsUnchecked(elf, f)
    PROVE  PairInv'
<1>1. PlacedLeaves' = PlacedLeaves
  BY SameLeaves
<1>2. /\ ~InFile' /\ at' # "instrument"
      /\ at' = "link" => command' \notin Secure
  BY DEF InFile, ImageSteps
<1>3. at' \in ImageSteps /\ command' \in Secure =>
         \A f \in PlacedLeaves' : CallsUnchecked(elf, f)' /\ ReturnsUnchecked(elf, f)'
  <2>1. \A f : /\ CallsUnchecked(elf, f)' <=> CallsUnchecked(elf, f)
              /\ ReturnsUnchecked(elf, f)' <=> ReturnsUnchecked(elf, f)
    BY DEF CallsUnchecked, ReturnsUnchecked, LinesOf, Body
  <2> QED  BY <1>1, <2>1
<1> QED  BY <1>2, <1>3 DEF PairInv

\* The file that is written back is unchecked where leaves are concerned.
LEMMA WriteFilePairs ==
    ASSUME BuildInv, PairInv, WriteFile
    PROVE  PairInv'
<1>1. /\ InFile /\ at = "instrument" /\ i = Len(Lines)
      /\ asm' = [asm EXCEPT ![files[k]] = pass.new_lines]
      /\ k' = k + 1 /\ i' = 0 /\ pass' = PassStart(pass.leaf_functions)
      /\ UNCHANGED <<source, elf, bin, board, command, at, files>>
  BY DEF WriteFile, InFile
<1>2. /\ Project(source) /\ k \in 1 .. Len(files) /\ Len(files) \in Nat
      /\ DOMAIN files = 1 .. Len(files) /\ Lines = source[files[k]]
      /\ Len(Lines) \in Nat
      /\ \A n \in DOMAIN files : files[n] \in AsmFiles /\ files[n] \in DOMAIN source
      /\ \A m, n \in DOMAIN files : files[m] = files[n] => m = n
  BY <1>1, DiskFacts, FilesFacts
<1>3. pass'.leaf_functions = pass.leaf_functions /\ pass'.new_lines = << >>
  BY <1>1 DEF PassStart
<1>4. PlacedLeaves' = PlacedLeaves
  BY <1>1, SameLeaves
<1>5. ASSUME NEW n \in DOMAIN files, n < k + 1
      PROVE  FileUnchecked(asm'[files[n]])
  <2>1. DOMAIN asm = AsmFiles
    BY DEF BuildInv, TypeOK
  <2>2. CASE n = k
    <3>1. asm'[files[n]] = pass.new_lines
      BY <1>1, <1>2, <2>1, <2>2
    <3> QED  BY <1>1, <3>1 DEF PairInv
  <2>3. CASE n # k
    <3>1. asm'[files[n]] = asm[files[n]] /\ n < k
      BY <1>1, <1>2, <1>5, <2>1, <2>3
    <3> QED  BY <1>1, <3>1 DEF PairInv
  <2> QED  BY <2>2, <2>3
<1>6. FileUnchecked(pass.new_lines)'
  BY <1>3, <1>4, FileUncheckedEmpty DEF FileUnchecked
<1>7. \A n \in DOMAIN files' : n < k' => FileUnchecked(asm[files[n]])'
  BY <1>1, <1>4, <1>5 DEF FileUnchecked
<1>8. LeavesKnown'
  <2>1. ASSUME NEW f \in PlacedLeaves, NEW m \in DOMAIN files,
               NEW j \in DOMAIN source[files[m]],
               source[files[m]][j] = Call(f), m < k + 1 \/ (m = k + 1 /\ j <= 0)
        PROVE  f \in pass.leaf_functions
    <3>1. /\ DOMAIN source[files[m]] = 1 .. Len(source[files[m]])
          /\ Len(source[files[m]]) \in Nat
      BY <1>2, SourceFacts, LenProperties
    <3>2. m < k \/ (m = k /\ j <= i)
      BY <1>1, <1>2, <2>1, <3>1
    <3> QED  BY <1>1, <2>1, <3>2 DEF PairInv, LeavesKnown
  <2> QED  BY <1>1, <1>3, <1>4, <2>1 DEF LeavesKnown
<1>9. at' \notin ImageSteps
  BY <1>1 DEF ImageSteps
<1> QED  BY <1>6, <1>7, <1>8, <1>9 DEF PairInv

\* The compiler's files are unchecked, and no line is read yet.
LEMMA CompilePairs ==
    ASSUME BuildInv, Compile
    PROVE  PairInv'
<1>1. CASE Go("compile", "instrument")
  <2>1. /\ at = "compile" /\ at' = "instrument"
        /\ UNCHANGED <<source, files, k, i, pass>>
    BY <1>1 DEF Go, Ended, process
  <2>2. k = 1 /\ i = 0 /\ pass = PassStart({})
    BY <2>1 DEF BuildInv, ProcessInv
  <2>3. pass'.new_lines = << >> /\ k' = 1 /\ i' = 0
    BY <2>1, <2>2, StartFacts
  <2>4. PlacedLeaves' = PlacedLeaves
    BY <2>1, SameLeaves
  <2>5. FileUnchecked(pass.new_lines)'
    BY <2>3, <2>4, FileUncheckedEmpty DEF FileUnchecked
  <2>6. /\ Project(source) /\ files \in SetToSeqs(DOMAIN source)
        /\ DOMAIN files = 1 .. Len(files) /\ Len(files) \in Nat
        /\ \A n \in DOMAIN files : files[n] \in DOMAIN source
    <3>1. Project(source) /\ files \in SetToSeqs(DOMAIN source)
      BY <2>1, Types DEF BuildInv, ProcessInv, Listed
    <3> QED  BY <3>1, FilesFacts
  <2>7. \A n \in DOMAIN files' : ~(n < k')
    BY <2>1, <2>3, <2>6
  <2>8. LeavesKnown'
    <3>1. ASSUME NEW m \in DOMAIN files, NEW j \in DOMAIN source[files[m]]
          PROVE  ~(m < 1 \/ (m = 1 /\ j <= 0))
      <4>1. /\ DOMAIN source[files[m]] = 1 .. Len(source[files[m]])
            /\ Len(source[files[m]]) \in Nat
        BY <2>6, SourceFacts, LenProperties
      <4> QED  BY <2>6, <4>1
    <3> QED  BY <2>1, <2>3, <3>1 DEF LeavesKnown
  <2> QED  BY <2>1, <2>5, <2>7, <2>8 DEF PairInv, ImageSteps
<1>2. CASE Fail("compile")
  <2>1. at' \in Ended
    BY <1>2, FailIsGo DEF Go
  <2> QED  BY <2>1, NothingToPair
<1> QED  BY <1>1, <1>2 DEF Compile

\* In an image of the system and of files unchecked for leaves no leaf is checked.
LEMMA ImageUnchecked ==
    ASSUME Linkable, Project(source), source \in Projects \cup Edits,
           NEW image, Instruments(image),
           \A g \in DOMAIN source : image[g] \in Seq(Line) /\ FileUnchecked(image[g]),
           NEW f \in PlacedLeaves
    PROVE  CallsUnchecked(image, f) /\ ReturnsUnchecked(image, f)
<1>1. /\ DOMAIN image = DOMAIN source \cup {System} /\ System \notin DOMAIN source
      /\ image[System] = SystemLines /\ SystemLines \in Seq(SourceLine)
      /\ \A g \in DOMAIN source : Guards(image[g], source[g]) /\ source[g] \in Seq(Line)
      /\ \A n \in DOMAIN image : image[n] \in Seq(Line)
  BY SourceFacts DEF Instruments
<1>2. PICK g \in DOMAIN source : \E a \in DOMAIN source[g] : source[g][a] = Label(f)
  BY FunctionLabel DEF PlacedLeaves
<1>3. PICK a \in 1 .. Len(source[g]) : source[g][a] = Label(f)
  BY <1>1, <1>2, LenProperties
<1>4. \A j \in DOMAIN SystemLines : SystemLines[j] # Label(f)
  BY <1>3, OneLabel
<1>5. CallsUnchecked(image, f)
  <2> SUFFICES ASSUME NEW n \in DOMAIN image, NEW j \in DOMAIN image[n]
               PROVE  image[n][j] # Check(Call(f))
    BY DEF CallsUnchecked, LinesOf, Range
  <2>1. CASE n \in DOMAIN source
    BY <2>1 DEF FileUnchecked
  <2>2. CASE n = System
    <3>1. image[n][j] \in SourceLine
      BY <1>1, <2>2, LenProperties, ElementOfSeq
    <3>2. Check(Call(f)).kind \in Checks
      BY DEF Check, Call, Matches, Checks
    <3> QED  BY <3>1, <3>2 DEF SourceLine
  <2> QED  BY <1>1, <2>1, <2>2
<1>6. ReturnsUnchecked(image, f)
  <2>1. PICK e \in [1 .. Len(source[g]) -> Kept(image[g])] :
           \A b \in 1 .. Len(source[g]) : image[g][e[b]] = source[g][b]
    <3>1. PICK e : Embeds(e, image[g], source[g])
      BY <1>1, Embedding
    <3> QED  BY <3>1, Zenon DEF Embeds
  <2>2. e[a] \in DOMAIN image[g] /\ image[g][e[a]] = Label(f)
    BY <1>3, <2>1 DEF Kept
  <2>3. PICK n \in DOMAIN image : \E x, z \in 1 .. Len(image[n]) :
           BodyAt(Body(image, f), image[n], f, x, z)
    <3>1. \E n \in DOMAIN image : \E x \in DOMAIN image[n] : image[n][x] = Label(f)
      BY <1>1, <2>2
    <3> QED  BY <1>1, <3>1, BodyFacts
  <2>4. PICK x, z \in 1 .. Len(image[n]) : BodyAt(Body(image, f), image[n], f, x, z)
    BY <2>3
  <2> DEFINE body == Body(image, f)
             file == image[n]
  <2>5. /\ file[x] = Label(f) /\ x <= z
        /\ \A m \in x + 1 .. z : ~Matches(file[m], "label")
        /\ body \in Seq(Line) /\ Len(body) = z - x + 1
        /\ \A m \in 1 .. z - x + 1 : body[m] = file[x + m - 1]
    BY <2>4 DEF BodyAt
  <2>6. /\ file \in Seq(Line) /\ DOMAIN file = 1 .. Len(file) /\ Len(file) \in Nat
        /\ DOMAIN body = 1 .. z - x + 1
    BY <1>1, <2>5, LenProperties
  <2>7. n \in DOMAIN source /\ FileUnchecked(file)
    BY <1>1, <1>4, <2>5, <2>6
  <2>9. x \in 1 .. Len(file) /\ z \in 1 .. Len(file)
    OBVIOUS
  <2> HIDE DEF body, file
  <2>8. ASSUME NEW j \in DOMAIN body, Matches(body[j], "ret_check")
        PROVE  FALSE
    <3> DEFINE m == x + j - 1
    <3>1. j \in 1 .. z - x + 1 /\ j \in Nat /\ x \in Nat /\ z \in Nat
      BY <2>6, <2>9
    <3>2. m \in 1 .. Len(file) /\ m <= z /\ x <= m /\ body[j] = file[m]
      BY <2>5, <2>6, <2>9, <3>1
    <3> HIDE DEF m
    <3>3. x # m
      BY <2>5, <2>8, <3>2 DEF Label, Matches
    <3>4. x < m
      BY <3>1, <3>2, <3>3 DEF m
    <3>5. InFunction(file, f, m)
      <4>1. \A y \in x + 1 .. m - 1 : y \in x + 1 .. z
        BY <3>1, <3>2, <3>4
      <4>2. \A y \in x + 1 .. m - 1 : ~Matches(file[y], "label")
        BY <2>5, <4>1
      <4>3. x \in DOMAIN file
        BY <2>6, <2>9
      <4> QED  BY <2>5, <3>4, <4>2, <4>3 DEF InFunction
    <3> QED  BY <2>6, <2>7, <2>8, <3>2, <3>5 DEF FileUnchecked
  <2> QED  BY <2>8 DEF ReturnsUnchecked, Range, body
<1> QED  BY <1>5, <1>6

\* What is linked are files that were instrumented, so the image checks no leaf.
LEMMA LinkPairs ==
    ASSUME Linkable, BuildInv, PairInv, Link
    PROVE  PairInv'
<1>1. CASE /\ Go("link", "mkbin")
           /\ elf' = IF command \in Secure THEN Restrict(asm, Present) ELSE PlainImage
  <2>1. /\ at = "link" /\ at' = "mkbin"
        /\ UNCHANGED <<source, command, files, k, pass>>
    BY <1>1 DEF Go, Ended, process
  <2>2. PlacedLeaves' = PlacedLeaves
    BY <2>1, SameLeaves
  <2>3. command \in Secure =>
          \A f \in PlacedLeaves : CallsUnchecked(elf', f) /\ ReturnsUnchecked(elf', f)
    <3> SUFFICES ASSUME command \in Secure, NEW f \in PlacedLeaves
                 PROVE  CallsUnchecked(elf', f) /\ ReturnsUnchecked(elf', f)
      OBVIOUS
    <3>1. Instruments(elf')
      BY <1>1, <2>1, LinkedImage
    <3>2. /\ Project(source) /\ source \in Projects \cup Edits /\ k = Len(files) + 1
          /\ files \in SetToSeqs(DOMAIN source) /\ Present = DOMAIN PlainImage
      BY <2>1, Types DEF BuildInv, ProcessInv, FilesInv, Listed
    <3>3. ASSUME NEW g \in DOMAIN source
          PROVE  elf'[g] \in Seq(Line) /\ FileUnchecked(elf'[g])
      <4>1. PICK n \in DOMAIN files : files[n] = g
        BY <3>2, FilesFacts
      <4>2. n < k
        BY <3>2, FilesFacts
      <4>3. g \in Present /\ g \in AsmFiles /\ asm[g] # Missing
        BY <3>2, SourceFacts DEF Present
      <4>4. elf'[g] = asm[g]
        BY <1>1, <4>3 DEF Restrict
      <4>5. asm[g] \in Seq(Line)
        BY <4>3 DEF BuildInv, TypeOK
      <4> QED  BY <2>1, <4>1, <4>2, <4>4, <4>5 DEF PairInv
    <3> QED  BY <3>1, <3>2, <3>3, ImageUnchecked
  <2>4. \A f : /\ CallsUnchecked(elf, f)' <=> CallsUnchecked(elf', f)
               /\ ReturnsUnchecked(elf, f)' <=> ReturnsUnchecked(elf', f)
    BY DEF CallsUnchecked, ReturnsUnchecked, LinesOf, Body
  <2> QED  BY <2>1, <2>2, <2>3, <2>4 DEF PairInv, InFile, ImageSteps
<1>2. CASE Fail("link")
  <2>1. at' \in Ended
    BY <1>2, FailIsGo DEF Go
  <2> QED  BY <2>1, NothingToPair
<1> QED  BY <1>1, <1>2 DEF Link

\* The steps that instrument no line and link nothing keep PairInv.
LEMMA OtherPairs ==
    ASSUME PairInv,
           \/ \E c \in Commands : Start(c)
           \/ Edit \/ clear \/ Retrieve \/ InstrumentFails \/ Instrumented
           \/ Mkbin \/ Objdump \/ Flash \/ Monitor
    PROVE  PairInv'
<1>1. CASE at' \in Ended \cup {"clear", "retrieve", "compile"}
  BY <1>1, NothingToPair
<1>2. CASE at' \notin Ended \cup {"clear", "retrieve", "compile"}
  <2>1. ~(\E c \in Commands : Start(c))
    BY <1>2 DEF Start
  <2>2. ASSUME Edit PROVE FALSE
    BY <1>2, <2>2 DEF Edit
  <2>3. ASSUME clear PROVE FALSE
    BY <1>2, <2>3 DEF clear, Fail, Go, AfterClear, Ended
  <2>4. ~InstrumentFails /\ ~Monitor
    BY <1>2 DEF InstrumentFails, Monitor, Fail, Go, Ended
  <2>5. ASSUME Retrieve PROVE PairInv'
    <3>1. at' = "link" /\ command' \notin Secure
      BY <1>2, <2>5 DEF Retrieve
    <3> QED  BY <3>1 DEF PairInv, InFile, ImageSteps
  <2>6. ASSUME Instrumented PROVE PairInv'
    <3>1. /\ UNCHANGED <<source, asm, elf, files, k, i, pass, command>>
          /\ at' = "link" /\ at = "instrument"
      BY <2>6 DEF Instrumented, Go, Ended, toolsExtra, process
    <3> QED  BY <3>1, PairsStay
  <2>7. ASSUME Mkbin \/ Objdump \/ Flash PROVE PairInv'
    <3>1. /\ UNCHANGED <<source, elf, files, command>>
          /\ at' \in ImageSteps /\ at \in ImageSteps
      <4>1. CASE Mkbin
        BY <1>2, <4>1 DEF Mkbin, Fail, Go, Ended, process, ImageSteps
      <4>2. CASE Objdump
        BY <1>2, <4>2 DEF Objdump, Fail, Go, Ended, process, ImageSteps
      <4>3. CASE Flash
        BY <1>2, <4>3 DEF Flash, Fail, Go, Ended, toolsExtra, process, ImageSteps
      <4> QED  BY <2>7, <4>1, <4>2, <4>3
    <3>2. command \in Secure =>
             \A f \in PlacedLeaves : CallsUnchecked(elf, f) /\ ReturnsUnchecked(elf, f)
      BY <3>1 DEF PairInv
    <3> QED  BY <3>1, <3>2, ImagePairs
  <2> QED  BY <2>1, <2>2, <2>3, <2>4, <2>5, <2>6, <2>7
<1> QED  BY <1>1, <1>2

\* Every step of the build preserves PairInv.
LEMMA PairNext ==
    ASSUME Linkable, OwnNames, BuildInv, CheckInv, PairInv, [Next]_vars
    PROVE  BuildInv' /\ CheckInv' /\ PairInv'
<1>1. BuildInv' /\ CheckInv'
  BY CheckNext
<1>2. CASE UNCHANGED vars
  <2>1. UNCHANGED <<source, asm, elf, command, at, files, k, i, pass>>
    BY <1>2 DEF vars, toolsExtra, process
  <2>2. PairInv'
    BY <2>1, PairsStay
  <2> QED  BY <1>1, <2>2
<1>3. CASE Next
  BY <1>1, <1>3, InstrumentLinePairs, WriteFilePairs, CompilePairs, LinkPairs,
     OtherPairs DEF Next
<1> QED  BY <1>2, <1>3

\* In the layouts the pass was written for, neither the calls nor the returns of a
\* leaf are checked in what a secure command links.  With ChecksPlaced: a function is
\* pushed when it is called if and only if it is popped when it returns.
THEOREM PushesPair ==
    ASSUME Linkable, OwnNames
    PROVE  Spec => []Paired
<1> DEFINE Inv == BuildInv /\ CheckInv /\ PairInv
<1>1. Init => Inv
  <2> SUFFICES ASSUME Init PROVE Inv
    OBVIOUS
  <2>1. at = "idle"
    BY DEF Init
  <2>2. PairInv
    BY <2>1 DEF PairInv, InFile, ImageSteps
  <2> QED  BY <2>2, InitStep, InitChecks
<1>2. Inv /\ [Next]_vars => Inv'
  BY PairNext
<1>3. Inv => Paired
  <2> SUFFICES ASSUME PairInv, SecureLinked, WellPlaced, NEW f \in Functions, TrueLeaf(f)
               PROVE  CallsUnchecked(elf, f) /\ ReturnsUnchecked(elf, f)
    BY DEF Paired
  <2>1. f \in PlacedLeaves
    BY DEF WellPlaced, PlacedLeaves
  <2>2. at \in ImageSteps /\ command \in Secure
    BY DEF SecureLinked, ImageSteps
  <2> QED  BY <2>1, <2>2 DEF PairInv
<1> QED  BY <1>1, <1>2, <1>3, PTL DEF Spec
=============================================================================
