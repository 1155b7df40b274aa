--------------------------- MODULE SequenceLemmas ---------------------------
(***************************************************************************)
(* Lemmas about numbers and sequences that the proofs of several           *)
(* components need.  The induction theorems of the library take an         *)
(* operator as parameter; here induction is over the elements of a set.    *)
(***************************************************************************)
EXTENDS Integers, SequencesExt, SequenceTheorems, FiniteSetTheorems,
        WellFoundedInduction, TLAPS

\* A set of numbers that is not empty has a least element, and Min is it.
LEMMA MinProperties ==
    ASSUME NEW S \in SUBSET Nat, S # {}
    PROVE  Min(S) \in S /\ \A y \in S : Min(S) <= y
<1> DEFINE R == {ss \in Nat \X Nat : ss[1] < ss[2]}
<1>1. IsWellFoundedOn(R, Nat)
  BY NatLessThanWellFounded DEF OpToRel
<1>2. PICK x \in S : \A y \in S : ~ (<<y, x>> \in R)
  <2> HIDE DEF R
  <2> QED  BY <1>1, WFMin
<1>3. \A y \in S : x <= y
  <2> SUFFICES ASSUME NEW y \in S, ~(x <= y) PROVE FALSE
    OBVIOUS
  <2>1. <<y, x>> \in R
    OBVIOUS
  <2> QED  BY <1>2, <2>1
<1> QED  BY <1>3 DEF Min

\* What holds at 0 and is passed on from n to n + 1 holds of every number.
LEMMA SetInduction ==
    ASSUME NEW T, 0 \in T, \A n \in Nat : n \in T => n + 1 \in T
    PROVE  Nat \subseteq T
<1> SUFFICES ASSUME Nat \ T # {} PROVE FALSE
  OBVIOUS
<1>1. PICK x \in Nat \ T : \A y \in Nat \ T : x <= y
  BY MinProperties
<1>2. x - 1 \in Nat /\ x - 1 \in Nat \ T
  BY <1>1
<1> QED  BY <1>1, <1>2

\* Three sequences may be joined in either grouping.
Regroups(x, y, z) == (x \o y) \o z = x \o (y \o z)

LEMMA ConcatRegroups ==
    \A S : \A x, y, z \in Seq(S) : Regroups(x, y, z)
<1> TAKE S
<1> TAKE x, y, z \in Seq(S)
<1> QED  BY ConcatAssociative DEF Regroups

\* The function FlattenSeq computes, for each number of sequences it joins.
Joined(ss) == CHOOSE g : g = [i \in 1 .. Len(ss) |->
                               IF i = 1 THEN ss[i] ELSE g[i - 1] \o ss[i]]

\* FlattenSeq looks up the last value of that function.
LEMMA FlattenJoined ==
    ASSUME NEW ss
    PROVE  FlattenSeq(ss) = IF Len(ss) = 0 THEN ss ELSE Joined(ss)[Len(ss)]
BY Zenon DEF FlattenSeq, Joined

\* The function exists, by induction over the number of sequences.
LEMMA JoinedDef ==
    ASSUME NEW S, NEW ss \in Seq(Seq(S))
    PROVE  /\ DOMAIN Joined(ss) = 1 .. Len(ss)
           /\ \A i \in 1 .. Len(ss) :
                /\ Joined(ss)[i] \in Seq(S)
                /\ Joined(ss)[i] = IF i = 1 THEN ss[i] ELSE Joined(ss)[i - 1] \o ss[i]
<1> DEFINE Step(g, i) == IF i = 1 THEN ss[i] ELSE g[i - 1] \o ss[i]
           Upto(g, n) == /\ g = [i \in 1 .. n |-> Step(g, i)]
                         /\ \A i \in 1 .. n : g[i] \in Seq(S)
           T == {n \in Nat : n <= Len(ss) => \E g : Upto(g, n)}
<1>1. 0 \in T
  <2> DEFINE g == [i \in {} |-> i]
  <2>1. g = [i \in 1 .. 0 |-> Step(g, i)]
    OBVIOUS
  <2> QED  BY <2>1
<1>2. ASSUME NEW n \in Nat, n \in T PROVE n + 1 \in T
  <2> HIDE DEF Upto
  <2> SUFFICES ASSUME n + 1 <= Len(ss) PROVE \E g : Upto(g, n + 1)
    OBVIOUS
  <2>0. Len(ss) \in Nat
    OBVIOUS
  <2>1. PICK g : Upto(g, n)
    BY <1>2, <2>0
  <2>1b. /\ g = [i \in 1 .. n |-> Step(g, i)]
         /\ \A i \in 1 .. n : g[i] \in Seq(S)
    BY <2>1 DEF Upto
  <2>1c. \A i \in 1 .. n : g[i] = Step(g, i)
    <3> HIDE DEF Step
    <3> QED  BY <2>1b
  <2> DEFINE h == [i \in 1 .. n + 1 |-> IF i <= n THEN g[i] ELSE Step(g, i)]
  <2>2. n + 1 \in 1 .. Len(ss) /\ ss[n + 1] \in Seq(S)
    BY <2>0
  <2>3. \A i \in 1 .. n + 1 : h[i] = Step(g, i) /\ h[i] \in Seq(S)
    <3> SUFFICES ASSUME NEW i \in 1 .. n + 1 PROVE h[i] = Step(g, i) /\ h[i] \in Seq(S)
      OBVIOUS
    <3>1. CASE i <= n
      <4>1. i \in 1 .. n /\ h[i] = g[i]
        BY <3>1
      <4> HIDE DEF Step, h
      <4> QED  BY <2>1b, <2>1c, <4>1
    <3>2. CASE i = n + 1
      <4>1. CASE n = 0
        BY <2>2, <3>2, <4>1
      <4>2. CASE n # 0
        <5>1. n \in 1 .. n /\ g[n] \in Seq(S)
          BY <2>1b, <4>2
        <5>2. g[n] \o ss[n + 1] \in Seq(S)
          BY <5>1, <2>2
        <5> QED  BY <5>2, <3>2, <4>2
      <4> QED  BY <4>1, <4>2
    <3> QED  BY <3>1, <3>2
  <2>4. \A i \in 1 .. n + 1 : Step(g, i) = Step(h, i)
    <3> SUFFICES ASSUME NEW i \in 1 .. n + 1, i # 1 PROVE h[i - 1] = g[i - 1]
      OBVIOUS
    <3> QED  OBVIOUS
  <2>5. h = [i \in 1 .. n + 1 |-> Step(h, i)]
    <3>1. \A i \in 1 .. n + 1 : h[i] = Step(h, i)
      BY <2>3, <2>4
    <3> HIDE DEF Step
    <3> QED  BY <3>1
  <2> HIDE DEF h, Step
  <2> QED  BY <2>3, <2>5 DEF Upto
<1>3. \E g : Upto(g, Len(ss))
  <2>1. Nat \subseteq T
    <3> HIDE DEF T
    <3> QED  BY <1>1, <1>2, SetInduction
  <2>2. Len(ss) \in Nat
    OBVIOUS
  <2> HIDE DEF Upto
  <2> QED  BY <2>1, <2>2
<1>4. PICK g : Upto(g, Len(ss))
  BY <1>3
<1>5. Joined(ss) = [i \in 1 .. Len(ss) |-> Step(Joined(ss), i)]
  BY <1>4, Zenon DEF Joined
\* the function is the only one, so its values are sequences
<1>6. \A i \in 1 .. Len(ss) : Joined(ss)[i] = g[i]
  <2> DEFINE U == {n \in Nat : n + 1 <= Len(ss) => Joined(ss)[n + 1] = g[n + 1]}
  <2>0. Len(ss) \in Nat
    OBVIOUS
  <2>1. \A i \in 1 .. Len(ss) : Joined(ss)[i] = Step(Joined(ss), i) /\ g[i] = Step(g, i)
    <3> HIDE DEF Step
    <3> QED  BY <1>4, <1>5
  <2>2. 0 \in U
    BY <2>0, <2>1
  <2>3. ASSUME NEW n \in Nat, n \in U PROVE n + 1 \in U
    <3> SUFFICES ASSUME n + 2 <= Len(ss) PROVE Joined(ss)[n + 2] = g[n + 2]
      OBVIOUS
    <3>1. Joined(ss)[n + 1] = g[n + 1] /\ n + 2 \in 1 .. Len(ss) /\ n + 2 # 1
      BY <2>3, <2>0
    <3>2. (n + 2) - 1 = n + 1
      OBVIOUS
    <3>3. Step(Joined(ss), n + 2) = Step(g, n + 2)
      BY <3>1, <3>2
    <3> HIDE DEF Step
    <3> QED  BY <3>1, <3>3, <2>1
  <2>4. Nat \subseteq U
    <3> HIDE DEF U
    <3> QED  BY <2>2, <2>3, SetInduction
  <2> SUFFICES ASSUME NEW i \in 1 .. Len(ss) PROVE Joined(ss)[i] = g[i]
    OBVIOUS
  <2>5. i - 1 \in Nat /\ (i - 1) + 1 = i
    OBVIOUS
  <2>6. i - 1 \in U
    BY <2>4, <2>5
  <2>7. (i - 1) + 1 <= Len(ss)
    BY <2>0
  <2>8. Joined(ss)[(i - 1) + 1] = g[(i - 1) + 1]
    BY <2>6, <2>7
  <2> QED  BY <2>5, <2>8
<1> QED  BY <1>4, <1>5, <1>6

\* FlattenSeq: nothing joined is nothing.
LEMMA FlattenEmpty == FlattenSeq(<< >>) = << >>
<1>1. Len(<< >>) = 0
  OBVIOUS
<1> QED  BY <1>1, FlattenJoined

\* FlattenSeq yields a sequence of the elements.
LEMMA FlattenType ==
    ASSUME NEW S, NEW ss \in Seq(Seq(S))
    PROVE  FlattenSeq(ss) \in Seq(S)
<1>0. Len(ss) \in Nat
  OBVIOUS
<1>1. CASE Len(ss) = 0
  <2>1. ss = << >>
    BY <1>1, EmptySeq
  <2>2. << >> \in Seq(S)
    OBVIOUS
  <2> QED  BY <2>1, <2>2, FlattenEmpty
<1>2. CASE Len(ss) # 0
  <2>1. Len(ss) \in 1 .. Len(ss)
    BY <1>0, <1>2
  <2> QED  BY <2>1, <1>2, FlattenJoined, JoinedDef
<1> QED  BY <1>1, <1>2

\* FlattenSeq joins one sequence after the other.
LEMMA FlattenAppend ==
    ASSUME NEW S, NEW ss \in Seq(Seq(S)), NEW s \in Seq(S)
    PROVE  FlattenSeq(Append(ss, s)) = FlattenSeq(ss) \o s
<1> DEFINE tt == Append(ss, s)
           n  == Len(ss)
<1>0. n \in Nat /\ tt \in Seq(Seq(S)) /\ Len(tt) = n + 1 /\ tt[n + 1] = s
  BY AppendProperties
<1>1. \A i \in 1 .. n : tt[i] = ss[i] /\ i \in 1 .. n + 1
  BY <1>0, AppendProperties
<1>2. FlattenSeq(tt) = Joined(tt)[n + 1]
  <2>1. FlattenSeq(tt) = IF Len(tt) = 0 THEN tt ELSE Joined(tt)[Len(tt)]
    BY FlattenJoined
  <2> HIDE DEF tt, n
  <2> QED  BY <1>0, <2>1
<1>3. \A i \in 1 .. n + 1 :
        Joined(tt)[i] = IF i = 1 THEN tt[i] ELSE Joined(tt)[i - 1] \o tt[i]
  <2>1. \A i \in 1 .. Len(tt) :
          Joined(tt)[i] = IF i = 1 THEN tt[i] ELSE Joined(tt)[i - 1] \o tt[i]
    BY <1>0, JoinedDef
  <2> HIDE DEF tt, n
  <2> QED  BY <1>0, <2>1
<1>4. \A i \in 1 .. n :
        Joined(ss)[i] = IF i = 1 THEN ss[i] ELSE Joined(ss)[i - 1] \o ss[i]
  BY JoinedDef
<1>5. CASE n = 0
  <2>1. ss = << >>
    BY <1>5, EmptySeq
  <2>2. Joined(tt)[1] = s
    <3> HIDE DEF tt, n
    <3> QED  BY <1>0, <1>3, <1>5
  <2>3. << >> \o s = s
    OBVIOUS
  <2>4. n + 1 = 1
    BY <1>5
  <2> HIDE DEF tt, n
  <2> QED  BY <1>2, <2>1, <2>2, <2>3, <2>4, FlattenEmpty DEF tt
<1>6. CASE n # 0
  <2> DEFINE U == {m \in Nat : m + 1 <= n => Joined(tt)[m + 1] = Joined(ss)[m + 1]}
  <2> HIDE DEF tt, n
  <2>1. 0 \in U
    <3>1. 1 \in 1 .. n /\ 1 \in 1 .. n + 1
      BY <1>0, <1>6
    <3>2. Joined(tt)[1] = Joined(ss)[1]
      BY <3>1, <1>1, <1>3, <1>4
    <3> QED  BY <3>2
  <2>2. ASSUME NEW m \in Nat, m \in U PROVE m + 1 \in U
    <3> SUFFICES ASSUME m + 2 <= n PROVE Joined(tt)[m + 2] = Joined(ss)[m + 2]
      OBVIOUS
    <3>1. /\ m + 2 \in 1 .. n /\ m + 2 \in 1 .. n + 1 /\ m + 2 # 1
          /\ m + 1 <= n /\ (m + 2) - 1 = m + 1
      BY <1>0
    <3>2. Joined(tt)[m + 1] = Joined(ss)[m + 1]
      BY <2>2, <3>1
    <3>3. /\ Joined(tt)[m + 2] = Joined(tt)[m + 1] \o tt[m + 2]
          /\ Joined(ss)[m + 2] = Joined(ss)[m + 1] \o ss[m + 2]
      BY <1>3, <1>4, <3>1
    <3> QED  BY <3>1, <3>2, <3>3, <1>1
  <2>3. Nat \subseteq U
    <3> HIDE DEF U
    <3> QED  BY <2>1, <2>2, SetInduction
  <2>4. n - 1 \in Nat /\ (n - 1) + 1 = n /\ n <= n
    BY <1>0, <1>6
  <2>5. n - 1 \in U
    BY <2>3, <2>4
  <2>6. (n - 1) + 1 <= n => Joined(tt)[(n - 1) + 1] = Joined(ss)[(n - 1) + 1]
    BY <2>5
  <2>7. Joined(tt)[n] = Joined(ss)[n]
    BY <2>4, <2>6
  <2>8. n + 1 \in 1 .. n + 1 /\ n + 1 # 1 /\ (n + 1) - 1 = n
    BY <1>0, <1>6
  <2>9. Joined(tt)[n + 1] = Joined(tt)[n] \o tt[n + 1]
    BY <1>3, <2>8
  <2>10. FlattenSeq(ss) = Joined(ss)[n]
    <3>1. FlattenSeq(ss) = IF n = 0 THEN ss ELSE Joined(ss)[n]
      BY FlattenJoined DEF n
    <3> QED  BY <3>1, <1>6
  <2> QED  BY <1>0, <1>2, <2>7, <2>9, <2>10 DEF tt
<1> QED  BY <1>5, <1>6

\* A sequence is as long as its domain.
LEMMA LengthIs ==
    ASSUME NEW S, NEW s \in Seq(S), NEW n \in Nat, DOMAIN s = 1 .. n
    PROVE  Len(s) = n
<1>1. Len(s) \in Nat /\ DOMAIN s = 1 .. Len(s)
  OBVIOUS
<1> QED  BY <1>1

\* A sequence of n elements; u begins with the first m of s; u goes on, behind the first m,
\* with the first n of t.
Sized(S, s, n) == s \in Seq(S) /\ Len(s) = n
Begins(u, s, m) == \A i \in 1 .. m : u[i] = s[i]
GoesOn(u, m, t, n) == \A i \in 1 .. n : u[m + i] = t[i]

\* Two sequences in a row: the size, and the elements of the one and of the other.
LEMMA ConcatSized ==
    ASSUME NEW S, NEW s, NEW t, NEW m \in Nat, NEW n \in Nat, Sized(S, s, m), Sized(S, t, n)
    PROVE  Sized(S, s \o t, m + n)
<1>1. s \o t \in Seq(S)
  BY ConcatProperties DEF Sized
<1>2. Len(s \o t) = Len(s) + Len(t)
  BY ConcatProperties DEF Sized
<1> QED  BY <1>1, <1>2 DEF Sized

\* The first one comes first.
LEMMA ConcatBegins ==
    ASSUME NEW S, NEW s, NEW t, NEW m \in Nat, NEW n \in Nat, Sized(S, s, m), Sized(S, t, n)
    PROVE  Begins(s \o t, s, m)
BY ConcatProperties DEF Sized, Begins

\* The second one comes behind it.
LEMMA ConcatGoesOn ==
    ASSUME NEW S, NEW s, NEW t, NEW m \in Nat, NEW n \in Nat, Sized(S, s, m), Sized(S, t, n)
    PROVE  GoesOn(s \o t, m, t, n)
BY ConcatProperties DEF Sized, GoesOn

\* Where the first n of the sequences end that FlattenSeq joins.
Behind(ss, n) == IF n = 0 THEN 0 ELSE Len(Joined(ss)[n])

\* The next one ends as far behind as it is long.
LEMMA BehindNext ==
    ASSUME NEW S, NEW ss \in Seq(Seq(S)), NEW n \in 1 .. Len(ss)
    PROVE  /\ Behind(ss, n - 1) \in Nat /\ Behind(ss, n) \in Nat
           /\ ss[n] \in Seq(S) /\ Len(ss[n]) \in Nat
           /\ Behind(ss, n) = Behind(ss, n - 1) + Len(ss[n])
<1> DEFINE g == Joined(ss)
<1>1. \A i \in 1 .. Len(ss) : g[i] \in Seq(S) /\ g[i] = IF i = 1 THEN ss[i] ELSE g[i - 1] \o ss[i]
  BY JoinedDef
<1>2. ss[n] \in Seq(S) /\ g[n] \in Seq(S) /\ Len(ss[n]) \in Nat /\ Len(g[n]) \in Nat /\ n # 0
  <2>1. ss[n] \in Seq(S) /\ g[n] \in Seq(S)
    BY <1>1
  <2> QED  BY <2>1
<1> HIDE DEF g
<1>3. CASE n = 1
  <2>1. g[n] = ss[n] /\ Behind(ss, n - 1) = 0 /\ Behind(ss, n) = Len(g[n])
    BY <1>1, <1>2, <1>3 DEF Behind, g
  <2> QED  BY <1>2, <2>1
<1>4. CASE n # 1
  <2>1. n - 1 \in 1 .. Len(ss) /\ n - 1 # 0
    BY <1>4
  <2>2. g[n - 1] \in Seq(S) /\ g[n] = g[n - 1] \o ss[n]
    BY <1>1, <1>4, <2>1
  <2>3. Behind(ss, n - 1) = Len(g[n - 1]) /\ Behind(ss, n) = Len(g[n])
    BY <1>2, <2>1 DEF Behind, g
  <2>4. Len(g[n - 1]) \in Nat /\ Len(g[n]) = Len(g[n - 1]) + Len(ss[n])
    BY <1>2, <2>2
  <2> QED  BY <1>2, <2>3, <2>4
<1> QED  BY <1>3, <1>4

\* Element j of the n-th sequence is among the first i that are joined.
JoinedHas(ss, i, n, j) ==
    /\ Behind(ss, n - 1) + j \in 1 .. Len(Joined(ss)[i])
    /\ Joined(ss)[i][Behind(ss, n - 1) + j] = ss[n][j]

\* It is among the first n.
LEMMA JoinedFirst ==
    ASSUME NEW S, NEW ss \in Seq(Seq(S)), NEW n \in 1 .. Len(ss), NEW j \in 1 .. Len(ss[n])
    PROVE  JoinedHas(ss, n, n, j)
<1> DEFINE g == Joined(ss)
<1>1. \A i \in 1 .. Len(ss) : g[i] \in Seq(S) /\ g[i] = IF i = 1 THEN ss[i] ELSE g[i - 1] \o ss[i]
  BY JoinedDef
<1>2. /\ Behind(ss, n - 1) \in Nat /\ Behind(ss, n) \in Nat
      /\ ss[n] \in Seq(S) /\ Len(ss[n]) \in Nat
      /\ Behind(ss, n) = Behind(ss, n - 1) + Len(ss[n])
  BY BehindNext
<1>3. Behind(ss, n) = Len(g[n])
  BY DEF Behind
<1> HIDE DEF g
<1>4. Behind(ss, n - 1) + j \in 1 .. Len(g[n])
  BY <1>2, <1>3
<1>5. CASE n = 1
  <2>1. g[n] = ss[n] /\ Behind(ss, n - 1) = 0
    BY <1>1, <1>5 DEF Behind
  <2>2. 0 + j = j
    BY <1>2
  <2> QED  BY <1>4, <2>1, <2>2 DEF JoinedHas, g
<1>6. CASE n # 1
  <2>1. n - 1 \in 1 .. Len(ss) /\ n - 1 # 0
    BY <1>6
  <2>2. g[n - 1] \in Seq(S) /\ g[n] = g[n - 1] \o ss[n]
    BY <1>1, <1>6, <2>1
  <2>3. Behind(ss, n - 1) = Len(g[n - 1])
    BY <2>1 DEF Behind, g
  <2>4. (g[n - 1] \o ss[n])[Len(g[n - 1]) + j] = ss[n][j]
    <3> DEFINE u == g[n - 1]
               v == ss[n]
    <3>1. u \in Seq(S) /\ v \in Seq(S) /\ j \in 1 .. Len(v)
      BY <1>2, <2>2
    <3> HIDE DEF u, v
    <3>2. (u \o v)[Len(u) + j] = v[j]
      BY <3>1
    <3> QED  BY <3>2 DEF u, v
  <2> QED  BY <1>4, <2>2, <2>3, <2>4 DEF JoinedHas, g
<1> QED  BY <1>5, <1>6

\* It stays there when more are joined.
LEMMA JoinedMore ==
    ASSUME NEW S, NEW ss \in Seq(Seq(S)), NEW n \in 1 .. Len(ss), NEW j \in 1 .. Len(ss[n]),
           NEW i \in 1 .. Len(ss) - 1, JoinedHas(ss, i, n, j)
    PROVE  JoinedHas(ss, i + 1, n, j)
<1> DEFINE g == Joined(ss)
           p == Behind(ss, n - 1) + j
           u == g[i]
           v == ss[i + 1]
<1>1. i + 1 \in 1 .. Len(ss) /\ i \in 1 .. Len(ss) /\ i + 1 # 1 /\ (i + 1) - 1 = i
  OBVIOUS
<1>2. g[i] \in Seq(S) /\ g[i + 1] = g[i] \o ss[i + 1] /\ ss[i + 1] \in Seq(S)
  <2>1. \A k \in 1 .. Len(ss) :
          g[k] \in Seq(S) /\ g[k] = IF k = 1 THEN ss[k] ELSE g[k - 1] \o ss[k]
    BY JoinedDef
  <2>2. ss[i + 1] \in Seq(S)
    BY <1>1
  <2> HIDE DEF g
  <2>3. g[i] \in Seq(S) /\ g[i + 1] = g[i] \o ss[i + 1]
    BY <1>1, <2>1
  <2> QED  BY <2>2, <2>3
<1>3. p \in 1 .. Len(u) /\ u[p] = ss[n][j]
  BY DEF JoinedHas
<1> HIDE DEF g, p, u, v
<1>4. u \in Seq(S) /\ v \in Seq(S) /\ g[i + 1] = u \o v
  BY <1>2 DEF u, v
<1>5. p \in 1 .. Len(u \o v) /\ (u \o v)[p] = u[p]
  BY <1>3, <1>4
<1> QED  BY <1>3, <1>4, <1>5 DEF JoinedHas, g, p

\* FlattenSeq: each element is as far behind as the sequences before it are long.
LEMMA FlattenAt ==
    ASSUME NEW S, NEW ss \in Seq(Seq(S)), NEW n \in 1 .. Len(ss), NEW j \in 1 .. Len(ss[n])
    PROVE  /\ Behind(ss, n - 1) + j \in 1 .. Len(FlattenSeq(ss))
           /\ FlattenSeq(ss)[Behind(ss, n - 1) + j] = ss[n][j]
<1> DEFINE T == {d \in Nat : n + d <= Len(ss) => JoinedHas(ss, n + d, n, j)}
<1>1. 0 \in T
  <2>1. n + 0 = n
    OBVIOUS
  <2>2. JoinedHas(ss, n, n, j)
    BY JoinedFirst
  <2> QED  BY <2>1, <2>2
<1>2. ASSUME NEW d \in Nat, d \in T PROVE d + 1 \in T
  <2> SUFFICES ASSUME n + (d + 1) <= Len(ss) PROVE JoinedHas(ss, n + (d + 1), n, j)
    OBVIOUS
  <2>1. n + d \in 1 .. Len(ss) - 1 /\ n + d <= Len(ss) /\ n + (d + 1) = (n + d) + 1
    OBVIOUS
  <2>2. JoinedHas(ss, n + d, n, j)
    BY <1>2, <2>1
  <2>3. JoinedHas(ss, (n + d) + 1, n, j)
    BY <2>1, <2>2, JoinedMore
  <2> QED  BY <2>1, <2>3
<1>3. Nat \subseteq T
  <2> HIDE DEF T
  <2> QED  BY <1>1, <1>2, SetInduction
<1>4. Len(ss) - n \in T
  <2>1. Len(ss) - n \in Nat
    OBVIOUS
  <2> HIDE DEF T
  <2> QED  BY <1>3, <2>1
<1>5. JoinedHas(ss, Len(ss), n, j)
  <2>1. n + (Len(ss) - n) = Len(ss) /\ Len(ss) <= Len(ss)
    OBVIOUS
  <2> QED  BY <1>4, <2>1
<1>6. FlattenSeq(ss) = Joined(ss)[Len(ss)]
  <2>1. Len(ss) # 0
    OBVIOUS
  <2> QED  BY <2>1, FlattenJoined
<1> QED  BY <1>5, <1>6 DEF JoinedHas

\* FlattenSeq: all sequences together are as long as what they are joined to.
LEMMA FlattenEnd ==
    ASSUME NEW ss
    PROVE  Len(ss) # 0 => Behind(ss, Len(ss)) = Len(FlattenSeq(ss))
BY FlattenJoined DEF Behind

\* IsPrefix: a sequence begins itself.
LEMMA PrefixSelf ==
    ASSUME NEW S, NEW s \in Seq(S)
    PROVE  IsPrefix(s, s)
<1>1. Len(s) \in Nat
  OBVIOUS
<1> QED  BY <1>1 DEF IsPrefix

\* IsPrefix: what begins a sequence begins a longer one.
LEMMA PrefixLonger ==
    ASSUME NEW S, NEW s \in Seq(S), NEW t \in Seq(S), NEW u \in Seq(S), IsPrefix(s, t)
    PROVE  IsPrefix(s, t \o u)
<1>1. Len(s) \in Nat /\ Len(t) \in Nat /\ Len(u) \in Nat /\ Len(t \o u) = Len(t) + Len(u)
      /\ Len(s) <= Len(t)
  BY ConcatProperties DEF IsPrefix
<1>2. Len(s) <= Len(t \o u)
  BY <1>1
<1>3. SubSeq(t \o u, 1, Len(s)) = SubSeq(t, 1, Len(s))
  BY <1>1, SubSeqOfConcat1
<1> QED  BY <1>2, <1>3 DEF IsPrefix

\* RemoveAt: one element less, those before it where they were, those behind it one
\* place earlier.
LEMMA RemoveAtProperties ==
    ASSUME NEW S, NEW s \in Seq(S), NEW i \in 1 .. Len(s)
    PROVE  /\ RemoveAt(s, i) \in Seq(S)
           /\ Len(RemoveAt(s, i)) = Len(s) - 1
           /\ \A j \in 1 .. Len(s) - 1 :
                RemoveAt(s, i)[j] = IF j < i THEN s[j] ELSE s[j + 1]
<1> DEFINE n == Len(s)
           front == SubSeq(s, 1, i - 1)
           back  == SubSeq(s, i + 1, n)
<1>1. n \in Nat /\ i \in Nat /\ 1 <= i /\ i <= n
  BY LenProperties
<1>2. /\ front \in Seq(S) /\ Len(front) = i - 1
      /\ \A j \in 1 .. i - 1 : front[j] = s[j]
  OBVIOUS
<1>3. /\ back \in Seq(S) /\ Len(back) = n - i
      /\ \A j \in 1 .. n - i : back[j] = s[i + j]
  OBVIOUS
<1> HIDE DEF front, back
<1>4. front \o back \in Seq(S) /\ Len(front \o back) = n - 1
  <2>1. Len(front) + Len(back) = n - 1
    BY <1>1, <1>2, <1>3
  <2> QED  BY <2>1, <1>2, <1>3, ConcatProperties
<1>5. RemoveAt(s, i) = front \o back
  BY DEF RemoveAt, front, back
<1>6. ASSUME NEW j \in 1 .. n - 1
      PROVE  (front \o back)[j] = IF j < i THEN s[j] ELSE s[j + 1]
  <2>1. (front \o back)[j] = IF j <= Len(front) THEN front[j] ELSE back[j - Len(front)]
    <3>1. j \in 1 .. Len(front) + Len(back)
      BY <1>1, <1>2, <1>3
    <3> QED  BY <3>1, <1>2, <1>3, ConcatProperties
  <2>2. CASE j < i
    BY <2>1, <2>2, <1>1, <1>2
  <2>3. CASE j >= i
    <3>1. j - (i - 1) \in 1 .. n - i /\ i + (j - (i - 1)) = j + 1 /\ ~(j <= i - 1) /\ ~(j < i)
      BY <2>3, <1>1
    <3> QED  BY <2>1, <3>1, <1>2, <1>3
  <2>4. j < i \/ j >= i
    BY <1>1
  <2> QED  BY <2>2, <2>3, <2>4
<1> QED  BY <1>4, <1>5, <1>6
=============================================================================
