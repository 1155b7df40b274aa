---------------------------- MODULE ImagesProofs ----------------------------
(***************************************************************************)
(* What mkhex makes of files at whole lines, unhex gives back.  The lines  *)
(* that are still to be read, with the address at which each belongs, are  *)
(* the bytes that are still missing (Printing); and mkhex never prints a   *)
(* line in a bank whose high half it has not said (Ready).  And what mkbin *)
(* makes of an ELF file, the ROM loader reads back (ImageReadBack).        *)
(***************************************************************************)
EXTENDS Images, SequenceLemmas

-----------------------------------------------------------------------------
\* Numbers

\* Division leaves a quotient and a remainder.
LEMMA DivModFacts ==
    ASSUME NEW a \in Nat, NEW b \in Nat \ {0}
    PROVE  a \div b \in Nat /\ a % b \in 0 .. b - 1 /\ a = (a \div b) * b + (a % b)
OBVIOUS

\* They are the only ones.
LEMMA DivModUnique ==
    ASSUME NEW q \in Nat, NEW b \in Nat \ {0}, NEW r \in 0 .. b - 1
    PROVE  (q * b + r) \div b = q /\ (q * b + r) % b = r
OBVIOUS

\* Two multiples are at least one apart.
LEMMA MultiplesApart ==
    ASSUME NEW j \in Nat, NEW k \in Nat, NEW l \in Nat \ {0}, j * l < k * l
    PROVE  j * l + l <= k * l
<1>1. j < k
  OBVIOUS
<1>2. j + 1 <= k
  BY <1>1
<1>3. (j + 1) * l <= k * l
  BY <1>2
<1>4. (j + 1) * l = j * l + l
  OBVIOUS
<1> QED  BY <1>3, <1>4

\* The address behind a whole line is a whole line, too.
LEMMA WholeLines ==
    ASSUME NEW a \in Nat, NEW k \in Nat, a % LineLen = 0
    PROVE  (a + k * LineLen) % LineLen = 0
<1>0. LineLen \in Nat \ {0}
  BY HexAssumption
<1>1. PICK j \in Nat : a = j * LineLen
  <2>1. a \div LineLen \in Nat /\ a = (a \div LineLen) * LineLen + 0
    BY <1>0, DivModFacts
  <2>2. (a \div LineLen) * LineLen \in Nat
    BY <1>0, <2>1
  <2> QED  BY <2>1, <2>2
<1> DEFINE m == j + k
<1>2. m \in Nat /\ a + k * LineLen = m * LineLen + 0 /\ 0 \in 0 .. LineLen - 1
  BY <1>0, <1>1
<1> HIDE DEF m
<1> QED  BY <1>0, <1>2, DivModUnique

\* mkhex's address is in the bank whose high half was said last, or about to start
\* one, which it will say.
Ready(last, a) == last = (a \div Bank) * Bank \/ (a % Bank = 0 /\ a # 0)

\* A whole line ends in its bank or where the next one starts.
LEMMA LineInBank ==
    ASSUME NEW a \in Nat, a % LineLen = 0, Bank % LineLen = 0
    PROVE  Ready((a \div Bank) * Bank, a + LineLen)
<1> DEFINE q == a \div Bank
           r == a % Bank
<1>0. LineLen \in Nat \ {0} /\ Bank \in Nat \ {0}
  BY HexAssumption
<1>1. q \in Nat /\ r \in 0 .. Bank - 1 /\ a = q * Bank + r
  BY <1>0, DivModFacts
<1>2. PICK b \in Nat : Bank = b * LineLen
  BY <1>0, DivModFacts
<1>3. PICK k \in Nat : a = k * LineLen
  <2>1. a \div LineLen \in Nat /\ a = (a \div LineLen) * LineLen + 0
    BY <1>0, DivModFacts
  <2>2. (a \div LineLen) * LineLen \in Nat
    BY <1>0, <2>1
  <2> QED  BY <2>1, <2>2
<1>4. a + LineLen <= (q + 1) * Bank
  <2> HIDE DEF q, r
  <2>1. (q + 1) * Bank = ((q + 1) * b) * LineLen
    BY <1>0, <1>1, <1>2
  <2>2. (q + 1) * Bank = q * Bank + Bank /\ a < (q + 1) * Bank
    BY <1>0, <1>1
  <2>3. (q + 1) * b \in Nat
    BY <1>1
  <2>4. k * LineLen < ((q + 1) * b) * LineLen
    BY <2>1, <2>2, <1>3
  <2>5. k * LineLen + LineLen <= ((q + 1) * b) * LineLen
    <3> DEFINE m == (q + 1) * b
    <3> HIDE DEF m
    <3>1. k * LineLen < m * LineLen /\ m \in Nat
      BY <2>3, <2>4 DEF m
    <3>2. k * LineLen + LineLen <= m * LineLen
      BY <3>1, <1>0, MultiplesApart
    <3> QED  BY <3>2 DEF m
  <2> QED  BY <2>1, <2>5, <1>3
<1>5. CASE r + LineLen < Bank
  <2> HIDE DEF q, r
  <2>1. r + LineLen \in 0 .. Bank - 1 /\ a + LineLen = q * Bank + (r + LineLen)
    BY <1>0, <1>1, <1>5
  <2>2. (a + LineLen) \div Bank = q
    BY <2>1, <1>0, <1>1, DivModUnique
  <2> QED  BY <2>2 DEF Ready, q
<1>6. CASE ~(r + LineLen < Bank)
  <2> HIDE DEF q, r
  <2>1. (q + 1) * Bank = q * Bank + Bank
    BY <1>0, <1>1
  <2>2. a + LineLen = (q + 1) * Bank + 0
    BY <2>1, <1>0, <1>1, <1>4, <1>6
  <2>3. q + 1 \in Nat /\ 0 \in 0 .. Bank - 1
    BY <1>0, <1>1
  <2> DEFINE up == q + 1
  <2>4. (up * Bank + 0) % Bank = 0
    <3>1. up \in Nat /\ 0 \in 0 .. Bank - 1
      BY <2>3
    <3> HIDE DEF up
    <3> QED  BY <3>1, <1>0, DivModUnique
  <2>5. (a + LineLen) % Bank = 0
    BY <2>2, <2>4, Zenon
  <2> QED  BY <2>5, <1>0 DEF Ready
<1> QED  BY <1>5, <1>6

-----------------------------------------------------------------------------
\* Images

\* align_to: the next multiple.
LEMMA AlignsUp ==
    ASSUME NEW n \in Nat, NEW to \in Nat \ {0}
    PROVE  /\ align_to(n, to) \in Nat /\ align_to(n, to) % to = 0
           /\ n <= align_to(n, to) /\ align_to(n, to) < n + to
<1> DEFINE q == (n + to - 1) \div to
<1>1. q \in Nat /\ n + to - 1 = q * to + ((n + to - 1) % to) /\ (n + to - 1) % to \in 0 .. to - 1
  <2>1. n + to - 1 \in Nat
    OBVIOUS
  <2> DEFINE m == n + to - 1
  <2> HIDE DEF m
  <2>2. m \div to \in Nat /\ m = (m \div to) * to + (m % to) /\ m % to \in 0 .. to - 1
    BY <2>1, DivModFacts DEF m
  <2> QED  BY <2>2 DEF m
<1>2. align_to(n, to) = q * to
  BY DEF align_to
<1> HIDE DEF q
<1>3. q * to \in Nat /\ n <= q * to /\ q * to < n + to
  BY <1>1
<1>4. (q * to) % to = 0
  <2>1. 0 \in 0 .. to - 1 /\ q \in Nat
    BY <1>1
  <2>2. (q * to + 0) % to = 0
    BY <2>1, DivModUnique
  <2>3. q * to + 0 = q * to
    BY <1>3
  <2> QED  BY <2>2, <2>3
<1> QED  BY <1>2, <1>3, <1>4

\* The bytes between the segments and the checksum: at most a line, and the image is
\* whole lines.
LEMMA PaddingFills ==
    ASSUME NEW n \in Nat
    PROVE  Padding(n) \in 0 .. 15 /\ (n + Padding(n) + 1) % 16 = 0
<1>1. /\ align_to(n + 1, 16) \in Nat /\ align_to(n + 1, 16) % 16 = 0
      /\ n + 1 <= align_to(n + 1, 16) /\ align_to(n + 1, 16) < n + 1 + 16
  <2>1. n + 1 \in Nat /\ 16 \in Nat \ {0}
    OBVIOUS
  <2> QED  BY <2>1, AlignsUp
<1>2. n + Padding(n) + 1 = align_to(n + 1, 16)
  BY <1>1 DEF Padding
<1> QED  BY <1>1, <1>2 DEF Padding

\* Eight bits make a byte.
LEMMA EightBits ==
    ASSUME NEW a \in 0 .. 1, NEW b \in 0 .. 1, NEW c \in 0 .. 1, NEW d \in 0 .. 1,
           NEW e \in 0 .. 1, NEW f \in 0 .. 1, NEW g \in 0 .. 1, NEW h \in 0 .. 1
    PROVE  a + 2 * b + 4 * c + 8 * d + 16 * e + 32 * f + 64 * g + 128 * h \in 0 .. 255
OBVIOUS

\* How many bytes have a bit.
Having(s, b) == {j \in DOMAIN s : (s[j] \div 2 ^ b) % 2 = 1}
Ones(s, b) == Cardinality(Having(s, b))

\* There is a number of them.
LEMMA OnesType ==
    ASSUME NEW s \in Seq(Byte), NEW b
    PROVE  IsFiniteSet(Having(s, b)) /\ Ones(s, b) \in Nat
<1>1. DOMAIN s = 1 .. Len(s) /\ Len(s) \in Nat
  OBVIOUS
<1>2. IsFiniteSet(DOMAIN s)
  <2>1. IsFiniteSet(1 .. Len(s))
    BY <1>1, FS_Interval
  <2> QED  BY <1>1, <2>1
<1>3. Having(s, b) \subseteq DOMAIN s
  BY DEF Having
<1>4. IsFiniteSet(Having(s, b))
  BY <1>2, <1>3, FS_Subset
<1> QED  BY <1>4, FS_CardinalityType DEF Ones

\* A bit of the checksum.
CheckBit(data, b) == Ones(<<239>> \o data, b) % 2

\* It is one.
LEMMA CheckBitType ==
    ASSUME NEW data \in Seq(Byte), NEW b
    PROVE  CheckBit(data, b) \in 0 .. 1
<1> DEFINE all == <<239>> \o data
<1>1. all \in Seq(Byte)
  <2>1. <<239>> \in Seq(Byte)
    BY DEF Byte
  <2> QED  BY <2>1
<1> HIDE DEF all
<1>2. Ones(all, b) \in Nat
  BY <1>1, OnesType
<1> QED  BY <1>2 DEF CheckBit, all

\* The checksum is made of its bits.
LEMMA ChecksumBits ==
    ASSUME NEW data \in Seq(Byte)
    PROVE  checksum(data) =
             CheckBit(data, 0) + 2 * CheckBit(data, 1) + 4 * CheckBit(data, 2)
             + 8 * CheckBit(data, 3) + 16 * CheckBit(data, 4) + 32 * CheckBit(data, 5)
             + 64 * CheckBit(data, 6) + 128 * CheckBit(data, 7)
<1> DEFINE bit(b) == CheckBit(data, b)
           next(f) == [b \in 0 .. 8 |-> IF b = 0 THEN 0 ELSE f[b - 1] + 2 ^ (b - 1) * bit(b - 1)]
           s1 == bit(0)
           s2 == s1 + 2 * bit(1)
           s3 == s2 + 4 * bit(2)
           s4 == s3 + 8 * bit(3)
           s5 == s4 + 16 * bit(4)
           s6 == s5 + 32 * bit(5)
           s7 == s6 + 64 * bit(6)
           s8 == s7 + 128 * bit(7)
           g == [b \in 0 .. 8 |-> IF b = 0 THEN 0 ELSE <<s1, s2, s3, s4, s5, s6, s7, s8>>[b]]
<1>1. \A b : bit(b) \in 0 .. 1
  BY CheckBitType
<1> HIDE DEF bit
<1>2. g = next(g)
  <2> DEFINE h == next(g)
  <2>1. h[0] = 0 /\ g[0] = 0
    OBVIOUS
  <2>2. h[1] = g[1] /\ h[2] = g[2]
    BY <1>1
  <2>3. h[3] = g[3] /\ h[4] = g[4]
    BY <1>1
  <2>4. h[5] = g[5] /\ h[6] = g[6]
    BY <1>1
  <2>5. h[7] = g[7] /\ h[8] = g[8]
    BY <1>1
  <2>6. \A b \in 0 .. 8 : b \in {0, 1, 2, 3, 4, 5, 6, 7, 8}
    OBVIOUS
  <2>7. \A b \in 0 .. 8 : h[b] = g[b]
    <3> HIDE DEF h, g
    <3> QED BY <2>1, <2>2, <2>3, <2>4, <2>5, <2>6
  <2> QED  BY <2>7
<1> DEFINE upto == CHOOSE f : f = next(f)
<1>3. upto = next(upto)
  <2> HIDE DEF next, g
  <2> QED BY <1>2, Zenon
<1> HIDE DEF g
<1>4. checksum(data) = upto[8]
  BY DEF checksum, bit, CheckBit, Ones, Having
<1> HIDE DEF upto
<1>5. upto[0] = 0 /\ \A b \in 1 .. 8 : upto[b] = upto[b - 1] + 2 ^ (b - 1) * bit(b - 1)
  BY <1>3
<1>6. upto[1] = bit(0) /\ upto[2] = upto[1] + 2 * bit(1)
  <2>1. upto[1] = upto[0] + 2 ^ 0 * bit(0) /\ upto[2] = upto[1] + 2 ^ 1 * bit(1)
    BY <1>5
  <2>2. 2 ^ 0 = 1 /\ 2 ^ 1 = 2
    OBVIOUS
  <2> QED  BY <1>1, <1>5, <2>1, <2>2
<1>7. upto[3] = upto[2] + 4 * bit(2) /\ upto[4] = upto[3] + 8 * bit(3)
  <2>1. upto[3] = upto[2] + 2 ^ 2 * bit(2) /\ upto[4] = upto[3] + 2 ^ 3 * bit(3)
    BY <1>5
  <2>2. 2 ^ 2 = 4 /\ 2 ^ 3 = 8
    OBVIOUS
  <2> QED  BY <2>1, <2>2
<1>8. upto[5] = upto[4] + 16 * bit(4) /\ upto[6] = upto[5] + 32 * bit(5)
  <2>1. upto[5] = upto[4] + 2 ^ 4 * bit(4) /\ upto[6] = upto[5] + 2 ^ 5 * bit(5)
    BY <1>5
  <2>2. 2 ^ 4 = 16 /\ 2 ^ 5 = 32
    OBVIOUS
  <2> QED  BY <2>1, <2>2
<1>9. upto[7] = upto[6] + 64 * bit(6) /\ upto[8] = upto[7] + 128 * bit(7)
  <2>1. upto[7] = upto[6] + 2 ^ 6 * bit(6) /\ upto[8] = upto[7] + 2 ^ 7 * bit(7)
    BY <1>5
  <2>2. 2 ^ 6 = 64 /\ 2 ^ 7 = 128
    OBVIOUS
  <2> QED  BY <2>1, <2>2
<1>10. upto[8] = bit(0) + 2 * bit(1) + 4 * bit(2) + 8 * bit(3)
                  + 16 * bit(4) + 32 * bit(5) + 64 * bit(6) + 128 * bit(7)
  <2>1. upto[4] = bit(0) + 2 * bit(1) + 4 * bit(2) + 8 * bit(3)
    BY <1>6, <1>7
  <2>2. upto[8] = upto[4] + 16 * bit(4) + 32 * bit(5) + 64 * bit(6) + 128 * bit(7)
    BY <1>8, <1>9
  <2> QED  BY <2>1, <2>2
<1> QED  BY <1>4, <1>10 DEF bit

\* It is a byte, too.
LEMMA ChecksumByte ==
    ASSUME NEW data \in Seq(Byte)
    PROVE  checksum(data) \in Byte
<1> DEFINE bit(b) == CheckBit(data, b)
<1>1. \A b : bit(b) \in 0 .. 1
  BY CheckBitType
<1>2. checksum(data) = bit(0) + 2 * bit(1) + 4 * bit(2) + 8 * bit(3)
                         + 16 * bit(4) + 32 * bit(5) + 64 * bit(6) + 128 * bit(7)
  BY ChecksumBits
<1> HIDE DEF bit
<1>3. PICK a \in 0 .. 1, b \in 0 .. 1, c \in 0 .. 1, d \in 0 .. 1 :
        bit(0) = a /\ bit(1) = b /\ bit(2) = c /\ bit(3) = d
  BY <1>1
<1>4. PICK e \in 0 .. 1, f \in 0 .. 1, k \in 0 .. 1, l \in 0 .. 1 :
        bit(4) = e /\ bit(5) = f /\ bit(6) = k /\ bit(7) = l
  BY <1>1
<1>5. checksum(data) = a + 2 * b + 4 * c + 8 * d + 16 * e + 32 * f + 64 * k + 128 * l
  BY <1>2, <1>3, <1>4, Zenon
<1> QED  BY <1>5, EightBits DEF Byte

\* So are the four of a number.
LEMMA LittleEndianBytes ==
    ASSUME NEW n \in Nat
    PROVE  LittleEndian(n) \in Address
<1> DEFINE f == [j \in 1 .. 4 |-> (n \div 256 ^ (j - 1)) % 256]
<1>1. LittleEndian(n) = f
  BY Zenon DEF LittleEndian
<1>2. ASSUME NEW x \in Nat PROVE x % 256 \in Byte
  BY DEF Byte
<1>3. f[1] = (n \div 1) % 256 /\ f[2] = (n \div 256) % 256
  <2>1. f[1] = (n \div 256 ^ 0) % 256 /\ f[2] = (n \div 256 ^ 1) % 256
    OBVIOUS
  <2>2. 256 ^ 0 = 1 /\ 256 ^ 1 = 256
    OBVIOUS
  <2> QED BY <2>1, <2>2
<1>4. f[3] = (n \div 65536) % 256 /\ f[4] = (n \div 16777216) % 256
  <2>1. f[3] = (n \div 256 ^ 2) % 256 /\ f[4] = (n \div 256 ^ 3) % 256
    OBVIOUS
  <2>2. 256 ^ 2 = 65536 /\ 256 ^ 3 = 16777216
    OBVIOUS
  <2> QED BY <2>1, <2>2
<1>5. f[1] \in Byte /\ f[2] \in Byte
  BY <1>3 DEF Byte
<1>6. f[3] \in Byte /\ f[4] \in Byte
  BY <1>4 DEF Byte
<1>7. f = [j \in 1 .. 4 |-> f[j]]
  OBVIOUS
<1> HIDE DEF f
<1>8. \A j \in 1 .. 4 : f[j] \in Byte
  <2>1. \A j \in 1 .. 4 : j \in {1, 2, 3, 4}
    OBVIOUS
  <2> QED BY <2>1, <1>5, <1>6
<1> QED BY <1>1, <1>7, <1>8 DEF Address

\* An address is a sequence of bytes.
LEMMA AddressType == Address \subseteq Seq(Byte)
<1>1. Seq(Byte) = UNION {[1 .. n -> Byte] : n \in Nat}
  BY SeqDef
<1>2. 4 \in Nat
  OBVIOUS
<1> QED  BY <1>1, <1>2, Zenon DEF Address

\* Zeros yields a sequence.
LEMMA ZerosType ==
    ASSUME NEW n \in Nat
    PROVE  Zeros(n) \in Seq(Byte)
<1>1. 0 \in Byte
  BY DEF Byte
<1> QED  BY <1>1 DEF Zeros

\* A segment is a sequence.
LEMMA SegmentType ==
    ASSUME NEW h \in [vaddr : Address, data : Seq(Byte)]
    PROVE  Segment(h) \in Seq(Byte)
<1> DEFINE n == Len(h.data)
           s == align_to(n, 4)
<1>1. h.vaddr \in Seq(Byte)
  <2>1. \A a \in Address : a \in Seq(Byte)
    BY AddressType
  <2>2. h.vaddr \in Seq(Byte)
    BY <2>1
  <2> QED  BY <2>2
<1>2. h.data \in Seq(Byte) /\ n \in Nat
  OBVIOUS
<1>3. s \in Nat /\ s - n \in Nat
  <2> HIDE DEF n
  <2>1. 4 \in Nat \ {0}
    OBVIOUS
  <2>2. align_to(n, 4) \in Nat /\ n <= align_to(n, 4)
    BY <1>2, <2>1, AlignsUp
  <2> QED  BY <1>2, <2>2
<1>4. LittleEndian(s) \in Seq(Byte)
  <2> HIDE DEF s
  <2> QED  BY <1>3, LittleEndianBytes, AddressType
<1>5. Zeros(s - n) \in Seq(Byte)
  BY <1>3, ZerosType
<1>6. Segment(h) = ((h.vaddr \o LittleEndian(s)) \o h.data) \o Zeros(s - n)
  BY DEF Segment
<1> HIDE DEF s, n
<1> QED  BY <1>1, <1>2, <1>4, <1>5, <1>6

\* elf_get_phdr gives headers.
LEMMA PhdrType ==
    ASSUME NEW e, ElfFile(e), NEW n \in 1 .. Len(e.phdrs)
    PROVE  Phdr(e, n) \in [vaddr : Address, data : Seq(Byte)]
<1>1. e.phdrs \in Seq([vaddr : Address, data : Seq(Byte)])
  BY DEF ElfFile
<1>2. [vaddr |-> Zeros(4), data |-> << >>] \in [vaddr : Address, data : Seq(Byte)]
  <2>1. Zeros(4) \in Address
    BY DEF Zeros, Address, Byte
  <2>2. << >> \in Seq(Byte)
    OBVIOUS
  <2> QED  BY <2>1, <2>2
<1>3. \A m : Phdr(e, m) \in {e.phdrs[k] : k \in DOMAIN e.phdrs}
                  \cup {[vaddr |-> Zeros(4), data |-> << >>]}
  BY DEF Phdr
<1>4. \A k \in DOMAIN e.phdrs : e.phdrs[k] \in [vaddr : Address, data : Seq(Byte)]
  <2> DEFINE R == [vaddr : Address, data : Seq(Byte)]
             hs == e.phdrs
  <2>1. hs \in Seq(R)
    BY <1>1
  <2> HIDE DEF R, hs
  <2>2. \A k \in DOMAIN hs : hs[k] \in R
    BY <2>1
  <2> QED  BY <2>2 DEF R, hs
<1> QED  BY <1>2, <1>3, <1>4

\* mkbin's image is a sequence.
LEMMA MkbinType ==
    ASSUME NEW e, ElfFile(e)
    PROVE  mkbin(e) \in Seq(Byte)
<1> DEFINE k == Len(e.phdrs)
           headers == [n \in DOMAIN e.phdrs |-> Phdr(e, n)]
           segments == [n \in DOMAIN headers |-> Segment(headers[n])]
           datas == [n \in DOMAIN headers |-> headers[n].data]
           upto == common_hdr(k) \o e.entry \o extended_hdr \o FlattenSeq(segments)
<1>1. k \in Nat /\ k <= 255 /\ DOMAIN e.phdrs = 1 .. k
  BY DEF ElfFile
<1>2. /\ DOMAIN headers = 1 .. k
      /\ \A n \in 1 .. k : headers[n] \in [vaddr : Address, data : Seq(Byte)]
  BY <1>1, PhdrType
<1>3. FlattenSeq(segments) \in Seq(Byte)
  <2>1. \A n \in 1 .. k : Segment(headers[n]) \in Seq(Byte)
    BY <1>2, SegmentType
  <2>2. segments = [n \in 1 .. k |-> Segment(headers[n])]
    BY <1>2
  <2> HIDE DEF headers, k, segments
  <2>3. segments \in Seq(Seq(Byte))
    BY <1>1, <2>1, <2>2
  <2> QED  BY <2>3, FlattenType
<1>4. FlattenSeq(datas) \in Seq(Byte)
  <2>1. datas = [n \in 1 .. k |-> headers[n].data]
    BY <1>2
  <2> HIDE DEF headers, k, datas
  <2>2. datas \in Seq(Seq(Byte))
    BY <1>1, <1>2, <2>1
  <2> QED  BY <2>2, FlattenType
<1>5. common_hdr(k) \in Seq(Byte)
  <2>1. 233 \in Byte /\ k \in Byte /\ 0 \in Byte
    <3> HIDE DEF k
    <3> QED  BY <1>1 DEF Byte
  <2> HIDE DEF k
  <2> QED  BY <2>1 DEF common_hdr
<1>6. e.entry \in Seq(Byte)
  <2>1. \A a \in Address : a \in Seq(Byte)
    BY AddressType
  <2>2. e.entry \in Seq(Byte)
    BY <2>1 DEF ElfFile
  <2> QED  BY <2>2
<1>7. extended_hdr \in Seq(Byte)
  <2>1. <<238>> \in Seq(Byte) /\ <<1>> \in Seq(Byte)
    <3>1. 238 \in Byte /\ 1 \in Byte
      BY DEF Byte
    <3> QED  BY <3>1
  <2>2. Zeros(14) \in Seq(Byte)
    BY ZerosType
  <2> QED  BY <2>1, <2>2 DEF extended_hdr
<1>8. upto \in Seq(Byte)
  <2> HIDE DEF segments, headers, k
  <2> QED  BY <1>3, <1>5, <1>6, <1>7
<1>9. Zeros(Padding(Len(upto))) \in Seq(Byte)
  <2> HIDE DEF upto
  <2>1. Padding(Len(upto)) \in Nat
    BY <1>8, PaddingFills
  <2> QED  BY <2>1, ZerosType
<1>10. <<checksum(FlattenSeq(datas))>> \in Seq(Byte)
  <2>1. checksum(FlattenSeq(datas)) \in Byte
    BY <1>4, ChecksumByte, Zenon
  <2> HIDE DEF datas
  <2> QED  BY <2>1
<1>11. mkbin(e) = (upto \o Zeros(Padding(Len(upto)))) \o <<checksum(FlattenSeq(datas))>>
  BY Zenon DEF mkbin
<1> HIDE DEF upto, datas
<1> QED  BY <1>8, <1>9, <1>10, <1>11

\* The segments that mkbin writes, and their bytes that are not filled up.
Segments(e) == [n \in 1 .. Len(e.phdrs) |-> Segment(Phdr(e, n))]
Datas(e)    == [n \in 1 .. Len(e.phdrs) |-> Phdr(e, n).data]

\* They are sequences of bytes.
LEMMA SegmentsType ==
    ASSUME NEW e, ElfFile(e)
    PROVE  /\ Segments(e) \in Seq(Seq(Byte)) /\ Datas(e) \in Seq(Seq(Byte))
           /\ Len(Segments(e)) = Len(e.phdrs) /\ Len(Datas(e)) = Len(e.phdrs)
<1> DEFINE k == Len(e.phdrs)
<1>1. k \in Nat
  BY DEF ElfFile
<1>2. \A n \in 1 .. k : Segment(Phdr(e, n)) \in Seq(Byte) /\ Phdr(e, n).data \in Seq(Byte)
  <2> TAKE n \in 1 .. k
  <2>1. Phdr(e, n) \in [vaddr : Address, data : Seq(Byte)]
    BY PhdrType
  <2>2. Segment(Phdr(e, n)) \in Seq(Byte)
    BY <2>1, SegmentType
  <2>3. Phdr(e, n).data \in Seq(Byte)
    BY <2>1
  <2> QED  BY <2>2, <2>3
<1>3. Segments(e) = [n \in 1 .. k |-> Segment(Phdr(e, n))] /\ Datas(e) = [n \in 1 .. k |-> Phdr(e, n).data]
  BY Zenon DEF Segments, Datas
<1> DEFINE B == Seq(Byte)
<1> HIDE DEF k, B
<1>4. Segments(e) \in Seq(B) /\ Len(Segments(e)) = k
  <2>1. \A n \in 1 .. k : Segment(Phdr(e, n)) \in B
    BY <1>2 DEF B
  <2> QED  BY <1>1, <1>3, <2>1
<1>5. Datas(e) \in Seq(B) /\ Len(Datas(e)) = k
  <2>1. \A n \in 1 .. k : Phdr(e, n).data \in B
    BY <1>2 DEF B
  <2> QED  BY <1>1, <1>3, <2>1
<1> QED  BY <1>4, <1>5 DEF B, k

\* What comes before the segments.
ImageHeader(e) == common_hdr(Len(e.phdrs)) \o e.entry \o extended_hdr

\* Its parts: 4, 4 and 16 bytes.
LEMMA ImageHeaderParts ==
    ASSUME NEW e, ElfFile(e)
    PROVE  /\ Sized(Byte, common_hdr(Len(e.phdrs)), 4) /\ Sized(Byte, e.entry, 4)
           /\ Sized(Byte, extended_hdr, 16) /\ extended_hdr[5] = 0
<1> DEFINE k == Len(e.phdrs)
<1>1. Sized(Byte, common_hdr(k), 4)
  <2>1. 233 \in Byte /\ k \in Byte /\ 0 \in Byte
    <3>1. k \in Nat /\ k <= 255
      BY DEF ElfFile
    <3> HIDE DEF k
    <3> QED  BY <3>1 DEF Byte
  <2> HIDE DEF k
  <2> QED  BY <2>1 DEF common_hdr, Sized
<1>2. Sized(Byte, e.entry, 4)
  <2>1. \A a \in Address : a \in Seq(Byte)
    BY AddressType
  <2>2. e.entry \in Address
    BY DEF ElfFile
  <2>3. e.entry \in Seq(Byte) /\ DOMAIN e.entry = 1 .. 4
    BY <2>1, <2>2 DEF Address
  <2> QED  BY <2>3, LengthIs DEF Sized
<1>3. Sized(Byte, extended_hdr, 16) /\ extended_hdr[5] = 0
  <2> DEFINE v == <<238>>
             z == Zeros(14)
             w == <<1>>
  <2>1. Sized(Byte, v, 1) /\ Sized(Byte, w, 1)
    BY DEF Byte, Sized
  <2>2. Sized(Byte, z, 14) /\ z[4] = 0
    <3>1. z \in Seq(Byte) /\ DOMAIN z = 1 .. 14 /\ z[4] = 0
      BY ZerosType DEF Zeros
    <3> QED  BY <3>1, LengthIs DEF Sized
  <2>3. extended_hdr = (v \o z) \o w
    BY Zenon DEF extended_hdr
  <2> HIDE DEF v, z, w
  <2>4. Sized(Byte, v \o z, 1 + 14) /\ GoesOn(v \o z, 1, z, 14)
    BY <2>1, <2>2, ConcatSized, ConcatGoesOn
  <2>5. 1 + 14 = 15 /\ 15 + 1 = 16 /\ 15 \in Nat /\ 1 \in Nat
    OBVIOUS
  <2>6. Sized(Byte, (v \o z) \o w, 15 + 1) /\ Begins((v \o z) \o w, v \o z, 15)
    BY <2>1, <2>4, <2>5, ConcatSized, ConcatBegins
  <2> DEFINE y == v \o z
  <2> HIDE DEF y
  <2>7. y[5] = 0
    <3>1. GoesOn(y, 1, z, 14)
      BY <2>4, Zenon DEF y
    <3>2. y[1 + 4] = z[4]
      BY <3>1 DEF GoesOn
    <3> QED  BY <2>2, <3>2
  <2>8. extended_hdr[5] = y[5]
    <3>1. Begins(extended_hdr, y, 15)
      BY <2>3, <2>6, Zenon DEF y
    <3>2. 5 \in 1 .. 15
      OBVIOUS
    <3> QED  BY <3>1, <3>2, Zenon DEF Begins
  <2> QED  BY <2>3, <2>5, <2>6, <2>7, <2>8
<1> QED  BY <1>1, <1>2, <1>3

\* The magic number, the number of segments, the flash parameters, the entry point and
\* the chip.
LEMMA ImageHeaderBytes ==
    ASSUME NEW e, ElfFile(e)
    PROVE  LET h == ImageHeader(e) IN
           /\ Sized(Byte, h, 24)
           /\ h[1] = 233 /\ h[2] = Len(e.phdrs) /\ h[3] = 0 /\ h[4] = 0 /\ h[13] = 0
           /\ h[5] = e.entry[1] /\ h[6] = e.entry[2] /\ h[7] = e.entry[3] /\ h[8] = e.entry[4]
<1> DEFINE k == Len(e.phdrs)
           c == common_hdr(k)
           a == e.entry
           x == extended_hdr
           b == c \o a
           h == b \o x
<1>1. Sized(Byte, c, 4) /\ Sized(Byte, a, 4) /\ Sized(Byte, x, 16) /\ x[5] = 0
  BY ImageHeaderParts
<1>2. c[1] = 233 /\ c[2] = k /\ c[3] = 0 /\ c[4] = 0
  <2> HIDE DEF k
  <2> QED  BY DEF common_hdr
<1>3. ImageHeader(e) = h
  BY Zenon DEF ImageHeader
<1> HIDE DEF k, c, a, x
<1>4. Sized(Byte, b, 4 + 4) /\ Begins(b, c, 4) /\ GoesOn(b, 4, a, 4)
  BY <1>1, ConcatSized, ConcatBegins, ConcatGoesOn
<1>5. 4 + 4 = 8 /\ 8 + 16 = 24 /\ 8 \in Nat /\ 16 \in Nat
  OBVIOUS
<1> HIDE DEF b
<1>6. Sized(Byte, h, 8 + 16) /\ Begins(h, b, 8) /\ GoesOn(h, 8, x, 16)
  BY <1>1, <1>4, <1>5, ConcatSized, ConcatBegins, ConcatGoesOn
<1> HIDE DEF h
<1>7. h[1] = 233 /\ h[2] = k /\ h[3] = 0 /\ h[4] = 0
  <2>1. \A j \in 1 .. 4 : h[j] = c[j]
    BY <1>4, <1>6 DEF Begins
  <2> QED  BY <1>2, <2>1
<1>8. h[5] = a[1] /\ h[6] = a[2] /\ h[7] = a[3] /\ h[8] = a[4]
  <2>1. \A j \in 5 .. 8 : h[j] = b[j]
    BY <1>6 DEF Begins
  <2>2. b[5] = a[1] /\ b[6] = a[2] /\ b[7] = a[3] /\ b[8] = a[4]
    <3>1. b[4 + 1] = a[1] /\ b[4 + 2] = a[2] /\ b[4 + 3] = a[3] /\ b[4 + 4] = a[4]
      BY <1>4 DEF GoesOn
    <3> QED  BY <3>1
  <2> QED  BY <2>1, <2>2
<1>9. h[13] = 0
  <2>1. h[8 + 5] = x[5]
    BY <1>6 DEF GoesOn
  <2> QED  BY <1>1, <2>1
<1>10. Sized(Byte, h, 24)
  BY <1>5, <1>6, Zenon
<1> QED  BY <1>3, <1>7, <1>8, <1>9, <1>10, Zenon DEF k, a

\* Headers and segments.
ImageFront(e) == ImageHeader(e) \o FlattenSeq(Segments(e))

\* The parts of an image.
LEMMA MkbinParts ==
    ASSUME NEW e, ElfFile(e)
    PROVE  /\ FlattenSeq(Segments(e)) \in Seq(Byte) /\ ImageFront(e) \in Seq(Byte)
           /\ Len(ImageFront(e)) = 24 + Len(FlattenSeq(Segments(e)))
           /\ mkbin(e) = (ImageFront(e) \o Zeros(Padding(Len(ImageFront(e)))))
                           \o <<checksum(FlattenSeq(Datas(e)))>>
<1>1. FlattenSeq(Segments(e)) \in Seq(Byte)
  BY SegmentsType, FlattenType
<1>2. Sized(Byte, ImageHeader(e), 24)
  BY ImageHeaderBytes
<1>3. Sized(Byte, ImageFront(e), 24 + Len(FlattenSeq(Segments(e))))
  <2> DEFINE b == FlattenSeq(Segments(e))
  <2>1. Sized(Byte, b, Len(b)) /\ Len(b) \in Nat /\ 24 \in Nat
    BY <1>1 DEF Sized
  <2> HIDE DEF b
  <2>2. Sized(Byte, ImageHeader(e) \o b, 24 + Len(b))
    BY <1>2, <2>1, ConcatSized
  <2> QED  BY <2>2, Zenon DEF ImageFront, b
<1>4. DOMAIN e.phdrs = 1 .. Len(e.phdrs)
  BY DEF ElfFile
<1> DEFINE headers == [n \in DOMAIN e.phdrs |-> Phdr(e, n)]
<1>5. [n \in DOMAIN headers |-> Segment(headers[n])] = Segments(e)
  BY <1>4, Zenon DEF Segments
<1>6. [n \in DOMAIN headers |-> headers[n].data] = Datas(e)
  BY <1>4, Zenon DEF Datas
<1>7. mkbin(e) =
        (ImageHeader(e) \o FlattenSeq([n \in DOMAIN headers |-> Segment(headers[n])]))
          \o Zeros(Padding(Len(ImageHeader(e)
               \o FlattenSeq([n \in DOMAIN headers |-> Segment(headers[n])]))))
          \o <<checksum(FlattenSeq([n \in DOMAIN headers |-> headers[n].data]))>>
  BY Zenon DEF mkbin, ImageHeader
<1> HIDE DEF headers
<1> QED  BY <1>1, <1>3, <1>5, <1>6, <1>7, Zenon DEF ImageFront, Sized

\* The image: its bytes up to the end of the segments, then the padding, and the checksum.
LEMMA MkbinBytes ==
    ASSUME NEW e, ElfFile(e)
    PROVE  LET u == Len(ImageFront(e)) IN
           /\ u \in Nat /\ mkbin(e) \in Seq(Byte)
           /\ Len(mkbin(e)) = u + Padding(u) + 1
           /\ mkbin(e)[u + Padding(u) + 1] = checksum(FlattenSeq(Datas(e)))
           /\ \A j \in 1 .. u : mkbin(e)[j] = ImageFront(e)[j]
<1> DEFINE f == ImageFront(e)
           u == Len(f)
           z == Zeros(Padding(u))
           c == checksum(FlattenSeq(Datas(e)))
<1>1. f \in Seq(Byte) /\ mkbin(e) = (f \o z) \o <<c>>
  BY MkbinParts
<1>2. mkbin(e) \in Seq(Byte)
  BY MkbinType
<1> HIDE DEF f, c
<1>3. u \in Nat
  BY <1>1
<1>4. Padding(u) \in Nat
  BY <1>3, PaddingFills
<1>5. Sized(Byte, z, Padding(u))
  <2>1. z \in Seq(Byte) /\ DOMAIN z = 1 .. Padding(u)
    BY <1>4, ZerosType DEF Zeros
  <2> HIDE DEF z
  <2> QED  BY <1>4, <2>1, LengthIs DEF Sized
<1>6. Sized(Byte, f, u)
  BY <1>1 DEF Sized
<1>7. Sized(Byte, <<c>>, 1)
  <2>1. c \in Byte
    <3>1. FlattenSeq(Datas(e)) \in Seq(Byte)
      BY SegmentsType, FlattenType
    <3> QED  BY <3>1, ChecksumByte DEF c
  <2> QED  BY <2>1 DEF Sized
<1> DEFINE g == f \o z
           v == <<c>>
           p == Padding(u)
<1>8. v[1] = c
  OBVIOUS
<1> HIDE DEF u, z, v, p
<1>9. Sized(Byte, g, u + p) /\ Begins(g, f, u) /\ u + p \in Nat
  BY <1>3, <1>4, <1>5, <1>6, ConcatSized, ConcatBegins DEF p
<1> HIDE DEF g
<1>10. Sized(Byte, g \o v, u + p + 1) /\ Begins(g \o v, g, u + p) /\ GoesOn(g \o v, u + p, v, 1)
  BY <1>7, <1>9, ConcatSized, ConcatBegins, ConcatGoesOn DEF v
<1>11. mkbin(e) = g \o v
  BY <1>1 DEF g, v
<1>12. Len(mkbin(e)) = u + p + 1
  BY <1>10, <1>11 DEF Sized
<1>13. mkbin(e)[u + p + 1] = c
  <2>1. 1 \in 1 .. 1
    OBVIOUS
  <2> QED  BY <1>8, <1>10, <1>11, <2>1, Zenon DEF GoesOn
<1>14. \A j \in 1 .. u : mkbin(e)[j] = f[j]
  <2>1. \A j \in 1 .. u : j \in 1 .. u + p
    BY <1>3, <1>4 DEF p
  <2> QED  BY <1>9, <1>10, <1>11, <2>1, Zenon DEF Begins
<1> QED  BY <1>2, <1>3, <1>12, <1>13, <1>14, Zenon DEF f, c, u, p

-----------------------------------------------------------------------------
\* Lines

Line == [type : {"high", "data", "end"}, addr : Nat, data : Seq(Byte)]

\* Before each line there are the upper half that holds, and where the data of a line
\* would go on with the file that is written to.
Reader == [upper : Nat, next : Int]
Step(r, line) ==
    [upper |-> IF line.type = "high" THEN line.addr * Bank ELSE r.upper,
     next  |-> IF line.type = "high" THEN r.next
               ELSE IF line.type = "end" THEN NoFile
               ELSE r.upper + line.addr + Len(line.data)]

\* The bytes of a line whose data belong at a, and the addresses they take.
Placed(a, data) == {<<a + j - 1, data[j]>> : j \in DOMAIN data}
Extent(a, data) == {a + j - 1 : j \in DOMAIN data}

\* The lines that hold data, and where the data of the n-th line belong.
DataLinesOf(lines) == {n \in 1 .. Len(lines) : lines[n].type = "data"}
Where(rs, lines, n) == rs[n].upper + lines[n].addr
LineExtent(rs, lines, n) == Extent(Where(rs, lines, n), lines[n].data)
PlacedBy(rs, lines) ==
    UNION {Placed(Where(rs, lines, n), lines[n].data) : n \in DataLinesOf(lines)}

\* What there is before each line and behind the last one.
Reads(rs, lines, r, last) ==
    /\ rs \in Seq(Reader) /\ Len(rs) = Len(lines) + 1
    /\ rs[1] = r /\ rs[Len(lines) + 1] = last
    /\ \A n \in 1 .. Len(lines) : rs[n + 1] = Step(rs[n], lines[n])

\* Read from r on, the lines lead to last; their data take different addresses of S and
\* are the bytes B; a line goes on where the last one ended, unless it begins at one of T.
Printing(lines, r, last, S, B, T) ==
    \E rs : /\ Reads(rs, lines, r, last)
            /\ \A n \in DataLinesOf(lines) :
                 /\ lines[n].data # << >>
                 /\ LineExtent(rs, lines, n) \subseteq S
                 /\ Where(rs, lines, n) \in T \cup {rs[n].next}
            /\ \A n, m \in DataLinesOf(lines) :
                 n # m => LineExtent(rs, lines, n) \cap LineExtent(rs, lines, m) = {}
            /\ B = PlacedBy(rs, lines)

\* The parts of a line.
LEMMA LineParts ==
    ASSUME NEW l \in Line
    PROVE  /\ l.type \in {"high", "data", "end"} /\ l.addr \in Nat /\ l.data \in Seq(Byte)
           /\ Len(l.data) \in Nat
<1>1. l.type \in {"high", "data", "end"} /\ l.addr \in Nat /\ l.data \in Seq(Byte)
  BY DEF Line
<1> QED  BY <1>1, LenProperties

\* A line leads from reader to reader.
LEMMA StepType ==
    ASSUME NEW l \in Line, NEW r \in Reader
    PROVE  Step(r, l) \in Reader
<1>1. l.addr \in Nat /\ Bank \in Nat /\ Len(l.data) \in Nat
  BY LineParts, HexAssumption
<1>2. r.upper \in Nat /\ r.next \in Int
  BY DEF Reader
<1>3. l.addr * Bank \in Nat /\ r.upper + l.addr + Len(l.data) \in Int
  BY <1>1, <1>2
<1> QED  BY <1>2, <1>3 DEF Step, Reader, NoFile

\* Behind the last line is a reader, too.
LEMMA LastReader ==
    ASSUME NEW lines \in Seq(Line), NEW r, NEW last, NEW S, NEW B, NEW T,
           Printing(lines, r, last, S, B, T)
    PROVE  last \in Reader
<1>1. PICK rs : Reads(rs, lines, r, last)
  BY Zenon DEF Printing
<1>2. rs \in Seq(Reader) /\ Len(rs) = Len(lines) + 1 /\ rs[Len(lines) + 1] = last
  BY <1>1, Zenon DEF Reads
<1>3. Len(lines) + 1 \in 1 .. Len(rs)
  <2>1. Len(lines) \in Nat
    OBVIOUS
  <2> QED  BY <2>1, <1>2
<1> QED  BY <1>2, <1>3

\* Nothing printed is nothing.
LEMMA NothingPrinted ==
    ASSUME NEW r \in Reader, NEW T
    PROVE  Printing(<< >>, r, r, {}, {}, T)
<1> DEFINE rs == <<r>>
<1>1. Reads(rs, << >>, r, r)
  BY DEF Reads
<1>2. DataLinesOf(<< >>) = {}
  BY DEF DataLinesOf
<1>3. PlacedBy(rs, << >>) = {}
  BY <1>2 DEF PlacedBy
<1> HIDE DEF rs
<1> QED  BY <1>1, <1>2, <1>3, Zenon DEF Printing

\* Which addresses the data take may be known less exactly.
LEMMA PrintedWithin ==
    ASSUME NEW lines, NEW r, NEW last, NEW S, NEW B, NEW T, NEW S2,
           Printing(lines, r, last, S, B, T), S \subseteq S2
    PROVE  Printing(lines, r, last, S2, B, T)
<1>1. PICK rs :
        /\ Reads(rs, lines, r, last)
        /\ \A n \in DataLinesOf(lines) :
             /\ lines[n].data # << >>
             /\ LineExtent(rs, lines, n) \subseteq S
             /\ Where(rs, lines, n) \in T \cup {rs[n].next}
        /\ \A n, m \in DataLinesOf(lines) :
             n # m => LineExtent(rs, lines, n) \cap LineExtent(rs, lines, m) = {}
        /\ B = PlacedBy(rs, lines)
  BY Zenon DEF Printing
<1>2. \A n \in DataLinesOf(lines) : LineExtent(rs, lines, n) \subseteq S2
  BY <1>1, Zenon
<1> QED  BY <1>1, <1>2, Zenon DEF Printing

\* The lines that hold data after one more line.
LEMMA DataLinesAppend ==
    ASSUME NEW lines \in Seq(Line), NEW l \in Line
    PROVE  DataLinesOf(Append(lines, l)) =
             DataLinesOf(lines) \cup (IF l.type = "data" THEN {Len(lines) + 1} ELSE {})
<1>1. /\ Len(lines) \in Nat /\ Len(Append(lines, l)) = Len(lines) + 1
      /\ \A n \in 1 .. Len(lines) : Append(lines, l)[n] = lines[n]
      /\ Append(lines, l)[Len(lines) + 1] = l
  BY AppendProperties
<1> DEFINE longer == Append(lines, l)
           k == Len(lines)
<1> HIDE DEF longer, k
<1>2. \A n \in 1 .. k + 1 : n \in 1 .. k \/ n = k + 1
  BY <1>1 DEF k
<1>3. 1 .. k \subseteq 1 .. k + 1 /\ k + 1 \in 1 .. k + 1
  BY <1>1 DEF k
<1>4. \A n \in 1 .. k : longer[n] = lines[n]
  BY <1>1 DEF longer, k
<1>5. longer[k + 1] = l /\ Len(longer) = k + 1
  BY <1>1 DEF longer, k
<1> QED  BY <1>2, <1>3, <1>4, <1>5, Zenon DEF DataLinesOf, longer, k

\* One more line.
LEMMA PrintLine ==
    ASSUME NEW lines \in Seq(Line), NEW r, NEW last, NEW S, NEW B, NEW T, NEW l \in Line,
           Printing(lines, r, last, S, B, T),
           l.type = "data" =>
             /\ l.data # << >>
             /\ Extent(last.upper + l.addr, l.data) \cap S = {}
             /\ last.upper + l.addr \in T \cup {last.next}
    PROVE  Printing(Append(lines, l), r, Step(last, l),
             S \cup (IF l.type = "data" THEN Extent(last.upper + l.addr, l.data) ELSE {}),
             B \cup (IF l.type = "data" THEN Placed(last.upper + l.addr, l.data) ELSE {}), T)
<1> DEFINE k == Len(lines)
           longer == Append(lines, l)
           isData == l.type = "data"
           at == last.upper + l.addr
<1>0. /\ k \in Nat /\ Len(longer) = k + 1 /\ longer[k + 1] = l
      /\ \A n \in 1 .. k : longer[n] = lines[n]
  BY AppendProperties
<1>1. PICK rs :
        /\ Reads(rs, lines, r, last)
        /\ \A n \in DataLinesOf(lines) :
             /\ lines[n].data # << >>
             /\ LineExtent(rs, lines, n) \subseteq S
             /\ Where(rs, lines, n) \in T \cup {rs[n].next}
        /\ \A n, m \in DataLinesOf(lines) :
             n # m => LineExtent(rs, lines, n) \cap LineExtent(rs, lines, m) = {}
        /\ B = PlacedBy(rs, lines)
  BY Zenon DEF Printing
<1>2. /\ rs \in Seq(Reader) /\ Len(rs) = k + 1 /\ rs[1] = r /\ rs[k + 1] = last
      /\ \A n \in 1 .. k : rs[n + 1] = Step(rs[n], lines[n])
  BY <1>1, Zenon DEF Reads
<1> DEFINE more == Append(rs, Step(last, l))
<1>3. last \in Reader
  <2>1. k + 1 \in 1 .. Len(rs)
    BY <1>0, <1>2
  <2> QED  BY <2>1, <1>2
<1>4. /\ more \in Seq(Reader) /\ Len(more) = k + 2 /\ more[k + 2] = Step(last, l)
      /\ \A n \in 1 .. k + 1 : more[n] = rs[n]
  <2>1. Step(last, l) \in Reader
    BY <1>3, StepType
  <2>2. k + 1 + 1 = k + 2
    BY <1>0
  <2> HIDE DEF k
  <2> QED  BY <1>2, <2>1, <2>2, <1>0, AppendProperties
<1> HIDE DEF k, longer, more, at
<1>5. Reads(more, longer, r, Step(last, l))
  <2>1. Len(more) = Len(longer) + 1 /\ more[1] = r /\ more[Len(longer) + 1] = Step(last, l)
    <3>1. 1 \in 1 .. k + 1 /\ (k + 1) + 1 = k + 2
      BY <1>0
    <3> QED  BY <3>1, <1>0, <1>2, <1>4, Zenon
  <2>2. ASSUME NEW n \in 1 .. k + 1 PROVE more[n + 1] = Step(more[n], longer[n])
    <3>1. CASE n = k + 1
      <4>1. n + 1 = k + 2 /\ k + 1 \in 1 .. k + 1
        BY <3>1, <1>0
      <4>2. more[n] = last /\ longer[n] = l
        BY <3>1, <4>1, <1>0, <1>2, <1>4, Zenon
      <4> QED  BY <4>1, <4>2, <1>4, Zenon
    <3>2. CASE n # k + 1
      <4>1. n \in 1 .. k /\ n + 1 \in 1 .. k + 1
        BY <3>2, <1>0
      <4> QED  BY <4>1, <1>0, <1>2, <1>4, Zenon
    <3> QED  BY <3>1, <3>2
  <2> QED  BY <1>0, <1>4, <2>1, <2>2, Zenon DEF Reads
<1>6. DataLinesOf(longer) = DataLinesOf(lines) \cup (IF isData THEN {k + 1} ELSE {})
  BY DataLinesAppend, Zenon DEF longer, k
<1>7. ASSUME NEW n \in DataLinesOf(lines)
      PROVE  /\ Where(more, longer, n) = Where(rs, lines, n) /\ longer[n] = lines[n]
             /\ LineExtent(more, longer, n) = LineExtent(rs, lines, n)
             /\ more[n] = rs[n] /\ n # k + 1
  <2>1. n \in 1 .. k /\ n \in 1 .. k + 1 /\ n # k + 1
    <3>1. n \in 1 .. k
      BY Zenon DEF DataLinesOf, k
    <3> QED  BY <3>1, <1>0
  <2> QED  BY <2>1, <1>0, <1>4, Zenon DEF Where, LineExtent
<1>8. /\ Where(more, longer, k + 1) = at /\ LineExtent(more, longer, k + 1) = Extent(at, l.data)
      /\ more[k + 1] = last
  <2>1. k + 1 \in 1 .. k + 1
    BY <1>0
  <2>2. more[k + 1] = last
    BY <2>1, <1>2, <1>4, Zenon
  <2> QED  BY <2>2, <1>0, Zenon DEF Where, LineExtent, at
<1> DEFINE S2 == S \cup (IF isData THEN Extent(at, l.data) ELSE {})
           B2 == B \cup (IF isData THEN Placed(at, l.data) ELSE {})
<1>0b. isData => /\ l.data # << >> /\ Extent(at, l.data) \cap S = {}
                 /\ at \in T \cup {last.next}
  BY DEF at
<1> HIDE DEF isData
<1>9. ASSUME NEW n \in DataLinesOf(longer)
      PROVE  /\ longer[n].data # << >>
             /\ LineExtent(more, longer, n) \subseteq S2
             /\ Where(more, longer, n) \in T \cup {more[n].next}
  <2>1. CASE n \in DataLinesOf(lines)
    <3>1. LineExtent(rs, lines, n) \subseteq S /\ lines[n].data # << >>
          /\ Where(rs, lines, n) \in T \cup {rs[n].next}
      BY <2>1, <1>1, Zenon
    <3> QED  BY <2>1, <3>1, <1>7, Zenon
  <2>2. CASE n \notin DataLinesOf(lines)
    <3>1. n = k + 1 /\ isData
      BY <2>2, <1>6, Zenon
    <3> QED  BY <3>1, <1>0, <1>0b, <1>8, Zenon
  <2> QED  BY <2>1, <2>2
<1>10. ASSUME NEW n \in DataLinesOf(longer), NEW m \in DataLinesOf(longer), n # m
       PROVE  LineExtent(more, longer, n) \cap LineExtent(more, longer, m) = {}
  <2>1. CASE n \in DataLinesOf(lines) /\ m \in DataLinesOf(lines)
    <3>1. LineExtent(rs, lines, n) \cap LineExtent(rs, lines, m) = {}
      BY <2>1, <1>1, <1>10, Zenon
    <3>2. /\ LineExtent(more, longer, n) = LineExtent(rs, lines, n)
          /\ LineExtent(more, longer, m) = LineExtent(rs, lines, m)
      BY <2>1, <1>7, Zenon
    <3> QED  BY <3>1, <3>2, Zenon
  <2>2. CASE n \in DataLinesOf(lines) /\ m \notin DataLinesOf(lines)
    <3>1. m = k + 1 /\ isData
      BY <2>2, <1>6, Zenon
    <3>2. LineExtent(rs, lines, n) \subseteq S
      BY <2>2, <1>1, Zenon
    <3> QED  BY <3>1, <3>2, <2>2, <1>0b, <1>7, <1>8, ZenonT(60)
  <2>3. CASE n \notin DataLinesOf(lines) /\ m \in DataLinesOf(lines)
    <3>1. n = k + 1 /\ isData
      BY <2>3, <1>6, Zenon
    <3>2. LineExtent(rs, lines, m) \subseteq S
      BY <2>3, <1>1, Zenon
    <3> QED  BY <3>1, <3>2, <2>3, <1>0b, <1>7, <1>8, ZenonT(60)
  <2>4. CASE n \notin DataLinesOf(lines) /\ m \notin DataLinesOf(lines)
    BY <2>4, <1>6, <1>10, Zenon
  <2> QED  BY <2>1, <2>2, <2>3, <2>4, Zenon
<1>11. B2 = PlacedBy(more, longer)
  <2>1. \A n \in DataLinesOf(lines) :
          Placed(Where(more, longer, n), longer[n].data)
            = Placed(Where(rs, lines, n), lines[n].data)
    BY <1>7, Zenon
  <2>2. Placed(Where(more, longer, k + 1), longer[k + 1].data) = Placed(at, l.data)
    BY <1>0, <1>8, Zenon
  <2>3. ASSUME NEW x PROVE x \in PlacedBy(more, longer)
          <=> \E n \in DataLinesOf(longer) : x \in Placed(Where(more, longer, n), longer[n].data)
    BY Zenon DEF PlacedBy
  <2>4. ASSUME NEW x PROVE x \in PlacedBy(rs, lines)
          <=> \E n \in DataLinesOf(lines) : x \in Placed(Where(rs, lines, n), lines[n].data)
    BY Zenon DEF PlacedBy
  <2>5. ASSUME NEW x PROVE x \in B2 <=> x \in PlacedBy(more, longer)
    BY <2>1, <2>2, <2>3, <2>4, <1>1, <1>6, Zenon
  <2> QED  BY <2>5, Zenon
<1>12. Printing(longer, r, Step(last, l), S2, B2, T)
  <2> HIDE DEF S2, B2
  <2> QED  BY <1>5, <1>9, <1>10, <1>11, Zenon DEF Printing
<1> QED  BY <1>12, Zenon DEF longer, at, isData

\* What the first line holds, and the bytes B2 of the others.
FirstRead(lines, r, last, S, B, T, B2) ==
    LET l  == Head(lines)
        at == r.upper + l.addr
    IN  /\ Printing(Tail(lines), Step(r, l), last,
                    S \ (IF l.type = "data" THEN Extent(at, l.data) ELSE {}), B2, T)
        /\ B = B2 \cup (IF l.type = "data" THEN Placed(at, l.data) ELSE {})
        /\ l.type = "data" =>
             l.data # << >> /\ Extent(at, l.data) \subseteq S /\ at \in T \cup {r.next}

\* The first line is read.
LEMMA TakeLine ==
    ASSUME NEW lines \in Seq(Line), lines # << >>, NEW r, NEW last, NEW S, NEW B, NEW T,
           Printing(lines, r, last, S, B, T)
    PROVE  \E B2 : FirstRead(lines, r, last, S, B, T, B2)
<1> DEFINE k == Len(lines)
           l  == Head(lines)
           rest == Tail(lines)
           isData == l.type = "data"
           at == r.upper + l.addr
<1>0. /\ k \in Nat /\ k >= 1 /\ l = lines[1] /\ Len(rest) = k - 1
      /\ \A n \in 1 .. k - 1 : rest[n] = lines[n + 1]
  <2>1. Len(lines) \in Nat /\ Len(lines) >= 1
    BY EmptySeq
  <2> QED  BY <2>1
<1>1. PICK rs :
        /\ Reads(rs, lines, r, last)
        /\ \A n \in DataLinesOf(lines) :
             /\ lines[n].data # << >>
             /\ LineExtent(rs, lines, n) \subseteq S
             /\ Where(rs, lines, n) \in T \cup {rs[n].next}
        /\ \A n, m \in DataLinesOf(lines) :
             n # m => LineExtent(rs, lines, n) \cap LineExtent(rs, lines, m) = {}
        /\ B = PlacedBy(rs, lines)
  BY Zenon DEF Printing
<1>2. /\ rs \in Seq(Reader) /\ Len(rs) = k + 1 /\ rs[1] = r /\ rs[k + 1] = last
      /\ \A n \in 1 .. k : rs[n + 1] = Step(rs[n], lines[n])
  BY <1>1, Zenon DEF Reads
<1> DEFINE fewer == Tail(rs)
<1>4. /\ fewer \in Seq(Reader) /\ Len(fewer) = k
      /\ \A n \in 1 .. k : fewer[n] = rs[n + 1]
  <2> HIDE DEF k
  <2>1. Len(rs) = k + 1 /\ rs # << >>
    BY <1>0, <1>2
  <2> QED  BY <2>1, <1>0, <1>2
<1> HIDE DEF k, rest, fewer, at, l
<1>5. Reads(fewer, rest, Step(r, l), last)
  <2>1. Len(fewer) = Len(rest) + 1 /\ fewer[1] = Step(r, l) /\ fewer[Len(rest) + 1] = last
    <3>1. 1 \in 1 .. k /\ k \in 1 .. k /\ Len(rest) + 1 = k /\ 1 + 1 = 2
      BY <1>0
    <3>2. fewer[1] = rs[1 + 1] /\ rs[1 + 1] = Step(rs[1], lines[1])
      BY <3>1, <1>2, <1>4, Zenon
    <3>3. fewer[1] = Step(r, l)
      BY <3>2, <1>0, <1>2, Zenon
    <3>4. fewer[k] = last
      BY <3>1, <1>2, <1>4, Zenon
    <3> QED  BY <3>1, <3>3, <3>4, <1>4, Zenon
  <2>2. ASSUME NEW n \in 1 .. Len(rest) PROVE fewer[n + 1] = Step(fewer[n], rest[n])
    <3>1. n \in 1 .. k - 1 /\ n \in 1 .. k /\ n + 1 \in 1 .. k
      BY <1>0
    <3> QED  BY <3>1, <1>0, <1>2, <1>4, Zenon
  <2> QED  BY <1>4, <2>1, <2>2, Zenon DEF Reads
<1>6. ASSUME NEW n \in DataLinesOf(rest)
      PROVE  /\ n \in Nat /\ n + 1 \in DataLinesOf(lines) /\ n + 1 # 1
             /\ Where(fewer, rest, n) = Where(rs, lines, n + 1) /\ rest[n] = lines[n + 1]
             /\ LineExtent(fewer, rest, n) = LineExtent(rs, lines, n + 1)
             /\ fewer[n] = rs[n + 1]
  <2>1. n \in 1 .. k - 1 /\ rest[n].type = "data"
    BY <1>0 DEF DataLinesOf
  <2>2. n \in 1 .. k /\ n + 1 \in 1 .. k /\ n \in Nat /\ n + 1 # 1
    BY <2>1, <1>0
  <2>3. fewer[n] = rs[n + 1] /\ rest[n] = lines[n + 1]
    BY <2>1, <2>2, <1>0, <1>4
  <2> QED  BY <2>1, <2>2, <2>3, Zenon DEF DataLinesOf, Where, LineExtent, k
<1>7. \A n \in DataLinesOf(lines) : n # 1 => \E m \in DataLinesOf(rest) : n = m + 1
  <2> SUFFICES ASSUME NEW n \in DataLinesOf(lines), n # 1
               PROVE  \E m \in DataLinesOf(rest) : n = m + 1
    OBVIOUS
  <2>1. n \in 1 .. k /\ lines[n].type = "data"
    BY Zenon DEF DataLinesOf, k
  <2>2. n - 1 \in 1 .. Len(rest) /\ n - 1 \in 1 .. k - 1 /\ n = (n - 1) + 1
    BY <2>1, <1>0
  <2>3. rest[n - 1] = lines[n]
    BY <2>2, <1>0
  <2>4. n - 1 \in DataLinesOf(rest)
    BY <2>1, <2>2, <2>3, Zenon DEF DataLinesOf
  <2> QED  BY <2>2, <2>4
<1>8. /\ (1 \in DataLinesOf(lines)) <=> isData
      /\ Where(rs, lines, 1) = at /\ LineExtent(rs, lines, 1) = Extent(at, l.data)
  <2>1. 1 \in 1 .. k
    BY <1>0
  <2> QED  BY <2>1, <1>0, <1>2, Zenon DEF DataLinesOf, Where, LineExtent, at, k
<1> DEFINE S2 == S \ (IF isData THEN Extent(at, l.data) ELSE {})
           B2 == PlacedBy(fewer, rest)
<1> HIDE DEF isData
<1>9. ASSUME NEW n \in DataLinesOf(rest)
      PROVE  /\ rest[n].data # << >>
             /\ LineExtent(fewer, rest, n) \subseteq S2
             /\ Where(fewer, rest, n) \in T \cup {fewer[n].next}
  <2>1. /\ lines[n + 1].data # << >> /\ LineExtent(rs, lines, n + 1) \subseteq S
        /\ Where(rs, lines, n + 1) \in T \cup {rs[n + 1].next}
    BY <1>1, <1>6, Zenon
  <2>2. isData => LineExtent(rs, lines, n + 1) \cap Extent(at, l.data) = {}
    BY <1>1, <1>6, <1>8, Zenon
  <2>3. LineExtent(fewer, rest, n) \subseteq S2
    BY <2>1, <2>2, <1>6, Zenon
  <2> QED  BY <2>1, <2>3, <1>6, Zenon
<1>10. ASSUME NEW n \in DataLinesOf(rest), NEW m \in DataLinesOf(rest), n # m
       PROVE  LineExtent(fewer, rest, n) \cap LineExtent(fewer, rest, m) = {}
  <2>1. n + 1 # m + 1
    BY <1>6, <1>10
  <2> QED  BY <2>1, <1>1, <1>6, Zenon
<1>11. B = B2 \cup (IF isData THEN Placed(at, l.data) ELSE {})
  <2>1. \A n \in DataLinesOf(rest) :
          Placed(Where(fewer, rest, n), rest[n].data)
            = Placed(Where(rs, lines, n + 1), lines[n + 1].data)
    BY <1>6, Zenon
  <2>2. Placed(Where(rs, lines, 1), lines[1].data) = Placed(at, l.data)
    BY <1>0, <1>8, Zenon
  <2>3. ASSUME NEW x PROVE x \in PlacedBy(fewer, rest)
          <=> \E n \in DataLinesOf(rest) : x \in Placed(Where(fewer, rest, n), rest[n].data)
    BY Zenon DEF PlacedBy
  <2>4. ASSUME NEW x PROVE x \in PlacedBy(rs, lines)
          <=> \E n \in DataLinesOf(lines) : x \in Placed(Where(rs, lines, n), lines[n].data)
    BY Zenon DEF PlacedBy
  <2>5. ASSUME NEW x PROVE x \in B <=> x \in B2 \cup (IF isData THEN Placed(at, l.data) ELSE {})
    <3>1. ASSUME x \in B PROVE x \in B2 \cup (IF isData THEN Placed(at, l.data) ELSE {})
      <4>1. PICK n \in DataLinesOf(lines) : x \in Placed(Where(rs, lines, n), lines[n].data)
        BY <3>1, <2>4, <1>1, Zenon
      <4>2. CASE n = 1
        BY <4>1, <4>2, <2>2, <1>8, Zenon
      <4>3. CASE n # 1
        BY <4>1, <4>3, <2>1, <2>3, <1>7, Zenon
      <4> QED  BY <4>2, <4>3
    <3>2. ASSUME x \in B2 PROVE x \in B
      <4>1. PICK n \in DataLinesOf(rest) : x \in Placed(Where(fewer, rest, n), rest[n].data)
        BY <3>2, <2>3, Zenon
      <4>2. n + 1 \in DataLinesOf(lines)
            /\ x \in Placed(Where(rs, lines, n + 1), lines[n + 1].data)
        BY <4>1, <2>1, <1>6, Zenon
      <4> QED  BY <4>2, <2>4, <1>1, Zenon
    <3>3. ASSUME isData, x \in Placed(at, l.data) PROVE x \in B
      BY <3>3, <2>2, <2>4, <1>1, <1>8, Zenon
    <3> QED  BY <3>1, <3>2, <3>3, Zenon
  <2> QED  BY <2>5, Zenon
<1>12. Printing(rest, Step(r, l), last, S2, B2, T)
  <2> HIDE DEF S2, B2
  <2> QED  BY <1>5, <1>9, <1>10, Zenon DEF Printing, B2
<1>13. isData => l.data # << >> /\ Extent(at, l.data) \subseteq S /\ at \in T \cup {r.next}
  BY <1>0, <1>1, <1>2, <1>8, Zenon
<1> QED  BY <1>11, <1>12, <1>13, Zenon DEF FirstRead, rest, at, l, isData

-----------------------------------------------------------------------------
\* Files

File == [addr : Nat, data : Seq(Byte)]

\* What RoundTrip takes for granted of the files given to mkhex.
Fits(files) ==
    /\ files \in Seq(File)
    /\ \A n \in 1 .. Len(files) : files[n].addr % LineLen = 0
    /\ \A n, m \in 1 .. Len(files) : n # m => Span(files[n]) \cap Span(files[m]) = {}

\* The first p bytes of a file, with their addresses, and the addresses alone.
FirstBytes(f, p)     == {<<f.addr + j - 1, f.data[j]>> : j \in 1 .. p}
FirstAddresses(f, p) == {f.addr + j - 1 : j \in 1 .. p}

\* The same for the files before the k-th and the first p bytes of that one.
Given(files, k, p) ==
    (UNION {FirstBytes(files[n], Len(files[n].data)) : n \in 1 .. k - 1})
    \cup FirstBytes(files[k], p)
Covered(files, k, p) ==
    (UNION {FirstAddresses(files[n], Len(files[n].data)) : n \in 1 .. k - 1})
    \cup FirstAddresses(files[k], p)

\* The parts of a file.
LEMMA FileParts ==
    ASSUME NEW f \in File
    PROVE  f.addr \in Nat /\ f.data \in Seq(Byte) /\ Len(f.data) \in Nat
<1>1. f.addr \in Nat /\ f.data \in Seq(Byte)
  BY DEF File
<1> QED  BY <1>1, LenProperties

\* Nothing of a file.
LEMMA NoBytes ==
    ASSUME NEW f
    PROVE  FirstBytes(f, 0) = {} /\ FirstAddresses(f, 0) = {}
BY DEF FirstBytes, FirstAddresses

\* The addresses of a file are in its span, those of a part of it as well.
LEMMA AddressesInSpan ==
    ASSUME NEW f \in File, NEW p \in 0 .. Len(f.data)
    PROVE  FirstAddresses(f, p) \subseteq Span(f)
<1>1. f.addr \in Nat /\ Len(f.data) \in Nat
  BY FileParts
<1> QED  BY <1>1 DEF FirstAddresses, Span

\* The n bytes behind the first p.
Chunk(f, p, n) == SubSeq(f.data, p + 1, p + n)

\* Another n bytes of a file: those of a line that holds them.
LEMMA AnotherLine ==
    ASSUME NEW f \in File, NEW p \in Nat, NEW n \in Nat, p + n <= Len(f.data)
    PROVE  /\ Chunk(f, p, n) \in Seq(Byte) /\ Len(Chunk(f, p, n)) = n
           /\ FirstBytes(f, p + n) = FirstBytes(f, p) \cup Placed(f.addr + p, Chunk(f, p, n))
           /\ FirstAddresses(f, p + n)
                = FirstAddresses(f, p) \cup Extent(f.addr + p, Chunk(f, p, n))
           /\ FirstAddresses(f, p) \cap Extent(f.addr + p, Chunk(f, p, n)) = {}
<1> DEFINE data == f.data
           a == f.addr
           chunk == Chunk(f, p, n)
<1>1. a \in Nat /\ data \in Seq(Byte) /\ Len(data) \in Nat
  BY FileParts
<1> HIDE DEF data, a, chunk
<1>2. /\ chunk \in Seq(Byte) /\ Len(chunk) = n
      /\ \A j \in 1 .. n : chunk[j] = data[p + j]
  <2>1. chunk = SubSeq(data, p + 1, p + n) /\ p + n <= Len(data)
    BY DEF data, chunk, Chunk
  <2> QED  BY <1>1, <2>1
<1>3. DOMAIN chunk = 1 .. n
  BY <1>2
<1>4. /\ \A j \in 1 .. n : p + j \in p + 1 .. p + n /\ a + p + j - 1 = a + (p + j) - 1
      /\ \A i \in p + 1 .. p + n : \E j \in 1 .. n : i = p + j
  <2>1. \A j \in 1 .. n : p + j \in p + 1 .. p + n /\ a + p + j - 1 = a + (p + j) - 1
    BY <1>1
  <2>2. \A i \in p + 1 .. p + n : \E j \in 1 .. n : i = p + j
    <3> TAKE i \in p + 1 .. p + n
    <3>1. i - p \in 1 .. n /\ i = p + (i - p)
      OBVIOUS
    <3> QED  BY <3>1
  <2> QED  BY <2>1, <2>2
<1>5. Placed(a + p, chunk) = {<<a + i - 1, data[i]>> : i \in p + 1 .. p + n}
  <2>1. Placed(a + p, chunk) = {<<a + p + j - 1, chunk[j]>> : j \in 1 .. n}
    BY <1>3, Zenon DEF Placed
  <2>2. Placed(a + p, chunk) = {<<a + (p + j) - 1, data[p + j]>> : j \in 1 .. n}
    BY <2>1, <1>2, <1>4
  <2>3. {<<a + (p + j) - 1, data[p + j]>> : j \in 1 .. n}
          = {<<a + i - 1, data[i]>> : i \in p + 1 .. p + n}
    BY <1>4, Zenon
  <2> QED  BY <2>2, <2>3
<1>6. Extent(a + p, chunk) = {a + i - 1 : i \in p + 1 .. p + n}
  <2> DEFINE X == {a + i - 1 : i \in p + 1 .. p + n}
  <2>1. \A x : x \in Extent(a + p, chunk) <=> \E j \in 1 .. n : x = a + p + j - 1
    BY <1>3, Zenon DEF Extent
  <2>2. \A x : x \in X <=> \E i \in p + 1 .. p + n : x = a + i - 1
    OBVIOUS
  <2> HIDE DEF X
  <2>3. ASSUME NEW x \in Extent(a + p, chunk) PROVE x \in X
    <3>1. PICK j \in 1 .. n : x = a + p + j - 1
      BY <2>1
    <3>2. x = a + (p + j) - 1 /\ p + j \in p + 1 .. p + n
      BY <3>1, <1>4
    <3> QED  BY <3>2, <2>2
  <2>4. ASSUME NEW x \in X PROVE x \in Extent(a + p, chunk)
    <3>1. PICK i \in p + 1 .. p + n : x = a + i - 1
      BY <2>2
    <3>2. PICK j \in 1 .. n : i = p + j
      BY <1>4
    <3>3. x = a + p + j - 1
      BY <3>1, <3>2, <1>4
    <3> QED  BY <3>3, <2>1
  <2> QED  BY <2>3, <2>4 DEF X
<1>7. 1 .. p + n = (1 .. p) \cup (p + 1 .. p + n)
  OBVIOUS
<1>8. FirstBytes(f, p + n) = FirstBytes(f, p) \cup {<<a + i - 1, data[i]>> : i \in p + 1 .. p + n}
  <2>1. FirstBytes(f, p + n) = {<<a + i - 1, data[i]>> : i \in (1 .. p) \cup (p + 1 .. p + n)}
    BY <1>7, Zenon DEF FirstBytes, a, data
  <2>2. FirstBytes(f, p) = {<<a + i - 1, data[i]>> : i \in 1 .. p}
    BY Zenon DEF FirstBytes, a, data
  <2> QED  BY <2>1, <2>2, Zenon
<1>9. FirstAddresses(f, p + n) = FirstAddresses(f, p) \cup {a + i - 1 : i \in p + 1 .. p + n}
  <2>1. FirstAddresses(f, p + n) = {a + i - 1 : i \in (1 .. p) \cup (p + 1 .. p + n)}
    BY <1>7, Zenon DEF FirstAddresses, a
  <2>2. FirstAddresses(f, p) = {a + i - 1 : i \in 1 .. p}
    BY Zenon DEF FirstAddresses, a
  <2> QED  BY <2>1, <2>2, Zenon
<1>10. FirstAddresses(f, p) \cap {a + i - 1 : i \in p + 1 .. p + n} = {}
  <2>1. \A j \in 1 .. p : \A i \in p + 1 .. p + n : a + j - 1 # a + i - 1
    BY <1>1
  <2>2. FirstAddresses(f, p) = {a + i - 1 : i \in 1 .. p}
    BY Zenon DEF FirstAddresses, a
  <2> QED  BY <2>1, <2>2, Zenon
<1> QED  BY <1>2, <1>5, <1>6, <1>8, <1>9, <1>10, Zenon DEF a, chunk

\* After the last byte of a file comes the next file.
LEMMA NextFile ==
    ASSUME NEW files, NEW k \in Nat \ {0}
    PROVE  /\ Given(files, k + 1, 0) = Given(files, k, Len(files[k].data))
           /\ Covered(files, k + 1, 0) = Covered(files, k, Len(files[k].data))
<1>1. 1 .. (k + 1) - 1 = (1 .. k - 1) \cup {k}
  OBVIOUS
<1>2. FirstBytes(files[k + 1], 0) = {} /\ FirstAddresses(files[k + 1], 0) = {}
  BY NoBytes
<1> QED  BY <1>1, <1>2, Zenon DEF Given, Covered

\* The line behind the first p bytes of a file takes no address of what came before.
LEMMA FreshLine ==
    ASSUME NEW files, Fits(files), NEW k \in 1 .. Len(files), NEW p \in Nat, NEW n \in Nat,
           p + n <= Len(files[k].data)
    PROVE  /\ Covered(files, k, p) \cap Extent(files[k].addr + p, Chunk(files[k], p, n)) = {}
           /\ Covered(files, k, p + n)
                = Covered(files, k, p) \cup Extent(files[k].addr + p, Chunk(files[k], p, n))
<1> DEFINE f == files[k]
           E == Extent(f.addr + p, Chunk(f, p, n))
<1>0. Len(files) \in Nat /\ \A m \in 1 .. Len(files) : files[m] \in File
  BY DEF Fits
<1>1. f \in File /\ p + n \in 0 .. Len(f.data)
  BY <1>0, FileParts
<1>2. /\ FirstAddresses(f, p + n) = FirstAddresses(f, p) \cup E
      /\ FirstAddresses(f, p) \cap E = {}
  <2> HIDE DEF f
  <2> QED  BY <1>1, AnotherLine DEF f
<1>3. E \subseteq Span(f)
  <2>1. FirstAddresses(f, p + n) \subseteq Span(f)
    BY <1>1, AddressesInSpan
  <2> HIDE DEF E, f
  <2> QED  BY <2>1, <1>2, Zenon
<1> HIDE DEF E
<1>4. ASSUME NEW m \in 1 .. k - 1
      PROVE  FirstAddresses(files[m], Len(files[m].data)) \cap E = {}
  <2>1. m \in 1 .. Len(files) /\ m # k
    BY <1>0
  <2>2. files[m] \in File /\ Len(files[m].data) \in 0 .. Len(files[m].data)
    <3>1. files[m] \in File
      BY <2>1, <1>0
    <3>2. Len(files[m].data) \in Nat
      BY <3>1, FileParts
    <3> QED  BY <3>1, <3>2
  <2>3. FirstAddresses(files[m], Len(files[m].data)) \subseteq Span(files[m])
    BY <2>2, AddressesInSpan
  <2>4. Span(files[m]) \cap Span(f) = {}
    BY <2>1, Zenon DEF Fits
  <2> QED  BY <1>3, <2>3, <2>4, Zenon
<1> HIDE DEF f
<1>5. Covered(files, k, p) \cap E = {}
  BY <1>2, <1>4, Zenon DEF Covered, f
<1>6. Covered(files, k, p + n) = Covered(files, k, p) \cup E
  BY <1>2, Zenon DEF Covered, f
<1> QED  BY <1>5, <1>6, Zenon DEF E, f

\* All files.
LEMMA AllGiven ==
    ASSUME NEW files \in Seq(File)
    PROVE  Given(files, Len(files) + 1, 0) = Contents(Range(files))
<1> DEFINE k == Len(files)
<1>1. k \in Nat /\ DOMAIN files = 1 .. k /\ (k + 1) - 1 = k
  OBVIOUS
<1>2. FirstBytes(files[k + 1], 0) = {}
  BY NoBytes
<1>3. \A n \in 1 .. k : DOMAIN files[n].data = 1 .. Len(files[n].data)
  <2> TAKE n \in 1 .. k
  <2>1. files[n] \in File
    OBVIOUS
  <2> QED  BY <2>1, FileParts, LenProperties
<1>4. \A n \in 1 .. k : FirstBytes(files[n], Len(files[n].data))
        = {<<files[n].addr + j - 1, files[n].data[j]>> : j \in DOMAIN files[n].data}
  BY <1>3, Zenon DEF FirstBytes
<1>5. Range(files) = {files[n] : n \in 1 .. k}
  BY <1>1, Zenon DEF Range
<1> HIDE DEF k
<1>6. Given(files, k + 1, 0) = UNION {FirstBytes(files[n], Len(files[n].data)) : n \in 1 .. k}
  BY <1>1, <1>2, Zenon DEF Given
<1> DEFINE All(f) == {<<f.addr + j - 1, f.data[j]>> : j \in DOMAIN f.data}
<1>7. \A n \in 1 .. k : FirstBytes(files[n], Len(files[n].data)) = All(files[n])
  BY <1>4, Zenon DEF k
<1>8. Contents(Range(files)) = UNION {All(f) : f \in Range(files)}
  BY Zenon DEF Contents
<1> HIDE DEF All
<1>9. UNION {All(f) : f \in Range(files)} = UNION {All(files[n]) : n \in 1 .. k}
  BY <1>5, Zenon
<1>10. UNION {FirstBytes(files[n], Len(files[n].data)) : n \in 1 .. k}
         = UNION {All(files[n]) : n \in 1 .. k}
  BY <1>7, Zenon
<1> QED  BY <1>6, <1>8, <1>9, <1>10, Zenon DEF k

-----------------------------------------------------------------------------
\* What mkhex prints

\* The lines of a .hex file are lines.
LEMMA LinesType ==
    ASSUME NEW a \in Nat, NEW data \in Seq(Byte)
    PROVE  HighLine(a) \in Line /\ DataLine(a, data) \in Line /\ EndLine \in Line
<1>1. Bank \in Nat \ {0}
  BY HexAssumption
<1>2. a \div Bank \in Nat /\ a % Bank \in Nat /\ << >> \in Seq(Byte)
  <2>1. a \div Bank \in Nat /\ a % Bank \in 0 .. Bank - 1
    BY <1>1, DivModFacts
  <2>2. 0 .. Bank - 1 \subseteq Nat
    BY <1>1
  <2>3. << >> \in Seq(Byte)
    OBVIOUS
  <2> QED  BY <2>1, <2>2, <2>3, Zenon
<1> DEFINE D == Seq(Byte)
<1> HIDE DEF D
<1>3. \A n \in Nat, d \in D :
        /\ [type |-> "high", addr |-> n, data |-> d] \in [type : {"high", "data", "end"}, addr : Nat, data : D]
        /\ [type |-> "data", addr |-> n, data |-> d] \in [type : {"high", "data", "end"}, addr : Nat, data : D]
        /\ [type |-> "end", addr |-> n, data |-> d] \in [type : {"high", "data", "end"}, addr : Nat, data : D]
  OBVIOUS
<1>4. << >> \in D /\ data \in D /\ Line = [type : {"high", "data", "end"}, addr : Nat, data : D]
  BY <1>2 DEF D, Line
<1>5. 0 \in Nat
  OBVIOUS
<1> QED  BY <1>2, <1>3, <1>4, <1>5, Zenon DEF HighLine, DataLine, EndLine


\* Behind the line for a bank, if there is one, the high half is that of the address.
LEMMA BankPrinted ==
    ASSUME NEW lines \in Seq(Line), NEW r, NEW last, NEW S, NEW B, NEW T, NEW a \in Nat,
           Printing(lines, r, last, S, B, T), Ready(last.upper, a)
    PROVE  /\ lines \o BankLine(a) \in Seq(Line)
           /\ Printing(lines \o BankLine(a), r,
                [upper |-> (a \div Bank) * Bank, next |-> last.next], S, B, T)
<1>0. Bank \in Nat \ {0}
  BY HexAssumption
<1> DEFINE up == (a \div Bank) * Bank
<1>1. CASE a >= Bank - 1 /\ a % Bank = 0
  <2> DEFINE l == HighLine(a)
  <2>1. l \in Line /\ l.type = "high" /\ l.addr = a \div Bank
    <3>1. << >> \in Seq(Byte)
      OBVIOUS
    <3>2. l.type = "high" /\ l.addr = a \div Bank
      BY DEF HighLine
    <3>3. l \in Line
      BY <3>1, LinesType
    <3> QED  BY <3>2, <3>3
  <2>2. BankLine(a) = <<l>>
    BY <1>1 DEF BankLine
  <2> HIDE DEF l
  <2>3. lines \o BankLine(a) = Append(lines, l) /\ Append(lines, l) \in Seq(Line)
    BY <2>1, <2>2
  <2>4. Printing(Append(lines, l), r, Step(last, l),
             S \cup (IF l.type = "data" THEN Extent(last.upper + l.addr, l.data) ELSE {}),
             B \cup (IF l.type = "data" THEN Placed(last.upper + l.addr, l.data) ELSE {}), T)
    BY <2>1, PrintLine
  <2>5. Step(last, l) = [upper |-> up, next |-> last.next]
    BY <2>1, Zenon DEF Step
  <2>6. l.type # "data" /\ S \cup {} = S /\ B \cup {} = B
    BY <2>1
  <2>7. Printing(Append(lines, l), r, [upper |-> up, next |-> last.next], S, B, T)
    BY <2>4, <2>5, <2>6, Zenon
  <2> QED  BY <2>3, <2>7, Zenon
<1>2. CASE ~(a >= Bank - 1 /\ a % Bank = 0)
  <2>1. last.upper = up
    <3> SUFFICES ASSUME a % Bank = 0, a # 0 PROVE FALSE
      BY DEF Ready
    <3>1. a = (a \div Bank) * Bank + 0 /\ a \div Bank \in Nat
      BY <1>0, DivModFacts
    <3> DEFINE q == a \div Bank
    <3> HIDE DEF q
    <3>2. a = q * Bank /\ q \in Nat
      BY <3>1, <1>0 DEF q
    <3>3. q >= 1
      BY <3>2, <1>0
    <3>4. q * Bank >= Bank
      BY <3>2, <3>3, <1>0
    <3> QED  BY <3>2, <3>4, <1>0, <1>2
  <2>2. BankLine(a) = << >> /\ lines \o << >> = lines
    BY <1>2 DEF BankLine
  <2>3. last = [upper |-> up, next |-> last.next]
    <3>1. last \in Reader
      BY LastReader
    <3>2. last = [upper |-> last.upper, next |-> last.next]
      BY <3>1 DEF Reader
    <3> QED  BY <2>1, <3>2, Zenon
  <2> QED  BY <2>2, <2>3, Zenon
<1> QED  BY <1>1, <1>2

\* A line with data puts them where they belong.
LEMMA DataPrinted ==
    ASSUME NEW lines \in Seq(Line), NEW r, NEW last, NEW S, NEW B, NEW T, NEW a \in Nat,
           NEW data \in Seq(Byte), Printing(lines, r, last, S, B, T),
           last.upper = (a \div Bank) * Bank,
           data # << >> => a \in T \cup {last.next} /\ Extent(a, data) \cap S = {}
    PROVE  /\ lines \o DataLines(a, data) \in Seq(Line)
           /\ Printing(lines \o DataLines(a, data), r,
                IF data = << >> THEN last ELSE [upper |-> last.upper, next |-> a + Len(data)],
                S \cup Extent(a, data), B \cup Placed(a, data), T)
<1>1. CASE data = << >>
  <2>1. DataLines(a, data) = << >> /\ lines \o << >> = lines
    BY <1>1 DEF DataLines
  <2>2. Placed(a, data) = {} /\ Extent(a, data) = {}
    BY <1>1 DEF Placed, Extent
  <2>3. S \cup {} = S /\ B \cup {} = B
    OBVIOUS
  <2> QED  BY <1>1, <2>1, <2>2, <2>3, Zenon
<1>2. CASE data # << >>
  <2> DEFINE l == DataLine(a, data)
  <2>1. l \in Line /\ l.type = "data" /\ l.addr = a % Bank /\ l.data = data
    <3>1. l \in Line
      BY LinesType
    <3> QED  BY <3>1 DEF DataLine
  <2>2. DataLines(a, data) = <<l>>
    BY <1>2 DEF DataLines
  <2>3. last.upper + l.addr = a
    <3>1. Bank \in Nat \ {0}
      BY HexAssumption
    <3>2. a = (a \div Bank) * Bank + (a % Bank)
      BY <3>1, DivModFacts
    <3> QED  BY <2>1, <3>2
  <2> HIDE DEF l
  <2>4. lines \o <<l>> = Append(lines, l) /\ Append(lines, l) \in Seq(Line)
    BY <2>1
  <2>5. Printing(Append(lines, l), r, Step(last, l),
             S \cup (IF l.type = "data" THEN Extent(last.upper + l.addr, l.data) ELSE {}),
             B \cup (IF l.type = "data" THEN Placed(last.upper + l.addr, l.data) ELSE {}), T)
    <3>1. /\ l.data # << >> /\ Extent(last.upper + l.addr, l.data) \cap S = {}
          /\ last.upper + l.addr \in T \cup {last.next}
      BY <1>2, <2>1, <2>3
    <3> QED  BY <2>1, <3>1, PrintLine
  <2>6. Step(last, l) = [upper |-> last.upper, next |-> a + Len(data)]
    BY <2>1, <2>3 DEF Step
  <2>7. Printing(Append(lines, l), r, Step(last, l),
                 S \cup Extent(a, data), B \cup Placed(a, data), T)
    BY <2>1, <2>3, <2>5, Zenon
  <2> QED  BY <1>2, <2>2, <2>4, <2>6, <2>7, Zenon
<1> QED  BY <1>1, <1>2

-----------------------------------------------------------------------------
\* The inductive invariant

\* What the run is about.
SettingInv ==
    /\ elf \in Elfs /\ chip \in Chips
    /\ stage = "mkbin" => args \in DataFiles
    /\ stage # "mkbin" => Fits(args)

\* Before mkhex and unhex, their state is what they begin with.
FreshInv ==
    /\ stage = "mkbin" => mk = mkStart /\ hex = << >>
    /\ stage \in {"mkbin", "mkhex"} => un = unStart /\ dir = << >> /\ list = << >>

\* Where the files that hold something begin.
Starts(files) == {files[n].addr : n \in {m \in 1 .. Len(files) : files[m].data # << >>}}

\* What unhex's variables are to the lines.
ReaderOf(u) == [upper |-> u.upper, next |-> IF u.out = NoFile THEN NoFile ELSE u.next]

\* mkhex is somewhere in the files, and has printed what is before.
InFile(files, m) ==
    /\ m \in [file : Nat \ {0}, pos : Nat, begun : BOOLEAN]
    /\ m.file <= Len(files) + 1 /\ m.pos % LineLen = 0
    /\ m.file <= Len(files) => m.pos <= Len(files[m.file].data)
    /\ ~m.begun => m.pos = 0
    /\ m.file > Len(files) => ~m.begun
Printed(files, m, lines) ==
    \E last :
      /\ Printing(lines, ReaderOf(unStart), last, Covered(files, m.file, m.pos),
                  Given(files, m.file, m.pos), Starts(files))
      /\ m.begun => Ready(last.upper, files[m.file].addr + m.pos)
      /\ m.pos > 0 => last.next = files[m.file].addr + m.pos
MkhexInv ==
    stage = "mkhex" => InFile(args, mk) /\ hex \in Seq(Line) /\ Printed(args, mk, hex)

\* unhex's variables, and where the file it writes to ends.
Reading(u, d, l) ==
    /\ u \in [upper : Nat, next : Nat, out : Nat \cup {NoFile}]
    /\ l \in Seq(Nat) /\ DOMAIN d = Range(l)
    /\ \A n, m \in DOMAIN l : l[n] = l[m] => n = m
    /\ \A a \in DOMAIN d : d[a] \in Seq(Byte) /\ d[a] # << >>
    /\ u.out # NoFile => u.out \in DOMAIN d /\ u.next = u.out + Len(d[u.out])

\* Each file begins where one of those given does, and they do not overlap.
Unpacking(files, d) ==
    /\ DOMAIN d \subseteq Starts(files)
    /\ \A a, b \in DOMAIN d : a # b => Extent(a, d[a]) \cap Extent(b, d[b]) = {}

\* The bytes that are unpacked, and those still to be read: together they are the
\* files that mkhex was given, and no byte is overwritten.
InFiles(d) == UNION {Placed(a, d[a]) : a \in DOMAIN d}
Missing(files, u, d, lines) ==
    \E last, S, B :
      /\ Printing(lines, ReaderOf(u), last, S, B, Starts(files))
      /\ \A a \in DOMAIN d : S \cap Extent(a, d[a]) = {}
      /\ InFiles(d) \cup B = Contents(Range(files))
UnhexInv ==
    stage = "unhex" =>
        /\ Reading(un, dir, list) /\ Unpacking(args, dir)
        /\ hex \in Seq(Line) /\ Missing(args, un, dir, hex)

IInv == SettingInv /\ FreshInv /\ MkhexInv /\ UnhexInv

\* It holds at the start.
LEMMA InitInv == Init => IInv
<1> SUFFICES ASSUME Init PROVE IInv
  OBVIOUS
<1>1. stage = "mkbin"
  BY DEF Init
<1>2. SettingInv
  BY <1>1, Zenon DEF Init, SettingInv
<1>3. FreshInv
  BY Zenon DEF Init, FreshInv
<1>4. MkhexInv /\ UnhexInv
  BY <1>1 DEF MkhexInv, UnhexInv
<1> QED  BY <1>2, <1>3, <1>4 DEF IInv

\* When all lines are read, no bytes are missing.
LEMMA AllUnpacked ==
    ASSUME IInv, stage = "unhex", hex = << >>
    PROVE  InFiles(dir) = Contents(Range(args))
<1>1. PICK last, S, B : Printing(hex, ReaderOf(un), last, S, B, Starts(args))
                        /\ InFiles(dir) \cup B = Contents(Range(args))
  <2>1. Missing(args, un, dir, hex)
    BY DEF IInv, UnhexInv
  <2> QED  BY <2>1, Zenon DEF Missing
<1>2. DataLinesOf(hex) = {}
  BY DEF DataLinesOf
<1>3. B = {}
  BY <1>1, <1>2, Zenon DEF Printing, PlacedBy
<1> QED  BY <1>1, <1>3

\* Unhex's result is mkhex's input.
LEMMA InvImpliesRoundTrip == IInv => RoundTrip
<1> SUFFICES ASSUME IInv, stage = "unhex", hex = << >>
             PROVE  Contents(Unpacked) = Contents(Range(args))
  BY Zenon DEF RoundTrip, Unhexed
<1>1. Reading(un, dir, list)
  BY DEF IInv, UnhexInv
<1>2. InFiles(dir) = Contents(Range(args))
  BY AllUnpacked
<1>3. Contents(Unpacked) = InFiles(dir)
  <2>1. DOMAIN dir = {list[n] : n \in DOMAIN list}
    BY <1>1, Zenon DEF Reading, Range
  <2> DEFINE f(n) == [addr |-> list[n], data |-> dir[list[n]]]
             All(g) == {<<g.addr + j - 1, g.data[j]>> : j \in DOMAIN g.data}
  <2>2. \A n \in DOMAIN list : All(f(n)) = Placed(list[n], dir[list[n]])
    BY DEF Placed
  <2>3. Contents(Unpacked) = UNION {All(g) : g \in Unpacked} /\ Unpacked = {f(n) : n \in DOMAIN list}
    BY Zenon DEF Contents, Unpacked
  <2> HIDE DEF All, f
  <2>4. UNION {All(g) : g \in {f(n) : n \in DOMAIN list}} = UNION {All(f(n)) : n \in DOMAIN list}
    BY Zenon
  <2>5. InFiles(dir) = UNION {Placed(list[n], dir[list[n]]) : n \in DOMAIN list}
    BY <2>1, Zenon DEF InFiles
  <2>6. UNION {All(f(n)) : n \in DOMAIN list} = UNION {Placed(list[n], dir[list[n]]) : n \in DOMAIN list}
    BY <2>2, Zenon
  <2> QED  BY <2>3, <2>4, <2>5, <2>6, Zenon
<1> QED  BY <1>2, <1>3

\* mkbin's image and the data files fit.
LEMMA MkbinKeeps ==
    ASSUME Linewise, IInv, Mkbin
    PROVE  IInv'
<1> DEFINE image == [addr |-> BootloaderAt[chip], data |-> mkbin(elf)]
<1>1. stage = "mkbin" /\ args' = <<image>> \o args
      /\ stage' \in {"mkhex", "flash"}
      /\ UNCHANGED <<mk, hex, un, dir, list, elf, chip>>
  BY DEF Mkbin, setting
<1>2. elf \in Elfs /\ chip \in Chips /\ args \in DataFiles
      /\ mk = mkStart /\ hex = << >> /\ un = unStart /\ dir = << >> /\ list = << >>
  BY <1>1 DEF IInv, SettingInv, FreshInv
<1>3. image \in File
  <2>1. mkbin(elf) \in Seq(Byte)
    BY <1>2, ImageAssumption, MkbinType
  <2>2. BootloaderAt[chip] \in Nat
    BY <1>2, ImageAssumption
  <2> QED  BY <2>1, <2>2 DEF File
<1>4. args \in Seq(File)
  <2>1. args \in Seq([addr : Nat, data : Seq(Byte)])
    BY <1>2, Zenon DEF Linewise
  <2> QED  BY <2>1, Zenon DEF File
<1> HIDE DEF image
<1>5. Fits(args')
  <2>1. args' \in Seq(File)
    BY <1>1, <1>3, <1>4
  <2>2. /\ \A n \in DOMAIN args' : args'[n].addr % LineLen = 0
        /\ \A n, m \in DOMAIN args' : n # m => Span(args'[n]) \cap Span(args'[m]) = {}
    BY <1>1, <1>2, Zenon DEF Linewise, image
  <2>3. DOMAIN args' = 1 .. Len(args')
    BY <2>1
  <2> QED  BY <2>1, <2>2, <2>3, Zenon DEF Fits
<1>6. SettingInv'
  BY <1>1, <1>2, <1>5 DEF SettingInv
<1>7. FreshInv'
  BY <1>1, <1>2 DEF FreshInv
<1>8. MkhexInv'
  <2>0. LineLen \in Nat \ {0}
    BY HexAssumption
  <2>1. args' \in Seq(File) /\ Len(args') \in Nat /\ Len(args') >= 1
    BY <1>1, <1>3, <1>4
  <2>2. InFile(args', mk)
    <3>1. 0 % LineLen = 0
      <4>1. 0 \in 0 .. LineLen - 1 /\ 0 * LineLen + 0 = 0
        BY <2>0
      <4>2. (0 * LineLen + 0) % LineLen = 0
        BY <2>0, <4>1, DivModUnique
      <4> QED  BY <4>1, <4>2
    <3>2. args'[1] \in File
      BY <2>1
    <3>3. 0 <= Len(args'[1].data)
      BY <3>2, FileParts
    <3> DEFINE files == args'
    <3> HIDE DEF files
    <3>4. InFile(files, mkStart)
      BY <2>1, <3>1, <3>3 DEF InFile, mkStart, files
    <3> QED  BY <3>4, <1>2 DEF files
  <2>3. Printed(args', mk, hex)
    <3> DEFINE files == args'
    <3> HIDE DEF files
    <3>1. Printing(<< >>, ReaderOf(unStart), ReaderOf(unStart), {}, {}, Starts(files))
      <4>1. ReaderOf(unStart) \in Reader
        BY DEF ReaderOf, unStart, Reader, NoFile
      <4> QED  BY <4>1, NothingPrinted
    <3>2. Covered(files, 1, 0) = {} /\ Given(files, 1, 0) = {}
      <4>1. 1 .. 1 - 1 = {}
        OBVIOUS
      <4> QED  BY <4>1, NoBytes, Zenon DEF Covered, Given
    <3>3. ~mkStart.begun /\ mkStart.file = 1 /\ mkStart.pos = 0 /\ ~(0 > 0)
      BY DEF mkStart
    <3>4. Printed(files, mkStart, << >>)
      BY <3>1, <3>2, <3>3, Zenon DEF Printed
    <3> QED  BY <3>4, <1>2 DEF files
  <2>4. << >> \in Seq(Line)
    OBVIOUS
  <2> QED  BY <1>1, <1>2, <2>2, <2>3, <2>4, Zenon DEF MkhexInv
<1>9. UnhexInv'
  BY <1>1 DEF UnhexInv
<1> QED  BY <1>6, <1>7, <1>8, <1>9 DEF IInv

\* The high half for a file is said when it is opened.
LEMMA MkhexOpenKeeps ==
    ASSUME IInv, MkhexOpen, UNCHANGED setting
    PROVE  IInv'
<1> DEFINE file == args[mk.file]
<1>1. /\ stage = "mkhex" /\ mk.file <= Len(args) /\ ~mk.begun
      /\ hex' = Append(hex, HighLine(args[mk.file].addr))
      /\ mk' = [mk EXCEPT !.begun = TRUE]
      /\ UNCHANGED <<args, un, dir, list, stage, elf, chip>>
  BY DEF MkhexOpen, setting
<1>2. Fits(args) /\ InFile(args, mk) /\ hex \in Seq(Line) /\ Printed(args, mk, hex)
  BY <1>1 DEF IInv, SettingInv, MkhexInv
<1>3. mk.file \in 1 .. Len(args) /\ mk.pos = 0
  BY <1>1, <1>2 DEF InFile, Fits
<1>4. file \in File /\ file.addr \in Nat
  <2>1. file \in File
    BY <1>2, <1>3 DEF Fits
  <2> QED  BY <2>1, FileParts
<1>5. /\ mk' \in [file : Nat \ {0}, pos : Nat, begun : BOOLEAN]
      /\ mk'.file = mk.file /\ mk'.pos = mk.pos /\ mk'.begun
  BY <1>1, <1>2 DEF InFile
<1>6. InFile(args', mk')
  BY <1>1, <1>2, <1>3, <1>5 DEF InFile
<1> DEFINE l == HighLine(file.addr)
<1>7. l \in Line /\ l.type = "high" /\ l.addr = file.addr \div Bank
  <2>1. << >> \in Seq(Byte)
    OBVIOUS
  <2>2. l.type = "high" /\ l.addr = file.addr \div Bank
    BY DEF HighLine
  <2> HIDE DEF l, file
  <2> QED  BY <1>4, <2>1, <2>2, LinesType DEF l
<1> DEFINE S == Covered(args, mk.file, mk.pos)
           B == Given(args, mk.file, mk.pos)
           r == ReaderOf(unStart)
           T == Starts(args)
<1>8. PICK last : Printing(hex, r, last, S, B, T)
  BY <1>2, Zenon DEF Printed
<1> DEFINE up == (file.addr \div Bank) * Bank
           more == [upper |-> up, next |-> last.next]
<1> HIDE DEF S, B, T, r, l, file
<1>9. Printing(Append(hex, l), r, more, S, B, T)
  <2>1. Printing(Append(hex, l), r, Step(last, l),
             S \cup (IF l.type = "data" THEN Extent(last.upper + l.addr, l.data) ELSE {}),
             B \cup (IF l.type = "data" THEN Placed(last.upper + l.addr, l.data) ELSE {}), T)
    BY <1>2, <1>7, <1>8, PrintLine
  <2>2. Step(last, l) = more
    BY <1>7, Zenon DEF Step
  <2>3. l.type # "data"
    BY <1>7
  <2>4. S \cup {} = S /\ B \cup {} = B
    OBVIOUS
  <2> HIDE DEF more
  <2> QED  BY <2>1, <2>2, <2>3, <2>4, Zenon
<1>10. hex' = Append(hex, l) /\ hex' \in Seq(Line)
  BY <1>1, <1>2, <1>7 DEF l, file
<1>11. Printed(args', mk', hex')
  <2>1. Ready(up, file.addr + 0)
    BY <1>4 DEF Ready
  <2>2. Ready(more.upper, args'[mk'.file].addr + mk'.pos) /\ ~(mk'.pos > 0)
    BY <2>1, <1>1, <1>3, <1>5 DEF file
  <2> HIDE DEF more
  <2>3. Printing(hex', ReaderOf(unStart), more, Covered(args', mk'.file, mk'.pos),
                 Given(args', mk'.file, mk'.pos), Starts(args'))
    BY <1>1, <1>5, <1>9, <1>10, Zenon DEF S, B, T, r
  <2> QED  BY <2>2, <2>3, Zenon DEF Printed
<1>12. SettingInv' /\ FreshInv'
  BY <1>1 DEF IInv, SettingInv, FreshInv
<1>13. MkhexInv' /\ UnhexInv'
  BY <1>1, <1>6, <1>10, <1>11 DEF MkhexInv, UnhexInv
<1> QED  BY <1>12, <1>13 DEF IInv

\* A line of a file.
LEMMA MkhexLineKeeps ==
    ASSUME Linewise, IInv, MkhexLine, UNCHANGED setting
    PROVE  IInv'
<1> DEFINE k    == mk.file
           p    == mk.pos
           file == args[k]
           left == Len(file.data) - p
           n    == IF left < LineLen THEN left ELSE LineLen
           addr == file.addr + p
           chunk == SubSeq(file.data, p + 1, p + n)
<1>1. /\ stage = "mkhex" /\ k <= Len(args) /\ mk.begun
      /\ hex' = hex \o BankLine(addr) \o DataLines(addr, chunk)
      /\ mk' = IF n < LineLen THEN [file |-> k + 1, pos |-> 0, begun |-> FALSE]
               ELSE [mk EXCEPT !.pos = @ + n]
      /\ UNCHANGED <<args, un, dir, list, stage, elf, chip>>
  BY Zenon DEF MkhexLine, setting
<1>2. Fits(args) /\ InFile(args, mk) /\ hex \in Seq(Line) /\ Printed(args, mk, hex)
  BY <1>1 DEF IInv, SettingInv, MkhexInv
<1>3. /\ k \in Nat \ {0} /\ k \in 1 .. Len(args) /\ p \in Nat /\ p <= Len(file.data)
      /\ p % LineLen = 0 /\ Len(args) \in Nat
      /\ mk \in [file : Nat \ {0}, pos : Nat, begun : BOOLEAN]
  <2>1. /\ mk \in [file : Nat \ {0}, pos : Nat, begun : BOOLEAN] /\ mk.pos % LineLen = 0
        /\ mk.file <= Len(args) => mk.pos <= Len(args[mk.file].data)
    BY <1>2, Zenon DEF InFile
  <2>2. mk.file \in Nat \ {0} /\ mk.pos \in Nat
    BY <2>1
  <2>3. Len(args) \in Nat
    BY <1>2 DEF Fits
  <2>4. mk.file \in 1 .. Len(args)
    <3>1. k \in Nat \ {0} /\ k <= Len(args)
      BY <1>1, <2>2, Zenon
    <3> HIDE DEF k
    <3>2. k \in 1 .. Len(args)
      BY <2>3, <3>1
    <3> QED  BY <3>2, Zenon DEF k
  <2> QED  BY <2>1, <2>2, <2>3, <2>4, <1>1, Zenon
<1>4. /\ file \in File /\ file.addr \in Nat /\ file.data \in Seq(Byte) /\ Len(file.data) \in Nat
      /\ file.addr % LineLen = 0
  <2>1. file \in File /\ file.addr % LineLen = 0
    BY <1>2, <1>3 DEF Fits
  <2> QED  BY <2>1, FileParts
<1>5. LineLen \in Nat \ {0} /\ Bank \in Nat \ {0} /\ Bank % LineLen = 0
  BY HexAssumption DEF Linewise
<1>6. /\ n \in Nat /\ p + n <= Len(file.data) /\ n <= LineLen
      /\ n < LineLen => p + n = Len(file.data)
      /\ addr \in Nat
  <2> DEFINE all == Len(file.data)
             a == file.addr
  <2>1. p \in Nat /\ all \in Nat /\ p <= all /\ a \in Nat
    BY <1>3, <1>4
  <2> HIDE DEF all, a, p
  <2>2. left = all - p /\ addr = a + p
    BY DEF all, a
  <2>3. left \in Nat /\ p + left = all
    BY <2>1, <2>2
  <2> HIDE DEF left
  <2> QED  BY <2>1, <2>2, <2>3, <1>5 DEF all
<1> DEFINE S == Covered(args, k, p)
           B == Given(args, k, p)
           T == Starts(args)
           r == ReaderOf(unStart)
           up == (addr \div Bank) * Bank
           S2 == Covered(args, k, p + n)
           B2 == Given(args, k, p + n)
           banked == hex \o BankLine(addr)
<1>7. PICK last : /\ Printing(hex, r, last, S, B, T) /\ Ready(last.upper, addr)
                  /\ p > 0 => last.next = addr
  BY <1>1, <1>2, Zenon DEF Printed
<1> DEFINE before == [upper |-> up, next |-> last.next]
           behind == IF chunk = << >> THEN before ELSE [upper |-> up, next |-> addr + Len(chunk)]
<1>8. /\ chunk \in Seq(Byte) /\ Len(chunk) = n
      /\ FirstBytes(file, p + n) = FirstBytes(file, p) \cup Placed(addr, chunk)
      /\ S \cap Extent(addr, chunk) = {} /\ S2 = S \cup Extent(addr, chunk)
  <2> DEFINE f == file
             m == n
             c == chunk
  <2>1. f \in File /\ p \in Nat /\ m \in Nat /\ p + m <= Len(f.data)
    BY <1>3, <1>4, <1>6
  <2>2. c = Chunk(f, p, m)
    BY DEF Chunk
  <2>3. /\ Covered(args, k, p) \cap Extent(f.addr + p, Chunk(f, p, m)) = {}
        /\ Covered(args, k, p + m) = Covered(args, k, p) \cup Extent(f.addr + p, Chunk(f, p, m))
    <3> HIDE DEF m
    <3> QED  BY <2>1, <1>2, <1>3, FreshLine
  <2> HIDE DEF f, m, c, p
  <2>4. /\ c \in Seq(Byte) /\ Len(c) = m
        /\ FirstBytes(f, p + m) = FirstBytes(f, p) \cup Placed(f.addr + p, c)
    BY <2>1, <2>2, AnotherLine
  <2> QED  BY <2>2, <2>3, <2>4, Zenon DEF f, m, c, p
<1>9. chunk # << >> => n > 0
  <2> HIDE DEF chunk, n
  <2>1. n = 0 => chunk = << >>
    BY <1>8, EmptySeq
  <2> QED  BY <2>1, <1>6
<1>10. chunk # << >> => addr \in T \cup {before.next}
  <2> SUFFICES ASSUME chunk # << >>, p = 0 PROVE addr \in T
    BY <1>3, <1>7
  <2>1. addr = file.addr
    BY <1>4
  <2>2. Len(file.data) # 0
    BY <1>3, <1>4, <1>6, <1>9
  <2>3. file.data # << >>
    <3>1. Len(<< >>) = 0
      OBVIOUS
    <3> QED  BY <2>2, <3>1, Zenon
  <2> HIDE DEF addr
  <2> QED  BY <2>1, <2>3, <1>3, Zenon DEF Starts
<1>11. B2 = B \cup Placed(addr, chunk)
  <2> HIDE DEF addr, chunk, n
  <2> QED  BY <1>8, Zenon DEF Given
<1> HIDE DEF addr, chunk, S, S2, B, B2, T, r, n, banked, before
<1>13. banked \in Seq(Line) /\ Printing(banked, r, before, S, B, T)
  BY <1>2, <1>6, <1>7, BankPrinted DEF banked, before
<1>14. hex' \in Seq(Line) /\ Printing(hex', r, behind, S2, B2, T)
  <2>1. hex' = banked \o DataLines(addr, chunk)
    BY <1>1 DEF banked
  <2>2. before.upper = (addr \div Bank) * Bank
    BY DEF before
  <2>3. /\ banked \o DataLines(addr, chunk) \in Seq(Line)
        /\ Printing(banked \o DataLines(addr, chunk), r,
             IF chunk = << >> THEN before ELSE [upper |-> before.upper, next |-> addr + Len(chunk)],
             S \cup Extent(addr, chunk), B \cup Placed(addr, chunk), T)
    BY <2>2, <1>6, <1>8, <1>10, <1>13, DataPrinted
  <2> HIDE DEF up
  <2>4. before.upper = up
    BY DEF before
  <2> QED  BY <2>1, <2>3, <2>4, <1>8, <1>11, Zenon
<1>15. /\ behind.upper = up
       /\ n > 0 => behind.next = addr + n
  <2>1. n > 0 => chunk # << >>
    <3>1. Len(<< >>) = 0
      OBVIOUS
    <3>2. chunk = << >> => n = 0
      BY <3>1, <1>8, Zenon
    <3> QED  BY <3>2
  <2> QED  BY <2>1, <1>8 DEF before
<1> HIDE DEF behind
<1>16. InFile(args, mk') /\ Printed(args, mk', hex')
  <2>1. CASE n < LineLen
    <3>1. /\ mk' = [file |-> k + 1, pos |-> 0, begun |-> FALSE]
          /\ mk'.file = k + 1 /\ mk'.pos = 0 /\ ~mk'.begun
      BY <1>1, <2>1
    <3>2. S2 = Covered(args, k + 1, 0) /\ B2 = Given(args, k + 1, 0)
      BY <2>1, <1>3, <1>6, NextFile DEF S2, B2
    <3>3. Printed(args, mk', hex')
      <4>1. ~(mk'.pos > 0)
        BY <3>1
      <4> QED  BY <3>1, <3>2, <4>1, <1>14, Zenon DEF Printed, T, r
    <3>4. 0 % LineLen = 0
      <4>1. 0 \in 0 .. LineLen - 1 /\ 0 * LineLen + 0 = 0 /\ 0 \in Nat
        BY <1>5
      <4>2. (0 * LineLen + 0) % LineLen = 0
        BY <1>5, <4>1, DivModUnique
      <4> QED  BY <4>1, <4>2
    <3>5. k + 1 <= Len(args) => 0 <= Len(args[k + 1].data)
      <4> SUFFICES ASSUME k + 1 <= Len(args) PROVE 0 <= Len(args[k + 1].data)
        OBVIOUS
      <4>1. k + 1 \in 1 .. Len(args)
        BY <1>3
      <4>2. args[k + 1] \in File
        BY <4>1, <1>2 DEF Fits
      <4>3. Len(args[k + 1].data) \in Nat
        BY <4>2, FileParts
      <4> QED  BY <4>3
    <3>6. mk' \in [file : Nat \ {0}, pos : Nat, begun : BOOLEAN] /\ k + 1 <= Len(args) + 1
      BY <3>1, <1>3
    <3> QED  BY <3>1, <3>3, <3>4, <3>5, <3>6 DEF InFile
  <2>2. CASE ~(n < LineLen)
    <3>1. n = LineLen
      BY <2>2, <1>5, <1>6
    <3>2. /\ mk' \in [file : Nat \ {0}, pos : Nat, begun : BOOLEAN]
          /\ mk'.file = k /\ mk'.pos = p + n /\ mk'.begun
      BY <2>2, <1>1, <1>3, <1>6, SMTT(60)
    <3>3. (p + n) % LineLen = 0 /\ addr % LineLen = 0
      <4>1. (p + 1 * LineLen) % LineLen = 0
        BY <1>3, WholeLines
      <4>2. p + n = p + 1 * LineLen
        BY <3>1, <1>5
      <4>3. PICK j \in Nat : p = j * LineLen
        <5>1. p \div LineLen \in Nat /\ p = (p \div LineLen) * LineLen + 0
          BY <1>3, <1>5, DivModFacts
        <5>2. (p \div LineLen) * LineLen \in Nat
          BY <5>1, <1>5
        <5> QED  BY <5>1, <5>2
      <4>4. (file.addr + j * LineLen) % LineLen = 0
        BY <1>4, WholeLines
      <4> QED  BY <4>1, <4>2, <4>3, <4>4 DEF addr
    <3>4. Ready(up, args[k].addr + (p + n))
      <4>1. Ready((addr \div Bank) * Bank, addr + LineLen)
        BY <3>3, <1>5, <1>6, LineInBank
      <4>2. args[k].addr + (p + n) = addr + LineLen
        BY <3>1, <1>3, <1>4, <1>5 DEF addr
      <4> QED  BY <4>1, <4>2
    <3>5. Printed(args, mk', hex')
      <4>1. Printing(hex', ReaderOf(unStart), behind, Covered(args, mk'.file, mk'.pos),
                     Given(args, mk'.file, mk'.pos), Starts(args))
        BY <3>2, <1>14, Zenon DEF S2, B2, T, r
      <4>2. Ready(behind.upper, args[mk'.file].addr + mk'.pos)
        BY <3>2, <3>4, <1>15, Zenon
      <4>3. behind.next = args[mk'.file].addr + mk'.pos
        BY <3>1, <3>2, <1>3, <1>4, <1>5, <1>15 DEF addr
      <4> QED  BY <4>1, <4>2, <4>3, Zenon DEF Printed
    <3>6. k <= Len(args) + 1 /\ p + n <= Len(args[k].data)
      BY <1>3, <1>6
    <3> QED  BY <3>2, <3>3, <3>5, <3>6, <1>3 DEF InFile
  <2> QED  BY <2>1, <2>2
<1>17. SettingInv' /\ FreshInv'
  BY <1>1 DEF IInv, SettingInv, FreshInv
<1>18. MkhexInv' /\ UnhexInv'
  BY <1>1, <1>14, <1>16 DEF MkhexInv, UnhexInv
<1> QED  BY <1>17, <1>18 DEF IInv

\* Behind the last line all files are printed, and unhex begins.
LEMMA MkhexEndKeeps ==
    ASSUME IInv, MkhexEnd, UNCHANGED setting
    PROVE  IInv'
<1>1. /\ stage = "mkhex" /\ mk.file > Len(args) /\ hex' = Append(hex, EndLine)
      /\ stage' = "unhex" /\ UNCHANGED <<args, mk, un, dir, list, elf, chip>>
  BY DEF MkhexEnd, setting
<1>2. /\ Fits(args) /\ InFile(args, mk) /\ hex \in Seq(Line) /\ Printed(args, mk, hex)
      /\ un = unStart /\ dir = << >> /\ list = << >>
  BY <1>1 DEF IInv, SettingInv, MkhexInv, FreshInv
<1>3. mk.file = Len(args) + 1 /\ mk.pos = 0 /\ args \in Seq(File)
  <2>1. args \in Seq(File) /\ Len(args) \in Nat
    BY <1>2 DEF Fits
  <2>2. mk.file \in Nat /\ mk.file <= Len(args) + 1 /\ mk.pos = 0
    BY <1>1, <1>2 DEF InFile
  <2> QED  BY <2>1, <2>2, <1>1
<1> DEFINE S == Covered(args, mk.file, mk.pos)
           B == Given(args, mk.file, mk.pos)
           l == EndLine
           T == Starts(args)
           r == ReaderOf(unStart)
<1>4. PICK last : Printing(hex, r, last, S, B, T)
  BY <1>2, Zenon DEF Printed
<1>5. B = Contents(Range(args))
  BY <1>3, AllGiven
<1>6. l \in Line /\ l.type = "end"
  <2>1. << >> \in Seq(Byte) /\ 0 \in Nat
    OBVIOUS
  <2>2. l \in Line
    BY <2>1, LinesType
  <2> QED  BY <2>2 DEF EndLine
<1> HIDE DEF S, B, T, r, l
<1>7. Printing(Append(hex, l), r, Step(last, l), S, B, T)
  <2>1. Printing(Append(hex, l), r, Step(last, l),
             S \cup (IF l.type = "data" THEN Extent(last.upper + l.addr, l.data) ELSE {}),
             B \cup (IF l.type = "data" THEN Placed(last.upper + l.addr, l.data) ELSE {}), T)
    BY <1>2, <1>4, <1>6, PrintLine
  <2>2. l.type # "data" /\ S \cup {} = S /\ B \cup {} = B
    BY <1>6
  <2> QED  BY <2>1, <2>2, Zenon
<1>8. Reading(unStart, << >>, << >>) /\ Unpacking(args, << >>)
  <2>1. DOMAIN << >> = {} /\ Range(<< >>) = {}
    BY DEF Range
  <2> QED  BY <2>1 DEF Reading, Unpacking, unStart, NoFile
<1>9. Missing(args, unStart, << >>, Append(hex, l))
  <2>1. DOMAIN << >> = {}
    OBVIOUS
  <2>2. InFiles(<< >>) = {}
    BY <2>1, Zenon DEF InFiles
  <2>3. InFiles(<< >>) \cup B = Contents(Range(args))
    BY <2>2, <1>5
  <2> QED  BY <2>1, <2>3, <1>7, Zenon DEF Missing, T, r
<1>10. UnhexInv'
  <2>1. Append(hex, l) \in Seq(Line) /\ hex' = Append(hex, l)
    BY <1>1, <1>2, <1>6 DEF l
  <2> QED  BY <2>1, <1>1, <1>2, <1>8, <1>9 DEF UnhexInv
<1>11. SettingInv' /\ FreshInv' /\ MkhexInv'
  BY <1>1 DEF IInv, SettingInv, FreshInv, MkhexInv
<1> QED  BY <1>10, <1>11 DEF IInv

\* Data behind data.
LEMMA PlacedConcat ==
    ASSUME NEW a \in Nat, NEW s \in Seq(Byte), NEW t \in Seq(Byte)
    PROVE  Placed(a, s \o t) = Placed(a, s) \cup Placed(a + Len(s), t)
<1> DEFINE n == Len(s)
           m == Len(t)
           u == s \o t
<1>1. /\ n \in Nat /\ m \in Nat /\ Len(u) = n + m /\ u \in Seq(Byte)
      /\ \A j \in 1 .. n : u[j] = s[j]
      /\ \A j \in 1 .. m : u[n + j] = t[j]
  <2>1. n \in Nat /\ m \in Nat /\ Len(u) = n + m /\ u \in Seq(Byte)
    BY ConcatProperties
  <2>2. \A j \in 1 .. n : u[j] = s[j]
    OBVIOUS
  <2>3. \A j \in 1 .. m : u[n + j] = t[j]
    OBVIOUS
  <2> QED  BY <2>1, <2>2, <2>3
<1>2. DOMAIN s = 1 .. n /\ DOMAIN t = 1 .. m /\ DOMAIN u = 1 .. n + m
  <2>1. DOMAIN u = 1 .. Len(u)
    BY <1>1, LenProperties
  <2> QED  BY <2>1, <1>1
<1> HIDE DEF n, m, u
<1>3. \A x : x \in Placed(a, s) <=> \E j \in 1 .. n : x = <<a + j - 1, s[j]>>
  BY <1>2, Zenon DEF Placed
<1>4. \A x : x \in Placed(a + n, t) <=> \E j \in 1 .. m : x = <<a + n + j - 1, t[j]>>
  BY <1>2, Zenon DEF Placed
<1>5. \A x : x \in Placed(a, u) <=> \E j \in 1 .. n + m : x = <<a + j - 1, u[j]>>
  BY <1>2, Zenon DEF Placed
<1>6. \A j \in 1 .. n + m : j \in 1 .. n \/ \E i \in 1 .. m : j = n + i
  <2> SUFFICES ASSUME NEW j \in 1 .. n + m, j \notin 1 .. n PROVE \E i \in 1 .. m : j = n + i
    OBVIOUS
  <2>1. j - n \in 1 .. m /\ j = n + (j - n)
    BY <1>1
  <2> QED  BY <2>1
<1>7. 1 .. n \subseteq 1 .. n + m /\ \A i \in 1 .. m : n + i \in 1 .. n + m
  BY <1>1
<1>8. \A i \in 1 .. m : a + n + i - 1 = a + (n + i) - 1
  BY <1>1
<1>9. \A x : x \in Placed(a, u) <=> (x \in Placed(a, s) \/ x \in Placed(a + n, t))
  <2> TAKE x
  <2>1. ASSUME x \in Placed(a, u) PROVE x \in Placed(a, s) \/ x \in Placed(a + n, t)
    <3>1. PICK j \in 1 .. n + m : x = <<a + j - 1, u[j]>>
      BY <2>1, <1>5
    <3>2. CASE j \in 1 .. n
      BY <3>1, <3>2, <1>1, <1>3
    <3>3. CASE \E i \in 1 .. m : j = n + i
      <4>1. PICK i \in 1 .. m : j = n + i
        BY <3>3
      <4> QED  BY <3>1, <4>1, <1>1, <1>4, <1>8
    <3> QED  BY <3>2, <3>3, <1>6
  <2>2. ASSUME x \in Placed(a, s) PROVE x \in Placed(a, u)
    BY <2>2, <1>1, <1>3, <1>5, <1>7
  <2>3. ASSUME x \in Placed(a + n, t) PROVE x \in Placed(a, u)
    <3>1. PICK i \in 1 .. m : x = <<a + n + i - 1, t[i]>>
      BY <2>3, <1>4
    <3>2. n + i \in 1 .. n + m /\ x = <<a + (n + i) - 1, u[n + i]>>
      BY <3>1, <1>1, <1>7, <1>8
    <3> QED  BY <3>2, <1>5
  <2> QED  BY <2>1, <2>2, <2>3
<1> QED  BY <1>9, Zenon DEF n, u

\* The addresses of bytes are those of the bytes with their addresses.
LEMMA ExtentOfPlaced ==
    ASSUME NEW a, NEW s
    PROVE  Extent(a, s) = {x[1] : x \in Placed(a, s)}
<1>1. \A j \in DOMAIN s : <<a + j - 1, s[j]>>[1] = a + j - 1
  OBVIOUS
<1>2. \A y : y \in Extent(a, s) <=> \E j \in DOMAIN s : y = a + j - 1
  BY Zenon DEF Extent
<1>3. \A x : x \in Placed(a, s) <=> \E j \in DOMAIN s : x = <<a + j - 1, s[j]>>
  BY Zenon DEF Placed
<1>4. \A y : y \in {x[1] : x \in Placed(a, s)} <=> y \in Extent(a, s)
  <2> TAKE y
  <2>1. ASSUME NEW x \in Placed(a, s), y = x[1] PROVE y \in Extent(a, s)
    <3>1. PICK j \in DOMAIN s : x = <<a + j - 1, s[j]>>
      BY <1>3
    <3> QED  BY <2>1, <3>1, <1>1, <1>2
  <2>2. ASSUME y \in Extent(a, s) PROVE \E x \in Placed(a, s) : y = x[1]
    <3>1. PICK j \in DOMAIN s : y = a + j - 1
      BY <2>2, <1>2
    <3>2. <<a + j - 1, s[j]>> \in Placed(a, s)
      BY <1>3
    <3> QED  BY <3>1, <3>2, <1>1
  <2> QED  BY <2>1, <2>2
<1> QED  BY <1>4

\* A file that holds something has a byte at its address.
LEMMA FirstInExtent ==
    ASSUME NEW a \in Nat, NEW s \in Seq(Byte), s # << >>
    PROVE  a \in Extent(a, s)
<1>1. 1 \in DOMAIN s
  BY EmptySeq
<1>2. a = a + 1 - 1
  OBVIOUS
<1> QED  BY <1>1, <1>2 DEF Extent

\* With addresses E that no file takes, one file more or longer: they still do not
\* overlap, and take nothing else.
LEMMA FilesApart ==
    ASSUME NEW d, NEW out, NEW file, NEW E,
           Extent(out, file) = (IF out \in DOMAIN d THEN Extent(out, d[out]) ELSE {}) \cup E,
           \A a \in DOMAIN d : E \cap Extent(a, d[a]) = {},
           \A a, b \in DOMAIN d : a # b => Extent(a, d[a]) \cap Extent(b, d[b]) = {},
           NEW e, DOMAIN e = DOMAIN d \cup {out}, e[out] = file,
           \A a \in DOMAIN d : a # out => e[a] = d[a],
           NEW S, S \cap E = {}, \A a \in DOMAIN d : S \cap Extent(a, d[a]) = {}
    PROVE  /\ \A a, b \in DOMAIN e : a # b => Extent(a, e[a]) \cap Extent(b, e[b]) = {}
           /\ \A a \in DOMAIN e : S \cap Extent(a, e[a]) = {}
<1>1. \A a \in DOMAIN e : a # out => a \in DOMAIN d /\ Extent(a, e[a]) = Extent(a, d[a])
  BY Zenon
<1>2. Extent(out, e[out]) = (IF out \in DOMAIN d THEN Extent(out, d[out]) ELSE {}) \cup E
  BY Zenon
<1>3. \A a \in DOMAIN e : a # out => Extent(a, e[a]) \cap Extent(out, e[out]) = {}
  <2> SUFFICES ASSUME NEW a \in DOMAIN e, a # out
               PROVE  Extent(a, e[a]) \cap Extent(out, e[out]) = {}
    BY Zenon
  <2>1. a \in DOMAIN d /\ Extent(a, e[a]) = Extent(a, d[a]) /\ E \cap Extent(a, d[a]) = {}
    BY <1>1, Zenon
  <2>2. out \in DOMAIN d => Extent(a, d[a]) \cap Extent(out, d[out]) = {}
    BY <2>1, Zenon
  <2> QED  BY <2>1, <2>2, <1>2, Zenon
<1>4. \A a, b \in DOMAIN e : a # b => Extent(a, e[a]) \cap Extent(b, e[b]) = {}
  <2> SUFFICES ASSUME NEW a \in DOMAIN e, NEW b \in DOMAIN e, a # b
               PROVE  Extent(a, e[a]) \cap Extent(b, e[b]) = {}
    BY Zenon
  <2>1. CASE a = out
    BY <2>1, <1>3, Zenon
  <2>2. CASE b = out
    BY <2>2, <1>3, Zenon
  <2>3. CASE a # out /\ b # out
    BY <2>3, <1>1, Zenon
  <2> QED  BY <2>1, <2>2, <2>3
<1>5. \A a \in DOMAIN e : S \cap Extent(a, e[a]) = {}
  <2> SUFFICES ASSUME NEW a \in DOMAIN e PROVE S \cap Extent(a, e[a]) = {}
    BY Zenon
  <2>1. CASE a = out
    BY <2>1, <1>2, Zenon
  <2>2. CASE a # out
    BY <2>2, <1>1, Zenon
  <2> QED  BY <2>1, <2>2
<1> QED  BY <1>4, <1>5

\* One file more or longer.
LEMMA FileGrows ==
    ASSUME NEW d, NEW out, NEW file, NEW X,
           Placed(out, file) = (IF out \in DOMAIN d THEN Placed(out, d[out]) ELSE {}) \cup X
    PROVE  InFiles([a \in DOMAIN d \cup {out} |-> IF a = out THEN file ELSE d[a]])
             = InFiles(d) \cup X
<1> DEFINE e == [a \in DOMAIN d \cup {out} |-> IF a = out THEN file ELSE d[a]]
<1>1. /\ DOMAIN e = DOMAIN d \cup {out} /\ e[out] = file
      /\ \A a \in DOMAIN d : a # out => e[a] = d[a]
  OBVIOUS
<1> HIDE DEF e
<1>2. \A x : x \in InFiles(e) <=> \E a \in DOMAIN e : x \in Placed(a, e[a])
  BY Zenon DEF InFiles
<1>3. \A x : x \in InFiles(d) <=> \E a \in DOMAIN d : x \in Placed(a, d[a])
  BY Zenon DEF InFiles
<1>4. \A x : x \in InFiles(e) <=> x \in InFiles(d) \/ x \in X
  <2> TAKE x
  <2>1. ASSUME x \in InFiles(e) PROVE x \in InFiles(d) \/ x \in X
    <3>1. PICK a \in DOMAIN e : x \in Placed(a, e[a])
      BY <2>1, <1>2, Zenon
    <3>2. CASE a = out
      BY <3>1, <3>2, <1>1, <1>3, Zenon
    <3>3. CASE a # out
      BY <3>1, <3>3, <1>1, <1>3, Zenon
    <3> QED  BY <3>2, <3>3
  <2>2. ASSUME x \in InFiles(d) PROVE x \in InFiles(e)
    <3>1. PICK a \in DOMAIN d : x \in Placed(a, d[a])
      BY <2>2, <1>3, Zenon
    <3>2. CASE a = out
      BY <3>1, <3>2, <1>1, <1>2, Zenon
    <3>3. CASE a # out
      BY <3>1, <3>3, <1>1, <1>2, Zenon
    <3> QED  BY <3>2, <3>3
  <2>3. ASSUME x \in X PROVE x \in InFiles(e)
    BY <2>3, <1>1, <1>2, Zenon
  <2> QED  BY <2>1, <2>2, <2>3
<1> QED  BY <1>4, Zenon DEF e

\* unhex reads a line of data: its bytes are no longer missing but in a file.
LEMMA UnhexDataKeeps ==
    ASSUME IInv, UnhexData, UNCHANGED setting
    PROVE  IInv'
<1> DEFINE line == Head(hex)
           addr == un.upper + line.addr
           new  == un.out = NoFile \/ un.next # addr
           out  == IF new THEN addr ELSE un.out
           file == (IF new THEN << >> ELSE dir[out]) \o line.data
           d    == [a \in DOMAIN dir \cup {out} |-> IF a = out THEN file ELSE dir[a]]
           l    == IF new THEN Append(list, addr) ELSE list
           u    == [un EXCEPT !.out = out, !.next = addr + Len(line.data)]
           rest == Tail(hex)
<1>1. /\ stage = "unhex" /\ hex # << >> /\ line.type = "data"
      /\ dir' = d /\ list' = l /\ un' = u /\ hex' = rest
      /\ UNCHANGED <<args, mk, stage, elf, chip>>
  BY Zenon DEF UnhexData, setting
<1>2. /\ Reading(un, dir, list) /\ Unpacking(args, dir)
      /\ hex \in Seq(Line) /\ Missing(args, un, dir, hex)
  BY <1>1 DEF IInv, UnhexInv
<1>3. /\ un \in [upper : Nat, next : Nat, out : Nat \cup {NoFile}]
      /\ list \in Seq(Nat) /\ DOMAIN dir = Range(list)
      /\ \A n, m \in DOMAIN list : list[n] = list[m] => n = m
      /\ \A a \in DOMAIN dir : dir[a] \in Seq(Byte) /\ dir[a] # << >>
      /\ un.out # NoFile => un.out \in DOMAIN dir /\ un.next = un.out + Len(dir[un.out])
  BY <1>2, Zenon DEF Reading
<1>4. /\ line \in Line /\ line.addr \in Nat /\ line.data \in Seq(Byte)
      /\ rest \in Seq(Line)
  <2>1. line \in Line /\ rest \in Seq(Line)
    BY <1>1, <1>2
  <2> HIDE DEF line, rest
  <2> QED  BY <2>1, LineParts
<1>5. /\ addr \in Nat /\ un.upper \in Nat /\ un.next \in Nat
      /\ un.out \in Nat \cup {NoFile}
  BY <1>3, <1>4
<1> DEFINE r == ReaderOf(un)
           T == Starts(args)
           data == line.data
<1>6. PICK last, S, B :
        /\ Printing(hex, r, last, S, B, T)
        /\ \A a \in DOMAIN dir : S \cap Extent(a, dir[a]) = {}
        /\ InFiles(dir) \cup B = Contents(Range(args))
  BY <1>2, Zenon DEF Missing
<1>7. PICK B2 : FirstRead(hex, r, last, S, B, T, B2)
  BY <1>1, <1>2, <1>6, TakeLine
<1> DEFINE S2 == S \ Extent(addr, data)
<1>8. /\ Printing(rest, Step(r, line), last, S2, B2, T) /\ B = B2 \cup Placed(addr, data)
      /\ data # << >> /\ Extent(addr, data) \subseteq S /\ addr \in T \cup {r.next}
  <2>1. r.upper + line.addr = addr
    BY DEF ReaderOf
  <2> HIDE DEF line, addr, rest, r
  <2> QED  BY <1>1, <1>7, <2>1, Zenon DEF FirstRead, rest, line
<1>9. addr \notin DOMAIN dir
  <2>1. addr \in Extent(addr, data)
    <3> HIDE DEF addr, data
    <3> QED  BY <1>4, <1>5, <1>8, FirstInExtent DEF data
  <2>2. ASSUME addr \in DOMAIN dir PROVE FALSE
    <3>1. addr \in Extent(addr, dir[addr])
      <4> HIDE DEF addr
      <4> QED  BY <2>2, <1>3, <1>5, FirstInExtent
    <3> HIDE DEF addr, data
    <3> QED  BY <2>1, <2>2, <3>1, <1>6, <1>8, Zenon
  <2> QED  BY <2>2
<1>9b. new => addr \in T
  <2>1. un.out = NoFile => r.next = NoFile /\ addr # NoFile
    <3> HIDE DEF addr
    <3> QED  BY <1>5 DEF ReaderOf, NoFile
  <2>2. un.out # NoFile => r.next = un.next
    BY DEF ReaderOf
  <2> HIDE DEF addr, r, T, line, rest
  <2> QED  BY <2>1, <2>2, <1>8
<1> HIDE DEF line, addr, rest, r, T
<1>10. new => out = addr /\ file = data
  <2>1. new => file = << >> \o data
    BY Zenon
  <2>2. << >> \o data = data
    BY <1>4
  <2> QED  BY <2>1, <2>2, Zenon
<1>11. ~new => /\ out = un.out /\ out \in DOMAIN dir /\ out \in Nat
               /\ addr = out + Len(dir[out]) /\ file = dir[out] \o data
  <2> SUFFICES ASSUME ~new
               PROVE  /\ un.out \in DOMAIN dir /\ un.out \in Nat
                      /\ addr = un.out + Len(dir[un.out])
    BY Zenon
  <2>1. un.out # NoFile /\ un.next = addr
    OBVIOUS
  <2> QED  BY <2>1, <1>3, <1>5
<1>12. /\ file \in Seq(Byte) /\ out \in Nat /\ (out + Len(file) = addr + Len(data))
       /\ file # << >>
  <2>1. CASE new
    BY <2>1, <1>4, <1>5, <1>8, <1>10, Zenon
  <2>2. CASE ~new
    <3> DEFINE s == dir[out]
    <3>1. out \in DOMAIN dir /\ out \in Nat /\ addr = out + Len(s) /\ file = s \o data
      BY <2>2, <1>11, Zenon
    <3>2. s \in Seq(Byte) /\ data \in Seq(Byte) /\ s # << >>
      BY <3>1, <1>3, <1>4, Zenon
    <3> HIDE DEF s, file, data, out
    <3>4. s \o data # << >>
      BY <3>2
    <3>3. Len(s \o data) = Len(s) + Len(data) /\ s \o data \in Seq(Byte)
          /\ Len(s) \in Nat /\ Len(data) \in Nat
      BY <3>2, ConcatProperties
    <3> QED  BY <3>1, <3>3, <3>4
  <2> QED  BY <2>1, <2>2
<1>13. Placed(out, file)
         = (IF out \in DOMAIN dir THEN Placed(out, dir[out]) ELSE {}) \cup Placed(addr, data)
  <2>1. CASE new
    <3>1. {} \cup Placed(addr, data) = Placed(addr, data)
      OBVIOUS
    <3> QED  BY <2>1, <3>1, <1>9, <1>10, Zenon
  <2>2. CASE ~new
    <3> DEFINE s == dir[out]
    <3>1. out \in DOMAIN dir /\ out \in Nat /\ addr = out + Len(s) /\ file = s \o data
      BY <2>2, <1>11, Zenon
    <3>2. s \in Seq(Byte) /\ data \in Seq(Byte)
      BY <3>1, <1>3, <1>4, Zenon
    <3> HIDE DEF s, file, data, out
    <3>3. Placed(out, s \o data) = Placed(out, s) \cup Placed(out + Len(s), data)
      BY <3>1, <3>2, PlacedConcat
    <3> QED  BY <3>1, <3>3, Zenon DEF s
  <2> QED  BY <2>1, <2>2
<1> HIDE DEF file, out, new, data
<1>14. InFiles(d) = InFiles(dir) \cup Placed(addr, data)
  BY <1>13, FileGrows
<1>15. /\ DOMAIN d = DOMAIN dir \cup {out} /\ d[out] = file
       /\ \A a \in DOMAIN dir : a # out => d[a] = dir[a]
  OBVIOUS
<1> HIDE DEF d
<1>16. /\ DOMAIN d = Range(l) /\ l \in Seq(Nat)
       /\ \A n, m \in DOMAIN l : l[n] = l[m] => n = m
  <2>1. CASE new
    <3>1. l = Append(list, addr) /\ out = addr
      BY <2>1, <1>10
    <3>2. /\ Range(Append(list, addr)) = Range(list) \cup {addr} /\ Append(list, addr) \in Seq(Nat)
          /\ \A n, m \in DOMAIN Append(list, addr) :
               Append(list, addr)[n] = Append(list, addr)[m] => n = m
      <4>1. /\ Append(list, addr) \in Seq(Nat) /\ Len(Append(list, addr)) = Len(list) + 1
            /\ Len(list) \in Nat
            /\ \A n \in 1 .. Len(list) : Append(list, addr)[n] = list[n]
            /\ Append(list, addr)[Len(list) + 1] = addr
        BY <1>3, <1>5, AppendProperties
      <4> DEFINE s == Append(list, addr)
                 k == Len(list)
      <4>2. DOMAIN s = 1 .. k + 1 /\ DOMAIN list = 1 .. k
        BY <4>1, <1>3
      <4> HIDE DEF s, k
      <4>3. \A n \in 1 .. k + 1 : n \in 1 .. k \/ n = k + 1
        BY <4>1 DEF k
      <4>4. 1 .. k \subseteq 1 .. k + 1 /\ k + 1 \in 1 .. k + 1
        BY <4>1 DEF k
      <4>5. (\A n \in 1 .. k : s[n] = list[n]) /\ s[k + 1] = addr
        BY <4>1 DEF s, k
      <4>6. Range(s) = Range(list) \cup {addr}
        BY <4>2, <4>3, <4>4, <4>5, Zenon DEF Range
      <4>7. \A n \in 1 .. k : list[n] # addr
        <5>1. ASSUME NEW n \in 1 .. k PROVE list[n] \in Range(list)
          BY <4>2, Zenon DEF Range
        <5>2. addr \notin Range(list)
          BY <1>3, <1>9, <2>1, Zenon
        <5> QED  BY <5>1, <5>2, Zenon
      <4>8. \A n, m \in DOMAIN s : s[n] = s[m] => n = m
        BY <4>2, <4>3, <4>5, <4>7, <1>3, Zenon
      <4> QED  BY <4>1, <4>6, <4>8 DEF s
    <3> QED  BY <3>1, <3>2, <1>3, <1>15
  <2>2. CASE ~new
    BY <2>2, <1>3, <1>11, <1>15
  <2> QED  BY <2>1, <2>2
<1>17. Reading(u, d, l)
  <2>1. u \in [upper : Nat, next : Nat, out : Nat \cup {NoFile}]
        /\ u.out = out /\ u.next = addr + Len(data)
    <3>1. addr + Len(data) \in Nat
      <4>1. Len(data) \in Nat
        BY <1>4 DEF data
      <4> QED  BY <4>1, <1>5
    <3> QED  BY <3>1, <1>3, <1>12 DEF data
  <2>2. \A a \in DOMAIN d : d[a] \in Seq(Byte) /\ d[a] # << >>
    BY <1>3, <1>12, <1>15, Zenon
  <2>3. u.out \in DOMAIN d /\ u.next = u.out + Len(d[u.out])
    BY <2>1, <1>12, <1>15
  <2> HIDE DEF u, l
  <2> QED  BY <2>1, <2>2, <2>3, <1>16 DEF Reading
<1>18. /\ \A a, b \in DOMAIN d : a # b => Extent(a, d[a]) \cap Extent(b, d[b]) = {}
       /\ \A a \in DOMAIN d : S2 \cap Extent(a, d[a]) = {}
  <2> DEFINE E == Extent(addr, data)
             was == IF out \in DOMAIN dir THEN Placed(out, dir[out]) ELSE {}
  <2>1. Extent(out, file) = (IF out \in DOMAIN dir THEN Extent(out, dir[out]) ELSE {}) \cup E
    <3>1. Extent(out, file) = {x[1] : x \in Placed(out, file)} /\ E = {x[1] : x \in Placed(addr, data)}
      BY ExtentOfPlaced
    <3>2. Extent(out, dir[out]) = {x[1] : x \in Placed(out, dir[out])}
      BY ExtentOfPlaced
    <3> HIDE DEF E
    <3>3. CASE out \in DOMAIN dir
      <4>1. Placed(out, file) = Placed(out, dir[out]) \cup Placed(addr, data)
        BY <3>3, <1>13, Zenon
      <4> QED  BY <3>1, <3>2, <3>3, <4>1, Zenon
    <3>4. CASE out \notin DOMAIN dir
      <4>1. Placed(out, file) = {} \cup Placed(addr, data)
        BY <3>4, <1>13, Zenon
      <4> QED  BY <3>1, <3>4, <4>1, Zenon
    <3> QED  BY <3>3, <3>4
  <2>2. \A a \in DOMAIN dir : E \cap Extent(a, dir[a]) = {}
    BY <1>6, <1>8, Zenon
  <2>3. \A a, b \in DOMAIN dir : a # b => Extent(a, dir[a]) \cap Extent(b, dir[b]) = {}
    BY <1>2, Zenon DEF Unpacking
  <2>4. S2 \cap E = {} /\ \A a \in DOMAIN dir : S2 \cap Extent(a, dir[a]) = {}
    BY <1>6, Zenon
  <2> HIDE DEF E, S2
  <2> QED  BY <2>1, <2>2, <2>3, <2>4, <1>15, FilesApart
<1>19. Unpacking(args, d)
  <2>1. out \in T \/ out \in DOMAIN dir
    BY <1>9b, <1>10, <1>11, Zenon
  <2>2. DOMAIN d \subseteq T
    BY <2>1, <1>2, <1>15, Zenon DEF Unpacking, T
  <2> QED  BY <2>2, <1>18, Zenon DEF Unpacking, T
<1>20. Missing(args, u, d, rest)
  <2>1. ReaderOf(u) = Step(r, line)
    <3>1. u.upper = un.upper /\ u.out = out /\ u.next = addr + Len(data) /\ out # NoFile
      BY <1>3, <1>12 DEF NoFile, data
    <3> HIDE DEF u
    <3>2. ReaderOf(u) = [upper |-> un.upper, next |-> addr + Len(data)]
      BY <3>1, Zenon DEF ReaderOf
    <3>3. Step(r, line) = [upper |-> un.upper, next |-> addr + Len(data)]
      <4>1. r.upper = un.upper
        BY DEF r, ReaderOf
      <4>2. r.upper + line.addr + Len(line.data) = addr + Len(data)
        BY <4>1 DEF addr, data
      <4>3. line.type # "high" /\ line.type # "end"
        BY <1>1
      <4> QED  BY <4>1, <4>2, <4>3, Zenon DEF Step
    <3> QED  BY <3>2, <3>3
  <2>2. InFiles(d) \cup B2 = Contents(Range(args))
    <3>1. InFiles(d) \cup B2 = InFiles(dir) \cup B
      BY <1>8, <1>14, Zenon
    <3> QED  BY <3>1, <1>6
  <2> HIDE DEF u, S2
  <2>3. Printing(rest, ReaderOf(u), last, S2, B2, Starts(args))
    BY <2>1, <1>8, Zenon DEF T
  <2>4. \A a \in DOMAIN d : S2 \cap Extent(a, d[a]) = {}
    BY <1>18
  <2> QED  BY <2>2, <2>3, <2>4, Zenon DEF Missing
<1>21. UnhexInv'
  BY <1>1, <1>4, <1>17, <1>19, <1>20, Zenon DEF UnhexInv
<1>22. SettingInv' /\ FreshInv' /\ MkhexInv'
  BY <1>1 DEF IInv, SettingInv, FreshInv, MkhexInv
<1> QED  BY <1>21, <1>22 DEF IInv

\* Any other line holds no bytes.
LEMMA UnhexOtherKeeps ==
    ASSUME IInv, UnhexOther, UNCHANGED setting
    PROVE  IInv'
<1> DEFINE line == Head(hex)
           rest == Tail(hex)
           u == IF line.type = "high" THEN [un EXCEPT !.upper = line.addr * Bank]
                ELSE [un EXCEPT !.out = NoFile]
<1>1. /\ stage = "unhex" /\ hex # << >> /\ line.type # "data"
      /\ un' = u /\ hex' = rest
      /\ UNCHANGED <<args, mk, dir, list, stage, elf, chip>>
  BY Zenon DEF UnhexOther, setting
<1>2. /\ Reading(un, dir, list) /\ Unpacking(args, dir)
      /\ hex \in Seq(Line) /\ Missing(args, un, dir, hex)
  BY <1>1 DEF IInv, UnhexInv
<1>3. un \in [upper : Nat, next : Nat, out : Nat \cup {NoFile}]
  BY <1>2, Zenon DEF Reading
<1>4. /\ line \in Line /\ line.addr \in Nat /\ rest \in Seq(Line)
      /\ line.type \in {"high", "data", "end"}
  <2>1. line \in Line /\ rest \in Seq(Line)
    BY <1>1, <1>2
  <2> HIDE DEF line, rest
  <2> QED  BY <2>1, LineParts
<1> DEFINE r == ReaderOf(un)
           T == Starts(args)
<1>5. PICK last, S, B :
        /\ Printing(hex, r, last, S, B, T)
        /\ \A a \in DOMAIN dir : S \cap Extent(a, dir[a]) = {}
        /\ InFiles(dir) \cup B = Contents(Range(args))
  BY <1>2, Zenon DEF Missing
<1>6. PICK B2 : FirstRead(hex, r, last, S, B, T, B2)
  BY <1>1, <1>2, <1>5, TakeLine
<1> HIDE DEF r, T, line, rest
<1>7. /\ u \in [upper : Nat, next : Nat, out : Nat \cup {NoFile}]
      /\ u.out # NoFile => u.out = un.out /\ u.next = un.next
      /\ ReaderOf(u) = Step(r, line)
  <2>1. line.addr * Bank \in Nat
    BY <1>4, HexAssumption
  <2>2. CASE line.type = "high"
    <3>1. /\ u \in [upper : Nat, next : Nat, out : Nat \cup {NoFile}]
          /\ u.upper = line.addr * Bank /\ u.out = un.out /\ u.next = un.next
      BY <2>1, <2>2, <1>3
    <3> HIDE DEF u
    <3>2. ReaderOf(u) = [upper |-> line.addr * Bank, next |-> r.next]
      BY <3>1, Zenon DEF ReaderOf, r
    <3>3. Step(r, line) = [upper |-> line.addr * Bank, next |-> r.next]
      BY <2>2, Zenon DEF Step
    <3> QED  BY <3>1, <3>2, <3>3
  <2>3. CASE line.type = "end"
    <3>1. /\ u \in [upper : Nat, next : Nat, out : Nat \cup {NoFile}]
          /\ u.upper = un.upper /\ u.out = NoFile
      BY <2>3, <1>3
    <3> HIDE DEF u
    <3>2. ReaderOf(u) = [upper |-> r.upper, next |-> NoFile]
      BY <3>1 DEF ReaderOf, r
    <3>3. Step(r, line) = [upper |-> r.upper, next |-> NoFile]
      BY <2>3 DEF Step
    <3> QED  BY <3>1, <3>2, <3>3
  <2> QED  BY <2>2, <2>3, <1>1, <1>4
<1> HIDE DEF u
<1>8. Reading(u, dir, list)
  BY <1>2, <1>7, Zenon DEF Reading
<1>9. Missing(args, u, dir, rest)
  <2>1. Printing(rest, ReaderOf(u), last, S \ {}, B2, T) /\ B = B2 \cup {}
    BY <1>1, <1>6, <1>7, Zenon DEF FirstRead, line, rest
  <2>2. S \ {} = S /\ B2 \cup {} = B2
    OBVIOUS
  <2> QED  BY <2>1, <2>2, <1>5, Zenon DEF Missing, T
<1>10. UnhexInv'
  BY <1>1, <1>2, <1>4, <1>8, <1>9, Zenon DEF UnhexInv
<1>11. SettingInv' /\ FreshInv' /\ MkhexInv'
  BY <1>1 DEF IInv, SettingInv, FreshInv, MkhexInv
<1> QED  BY <1>10, <1>11 DEF IInv

\* What comes behind unhex changes none of this.
LEMMA BehindKeeps ==
    ASSUME IInv, FlashBegin \/ EraseFile \/ WriteBlock \/ FlashEnd \/ UNCHANGED vars
    PROVE  IInv'
<1>1. UNCHANGED <<hexvars, elf, chip>>
      /\ (stage' = stage \/ stage' \in {"write", "boot"}) /\ (stage' # stage => stage # "mkbin")
  <2>1. CASE FlashBegin
    BY <2>1 DEF FlashBegin, setting, Unhexed
  <2>2. CASE EraseFile
    BY <2>2 DEF EraseFile, setting
  <2>3. CASE WriteBlock
    BY <2>3 DEF WriteBlock, setting
  <2>4. CASE FlashEnd
    BY <2>4 DEF FlashEnd, setting
  <2>5. CASE UNCHANGED vars
    BY <2>5 DEF vars
  <2> QED  BY <2>1, <2>2, <2>3, <2>4, <2>5
<1>2. CASE stage' = stage
  BY <1>1, <1>2 DEF IInv, SettingInv, FreshInv, MkhexInv, UnhexInv, hexvars
<1>3. CASE stage' # stage
  BY <1>1, <1>3 DEF IInv, SettingInv, FreshInv, MkhexInv, UnhexInv, hexvars
<1> QED  BY <1>2, <1>3

-----------------------------------------------------------------------------
\* The invariant holds in every state.
LEMMA Inductive == ASSUME Linewise PROVE Spec => []IInv
<1>1. ASSUME IInv, [Next]_vars PROVE IInv'
  <2>1. CASE Mkbin
    BY <1>1, <2>1, MkbinKeeps
  <2>2. CASE Mkhex
    BY <1>1, <2>2, MkhexOpenKeeps, MkhexLineKeeps, MkhexEndKeeps DEF Mkhex
  <2>3. CASE Unhex
    BY <1>1, <2>3, UnhexDataKeeps, UnhexOtherKeeps DEF Unhex
  <2>4. CASE FlashBegin \/ EraseFile \/ WriteBlock \/ FlashEnd \/ UNCHANGED vars
    BY <1>1, <2>4, BehindKeeps
  <2> QED  BY <1>1, <2>1, <2>2, <2>3, <2>4 DEF Next
<1> QED  BY <1>1, InitInv, PTL DEF Spec

\* Files that are put at whole lines and do not overlap come back from unhex as they
\* were given to mkhex, whatever their sizes and wherever banks begin.
THEOREM LinewiseRoundTrip == ASSUME Linewise PROVE Spec => []RoundTrip
BY Inductive, InvImpliesRoundTrip, PTL

-----------------------------------------------------------------------------
\* The ROM loader: the image is read back

\* The four bytes of a number.
LEMMA LittleEndianAre ==
    ASSUME NEW n \in Nat
    PROVE  /\ LittleEndian(n)[1] = n % 256 /\ LittleEndian(n)[2] = (n \div 256) % 256
           /\ LittleEndian(n)[3] = (n \div 65536) % 256
           /\ LittleEndian(n)[4] = (n \div 16777216) % 256
<1> DEFINE f == [j \in 1 .. 4 |-> (n \div 256 ^ (j - 1)) % 256]
<1>1. LittleEndian(n) = f
  BY Zenon DEF LittleEndian
<1>2. f[1] = (n \div 256 ^ 0) % 256 /\ f[2] = (n \div 256 ^ 1) % 256
  OBVIOUS
<1>3. f[3] = (n \div 256 ^ 2) % 256 /\ f[4] = (n \div 256 ^ 3) % 256
  BY SMT
<1>4. 256 ^ 0 = 1 /\ 256 ^ 1 = 256 /\ 256 ^ 2 = 65536 /\ 256 ^ 3 = 16777216
  BY SMT
<1> HIDE DEF f
<1>5. n \div 1 = n
  OBVIOUS
<1> QED  BY <1>1, <1>2, <1>3, <1>4, <1>5, SMT

\* SizeAt: the number is read back.
LEMMA SizeReadBack ==
    ASSUME NEW m, NEW a, NEW n \in Nat, n < MaxSize,
           \A j \in 1 .. 4 : BytesAt(m, a, 4)[j] = LittleEndian(n)[j]
    PROVE  SizeAt(m, a) = n
<1> DEFINE b == BytesAt(m, a, 4)
<1>1. b[1] = n % 256 /\ b[2] = (n \div 256) % 256
  <2> HIDE DEF b
  <2>1. b[1] = LittleEndian(n)[1] /\ b[2] = LittleEndian(n)[2]
    BY DEF b
  <2> QED  BY <2>1, LittleEndianAre, SMT
<1>2. b[3] = (n \div 65536) % 256 /\ b[4] = (n \div 16777216) % 256
  <2> HIDE DEF b
  <2>1. b[3] = LittleEndian(n)[3] /\ b[4] = LittleEndian(n)[4]
    BY DEF b
  <2> QED  BY <2>1, LittleEndianAre, SMT
<1>3. SizeAt(m, a) = IF b[4] # 0 THEN MaxSize ELSE b[1] + 256 * b[2] + 65536 * b[3]
  BY SMT DEF SizeAt
<1> HIDE DEF b
<1>4. b[4] = 0
  BY <1>2, SMT DEF MaxSize
<1>5. (n \div 65536) % 256 = n \div 65536
  BY SMT DEF MaxSize
<1>6. (n % 256) + 256 * ((n \div 256) % 256) + 65536 * (n \div 65536) = n
  BY SMT
<1> QED  BY <1>1, <1>2, <1>3, <1>4, <1>5, <1>6

\* What is loaded of a header: its bytes, filled to a multiple of four.
FilledData(h) == h.data \o Zeros(align_to(Len(h.data), 4) - Len(h.data))

\* They are bytes: those of the header, and zeros.
LEMMA FilledBytes ==
    ASSUME NEW h \in [vaddr : Address, data : Seq(Byte)]
    PROVE  LET n == Len(h.data)
               z == align_to(n, 4)
           IN  /\ n \in Nat /\ z \in Nat /\ n <= z
               /\ Sized(Byte, h.data, n) /\ Sized(Byte, Zeros(z - n), z - n)
               /\ Sized(Byte, FilledData(h), z)
               /\ Begins(FilledData(h), h.data, n)
<1> DEFINE d == h.data
           n == Len(d)
           z == align_to(n, 4)
           f == Zeros(z - n)
<1>1. d \in Seq(Byte) /\ n \in Nat
  OBVIOUS
<1>2. z \in Nat /\ n <= z /\ z - n \in Nat
  <2> HIDE DEF n
  <2>1. 4 \in Nat \ {0} /\ n \in Nat
    BY <1>1
  <2>2. z \in Nat /\ n <= z
    BY <2>1, AlignsUp
  <2> HIDE DEF z
  <2> QED  BY <2>1, <2>2
<1>3. Sized(Byte, d, n)
  BY <1>1 DEF Sized
<1>4. Sized(Byte, f, z - n)
  <2> DEFINE m == z - n
  <2> HIDE DEF n, z
  <2>1. m \in Nat
    BY <1>2
  <2> HIDE DEF m
  <2>2. f \in Seq(Byte) /\ DOMAIN f = 1 .. m
    BY <2>1, ZerosType DEF Zeros, m
  <2> HIDE DEF f
  <2> QED  BY <2>1, <2>2, LengthIs DEF Sized, m
<1>5. FilledData(h) = d \o f
  BY Zenon DEF FilledData
<1> HIDE DEF d, n, z, f
<1>6. Sized(Byte, d \o f, n + (z - n)) /\ Begins(d \o f, d, n)
  BY <1>1, <1>2, <1>3, <1>4, ConcatSized, ConcatBegins
<1>7. n + (z - n) = z
  BY <1>1, <1>2
<1> QED  BY <1>1, <1>2, <1>3, <1>4, <1>5, <1>6, <1>7, Zenon DEF d, n, z, f

\* A segment: where it is copied, the size, the bytes.
LEMMA SegmentBytes ==
    ASSUME NEW h \in [vaddr : Address, data : Seq(Byte)]
    PROVE  LET z == align_to(Len(h.data), 4)
               s == Segment(h)
           IN  /\ Sized(Byte, s, 8 + z)
               /\ Begins(s, h.vaddr, 4)
               /\ GoesOn(s, 4, LittleEndian(z), 4)
               /\ GoesOn(s, 8, FilledData(h), z)
<1> DEFINE d == h.data
           n == Len(d)
           z == align_to(n, 4)
           f == Zeros(z - n)
           a == h.vaddr
           l == LittleEndian(z)
           g == FilledData(h)
           s == Segment(h)
<1>1. /\ n \in Nat /\ z \in Nat /\ n <= z
      /\ Sized(Byte, d, n) /\ Sized(Byte, f, z - n) /\ Sized(Byte, g, z)
  BY FilledBytes
<1>2. Sized(Byte, a, 4) /\ Sized(Byte, l, 4)
  <2>1. a \in Address
    OBVIOUS
  <2>2. l \in Address
    BY <1>1, LittleEndianBytes
  <2>3. \A x \in Address : Sized(Byte, x, 4)
    <3> SUFFICES ASSUME NEW x \in Address PROVE Sized(Byte, x, 4)
      OBVIOUS
    <3>1. x \in Seq(Byte)
      BY AddressType
    <3>2. DOMAIN x = 1 .. 4
      BY DEF Address
    <3> QED  BY <3>1, <3>2, LengthIs DEF Sized
  <2> QED  BY <2>1, <2>2, <2>3
<1>3. s = ((a \o l) \o d) \o f /\ g = d \o f
  BY Zenon DEF Segment, FilledData
<1> HIDE DEF d, n, z, f, a, l, g, s
<1>4. ((a \o l) \o d) \o f = (a \o l) \o (d \o f)
  <2>1. a \o l \in Seq(Byte) /\ d \in Seq(Byte) /\ f \in Seq(Byte)
    BY <1>1, <1>2 DEF Sized
  <2>2. Regroups(a \o l, d, f)
    BY <2>1, ConcatRegroups, Zenon
  <2> QED  BY <2>2, Zenon DEF Regroups
<1>5. Sized(Byte, a \o l, 4 + 4) /\ Begins(a \o l, a, 4) /\ GoesOn(a \o l, 4, l, 4)
  <2>1. 4 \in Nat
    OBVIOUS
  <2> QED  BY <2>1, <1>2, ConcatSized, ConcatBegins, ConcatGoesOn
<1>6. 4 + 4 = 8 /\ 8 \in Nat
  OBVIOUS
<1> DEFINE b == a \o l
<1> HIDE DEF b
<1>7. Sized(Byte, b, 8) /\ Begins(b, a, 4) /\ GoesOn(b, 4, l, 4)
  BY <1>5, <1>6, Zenon DEF b
<1>8. s = b \o g
  BY <1>3, <1>4, Zenon DEF b
<1>9. Sized(Byte, b \o g, 8 + z) /\ Begins(b \o g, b, 8) /\ GoesOn(b \o g, 8, g, z)
  BY <1>1, <1>6, <1>7, ConcatSized, ConcatBegins, ConcatGoesOn
<1> DEFINE t == b \o g
<1> HIDE DEF t
<1>10. Sized(Byte, t, 8 + z) /\ Begins(t, b, 8) /\ GoesOn(t, 8, g, z)
  BY <1>9, Zenon DEF t
<1>11. Begins(t, a, 4)
  <2>1. \A i \in 1 .. 4 : i \in 1 .. 8
    OBVIOUS
  <2> QED  BY <1>7, <1>10, <2>1, Zenon DEF Begins
<1>12. GoesOn(t, 4, l, 4)
  <2>1. \A i \in 1 .. 4 : 4 + i \in 1 .. 8
    OBVIOUS
  <2> QED  BY <1>7, <1>10, <2>1, Zenon DEF Begins, GoesOn
<1> QED  BY <1>8, <1>10, <1>11, <1>12, Zenon DEF t, d, n, z, a, l, g, s

\* The n-th segment that the loader finds ends at E[n], and L[n] is what is loaded.
Walked(m, E, L, n) ==
    /\ ~(SizeAt(m, E[n - 1] + 4) > Len(m))
    /\ E[n] = E[n - 1] + 8 + SizeAt(m, E[n - 1] + 4)
    /\ L[n] = [vaddr |-> BytesAt(m, E[n - 1], 4),
               data  |-> BytesAt(m, E[n - 1] + 8, SizeAt(m, E[n - 1] + 4))]

WalkedTo(m, E, L, num) == \A n \in 1 .. num : Walked(m, E, L, n)

\* If it finds num of them, that is what SegmentsAt yields.
LEMMA SegmentsFound ==
    ASSUME NEW m, NEW num \in Nat, NEW E, NEW L, WalkedTo(m, E, L, num)
    PROVE  SegmentsAt(m, E[0], num) = [end |-> E[num], segments |-> [i \in 1 .. num |-> L[i]]]
<1> DEFINE a == E[0]
<1>0. \A n \in 1 .. num : Walked(m, E, L, n)
  BY Zenon DEF WalkedTo
<1> DEFINE step(f, n) ==
             IF n = 0 THEN [end |-> a, segments |-> << >>]
             ELSE IF SizeAt(m, f[n - 1].end + 4) > Len(m) THEN f[n - 1]
                  ELSE [end |-> f[n - 1].end + 8 + SizeAt(m, f[n - 1].end + 4),
                        segments |-> Append(f[n - 1].segments,
                            [vaddr |-> BytesAt(m, f[n - 1].end, 4),
                             data  |-> BytesAt(m, f[n - 1].end + 8, SizeAt(m, f[n - 1].end + 4))])]
           next(f) == [n \in 0 .. num |-> step(f, n)]
           found(n) == [end |-> E[n], segments |-> [i \in 1 .. n |-> L[i]]]
           g == [n \in 0 .. num |-> found(n)]
           walk == CHOOSE f : f = next(f)
<1>1. SegmentsAt(m, a, num) = walk[num]
  BY Zenon DEF SegmentsAt
<1>2. \A n \in 1 .. num : Append([i \in 1 .. n - 1 |-> L[i]], L[n]) = [i \in 1 .. n |-> L[i]]
  <2> TAKE n \in 1 .. num
  <2> DEFINE S == {L[i] : i \in 1 .. num}
             s == [i \in 1 .. n - 1 |-> L[i]]
             t == [i \in 1 .. n |-> L[i]]
             x == L[n]
  <2>1. \A i \in 1 .. num : L[i] \in S
    OBVIOUS
  <2> HIDE DEF S
  <2>2. s \in Seq(S) /\ t \in Seq(S) /\ x \in S /\ Len(s) = n - 1 /\ Len(t) = n
    BY <2>1
  <2>3. \A i \in 1 .. n - 1 : s[i] = t[i]
    OBVIOUS
  <2>4. t[n] = x
    OBVIOUS
  <2> HIDE DEF s, t, x
  <2>5. /\ Append(s, x) \in Seq(S) /\ Len(Append(s, x)) = n
        /\ \A i \in 1 .. n - 1 : Append(s, x)[i] = s[i]
        /\ Append(s, x)[n] = x
    <3>1. /\ Append(s, x) \in Seq(S) /\ Len(Append(s, x)) = Len(s) + 1
          /\ \A i \in 1 .. Len(s) : Append(s, x)[i] = s[i]
          /\ Append(s, x)[Len(s) + 1] = x
      BY <2>2, AppendProperties
    <3>2. Len(s) = n - 1 /\ Len(s) + 1 = n
      BY <2>2
    <3> QED  BY <3>1, <3>2
  <2> DEFINE u == Append(s, x)
  <2> HIDE DEF u
  <2>6. \A i \in 1 .. n : u[i] = t[i]
    <3>1. \A i \in 1 .. n : i \in 1 .. n - 1 \/ i = n
      OBVIOUS
    <3> QED  BY <2>3, <2>4, <2>5, <3>1 DEF u
  <2>7. u = t
    BY <2>2, <2>5, <2>6, SeqEqual DEF u
  <2> QED  BY <2>7, Zenon DEF u, s, t, x
<1> HIDE DEF step, found
<1>3. \A f, n : n \in 1 .. num /\ f[n - 1] = found(n - 1) => step(f, n) = found(n)
  <2> SUFFICES ASSUME NEW f, NEW n \in 1 .. num, f[n - 1] = found(n - 1)
               PROVE  step(f, n) = found(n)
    OBVIOUS
  <2> DEFINE e == E[n - 1]
             s == [i \in 1 .. n - 1 |-> L[i]]
             z == SizeAt(m, e + 4)
  <2>1. f[n - 1].end = e /\ f[n - 1].segments = s
    BY DEF found
  <2>2. n # 0
    OBVIOUS
  <2>3. /\ ~(z > Len(m)) /\ E[n] = e + 8 + z
        /\ L[n] = [vaddr |-> BytesAt(m, e, 4), data |-> BytesAt(m, e + 8, z)]
    BY <1>0, Zenon DEF Walked
  <2>4. Append(s, L[n]) = [i \in 1 .. n |-> L[i]]
    BY <1>2
  <2> HIDE DEF e, s
  <2>5. step(f, n) = [end |-> e + 8 + z, segments |-> Append(s,
                        [vaddr |-> BytesAt(m, e, 4), data |-> BytesAt(m, e + 8, z)])]
    BY <2>1, <2>2, <2>3, Zenon DEF step
  <2> QED  BY <2>3, <2>4, <2>5, Zenon DEF found
<1>4. \A f : step(f, 0) = found(0)
  <2>1. [i \in 1 .. 0 |-> L[i]] = << >>
    OBVIOUS
  <2> QED  BY <2>1 DEF step, found
<1>5. g = next(g)
  <2>1. \A n \in 0 .. num : g[n] = found(n)
    OBVIOUS
  <2>2. \A n \in 0 .. num : step(g, n) = found(n)
    <3> TAKE n \in 0 .. num
    <3>1. CASE n = 0
      BY <1>4, <3>1, Zenon
    <3>2. CASE n # 0
      <4>1. n \in 1 .. num /\ n - 1 \in 0 .. num
        BY <3>2
      <4> HIDE DEF g
      <4> QED  BY <1>3, <2>1, <4>1, Zenon
    <3> QED  BY <3>1, <3>2
  <2> HIDE DEF g
  <2>3. next(g) = [n \in 0 .. num |-> found(n)]
    BY <2>2
  <2> QED  BY <2>3, Zenon DEF g
<1>6. walk = next(walk)
  <2> HIDE DEF next, g
  <2> QED  BY <1>5, Zenon
<1> HIDE DEF walk, g
<1>7. \A n \in 0 .. num : walk[n] = step(walk, n)
  <2>1. \A f : f = next(f) => \A n \in 0 .. num : f[n] = step(f, n)
    OBVIOUS
  <2> HIDE DEF next
  <2> QED  BY <1>6, <2>1
<1> HIDE DEF next
<1> DEFINE T == {n \in Nat : n <= num => walk[n] = found(n)}
<1>8. 0 \in T
  BY <1>4, <1>7
<1>9. ASSUME NEW n \in Nat, n \in T PROVE n + 1 \in T
  <2> SUFFICES ASSUME n + 1 <= num PROVE walk[n + 1] = found(n + 1)
    OBVIOUS
  <2>1. n + 1 \in 1 .. num /\ n + 1 \in 0 .. num /\ (n + 1) - 1 = n /\ n <= num
    OBVIOUS
  <2>2. walk[n] = found(n)
    BY <1>9, <2>1
  <2> QED  BY <1>3, <1>7, <2>1, <2>2
<1>10. walk[num] = found(num)
  <2>1. Nat \subseteq T
    <3> HIDE DEF T
    <3> QED  BY <1>8, <1>9, SetInduction
  <2>2. num <= num
    OBVIOUS
  <2> QED  BY <2>1, <2>2
<1> QED  BY <1>1, <1>10, Zenon DEF found, a

\* The bytes of s are in m from a on.
Holds(m, a, s, n) == \A j \in 1 .. n : At(m, a + j - 1) = s[j]

\* BytesAt: n bytes are read back from the middle of what is there.
LEMMA BytesReadBack ==
    ASSUME NEW m, NEW a \in Nat, NEW s, NEW l \in Nat, Holds(m, a, s, l),
           NEW o \in Nat, NEW n \in Nat, o + n <= l,
           NEW t, Sized(Byte, t, n), GoesOn(s, o, t, n)
    PROVE  BytesAt(m, a + o, n) = t
<1>1. \A j \in 1 .. n : At(m, (a + o) + j - 1) = t[j]
  <2> TAKE j \in 1 .. n
  <2>1. o + j \in 1 .. l /\ a + (o + j) - 1 = (a + o) + j - 1
    OBVIOUS
  <2>2. At(m, a + (o + j) - 1) = s[o + j]
    BY <2>1 DEF Holds
  <2>3. s[o + j] = t[j]
    BY DEF GoesOn
  <2> QED  BY <2>1, <2>2, <2>3
<1>2. BytesAt(m, a + o, n) = [j \in 1 .. n |-> t[j]]
  BY <1>1 DEF BytesAt
<1>3. t \in Seq(Byte) /\ Len(t) = n
  BY DEF Sized
<1>4. t = [j \in 1 .. n |-> t[j]]
  BY <1>3
<1> QED  BY <1>2, <1>4, Zenon

\* Read back, a segment is where it is copied to and what is.
Loaded(h) == [vaddr |-> h.vaddr, data |-> FilledData(h)]

\* The loader's way through a segment.
LEMMA SegmentReadBack ==
    ASSUME NEW m, NEW a \in Nat, NEW h \in [vaddr : Address, data : Seq(Byte)],
           Holds(m, a, Segment(h), 8 + align_to(Len(h.data), 4)),
           align_to(Len(h.data), 4) < MaxSize
    PROVE  /\ SizeAt(m, a + 4) = align_to(Len(h.data), 4)
           /\ BytesAt(m, a, 4) = h.vaddr
           /\ BytesAt(m, a + 8, align_to(Len(h.data), 4)) = FilledData(h)
<1> DEFINE z == align_to(Len(h.data), 4)
           s == Segment(h)
           v == h.vaddr
           l == LittleEndian(z)
           f == FilledData(h)
<1>1. z \in Nat /\ Sized(Byte, f, z)
  BY FilledBytes
<1>2. Begins(s, v, 4) /\ GoesOn(s, 4, l, 4) /\ GoesOn(s, 8, f, z)
  BY SegmentBytes
<1>3. Sized(Byte, v, 4) /\ Sized(Byte, l, 4)
  <2>1. v \in Address
    OBVIOUS
  <2>2. l \in Address
    BY <1>1, LittleEndianBytes
  <2>3. \A x \in Address : Sized(Byte, x, 4)
    <3> SUFFICES ASSUME NEW x \in Address PROVE Sized(Byte, x, 4)
      OBVIOUS
    <3>1. x \in Seq(Byte)
      BY AddressType
    <3>2. DOMAIN x = 1 .. 4
      BY DEF Address
    <3> QED  BY <3>1, <3>2, LengthIs DEF Sized
  <2> QED  BY <2>1, <2>2, <2>3
<1>4. Holds(m, a, s, 8 + z) /\ z < MaxSize
  OBVIOUS
<1> HIDE DEF z, s, v, l, f
<1>5. GoesOn(s, 0, v, 4)
  <2>1. \A j \in 1 .. 4 : 0 + j = j
    OBVIOUS
  <2> QED  BY <1>2, <2>1 DEF Begins, GoesOn
<1>6. 8 + z \in Nat /\ 0 + 4 <= 8 + z /\ 4 + 4 <= 8 + z /\ 8 + z <= 8 + z
  BY <1>1
<1>7. 0 \in Nat /\ 4 \in Nat /\ 8 \in Nat
  OBVIOUS
<1>8. BytesAt(m, a + 0, 4) = v
  BY <1>3, <1>4, <1>5, <1>6, <1>7, BytesReadBack
<1>9. BytesAt(m, a + 4, 4) = l
  BY <1>2, <1>3, <1>4, <1>6, <1>7, BytesReadBack
<1>10. BytesAt(m, a + 8, z) = f
  BY <1>1, <1>2, <1>4, <1>6, <1>7, BytesReadBack
<1>11. a + 0 = a
  OBVIOUS
<1>12. SizeAt(m, a + 4) = z
  <2>1. \A j \in 1 .. 4 : BytesAt(m, a + 4, 4)[j] = LittleEndian(z)[j]
    BY <1>9, Zenon DEF l
  <2> QED  BY <1>1, <1>4, <2>1, SizeReadBack, SMT
<1> QED  BY <1>8, <1>10, <1>11, <1>12, Zenon DEF z, v, f

\* What is loaded of an image.
LoadedSegments(e) == [n \in 1 .. Len(e.phdrs) |-> Loaded(Phdr(e, n))]

\* The loader finds all segments, and where they end.
LEMMA SegmentsReadBack ==
    ASSUME NEW e, ElfFile(e), NEW m, NEW a \in Nat,
           Holds(m, a, FlattenSeq(Segments(e)), Len(FlattenSeq(Segments(e)))),
           Len(FlattenSeq(Segments(e))) <= Len(m), Len(m) <= MaxSize, Len(m) \in Nat
    PROVE  SegmentsAt(m, a, Len(e.phdrs)) =
             [end |-> a + Len(FlattenSeq(Segments(e))), segments |-> LoadedSegments(e)]
<1> DEFINE ss == Segments(e)
           k == Len(e.phdrs)
           F == FlattenSeq(ss)
           E == [n \in 0 .. k |-> a + Behind(ss, n)]
           L == LoadedSegments(e)
<1>1. ss \in Seq(Seq(Byte)) /\ Len(ss) = k
  BY SegmentsType
<1>2. k \in Nat \ {0}
  <2>1. e.phdrs \in Seq([vaddr : Address, data : Seq(Byte)]) /\ e.phdrs # << >>
    BY DEF ElfFile
  <2> QED  BY <2>1, EmptySeq
<1>3. Len(F) \in Nat
  <2>1. F \in Seq(Byte)
    BY <1>1, FlattenType
  <2> QED  BY <2>1
<1>4. \A n \in 0 .. k : E[n] = a + Behind(ss, n)
  OBVIOUS
<1>5. E[0] = a
  <2>1. 0 \in 0 .. k /\ a + 0 = a
    BY <1>2
  <2>2. Behind(ss, 0) = 0
    BY DEF Behind
  <2> QED  BY <1>4, <2>1, <2>2
<1>6. E[k] = a + Len(F)
  <2>1. k \in 0 .. k /\ Len(ss) # 0
    BY <1>1, <1>2
  <2>2. Behind(ss, Len(ss)) = Len(F)
    BY <2>1, FlattenEnd
  <2> QED  BY <1>1, <1>4, <2>1, <2>2
<1>7. ASSUME NEW n \in 1 .. k PROVE Walked(m, E, L, n)
  <2> DEFINE h == Phdr(e, n)
             s == ss[n]
             z == align_to(Len(h.data), 4)
             b == Behind(ss, n - 1)
  <2>1. h \in [vaddr : Address, data : Seq(Byte)]
    BY PhdrType
  <2>2. s = Segment(h)
    BY Zenon DEF Segments
  <2>3. Sized(Byte, s, 8 + z) /\ z \in Nat
    <3>1. Sized(Byte, Segment(h), 8 + z)
      BY <2>1, SegmentBytes
    <3>2. z \in Nat
      BY <2>1, FilledBytes
    <3> QED  BY <2>2, <3>1, <3>2, Zenon
  <2>4. n \in 1 .. Len(ss)
    BY <1>1
  <2>5. b \in Nat /\ Behind(ss, n) = b + Len(s)
    BY <1>1, <2>4, BehindNext
  <2>6. \A j \in 1 .. Len(s) : b + j \in 1 .. Len(F) /\ F[b + j] = s[j]
    BY <1>1, <2>4, FlattenAt
  <2>7. L[n] = Loaded(h)
    BY Zenon DEF LoadedSegments
  <2>8. Holds(m, a, F, Len(F)) /\ Len(F) <= Len(m)
    OBVIOUS
  <2>9. E[n - 1] = a + b /\ E[n] = a + Behind(ss, n)
    <3>1. n - 1 \in 0 .. k /\ n \in 0 .. k
      BY <1>2
    <3> QED  BY <1>4, <3>1, Zenon
  <2> HIDE DEF h, s, z, b, F, E, L
  <2>10. Len(s) = 8 + z
    BY <2>3 DEF Sized
  <2>11. a + b \in Nat
    BY <2>5
  <2>12. Holds(m, a + b, s, 8 + z)
    <3>1. \A j \in 1 .. 8 + z : At(m, (a + b) + j - 1) = s[j]
      <4> TAKE j \in 1 .. 8 + z
      <4>1. b + j \in 1 .. Len(F) /\ F[b + j] = s[j]
        BY <2>6, <2>10
      <4>2. At(m, a + (b + j) - 1) = F[b + j]
        BY <2>8, <4>1 DEF Holds
      <4>3. a + (b + j) - 1 = (a + b) + j - 1
        BY <2>3, <2>5
      <4> QED  BY <4>1, <4>2, <4>3
    <3> QED  BY <3>1 DEF Holds
  <2>13. 8 + z <= Len(F)
    <3>1. 8 + z \in 1 .. Len(s)
      BY <2>3, <2>10
    <3>2. b + (8 + z) \in 1 .. Len(F)
      BY <2>6, <3>1
    <3> QED  BY <2>3, <2>5, <3>2, <1>3
  <2>14. z < MaxSize
    <3>1. MaxSize \in Nat
      BY SMT DEF MaxSize
    <3> QED  BY <1>3, <2>3, <2>8, <2>13, <3>1
  <2>15. ~(z > Len(m))
    BY <1>3, <2>3, <2>8, <2>13
  <2>16. /\ SizeAt(m, (a + b) + 4) = z /\ BytesAt(m, a + b, 4) = h.vaddr
         /\ BytesAt(m, (a + b) + 8, z) = FilledData(h)
    <3>1. Holds(m, a + b, Segment(h), 8 + align_to(Len(h.data), 4))
      BY <2>2, <2>12, Zenon DEF z
    <3>2. align_to(Len(h.data), 4) < MaxSize
      BY <2>14, Zenon DEF z
    <3> QED  BY <2>1, <2>11, <3>1, <3>2, SegmentReadBack DEF z
  <2>17. E[n] = (a + b) + 8 + z
    BY <2>3, <2>5, <2>9, <2>10
  <2> QED  BY <2>7, <2>9, <2>15, <2>16, <2>17, Zenon DEF Walked, Loaded
<1>8. [i \in 1 .. k |-> L[i]] = L
  BY DEF LoadedSegments
<1> HIDE DEF E, L, k, F, ss
<1>9. SegmentsAt(m, a, k) = [end |-> E[k], segments |-> [i \in 1 .. k |-> L[i]]]
  <2>1. k \in Nat
    BY <1>2
  <2>2. WalkedTo(m, E, L, k)
    BY <1>7, Zenon DEF WalkedTo
  <2>3. SegmentsAt(m, E[0], k) = [end |-> E[k], segments |-> [i \in 1 .. k |-> L[i]]]
    BY <2>1, <2>2, SegmentsFound
  <2> QED  BY <1>5, <2>3, Zenon
<1> QED  BY <1>6, <1>8, <1>9, Zenon DEF k, L, F, ss

\* Of two sequences in a row as many bytes have a bit as of both.
LEMMA OnesConcat ==
    ASSUME NEW s \in Seq(Byte), NEW t \in Seq(Byte), NEW b
    PROVE  Ones(s \o t, b) = Ones(s, b) + Ones(t, b)
<1> DEFINE u == s \o t
           k == Len(s)
           S == Having(s, b)
           T == Having(t, b)
           V == {k + j : j \in T}
           f == [j \in T |-> k + j]
<1>1. /\ k \in Nat /\ Len(t) \in Nat /\ u \in Seq(Byte) /\ Len(u) = k + Len(t)
      /\ DOMAIN s = 1 .. k /\ DOMAIN t = 1 .. Len(t) /\ DOMAIN u = 1 .. k + Len(t)
  <2>1. u \in Seq(Byte) /\ Len(u) = Len(s) + Len(t)
    BY ConcatProperties
  <2> HIDE DEF u
  <2> QED  BY <2>1
<1>2. (\A j \in 1 .. k : u[j] = s[j]) /\ (\A j \in 1 .. Len(t) : u[k + j] = t[j])
  <2>1. Sized(Byte, s, k) /\ Sized(Byte, t, Len(t))
    BY DEF Sized
  <2> HIDE DEF k
  <2>2. Begins(u, s, k) /\ GoesOn(u, k, t, Len(t))
    BY <1>1, <2>1, ConcatBegins, ConcatGoesOn
  <2> HIDE DEF u
  <2> QED  BY <2>2 DEF Begins, GoesOn
<1>3. IsFiniteSet(S) /\ IsFiniteSet(T) /\ Cardinality(S) \in Nat /\ Cardinality(T) \in Nat
  <2>1. IsFiniteSet(S) /\ IsFiniteSet(T)
    BY OnesType
  <2> HIDE DEF S, T
  <2> QED  BY <2>1, FS_CardinalityType
<1>4. S \subseteq 1 .. k /\ T \subseteq 1 .. Len(t)
  BY <1>1 DEF Having
<1> DEFINE on(x) == (x \div 2 ^ b) % 2 = 1
<1>5. /\ \A j : j \in S <=> j \in 1 .. k /\ on(s[j])
      /\ \A j : j \in T <=> j \in 1 .. Len(t) /\ on(t[j])
      /\ \A j : j \in Having(u, b) <=> j \in 1 .. k + Len(t) /\ on(u[j])
  <2>1. /\ S = {j \in DOMAIN s : on(s[j])} /\ T = {j \in DOMAIN t : on(t[j])}
        /\ Having(u, b) = {j \in DOMAIN u : on(u[j])}
    BY Zenon DEF Having
  <2> HIDE DEF on, S, T, u, k
  <2> QED  BY <1>1, <2>1
<1> HIDE DEF S, T, on, u
<1>6. Having(u, b) = S \cup V
  <2>1. ASSUME NEW j \in Having(u, b) PROVE j \in S \cup V
    <3>1. j \in 1 .. k + Len(t) /\ on(u[j])
      BY <1>5, <2>1
    <3>2. CASE j <= k
      <4>1. j \in 1 .. k
        BY <1>1, <3>1, <3>2
      <4>2. u[j] = s[j]
        BY <1>2, <4>1
      <4> HIDE DEF k
      <4> QED  BY <1>5, <3>1, <4>1, <4>2
    <3>3. CASE ~(j <= k)
      <4> DEFINE i == j - k
      <4>1. i \in 1 .. Len(t) /\ j = k + i
        BY <1>1, <3>1, <3>3
      <4> HIDE DEF i, k
      <4>2. u[j] = t[i]
        BY <1>2, <4>1
      <4>3. i \in T
        BY <1>5, <3>1, <4>1, <4>2
      <4> QED  BY <4>1, <4>3
    <3> QED  BY <3>2, <3>3
  <2>2. ASSUME NEW j \in S PROVE j \in Having(u, b)
    <3>1. j \in 1 .. k /\ on(s[j])
      BY <1>5, <2>2
    <3>2. j \in 1 .. k + Len(t)
      BY <1>1, <3>1
    <3>3. u[j] = s[j]
      BY <1>2, <3>1
    <3> QED  BY <1>5, <3>1, <3>2, <3>3
  <2>3. ASSUME NEW i \in T PROVE k + i \in Having(u, b)
    <3>1. i \in 1 .. Len(t) /\ on(t[i])
      BY <1>5, <2>3
    <3>2. k + i \in 1 .. k + Len(t)
      BY <1>1, <3>1
    <3>3. u[k + i] = t[i]
      BY <1>2, <3>1
    <3> QED  BY <1>5, <3>1, <3>2, <3>3
  <2> HIDE DEF k
  <2> QED  BY <2>1, <2>2, <2>3
<1> HIDE DEF k
<1>7. S \cap V = {}
  <2> SUFFICES ASSUME NEW i \in T, k + i \in S PROVE FALSE
    OBVIOUS
  <2> QED  BY <1>1, <1>4
<1>8. IsFiniteSet(V) /\ Cardinality(V) = Cardinality(T)
  <2>1. f \in [T -> V] /\ (\A v \in V : \E j \in T : f[j] = v)
    OBVIOUS
  <2>2. \A i, j \in T : f[i] = f[j] => i = j
    BY <1>1, <1>4
  <2> HIDE DEF f, V
  <2>3. f \in Bijection(T, V)
    BY <2>1, <2>2, Zenon DEF Bijection, Injection, Surjection, IsInjective
  <2>4. ExistsBijection(T, V)
    BY <2>3, Zenon DEF ExistsBijection
  <2> QED  BY <1>3, <2>4, FS_Bijection
<1> HIDE DEF V
<1>9. Cardinality(S \cup V) = Cardinality(S) + Cardinality(V) - Cardinality({})
  <2>1. Cardinality(S \cup V) = Cardinality(S) + Cardinality(V) - Cardinality(S \cap V)
    BY <1>3, <1>8, FS_Union
  <2> QED  BY <1>7, <2>1
<1>10. Cardinality({}) = 0
  BY FS_EmptySet
<1>11. Cardinality(Having(u, b)) = Cardinality(S) + Cardinality(T)
  BY <1>3, <1>6, <1>8, <1>9, <1>10
<1> QED  BY <1>11, Zenon DEF Ones, S, T, u

\* Zeros have none.
LEMMA OnesZeros ==
    ASSUME NEW n \in Nat, NEW b \in 0 .. 7
    PROVE  Ones(Zeros(n), b) = 0
<1>1. (0 \div 2 ^ b) % 2 # 1
  <2> DEFINE p(x) == 2 ^ x
  <2>1. b \in {0, 1, 2, 3, 4, 5, 6, 7}
    OBVIOUS
  <2>2. /\ p(0) = 1 /\ p(1) = 2 /\ p(2) = 4 /\ p(3) = 8
        /\ p(4) = 16 /\ p(5) = 32 /\ p(6) = 64 /\ p(7) = 128
    OBVIOUS
  <2> HIDE DEF p
  <2>3. p(b) \in {1, 2, 4, 8, 16, 32, 64, 128}
    BY <2>1, <2>2
  <2>4. \A x \in {1, 2, 4, 8, 16, 32, 64, 128} : (0 \div x) % 2 # 1
    OBVIOUS
  <2> QED  BY <2>3, <2>4, Zenon DEF p
<1>2. \A j \in DOMAIN Zeros(n) : Zeros(n)[j] = 0
  BY DEF Zeros
<1>3. Having(Zeros(n), b) = {}
  BY <1>1, <1>2, Zenon DEF Having
<1> QED  BY <1>3, FS_EmptySet DEF Ones

\* Filled up, a header's bytes have as many.
LEMMA OnesFilled ==
    ASSUME NEW h \in [vaddr : Address, data : Seq(Byte)], NEW b \in 0 .. 7
    PROVE  Ones(FilledData(h), b) = Ones(h.data, b)
<1> DEFINE d == h.data
           n == Len(d)
           z == align_to(n, 4)
           l == z - n
           f == Zeros(l)
<1>1. n \in Nat /\ z \in Nat /\ n <= z /\ Sized(Byte, d, n) /\ Sized(Byte, f, z - n)
  BY FilledBytes
<1>2. FilledData(h) = d \o f
  BY Zenon DEF FilledData
<1> HIDE DEF d, n, z
<1>3. l \in Nat
  BY <1>1
<1> HIDE DEF l
<1>4. Ones(f, b) = 0
  BY <1>3, OnesZeros
<1> HIDE DEF f
<1>5. d \in Seq(Byte) /\ f \in Seq(Byte)
  BY <1>1 DEF Sized
<1>6. Ones(d \o f, b) = Ones(d, b) + Ones(f, b) /\ Ones(d, b) \in Nat
  BY <1>5, OnesConcat, OnesType
<1>7. Ones(d \o f, b) = Ones(d, b)
  BY <1>4, <1>6
<1> QED  BY <1>2, <1>7, Zenon DEF d

\* Joined, as many bytes have a bit as in all the sequences together.
LEMMA OnesFlatten ==
    ASSUME NEW ss \in Seq(Seq(Byte)), NEW tt \in Seq(Seq(Byte)), NEW b, Len(ss) = Len(tt),
           \A n \in 1 .. Len(ss) : Ones(ss[n], b) = Ones(tt[n], b)
    PROVE  Ones(FlattenSeq(ss), b) = Ones(FlattenSeq(tt), b)
<1> DEFINE k == Len(ss)
           g == Joined(ss)
           h == Joined(tt)
           T == {n \in Nat : n + 1 <= k => Ones(g[n + 1], b) = Ones(h[n + 1], b)}
<1>1. k \in Nat /\ Len(tt) = k
  OBVIOUS
<1>2. \A i \in 1 .. k : ss[i] \in Seq(Byte) /\ tt[i] \in Seq(Byte)
  OBVIOUS
<1>3. \A i \in 1 .. k : g[i] \in Seq(Byte) /\ g[i] = IF i = 1 THEN ss[i] ELSE g[i - 1] \o ss[i]
  BY JoinedDef
<1>4. \A i \in 1 .. k : h[i] \in Seq(Byte) /\ h[i] = IF i = 1 THEN tt[i] ELSE h[i - 1] \o tt[i]
  <2>1. \A i \in 1 .. Len(tt) :
          h[i] \in Seq(Byte) /\ h[i] = IF i = 1 THEN tt[i] ELSE h[i - 1] \o tt[i]
    BY JoinedDef
  <2> QED  BY <1>1, <2>1, Zenon
<1>5. \A i \in 1 .. k : Ones(ss[i], b) = Ones(tt[i], b)
  OBVIOUS
<1> HIDE DEF k, g, h
<1>6. 0 \in T
  <2> SUFFICES ASSUME 0 + 1 <= k PROVE Ones(g[0 + 1], b) = Ones(h[0 + 1], b)
    OBVIOUS
  <2>1. 1 \in 1 .. k /\ 0 + 1 = 1
    BY <1>1
  <2>2. g[1] = ss[1] /\ h[1] = tt[1]
    BY <1>3, <1>4, <2>1
  <2> QED  BY <1>5, <2>1, <2>2
<1>7. ASSUME NEW n \in Nat, n \in T PROVE n + 1 \in T
  <2> SUFFICES ASSUME (n + 1) + 1 <= k PROVE Ones(g[(n + 1) + 1], b) = Ones(h[(n + 1) + 1], b)
    OBVIOUS
  <2> DEFINE i == n + 1
             j == (n + 1) + 1
  <2>1. i \in 1 .. k /\ j \in 1 .. k /\ j # 1 /\ j - 1 = i /\ n + 1 <= k
    BY <1>1
  <2>2. Ones(g[i], b) = Ones(h[i], b)
    BY <1>7, <2>1
  <2> HIDE DEF i, j
  <2>3. g[j] = g[i] \o ss[j] /\ h[j] = h[i] \o tt[j]
    BY <1>3, <1>4, <2>1
  <2>4. g[i] \in Seq(Byte) /\ h[i] \in Seq(Byte) /\ ss[j] \in Seq(Byte) /\ tt[j] \in Seq(Byte)
    BY <1>2, <1>3, <1>4, <2>1, Zenon
  <2>5. Ones(g[i] \o ss[j], b) = Ones(g[i], b) + Ones(ss[j], b)
    BY <2>4, OnesConcat
  <2>6. Ones(h[i] \o tt[j], b) = Ones(h[i], b) + Ones(tt[j], b)
    BY <2>4, OnesConcat
  <2>7. Ones(ss[j], b) = Ones(tt[j], b)
    BY <1>5, <2>1
  <2>8. Ones(g[j], b) = Ones(h[j], b)
    BY <2>2, <2>3, <2>5, <2>6, <2>7, Zenon
  <2> QED  BY <2>8, Zenon DEF j
<1>8. CASE k = 0
  <2>1. ss = << >> /\ tt = << >>
    BY <1>1, <1>8, EmptySeq DEF k
  <2> QED  BY <2>1, Zenon
<1>9. CASE k # 0
  <2>1. Nat \subseteq T
    <3> HIDE DEF T
    <3> QED  BY <1>6, <1>7, SetInduction
  <2>2. k - 1 \in Nat /\ (k - 1) + 1 = k /\ k <= k
    BY <1>1, <1>9
  <2>3. Ones(g[k], b) = Ones(h[k], b)
    <3>1. k - 1 \in T
      BY <2>1, <2>2, Zenon
    <3> QED  BY <2>2, <3>1
  <2>4. FlattenSeq(ss) = g[k] /\ FlattenSeq(tt) = h[k]
    <3>1. Len(ss) = k /\ Len(tt) = k
      BY <1>1 DEF k
    <3> QED  BY <1>9, <3>1, FlattenJoined DEF g, h
  <2> QED  BY <2>3, <2>4
<1> QED  BY <1>8, <1>9

\* The loader's checksum is mkbin's, as zeros do not change it.
LEMMA ChecksumReadBack ==
    ASSUME NEW e, ElfFile(e)
    PROVE  checksum(FlattenSeq([n \in 1 .. Len(e.phdrs) |-> FilledData(Phdr(e, n))]))
             = checksum(FlattenSeq(Datas(e)))
<1> DEFINE k == Len(e.phdrs)
           ss == [n \in 1 .. k |-> FilledData(Phdr(e, n))]
           tt == Datas(e)
<1>1. k \in Nat
  BY DEF ElfFile
<1>2. \A n \in 1 .. k : Phdr(e, n) \in [vaddr : Address, data : Seq(Byte)]
  BY PhdrType
<1>3. \A n \in 1 .. k : FilledData(Phdr(e, n)) \in Seq(Byte)
  <2> TAKE n \in 1 .. k
  <2> DEFINE h == Phdr(e, n)
  <2>1. h \in [vaddr : Address, data : Seq(Byte)]
    BY <1>2
  <2> HIDE DEF h
  <2>2. Sized(Byte, FilledData(h), align_to(Len(h.data), 4))
    BY <2>1, FilledBytes
  <2> QED  BY <2>2, Zenon DEF Sized, h
<1>4. ss \in Seq(Seq(Byte)) /\ Len(ss) = k
  <2> DEFINE B == Seq(Byte)
             d(n) == FilledData(Phdr(e, n))
  <2>1. \A n \in 1 .. k : d(n) \in B
    BY <1>3
  <2> HIDE DEF B, d, k
  <2>2. [n \in 1 .. k |-> d(n)] \in Seq(B) /\ Len([n \in 1 .. k |-> d(n)]) = k
    BY <1>1, <2>1
  <2> QED  BY <2>2, Zenon DEF B, d
<1>5. tt \in Seq(Seq(Byte)) /\ Len(tt) = k /\ \A n \in 1 .. k : tt[n] = Phdr(e, n).data
  <2>1. tt \in Seq(Seq(Byte)) /\ Len(tt) = k
    BY SegmentsType
  <2> QED  BY <2>1, Zenon DEF Datas
<1>6. \A n \in 1 .. k : ss[n] = FilledData(Phdr(e, n))
  OBVIOUS
<1>7. \A b \in 0 .. 7 : \A n \in 1 .. k : Ones(ss[n], b) = Ones(tt[n], b)
  <2> TAKE b \in 0 .. 7
  <2> TAKE n \in 1 .. k
  <2>1. Ones(FilledData(Phdr(e, n)), b) = Ones(Phdr(e, n).data, b)
    BY <1>2, OnesFilled
  <2> HIDE DEF ss, tt
  <2> QED  BY <1>5, <1>6, <2>1, Zenon
<1> DEFINE s == FlattenSeq(ss)
           t == FlattenSeq(tt)
<1> HIDE DEF ss, tt, k
<1>8. s \in Seq(Byte) /\ t \in Seq(Byte)
  BY <1>4, <1>5, FlattenType
<1>9. \A b \in 0 .. 7 : Ones(s, b) = Ones(t, b)
  <2> TAKE b \in 0 .. 7
  <2>1. \A n \in 1 .. Len(ss) : Ones(ss[n], b) = Ones(tt[n], b)
    BY <1>4, <1>7, Zenon
  <2>2. Len(ss) = Len(tt)
    BY <1>4, <1>5
  <2> QED  BY <1>4, <1>5, <2>1, <2>2, OnesFlatten
<1> HIDE DEF s, t
<1>10. \A b \in 0 .. 7 : CheckBit(s, b) = CheckBit(t, b)
  <2> TAKE b \in 0 .. 7
  <2> DEFINE c == <<239>>
  <2>1. c \in Seq(Byte)
    BY DEF Byte
  <2> HIDE DEF c
  <2>2. Ones(c \o s, b) = Ones(c, b) + Ones(s, b) /\ Ones(c \o t, b) = Ones(c, b) + Ones(t, b)
    BY <1>8, <2>1, OnesConcat
  <2>3. Ones(s, b) = Ones(t, b)
    BY <1>9
  <2>4. Ones(c \o s, b) = Ones(c \o t, b)
    BY <2>2, <2>3, Zenon
  <2> QED  BY <2>4, Zenon DEF CheckBit, c
<1>11. /\ CheckBit(s, 0) = CheckBit(t, 0) /\ CheckBit(s, 1) = CheckBit(t, 1)
       /\ CheckBit(s, 2) = CheckBit(t, 2) /\ CheckBit(s, 3) = CheckBit(t, 3)
       /\ CheckBit(s, 4) = CheckBit(t, 4) /\ CheckBit(s, 5) = CheckBit(t, 5)
       /\ CheckBit(s, 6) = CheckBit(t, 6) /\ CheckBit(s, 7) = CheckBit(t, 7)
  BY <1>10
<1>12. checksum(s) = checksum(t)
  <2>1. /\ checksum(s) =
             CheckBit(s, 0) + 2 * CheckBit(s, 1) + 4 * CheckBit(s, 2)
             + 8 * CheckBit(s, 3) + 16 * CheckBit(s, 4) + 32 * CheckBit(s, 5)
             + 64 * CheckBit(s, 6) + 128 * CheckBit(s, 7)
        /\ checksum(t) =
             CheckBit(t, 0) + 2 * CheckBit(t, 1) + 4 * CheckBit(t, 2)
             + 8 * CheckBit(t, 3) + 16 * CheckBit(t, 4) + 32 * CheckBit(t, 5)
             + 64 * CheckBit(t, 6) + 128 * CheckBit(t, 7)
    BY <1>8, ChecksumBits
  <2> QED  BY <1>11, <2>1, Zenon
<1> QED  BY <1>12, Zenon DEF s, t, ss, tt, k

\* The headers are the first bytes of the image.
LEMMA MkbinHeader ==
    ASSUME NEW e, ElfFile(e)
    PROVE  /\ mkbin(e) \in Seq(Byte) /\ 24 < Len(mkbin(e))
           /\ \A j \in 1 .. 24 : mkbin(e)[j] = ImageHeader(e)[j]
<1> DEFINE F == FlattenSeq(Segments(e))
           f == ImageFront(e)
           h == ImageHeader(e)
           i == mkbin(e)
           u == Len(f)
           p == Padding(u)
<1>1. F \in Seq(Byte) /\ Len(F) \in Nat /\ u = 24 + Len(F)
  <2>1. F \in Seq(Byte) /\ u = 24 + Len(F)
    BY MkbinParts
  <2> HIDE DEF F, u
  <2> QED  BY <2>1
<1>2. Sized(Byte, h, 24)
  BY ImageHeaderBytes
<1>3. Begins(f, h, 24)
  <2>1. Sized(Byte, F, Len(F)) /\ 24 \in Nat
    BY <1>1 DEF Sized
  <2>2. f = h \o F
    BY Zenon DEF ImageFront
  <2> HIDE DEF F, f, h
  <2>3. Begins(h \o F, h, 24)
    BY <1>1, <1>2, <2>1, ConcatBegins
  <2> QED  BY <2>2, <2>3, Zenon
<1>4. Len(i) = u + p + 1 /\ i \in Seq(Byte) /\ \A j \in 1 .. u : i[j] = f[j]
  BY MkbinBytes
<1>5. p \in 0 .. 15
  <2>1. u \in Nat
    BY <1>1
  <2> HIDE DEF u
  <2> QED  BY <2>1, PaddingFills
<1> HIDE DEF F, f, h, i, u, p
<1>6. 24 < Len(i)
  BY <1>1, <1>4, <1>5
<1>7. \A j \in 1 .. 24 : i[j] = h[j]
  <2>1. \A j \in 1 .. 24 : j \in 1 .. u
    BY <1>1
  <2> QED  BY <1>3, <1>4, <2>1, Zenon DEF Begins
<1> QED  BY <1>4, <1>6, <1>7, Zenon DEF i, h

\* The image e's mkbin makes is in m, but for the bytes that flash sets.
ImageAt(m, base, e) ==
    \A j \in 1 .. Len(mkbin(e)) : j \notin {3, 4, 13} => At(m, base + j - 1) = mkbin(e)[j]

\* Headers and segments are.
LEMMA FrontReadBack ==
    ASSUME NEW e, ElfFile(e), NEW m, NEW base \in Nat, ImageAt(m, base, e)
    PROVE  LET F == FlattenSeq(Segments(e)) IN
           /\ At(m, base) = 233 /\ At(m, base + 1) = Len(e.phdrs)
           /\ \A j \in 1 .. 4 : At(m, (base + 4) + j - 1) = e.entry[j]
           /\ Holds(m, base + 24, F, Len(F))
<1> DEFINE F == FlattenSeq(Segments(e))
           f == ImageFront(e)
           h == ImageHeader(e)
           i == mkbin(e)
           u == Len(f)
           p == Padding(u)
<1>1. F \in Seq(Byte) /\ Len(F) \in Nat /\ u = 24 + Len(F)
  <2>1. F \in Seq(Byte) /\ u = 24 + Len(F)
    BY MkbinParts
  <2> HIDE DEF F, u
  <2> QED  BY <2>1
<1>2. /\ Sized(Byte, h, 24) /\ h[1] = 233 /\ h[2] = Len(e.phdrs)
      /\ h[5] = e.entry[1] /\ h[6] = e.entry[2] /\ h[7] = e.entry[3] /\ h[8] = e.entry[4]
  BY ImageHeaderBytes
<1>3. Begins(f, h, 24) /\ GoesOn(f, 24, F, Len(F))
  <2>1. Sized(Byte, F, Len(F)) /\ 24 \in Nat
    BY <1>1 DEF Sized
  <2>2. f = h \o F
    BY Zenon DEF ImageFront
  <2> HIDE DEF F, f, h
  <2>3. Begins(h \o F, h, 24) /\ GoesOn(h \o F, 24, F, Len(F))
    BY <1>1, <1>2, <2>1, ConcatBegins, ConcatGoesOn
  <2> QED  BY <2>2, <2>3, Zenon
<1>4. /\ Len(i) = u + p + 1 /\ \A j \in 1 .. u : i[j] = f[j]
  BY MkbinBytes
<1>5. \A j \in 1 .. Len(i) : j \notin {3, 4, 13} => At(m, base + j - 1) = i[j]
  BY DEF ImageAt
<1>6. p \in 0 .. 15
  <2>1. u \in Nat
    BY <1>1
  <2> HIDE DEF u
  <2> QED  BY <2>1, PaddingFills
<1> DEFINE ent == e.entry
           k == Len(e.phdrs)
<1> HIDE DEF F, f, h, i, u, ent, k, p
<1>7. \A j \in 1 .. u : j \notin {3, 4, 13} => At(m, base + j - 1) = f[j]
  <2>1. \A j \in 1 .. u : j \in 1 .. Len(i)
    BY <1>1, <1>4, <1>6
  <2> QED  BY <1>4, <1>5, <2>1, Zenon
<1>8. \A j \in 1 .. 24 : j \in 1 .. u /\ f[j] = h[j]
  <2>1. \A j \in 1 .. 24 : j \in 1 .. u
    BY <1>1
  <2> QED  BY <1>3, <2>1 DEF Begins
<1>9. At(m, base) = 233 /\ At(m, base + 1) = k
  <2>1. 1 \in 1 .. 24 /\ 2 \in 1 .. 24 /\ base + 1 - 1 = base /\ base + 2 - 1 = base + 1
    OBVIOUS
  <2>2. 1 \notin {3, 4, 13} /\ 2 \notin {3, 4, 13}
    OBVIOUS
  <2>3. At(m, base + 1 - 1) = h[1] /\ At(m, base + 2 - 1) = h[2]
    BY <1>7, <1>8, <2>1, <2>2
  <2> QED  BY <1>2, <2>1, <2>3 DEF k
<1>10. \A j \in 1 .. 4 : At(m, (base + 4) + j - 1) = ent[j]
  <2>1. \A j \in 5 .. 8 : j \in 1 .. 24 /\ j \notin {3, 4, 13}
    OBVIOUS
  <2>2. \A j \in 5 .. 8 : At(m, base + j - 1) = h[j]
    BY <1>7, <1>8, <2>1, Zenon
  <2>3. \A j \in 1 .. 4 : h[4 + j] = ent[j]
    <3>1. \A j \in 1 .. 4 : j \in {1, 2, 3, 4}
      OBVIOUS
    <3>2. 4 + 1 = 5 /\ 4 + 2 = 6 /\ 4 + 3 = 7 /\ 4 + 4 = 8
      OBVIOUS
    <3> QED  BY <1>2, <3>1, <3>2 DEF ent
  <2> TAKE j \in 1 .. 4
  <2>4. 4 + j \in 5 .. 8 /\ base + (4 + j) - 1 = (base + 4) + j - 1
    OBVIOUS
  <2> QED  BY <2>2, <2>3, <2>4
<1>11. \A j \in 1 .. Len(F) : At(m, (base + 24) + j - 1) = F[j]
  <2> TAKE j \in 1 .. Len(F)
  <2>1. 24 + j \in 1 .. u /\ 24 + j \notin {3, 4, 13} /\ base + (24 + j) - 1 = (base + 24) + j - 1
    BY <1>1
  <2>2. f[24 + j] = F[j]
    BY <1>3 DEF GoesOn
  <2> QED  BY <1>7, <2>1, <2>2
<1>12. Holds(m, base + 24, F, Len(F))
  BY <1>11, Zenon DEF Holds
<1> QED  BY <1>9, <1>10, <1>12, Zenon DEF k, ent, F

\* Loader: what is valid, and what is loaded, is what the ELF file says.
LEMMA ImageReadBack ==
    ASSUME NEW e, ElfFile(e), NEW m, NEW base \in Nat, ImageAt(m, base, e),
           Len(m) \in Nat, Len(m) <= MaxSize, Len(mkbin(e)) <= Len(m)
    PROVE  /\ Loader(m, base).valid
           /\ Loader(m, base).entry = e.entry
           /\ Loader(m, base).segments = LoadedSegments(e)
<1> DEFINE F == FlattenSeq(Segments(e))
           i == mkbin(e)
           u == Len(ImageFront(e))
           p == Padding(u)
           k == Len(e.phdrs)
           w == SegmentsAt(m, base + 24, At(m, base + 1))
           L == LoadedSegments(e)
           c == checksum(FlattenSeq(Datas(e)))
<1>1. /\ At(m, base) = 233 /\ At(m, base + 1) = k
      /\ \A j \in 1 .. 4 : At(m, (base + 4) + j - 1) = e.entry[j]
      /\ Holds(m, base + 24, F, Len(F))
  BY FrontReadBack
<1>2. Len(F) \in Nat /\ u = 24 + Len(F) /\ u \in Nat
  <2>1. F \in Seq(Byte) /\ u = 24 + Len(F)
    BY MkbinParts
  <2> HIDE DEF F, u
  <2> QED  BY <2>1
<1>3. p \in 0 .. 15
  <2> HIDE DEF u
  <2> QED  BY <1>2, PaddingFills
<1>4. Len(i) = u + p + 1 /\ i[u + p + 1] = c
  BY MkbinBytes
<1>5. Len(m) \in Nat /\ Len(m) <= MaxSize /\ Len(i) <= Len(m)
  OBVIOUS
<1>6. p = align_to(u + 1, 16) - u - 1 /\ align_to(u + 1, 16) \in Nat
  <2>1. u + 1 \in Nat /\ 16 \in Nat \ {0}
    BY <1>2
  <2>2. align_to(u + 1, 16) \in Nat
    BY <2>1, AlignsUp
  <2> QED  BY <2>2, Zenon DEF Padding
<1>7. \A j \in 1 .. Len(i) : j \notin {3, 4, 13} => At(m, base + j - 1) = i[j]
  BY DEF ImageAt
<1> HIDE DEF F, i, u, p, L, c
<1>8. w = [end |-> (base + 24) + Len(F), segments |-> L]
  <2>1. base + 24 \in Nat
    OBVIOUS
  <2>2. Len(F) <= Len(m)
    <3>1. Len(F) <= Len(i)
      BY <1>2, <1>3, <1>4
    <3> QED  BY <1>2, <1>3, <1>4, <1>5, <3>1
  <2>3. SegmentsAt(m, base + 24, k) = [end |-> (base + 24) + Len(F), segments |-> L]
    BY <1>1, <1>5, <2>1, <2>2, SegmentsReadBack DEF F, L
  <2> QED  BY <1>1, <2>3, Zenon
<1>9. w.segments = L /\ w.end - base = u
  <2>1. w.end = (base + 24) + Len(F) /\ w.segments = L
    BY <1>8
  <2> HIDE DEF w
  <2> QED  BY <1>2, <2>1
<1> HIDE DEF w
<1>10. checksum(FlattenSeq([n \in DOMAIN w.segments |-> w.segments[n].data])) = c
  <2>1. [n \in DOMAIN L |-> L[n].data] = [n \in 1 .. k |-> FilledData(Phdr(e, n))]
    BY DEF L, LoadedSegments, Loaded
  <2> QED  BY <1>9, <2>1, ChecksumReadBack, Zenon DEF c, k
<1>11. At(m, base + align_to(w.end - base + 1, 16) - 1) = c
  <2> DEFINE z == align_to(u + 1, 16)
  <2>1. align_to(w.end - base + 1, 16) = z
    BY <1>9, Zenon
  <2> HIDE DEF z
  <2>2. z = u + p + 1 /\ z \in Nat
    <3>1. p = z - u - 1 /\ z \in Nat
      BY <1>6, Zenon DEF z
    <3> HIDE DEF p, u
    <3> QED  BY <1>2, <1>3, <3>1
  <2>3. z \in 1 .. Len(i) /\ z \notin {3, 4, 13}
    BY <1>2, <1>3, <1>4, <2>2
  <2>4. At(m, base + z - 1) = i[z]
    BY <1>7, <2>3
  <2> QED  BY <1>4, <2>1, <2>2, <2>4, Zenon
<1>12. BytesAt(m, base + 4, 4) = e.entry
  <2>1. e.entry \in [1 .. 4 -> Byte]
    BY DEF ElfFile, Address
  <2> DEFINE t == e.entry
  <2> HIDE DEF t
  <2>2. t = [j \in 1 .. 4 |-> t[j]]
    BY <2>1 DEF t
  <2>3. BytesAt(m, base + 4, 4) = [j \in 1 .. 4 |-> t[j]]
    BY <1>1 DEF BytesAt, t
  <2> QED  BY <2>2, <2>3, Zenon DEF t
<1>13. /\ Loader(m, base).valid =
            (/\ At(m, base) = 233
             /\ At(m, base + align_to(w.end - base + 1, 16) - 1)
                  = checksum(FlattenSeq([n \in DOMAIN w.segments |-> w.segments[n].data])))
       /\ Loader(m, base).entry = BytesAt(m, base + 4, 4)
       /\ Loader(m, base).segments = w.segments
  BY DEF Loader, w
<1> QED  BY <1>1, <1>9, <1>10, <1>11, <1>12, <1>13, Zenon DEF L

\* Loader: the flash parameters and the chip.
LEMMA HeaderReadBack ==
    ASSUME NEW m, NEW base
    PROVE  /\ Loader(m, base).params = BytesAt(m, base + 2, 2)
           /\ Loader(m, base).chip = At(m, base + 12)
BY DEF Loader

\* Filled up, what has bytes has bytes, and begins with them.
LEMMA FilledUp ==
    ASSUME NEW h \in [vaddr : Address, data : Seq(Byte)]
    PROVE  /\ FilledData(h) # << >> <=> h.data # << >>
           /\ IsPrefix(h.data, FilledData(h))
           /\ Len(FilledData(h)) = align_to(Len(h.data), 4)
<1> DEFINE d == h.data
           n == Len(d)
           z == align_to(n, 4)
           f == Zeros(z - n)
           g == FilledData(h)
<1>1. /\ n \in Nat /\ z \in Nat /\ n <= z
      /\ Sized(Byte, d, n) /\ Sized(Byte, f, z - n) /\ Sized(Byte, g, z)
  BY FilledBytes
<1>2. g = d \o f
  BY Zenon DEF FilledData
<1>3. n = 0 => z = 0
  <2>1. align_to(0, 4) = 0
    BY DEF align_to
  <2> HIDE DEF n
  <2> QED  BY <2>1
<1>4. d \in Seq(Byte) /\ f \in Seq(Byte) /\ g \in Seq(Byte) /\ Len(g) = z
  BY <1>1 DEF Sized
<1> HIDE DEF d, f, g, z
<1>5. g # << >> <=> d # << >>
  <2>1. (g = << >> <=> Len(g) = 0) /\ (d = << >> <=> Len(d) = 0)
    BY <1>4, EmptySeq
  <2> QED  BY <1>1, <1>3, <1>4, <2>1
<1>6. IsPrefix(d, g)
  <2>1. IsPrefix(d, d)
    BY <1>4, PrefixSelf
  <2>2. IsPrefix(d, d \o f)
    BY <1>4, <2>1, PrefixLonger
  <2> QED  BY <1>2, <2>2, Zenon
<1> QED  BY <1>4, <1>5, <1>6, Zenon DEF d, g, z

\* The segments are those of the headers that have bytes, one after the other.
LEMMA SegmentsAreHeaders ==
    ASSUME NEW e, ElfFile(e)
    PROVE  SameSegments(e.phdrs, LoadedSegments(e))
<1> DEFINE H == [vaddr : Address, data : Seq(Byte)]
           hs == e.phdrs
           k == Len(hs)
           L == LoadedSegments(e)
           d == IF hs[1].data = << >> THEN 1 ELSE 0
           at == [n \in Filled(hs) |-> n - d]
<1>1. hs \in Seq(H) /\ k \in Nat /\ k # 0
  <2>1. hs \in Seq(H) /\ hs # << >>
    BY DEF ElfFile
  <2> QED  BY <2>1, EmptySeq
<1>2. DOMAIN hs = 1 .. k /\ \A n \in 1 .. k : hs[n] \in H
  <2> HIDE DEF H, hs
  <2> QED  BY <1>1
<1>3. d \in {0, 1} /\ (d = 1 => hs[1].data = << >>)
  OBVIOUS
<1>4. \A n \in 1 .. k : Phdr(e, n) = IF n + d \in 1 .. k THEN hs[n + d]
                                     ELSE [vaddr |-> Zeros(4), data |-> << >>]
  <2> TAKE n \in 1 .. k
  <2>1. n + 0 = n
    OBVIOUS
  <2>2. (IF hs[1].data = << >> THEN n + 1 ELSE n) = n + d
    BY <2>1
  <2>3. Phdr(e, n) = LET i == IF hs[1].data = << >> THEN n + 1 ELSE n IN
                     IF i \in 1 .. k THEN hs[i] ELSE [vaddr |-> Zeros(4), data |-> << >>]
    BY <1>2, Zenon DEF Phdr
  <2> HIDE DEF d, hs, k
  <2> QED  BY <2>2, <2>3, Zenon
<1>5. \A n \in 1 .. k : Phdr(e, n) \in H
  BY PhdrType
<1>6. DOMAIN L = 1 .. k /\ \A n \in 1 .. k : L[n] = Loaded(Phdr(e, n))
  BY DEF LoadedSegments
<1>7. \A n : n \in Filled(hs) <=> n \in 1 .. k /\ hs[n].data # << >>
  <2> HIDE DEF hs, k
  <2> QED  BY <1>2 DEF Filled
<1>8. \A n : n \in Filled(L) <=> n \in 1 .. k /\ Phdr(e, n).data # << >>
  <2> HIDE DEF L, k
  <2>1. \A n : n \in Filled(L) <=> n \in 1 .. k /\ L[n].data # << >>
    BY <1>6 DEF Filled
  <2>2. \A n \in 1 .. k : L[n].data = FilledData(Phdr(e, n))
    BY <1>6 DEF Loaded
  <2>3. \A n \in 1 .. k : FilledData(Phdr(e, n)) # << >> <=> Phdr(e, n).data # << >>
    BY <1>5, FilledUp DEF H
  <2> QED  BY <2>1, <2>2, <2>3, Zenon
<1> HIDE DEF H, hs, k, L, d
<1>9. \A n \in Filled(hs) :
        /\ n \in 1 .. k /\ n - d \in 1 .. k /\ (n - d) + d = n
        /\ Phdr(e, n - d) = hs[n] /\ n - d \in Filled(L)
  <2> TAKE n \in Filled(hs)
  <2>1. n \in 1 .. k /\ hs[n].data # << >>
    BY <1>7
  <2>2. n - d \in 1 .. k /\ (n - d) + d = n
    <3>1. d = 1 => n # 1
      BY <1>3, <2>1
    <3> QED  BY <1>1, <1>3, <2>1, <3>1
  <2>3. Phdr(e, n - d) = hs[n]
    BY <1>4, <2>1, <2>2
  <2> QED  BY <1>8, <2>1, <2>2, <2>3
<1>10. at \in [Filled(hs) -> Filled(L)]
  BY <1>9
<1>11. \A n \in Filled(hs) : at[n] = n - d
  OBVIOUS
<1> HIDE DEF at
<1>12. Filled(L) = {at[n] : n \in Filled(hs)}
  <2>1. ASSUME NEW m \in Filled(L) PROVE \E n \in Filled(hs) : at[n] = m
    <3>1. m \in 1 .. k /\ Phdr(e, m).data # << >>
      BY <1>8
    <3>2. m + d \in 1 .. k /\ Phdr(e, m) = hs[m + d]
      <4>1. [vaddr |-> Zeros(4), data |-> << >>].data = << >>
        OBVIOUS
      <4> QED  BY <1>4, <3>1, <4>1
    <3>3. m + d \in Filled(hs)
      BY <1>7, <3>1, <3>2
    <3>4. (m + d) - d = m
      BY <1>3, <3>1
    <3> QED  BY <1>11, <3>3, <3>4
  <2>2. \A n \in Filled(hs) : at[n] \in Filled(L)
    BY <1>10
  <2> QED  BY <2>1, <2>2
<1>13. \A n, m \in Filled(hs) : n < m => at[n] < at[m]
  <2> TAKE n, m \in Filled(hs)
  <2>1. n \in 1 .. k /\ m \in 1 .. k
    BY <1>9
  <2> QED  BY <1>3, <1>11, <2>1
<1>14. \A n \in Filled(hs) :
         /\ L[at[n]].vaddr = hs[n].vaddr
         /\ IsPrefix(hs[n].data, L[at[n]].data)
         /\ Len(L[at[n]].data) = align_to(Len(hs[n].data), 4)
  <2> TAKE n \in Filled(hs)
  <2>1. L[at[n]] = Loaded(hs[n])
    BY <1>6, <1>9, <1>11
  <2>2. hs[n] \in H
    BY <1>2, <1>9
  <2>3. Loaded(hs[n]).vaddr = hs[n].vaddr /\ Loaded(hs[n]).data = FilledData(hs[n])
    BY DEF Loaded
  <2>4. /\ IsPrefix(hs[n].data, FilledData(hs[n]))
        /\ Len(FilledData(hs[n])) = align_to(Len(hs[n].data), 4)
    BY <2>2, FilledUp DEF H
  <2> QED  BY <2>1, <2>3, <2>4, Zenon
<1>15. SameSegments(hs, L)
  BY <1>10, <1>12, <1>13, <1>14, Zenon DEF SameSegments
<1> QED  BY <1>15, Zenon DEF hs, L
=============================================================================
