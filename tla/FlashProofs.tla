---------------------------- MODULE FlashProofs -----------------------------
(***************************************************************************)
(* What flash was given is in flash memory, byte by byte.  As files begin  *)
(* at whole blocks, those that do not overlap share no block either, so    *)
(* that erasing and writing one of them leaves the others alone; the files *)
(* of a .hex file begin where files given to mkhex do, so that flashbin    *)
(* changes the same bytes of them.  The image comes first by either way,   *)
(* and so the ROM loader reads it back as mkbin made it.                   *)
(***************************************************************************)
EXTENDS ImagesProofs

-----------------------------------------------------------------------------
\* Blocks

\* What leaves no remainder is a multiple.
LEMMA Multiple ==
    ASSUME NEW a \in Nat, NEW b \in Nat \ {0}, a % b = 0
    PROVE  \E j \in Nat : a = j * b
<1> DEFINE q == a \div b
<1>1. q \in Nat /\ a = q * b + 0
  BY DivModFacts
<1> HIDE DEF q
<1>2. a = q * b
  BY <1>1
<1> QED  BY <1>1, <1>2

\* The first address of a block of a file is one of the file.
LEMMA BlockStart ==
    ASSUME NEW f \in File, f.addr % BlockSize = 0, NEW x \in Blocks(f)
    PROVE  x \in Nat /\ (x \div BlockSize) * BlockSize \in Span(f)
<1> DEFINE b == BlockSize
           a == f.addr
           len == Len(f.data)
           up == align_to(len, b)
           s == (x \div b) * b
<1>1. b \in Nat \ {0} /\ a \in Nat /\ len \in Nat
  BY ImageAssumption, FileParts
<1>2. up \in Nat /\ up % b = 0 /\ len <= up /\ up < len + b
  <2> HIDE DEF b, len
  <2> QED  BY <1>1, AlignsUp
<1>3. x \in a .. a + up - 1 /\ a % b = 0
  BY DEF Blocks
<1> HIDE DEF a, b, len, up
<1>4. x \in Nat
  BY <1>1, <1>3
<1>5. PICK q \in Nat : a = q * b
  BY <1>1, <1>3, Multiple
<1>6. PICK k \in Nat : up = k * b
  BY <1>1, <1>2, Multiple
<1> DEFINE y == x \div b
<1>7. y \in Nat /\ y * b \in Nat /\ y * b <= x /\ x < y * b + b
  <2>1. y \in Nat /\ x % b \in 0 .. b - 1 /\ x = y * b + (x % b)
    BY <1>1, <1>4, DivModFacts
  <2> HIDE DEF y
  <2>2. y * b \in Nat
    BY <2>1, <1>1
  <2> QED  BY <2>1, <2>2, <1>1
<1> HIDE DEF y
<1>8. a <= y * b
  <2> SUFFICES ASSUME y * b < q * b PROVE FALSE
    BY <1>5, <1>7, <1>1
  <2>1. y * b + b <= q * b
    BY <1>1, <1>7, MultiplesApart
  <2> QED  BY <2>1, <1>1, <1>3, <1>4, <1>5, <1>7
<1>9. y * b < a + len
  <2>1. q + k \in Nat /\ (q + k) * b = a + up
    BY <1>1, <1>5, <1>6
  <2>2. y * b < (q + k) * b
    BY <2>1, <1>1, <1>2, <1>3, <1>7
  <2>3. y * b + b <= (q + k) * b
    BY <2>1, <2>2, <1>1, <1>7, MultiplesApart
  <2> QED  BY <2>1, <2>3, <1>1, <1>2, <1>7
<1>10. y * b \in a .. a + len - 1
  BY <1>1, <1>7, <1>8, <1>9
<1> QED  BY <1>4, <1>10 DEF Span, a, b, len, y

\* A file is in its blocks.
LEMMA SpanInBlocks ==
    ASSUME NEW f \in File
    PROVE  Span(f) \subseteq Blocks(f)
<1>1. BlockSize \in Nat \ {0} /\ f.addr \in Nat /\ Len(f.data) \in Nat
  BY ImageAssumption, FileParts
<1>2. align_to(Len(f.data), BlockSize) \in Nat /\ Len(f.data) <= align_to(Len(f.data), BlockSize)
  BY <1>1, AlignsUp
<1> QED  BY <1>1, <1>2 DEF Span, Blocks

\* Files that begin at blocks and do not overlap have no block in common.
LEMMA BlocksApart ==
    ASSUME NEW f \in File, NEW g \in File, f.addr % BlockSize = 0, g.addr % BlockSize = 0,
           Span(f) \cap Span(g) = {}
    PROVE  Blocks(f) \cap Blocks(g) = {}
<1> SUFFICES ASSUME NEW x, x \in Blocks(f), x \in Blocks(g) PROVE FALSE
  OBVIOUS
<1>1. (x \div BlockSize) * BlockSize \in Span(f) /\ (x \div BlockSize) * BlockSize \in Span(g)
  BY BlockStart
<1> QED  BY <1>1, Zenon

\* An address in the block that begins at y is in the blocks of a file if y is.
LEMMA WholeBlock ==
    ASSUME NEW f \in File, f.addr % BlockSize = 0, NEW y \in Blocks(f), y % BlockSize = 0,
           NEW x \in y .. y + BlockSize - 1
    PROVE  x \in Blocks(f)
<1> DEFINE b == BlockSize
           a == f.addr
           len == Len(f.data)
           up == align_to(len, b)
<1>1. b \in Nat \ {0} /\ a \in Nat /\ len \in Nat
  BY ImageAssumption, FileParts
<1>2. up \in Nat /\ up % b = 0
  <2> HIDE DEF b, len
  <2> QED  BY <1>1, AlignsUp
<1>3. y \in a .. a + up - 1 /\ a % b = 0 /\ y % b = 0 /\ x \in y .. y + b - 1
  BY DEF Blocks
<1> HIDE DEF a, b, len, up
<1>4. PICK q \in Nat : a = q * b
  BY <1>1, <1>3, Multiple
<1>5. PICK k \in Nat : up = k * b
  BY <1>1, <1>2, Multiple
<1>6. PICK j \in Nat : y = j * b
  <2>1. y \in Nat
    BY <1>1, <1>2, <1>3
  <2> QED  BY <2>1, <1>1, <1>3, Multiple
<1>7. q + k \in Nat /\ (q + k) * b = a + up
  BY <1>1, <1>4, <1>5
<1>8. j * b + b <= (q + k) * b
  <2>1. j * b < (q + k) * b
    BY <1>1, <1>2, <1>3, <1>6, <1>7
  <2> QED  BY <2>1, <1>1, <1>7, MultiplesApart
<1>9. x \in a .. a + up - 1
  BY <1>1, <1>2, <1>3, <1>6, <1>7, <1>8
<1> QED  BY <1>9 DEF Blocks, a, b, len, up

\* The block of an address that is less than a block behind the beginning of one.
LEMMA StartOf ==
    ASSUME NEW a \in Nat, a % BlockSize = 0, NEW p \in 0 .. BlockSize - 1
    PROVE  ((a + p) \div BlockSize) * BlockSize = a
<1> DEFINE b == BlockSize
<1>1. b \in Nat \ {0}
  BY ImageAssumption
<1>2. a % b = 0 /\ p \in 0 .. b - 1
  OBVIOUS
<1> HIDE DEF b
<1>3. PICK q \in Nat : a = q * b
  BY <1>1, <1>2, Multiple
<1>4. (q * b + p) \div b = q
  BY <1>1, <1>2, DivModUnique
<1> QED  BY <1>3, <1>4 DEF b

-----------------------------------------------------------------------------
\* Files to be flashed

\* They begin at whole blocks, are in the flash and have no block in common.
Laid(files) ==
    /\ files \in Seq(File)
    /\ \A n \in 1 .. Len(files) :
         files[n].addr % BlockSize = 0 /\ files[n].addr + Len(files[n].data) <= FlashSize
    /\ \A n, m \in 1 .. Len(files) : n # m => Blocks(files[n]) \cap Blocks(files[m]) = {}

\* Bytes p of f and o of g are the same byte at the same address, and flash changes the
\* one only where it may change the other.
SameByte(f, p, g, o) ==
    /\ p \in 0 .. Len(f.data) - 1
    /\ f.addr + p = g.addr + o /\ f.data[p + 1] = g.data[o + 1]
    /\ p \in MayDiffer(f) => o \in MayDiffer(g)

\* Flashing the one is as good as flashing the others.
StandFor(files, given) ==
    /\ \A n \in 1 .. Len(given) : \A o \in 0 .. Len(given[n].data) - 1 :
         \E m \in 1 .. Len(files), p \in Nat : SameByte(files[m], p, given[n], o)
    /\ \A m \in 1 .. Len(files) : \A x \in Blocks(files[m]) :
         \E n \in 1 .. Len(given) : x \in Blocks(given[n])

\* Files stand for themselves.
LEMMA StandForThemselves ==
    ASSUME NEW files \in Seq(File)
    PROVE  StandFor(files, files)
<1>1. ASSUME NEW n \in 1 .. Len(files), NEW o \in 0 .. Len(files[n].data) - 1
      PROVE  o \in Nat /\ SameByte(files[n], o, files[n], o)
  <2>1. o \in Nat
    BY <1>1
  <2> QED  BY <2>1, <1>1, Zenon DEF SameByte
<1> QED  BY <1>1, Zenon DEF StandFor

\* Files at blocks that do not overlap can be flashed.
LEMMA LaidApart ==
    ASSUME NEW files \in Seq(File),
           \A n \in 1 .. Len(files) :
             files[n].addr % BlockSize = 0 /\ files[n].addr + Len(files[n].data) <= FlashSize,
           \A n, m \in 1 .. Len(files) : n # m => Span(files[n]) \cap Span(files[m]) = {}
    PROVE  Laid(files)
<1>1. ASSUME NEW n \in 1 .. Len(files), NEW m \in 1 .. Len(files), n # m
      PROVE  Blocks(files[n]) \cap Blocks(files[m]) = {}
  <2>1. files[n] \in File /\ files[m] \in File
    OBVIOUS
  <2>2. Span(files[n]) \cap Span(files[m]) = {}
    BY <1>1
  <2> QED  BY <2>1, <2>2, BlocksApart
<1> QED  BY <1>1 DEF Laid

-----------------------------------------------------------------------------
\* Unpacked files

\* What FlashBegin makes of the directory of unhex.
Unpack(d, l) == [n \in DOMAIN l |-> [addr |-> l[n], data |-> d[l[n]]]]

\* What unhex must have done with the given files.
UnpackedFrom(given, d, l) ==
    /\ l \in Seq(Nat) /\ DOMAIN d = Range(l)
    /\ \A n, m \in DOMAIN l : l[n] = l[m] => n = m
    /\ \A a \in DOMAIN d : d[a] \in Seq(Byte) /\ d[a] # << >>
    /\ Unpacking(given, d) /\ InFiles(d) = Contents(Range(given))

\* The parts of the unpacked files.
LEMMA UnpackParts ==
    ASSUME NEW given, NEW d, NEW l, UnpackedFrom(given, d, l)
    PROVE  /\ Unpack(d, l) \in Seq(File) /\ Len(Unpack(d, l)) = Len(l)
           /\ \A n \in 1 .. Len(l) : /\ Unpack(d, l)[n] \in File /\ l[n] \in DOMAIN d
                                     /\ Unpack(d, l)[n].addr = l[n]
                                     /\ Unpack(d, l)[n].data = d[l[n]]
           /\ \A a \in DOMAIN d : \E n \in 1 .. Len(l) : l[n] = a
<1>1. /\ l \in Seq(Nat) /\ DOMAIN d = Range(l)
      /\ \A a \in DOMAIN d : d[a] \in Seq(Byte) /\ d[a] # << >>
  BY Zenon DEF UnpackedFrom
<1>2. Len(l) \in Nat /\ DOMAIN l = 1 .. Len(l) /\ \A n \in 1 .. Len(l) : l[n] \in Nat
  BY <1>1
<1>3. DOMAIN d = {l[n] : n \in DOMAIN l}
  BY <1>1, Zenon DEF Range
<1> DEFINE files == Unpack(d, l)
<1>4. \A n \in 1 .. Len(l) : files[n] = [addr |-> l[n], data |-> d[l[n]]]
  BY <1>2 DEF Unpack
<1>5. ASSUME NEW n \in 1 .. Len(l)
      PROVE  [addr |-> l[n], data |-> d[l[n]]] \in File /\ l[n] \in DOMAIN d
  <2>1. l[n] \in DOMAIN d
    BY <1>2, <1>3, Zenon
  <2>2. l[n] \in Nat /\ d[l[n]] \in Seq(Byte)
    BY <2>1, <1>1, <1>2
  <2> QED  BY <2>1, <2>2 DEF File
<1>6. files \in Seq(File) /\ Len(files) = Len(l)
  <2> DEFINE k == Len(l)
             F == File
  <2>1. files = [n \in 1 .. k |-> [addr |-> l[n], data |-> d[l[n]]]]
    BY <1>2 DEF Unpack
  <2>2. \A n \in 1 .. k : [addr |-> l[n], data |-> d[l[n]]] \in F
    BY <1>5
  <2> HIDE DEF files, F
  <2>3. files \in [1 .. k -> F]
    BY <2>1, <2>2
  <2>4. k \in Nat
    BY <1>2
  <2>5. files \in Seq(F) /\ Len(files) = k
    <3> HIDE DEF k
    <3> QED  BY <2>3, <2>4
  <2> QED  BY <2>5 DEF F
<1>7. ASSUME NEW n \in 1 .. Len(l)
      PROVE  files[n].addr = l[n] /\ files[n].data = d[l[n]] /\ files[n] \in File
  <2>1. files[n] = [addr |-> l[n], data |-> d[l[n]]]
    BY <1>4
  <2> HIDE DEF files
  <2>2. files[n].addr = l[n] /\ files[n].data = d[l[n]]
    BY <2>1
  <2>3. files[n] \in File
    BY <2>1, <1>5, Zenon
  <2> QED  BY <2>2, <2>3
<1> QED  BY <1>2, <1>3, <1>5, <1>6, <1>7, Zenon

\* The pair x is an address and the byte that a file has for it.
HasByte(files, x) ==
    \E n \in 1 .. Len(files) : \E o \in 0 .. Len(files[n].data) - 1 :
      x = <<files[n].addr + o, files[n].data[o + 1]>>

\* The bytes of the given files, and those of unpacked files.
LEMMA GivenBytes ==
    ASSUME NEW files \in Seq(File), NEW x
    PROVE  x \in Contents(Range(files)) <=> HasByte(files, x)
<1>1. DOMAIN files = 1 .. Len(files) /\ \A n \in 1 .. Len(files) : files[n] \in File
  OBVIOUS
<1>2. ASSUME NEW n \in 1 .. Len(files)
      PROVE  (\E j \in DOMAIN files[n].data : x = <<files[n].addr + j - 1, files[n].data[j]>>)
               <=> \E o \in 0 .. Len(files[n].data) - 1 :
                     x = <<files[n].addr + o, files[n].data[o + 1]>>
  <2> DEFINE data == files[n].data
             a == files[n].addr
             len == Len(data)
  <2>1. a \in Nat /\ len \in Nat /\ DOMAIN data = 1 .. len
    BY <1>1, FileParts
  <2> HIDE DEF data, a, len
  <2>2. ASSUME NEW j \in 1 .. len
        PROVE  j - 1 \in 0 .. len - 1 /\ a + (j - 1) = a + j - 1 /\ (j - 1) + 1 = j
    BY <2>1
  <2>3. ASSUME NEW o \in 0 .. len - 1
        PROVE  o + 1 \in 1 .. len /\ a + (o + 1) - 1 = a + o
    BY <2>1
  <2>4. ASSUME NEW j \in 1 .. len, x = <<a + j - 1, data[j]>>
        PROVE  \E o \in 0 .. len - 1 : x = <<a + o, data[o + 1]>>
    BY <2>2, <2>4
  <2>5. ASSUME NEW o \in 0 .. len - 1, x = <<a + o, data[o + 1]>>
        PROVE  \E j \in 1 .. len : x = <<a + j - 1, data[j]>>
    BY <2>3, <2>5
  <2>6. (\E j \in 1 .. len : x = <<a + j - 1, data[j]>>)
          <=> \E o \in 0 .. len - 1 : x = <<a + o, data[o + 1]>>
    BY <2>4, <2>5, Zenon
  <2> QED  BY <2>1, <2>6 DEF data, a, len
<1>3. x \in Contents(Range(files)) <=>
        \E n \in 1 .. Len(files) : \E j \in DOMAIN files[n].data :
          x = <<files[n].addr + j - 1, files[n].data[j]>>
  <2> DEFINE All(f) == {<<f.addr + j - 1, f.data[j]>> : j \in DOMAIN f.data}
  <2>1. \A f : x \in All(f) <=> \E j \in DOMAIN f.data : x = <<f.addr + j - 1, f.data[j]>>
    BY Zenon
  <2>2. Contents(Range(files)) = UNION {All(f) : f \in Range(files)}
    BY Zenon DEF Contents
  <2> HIDE DEF All
  <2>3. Range(files) = {files[n] : n \in 1 .. Len(files)}
    BY <1>1, Zenon DEF Range
  <2>4. x \in Contents(Range(files)) <=> \E n \in 1 .. Len(files) : x \in All(files[n])
    BY <2>2, <2>3, Zenon
  <2> QED  BY <2>1, <2>4, Zenon
<1> QED  BY <1>2, <1>3, Zenon DEF HasByte

\* Each byte of the one is a byte of the other at the same address.
BytesOf(files, given) ==
    \A n \in 1 .. Len(files) : \A p \in 0 .. Len(files[n].data) - 1 :
      \E m \in 1 .. Len(given) : \E o \in 0 .. Len(given[m].data) - 1 :
        given[m].addr + o = files[n].addr + p /\ given[m].data[o + 1] = files[n].data[p + 1]

\* Unpacked files hold the bytes that were given.
LEMMA UnpackedBytes ==
    ASSUME NEW given \in Seq(File), NEW d, NEW l, UnpackedFrom(given, d, l)
    PROVE  BytesOf(Unpack(d, l), given) /\ BytesOf(given, Unpack(d, l))
<1> DEFINE files == Unpack(d, l)
<1>1. /\ files \in Seq(File) /\ Len(files) = Len(l)
      /\ \A n \in 1 .. Len(l) : /\ files[n] \in File /\ l[n] \in DOMAIN d
                                /\ files[n].addr = l[n] /\ files[n].data = d[l[n]]
      /\ \A a \in DOMAIN d : \E n \in 1 .. Len(l) : l[n] = a
  BY UnpackParts
<1> HIDE DEF files
<1>2. ASSUME NEW n \in 1 .. Len(files)
      PROVE  Placed(files[n].addr, files[n].data)
               = {<<files[n].addr + j - 1, files[n].data[j]>> : j \in DOMAIN files[n].data}
  BY Zenon DEF Placed
<1>3. Contents(Range(files)) = InFiles(d)
  <2> DEFINE All(f) == {<<f.addr + j - 1, f.data[j]>> : j \in DOMAIN f.data}
  <2>1. Contents(Range(files)) = UNION {All(f) : f \in Range(files)}
    BY Zenon DEF Contents
  <2>2. Range(files) = {files[n] : n \in 1 .. Len(files)}
    <3>1. DOMAIN files = 1 .. Len(files)
      BY <1>1
    <3> QED  BY <3>1, Zenon DEF Range
  <2>3. \A n \in 1 .. Len(files) : All(files[n]) = Placed(files[n].addr, files[n].data)
    BY <1>2, Zenon
  <2> HIDE DEF All
  <2>4. ASSUME NEW x
        PROVE  x \in Contents(Range(files)) <=> \E n \in 1 .. Len(l) : x \in Placed(l[n], d[l[n]])
    <3>1. x \in Contents(Range(files)) <=> \E n \in 1 .. Len(files) : x \in All(files[n])
      BY <2>1, <2>2, Zenon
    <3>2. \A n \in 1 .. Len(files) : All(files[n]) = Placed(l[n], d[l[n]])
      BY <2>3, <1>1, Zenon
    <3>3. x \in Contents(Range(files)) <=> \E n \in 1 .. Len(files) : x \in Placed(l[n], d[l[n]])
      BY <3>1, <3>2, Zenon
    <3> QED  BY <3>3, <1>1
  <2>5. ASSUME NEW x
        PROVE  x \in InFiles(d) <=> \E a \in DOMAIN d : x \in Placed(a, d[a])
    BY Zenon DEF InFiles
  <2>6. ASSUME NEW x PROVE x \in Contents(Range(files)) <=> x \in InFiles(d)
    <3>1. ASSUME x \in Contents(Range(files)) PROVE x \in InFiles(d)
      <4>1. PICK n \in 1 .. Len(l) : x \in Placed(l[n], d[l[n]])
        BY <3>1, <2>4, Zenon
      <4> QED  BY <4>1, <2>5, <1>1, Zenon
    <3>2. ASSUME x \in InFiles(d) PROVE x \in Contents(Range(files))
      <4>1. PICK a \in DOMAIN d : x \in Placed(a, d[a])
        BY <3>2, <2>5, Zenon
      <4>2. PICK n \in 1 .. Len(l) : l[n] = a
        BY <1>1, Zenon
      <4> QED  BY <4>1, <4>2, <2>4, Zenon
    <3> QED  BY <3>1, <3>2
  <2> QED  BY <2>6, Zenon
<1>4. Contents(Range(files)) = Contents(Range(given))
  BY <1>3, Zenon DEF UnpackedFrom
<1> DEFINE Byte1(f, o) == <<f.addr + o, f.data[o + 1]>>
<1>5. \A f, o, g, p : Byte1(f, o) = Byte1(g, p)
        => f.addr + o = g.addr + p /\ f.data[o + 1] = g.data[p + 1]
  OBVIOUS
<1>6. ASSUME NEW x
      PROVE  /\ x \in Contents(Range(files)) <=>
                  \E n \in 1 .. Len(files) : \E p \in 0 .. Len(files[n].data) - 1 : x = Byte1(files[n], p)
             /\ x \in Contents(Range(given)) <=>
                  \E n \in 1 .. Len(given) : \E p \in 0 .. Len(given[n].data) - 1 : x = Byte1(given[n], p)
  <2>1. files \in Seq(File)
    BY <1>1
  <2> HIDE DEF files
  <2>2. x \in Contents(Range(files)) <=>
          \E n \in 1 .. Len(files) : \E p \in 0 .. Len(files[n].data) - 1 : x = Byte1(files[n], p)
    <3>1. x \in Contents(Range(files)) <=> HasByte(files, x)
      BY <2>1, GivenBytes, Zenon
    <3> QED  BY <3>1, Zenon DEF HasByte
  <2>3. x \in Contents(Range(given)) <=>
          \E n \in 1 .. Len(given) : \E p \in 0 .. Len(given[n].data) - 1 : x = Byte1(given[n], p)
    <3>1. x \in Contents(Range(given)) <=> HasByte(given, x)
      BY GivenBytes, Zenon
    <3> QED  BY <3>1, Zenon DEF HasByte
  <2> QED  BY <2>2, <2>3
<1> HIDE DEF Byte1
<1>7. ASSUME NEW n \in 1 .. Len(files), NEW p \in 0 .. Len(files[n].data) - 1
      PROVE  \E m \in 1 .. Len(given) : \E o \in 0 .. Len(given[m].data) - 1 :
               given[m].addr + o = files[n].addr + p /\ given[m].data[o + 1] = files[n].data[p + 1]
  <2> DEFINE x == Byte1(files[n], p)
  <2>1. x \in Contents(Range(given))
    BY <1>4, <1>6, Zenon
  <2>2. PICK m \in 1 .. Len(given) : \E o \in 0 .. Len(given[m].data) - 1 : x = Byte1(given[m], o)
    BY <2>1, <1>6, Zenon
  <2>3. PICK o \in 0 .. Len(given[m].data) - 1 : x = Byte1(given[m], o)
    BY <2>2
  <2>4. given[m].addr + o = files[n].addr + p /\ given[m].data[o + 1] = files[n].data[p + 1]
    BY <2>3, <1>5
  <2> QED  BY <2>4, Zenon
<1>8. ASSUME NEW n \in 1 .. Len(given), NEW p \in 0 .. Len(given[n].data) - 1
      PROVE  \E m \in 1 .. Len(files) : \E o \in 0 .. Len(files[m].data) - 1 :
               files[m].addr + o = given[n].addr + p /\ files[m].data[o + 1] = given[n].data[p + 1]
  <2> DEFINE x == Byte1(given[n], p)
  <2>1. x \in Contents(Range(files))
    BY <1>4, <1>6, Zenon
  <2>2. PICK m \in 1 .. Len(files) : \E o \in 0 .. Len(files[m].data) - 1 : x = Byte1(files[m], o)
    BY <2>1, <1>6, Zenon
  <2>3. PICK o \in 0 .. Len(files[m].data) - 1 : x = Byte1(files[m], o)
    BY <2>2
  <2>4. files[m].addr + o = given[n].addr + p /\ files[m].data[o + 1] = given[n].data[p + 1]
    BY <2>3, <1>5
  <2> QED  BY <2>4, Zenon
<1> QED  BY <1>7, <1>8, Zenon DEF files, BytesOf

\* What lies in the span of a file, and what flash may change of it.
LEMMA SpanParts ==
    ASSUME NEW f \in File
    PROVE  /\ \A x : x \in Span(f) <=> \E p \in 0 .. Len(f.data) - 1 : x = f.addr + p
           /\ \A x \in Span(f) : x \in Nat
           /\ f.data # << >> => f.addr \in Span(f)
           /\ MayDiffer(f) \subseteq 0 .. 12
<1>1. f.addr \in Nat /\ Len(f.data) \in Nat
  BY FileParts
<1>2. \A x : x \in Span(f) <=> \E p \in 0 .. Len(f.data) - 1 : x = f.addr + p
  <2> TAKE x
  <2>1. ASSUME x \in Span(f) PROVE \E p \in 0 .. Len(f.data) - 1 : x = f.addr + p
    <3>1. x \in Nat /\ x - f.addr \in 0 .. Len(f.data) - 1 /\ x = f.addr + (x - f.addr)
      BY <2>1, <1>1 DEF Span
    <3> QED  BY <3>1
  <2>2. ASSUME NEW p \in 0 .. Len(f.data) - 1, x = f.addr + p PROVE x \in Span(f)
    BY <2>2, <1>1 DEF Span
  <2> QED  BY <2>1, <2>2
<1>3. \A x \in Span(f) : x \in Nat
  BY <1>1 DEF Span
<1>4. f.data # << >> => f.addr \in Span(f)
  <2>1. f.data # << >> => Len(f.data) > 0
    BY FileParts, EmptySeq
  <2> QED  BY <2>1, <1>1 DEF Span
<1>5. MayDiffer(f) \subseteq 0 .. 12
  BY DEF MayDiffer
<1> QED  BY <1>2, <1>3, <1>4, <1>5

\* They can be flashed in place of the files that were given.
LEMMA UnpackedStandFor ==
    ASSUME NEW given \in Seq(File), NEW d, NEW l, UnpackedFrom(given, d, l), BlockSize > 12,
           \A n \in 1 .. Len(given) :
             given[n].addr % BlockSize = 0 /\ given[n].addr + Len(given[n].data) <= FlashSize,
           \A n, m \in 1 .. Len(given) : n # m => Span(given[n]) \cap Span(given[m]) = {}
    PROVE  Laid(Unpack(d, l)) /\ StandFor(Unpack(d, l), given)
<1> DEFINE files == Unpack(d, l)
<1>0. BlockSize \in Nat \ {0} /\ FlashSize \in Nat
  BY ImageAssumption
<1>1. /\ files \in Seq(File) /\ Len(files) = Len(l)
      /\ \A n \in 1 .. Len(l) : /\ files[n] \in File /\ l[n] \in DOMAIN d
                                /\ files[n].addr = l[n] /\ files[n].data = d[l[n]]
  BY UnpackParts
<1>2. BytesOf(files, given) /\ BytesOf(given, files)
  BY UnpackedBytes
<1> HIDE DEF files
<1>3. \A n \in 1 .. Len(files) : files[n] \in File
  BY <1>1
<1>4. \A n \in 1 .. Len(given) : given[n] \in File
  OBVIOUS
<1>5. ASSUME NEW n \in 1 .. Len(files)
      PROVE  /\ files[n].data # << >>
             /\ \E k \in 1 .. Len(given) : files[n].addr = given[k].addr /\ given[k].data # << >>
  <2>1. l[n] \in DOMAIN d /\ files[n].addr = l[n] /\ files[n].data = d[l[n]]
    BY <1>1
  <2>2. d[l[n]] # << >> /\ l[n] \in Starts(given)
    BY <2>1, Zenon DEF UnpackedFrom, Unpacking
  <2> QED  BY <2>1, <2>2, Zenon DEF Starts
<1>6. ASSUME NEW n \in 1 .. Len(files)
      PROVE  files[n].addr % BlockSize = 0
  <2>1. PICK k \in 1 .. Len(given) : files[n].addr = given[k].addr
    BY <1>5
  <2> QED  BY <2>1
<1>7. ASSUME NEW n \in 1 .. Len(files), NEW x \in Span(files[n])
      PROVE  \E m \in 1 .. Len(given) : x \in Span(given[m])
  <2>1. PICK p \in 0 .. Len(files[n].data) - 1 : x = files[n].addr + p
    BY <1>3, SpanParts, Zenon
  <2>2. PICK m \in 1 .. Len(given) : \E o \in 0 .. Len(given[m].data) - 1 :
          given[m].addr + o = files[n].addr + p /\ given[m].data[o + 1] = files[n].data[p + 1]
    BY <1>2, Zenon DEF BytesOf
  <2>3. PICK o \in 0 .. Len(given[m].data) - 1 : given[m].addr + o = files[n].addr + p
    BY <2>2
  <2>4. x = given[m].addr + o
    BY <2>1, <2>3
  <2>5. x \in Span(given[m])
    BY <2>4, <1>4, SpanParts, Zenon
  <2> QED  BY <2>5
<1>8. ASSUME NEW n \in 1 .. Len(files)
      PROVE  files[n].addr + Len(files[n].data) <= FlashSize
  <2> DEFINE a == files[n].addr
             len == Len(files[n].data)
  <2>1. a \in Nat /\ len \in Nat /\ len > 0
    <3>1. files[n] \in File /\ files[n].data # << >>
      BY <1>3, <1>5
    <3> QED  BY <3>1, FileParts, EmptySeq
  <2>2. a + len - 1 \in Span(files[n])
    <3> HIDE DEF a, len
    <3>1. a + len - 1 \in a .. a + len - 1
      BY <2>1
    <3> QED  BY <3>1 DEF Span, a, len
  <2>3. PICK m \in 1 .. Len(given) : a + len - 1 \in Span(given[m])
    BY <2>2, <1>7
  <2>4. given[m].addr \in Nat /\ Len(given[m].data) \in Nat
        /\ given[m].addr + Len(given[m].data) <= FlashSize
    BY <1>4, FileParts
  <2> HIDE DEF a, len
  <2>5. a + len - 1 <= given[m].addr + Len(given[m].data) - 1
    BY <2>1, <2>3, <2>4 DEF Span
  <2> DEFINE b == given[m].addr
             k == Len(given[m].data)
  <2>6. b \in Nat /\ k \in Nat /\ b + k <= FlashSize /\ a + len - 1 <= b + k - 1
    BY <2>4, <2>5
  <2> HIDE DEF b, k
  <2>7. a + len <= b + k
    BY <2>1, <2>6
  <2>8. a + len <= FlashSize
    BY <2>1, <2>6, <2>7, <1>0
  <2> QED  BY <2>8 DEF a, len
<1>9. ASSUME NEW n \in 1 .. Len(files), NEW m \in 1 .. Len(files), n # m
      PROVE  Span(files[n]) \cap Span(files[m]) = {}
  <2>1. /\ l[n] \in DOMAIN d /\ files[n].addr = l[n] /\ files[n].data = d[l[n]]
        /\ l[m] \in DOMAIN d /\ files[m].addr = l[m] /\ files[m].data = d[l[m]]
        /\ n \in DOMAIN l /\ m \in DOMAIN l
    <3>1. l \in Seq(Nat)
      BY Zenon DEF UnpackedFrom
    <3>2. n \in DOMAIN l /\ m \in DOMAIN l
      BY <3>1, <1>1
    <3> QED  BY <3>2, <1>1
  <2>2. l[n] # l[m]
    BY <2>1, <1>9, Zenon DEF UnpackedFrom
  <2>3. Extent(l[n], d[l[n]]) \cap Extent(l[m], d[l[m]]) = {}
    BY <2>1, <2>2, Zenon DEF UnpackedFrom, Unpacking
  <2>4. ASSUME NEW k \in 1 .. Len(files)
        PROVE  Span(files[k]) = Extent(files[k].addr, files[k].data)
    <3> DEFINE a == files[k].addr
               s == files[k].data
    <3>1. a \in Nat /\ s \in Seq(Byte) /\ Len(s) \in Nat
      BY <1>3, FileParts
    <3>2. DOMAIN s = 1 .. Len(s)
      BY <3>1
    <3> HIDE DEF a, s
    <3>3. ASSUME NEW x \in a .. a + Len(s) - 1 PROVE \E j \in 1 .. Len(s) : x = a + j - 1
      <4>1. x - a + 1 \in 1 .. Len(s) /\ x = a + (x - a + 1) - 1
        BY <3>1
      <4> QED  BY <4>1
    <3>4. ASSUME NEW j \in 1 .. Len(s) PROVE a + j - 1 \in a .. a + Len(s) - 1
      BY <3>1
    <3>5. a .. a + Len(s) - 1 = {a + j - 1 : j \in 1 .. Len(s)}
      BY <3>3, <3>4
    <3> QED  BY <3>2, <3>5, Zenon DEF Span, Extent, a, s
  <2> QED  BY <2>1, <2>3, <2>4, Zenon
<1>10. Laid(files)
  BY <1>1, <1>6, <1>8, <1>9, LaidApart
<1>11. ASSUME NEW n \in 1 .. Len(given), NEW o \in 0 .. Len(given[n].data) - 1
       PROVE  \E m \in 1 .. Len(files), p \in Nat : SameByte(files[m], p, given[n], o)
  <2>1. PICK m \in 1 .. Len(files) : \E p \in 0 .. Len(files[m].data) - 1 :
          files[m].addr + p = given[n].addr + o /\ files[m].data[p + 1] = given[n].data[o + 1]
    BY <1>2, Zenon DEF BytesOf
  <2>2. PICK p \in 0 .. Len(files[m].data) - 1 :
          files[m].addr + p = given[n].addr + o /\ files[m].data[p + 1] = given[n].data[o + 1]
    BY <2>1
  <2>3. ASSUME p \in MayDiffer(files[m]) PROVE o \in MayDiffer(given[n])
    <3> DEFINE a == files[m].addr
    <3>1. p \in 0 .. BlockSize - 1
      <4>1. p \in 0 .. 12
        BY <2>3, <1>3, SpanParts
      <4> QED  BY <4>1, <1>0
    <3>2. PICK k \in 1 .. Len(given) : a = given[k].addr /\ given[k].data # << >>
      BY <1>5
    <3>3. a \in Span(given[k]) /\ a \in Nat /\ a % BlockSize = 0
      BY <3>2, <1>4, <1>6, SpanParts
    <3>4. a + p \in Blocks(given[n])
      <4>1. a + p \in Span(given[n])
        BY <2>2, <1>4, SpanParts
      <4> QED  BY <4>1, <1>4, SpanInBlocks
    <3>5. ((a + p) \div BlockSize) * BlockSize = a
      <4> HIDE DEF a
      <4> QED  BY <3>1, <3>3, StartOf
    <3>6. a \in Span(given[n])
      <4> DEFINE x == a + p
      <4> HIDE DEF a, x
      <4>1. x \in Blocks(given[n])
        BY <3>4 DEF x
      <4>2. (x \div BlockSize) * BlockSize \in Span(given[n])
        BY <4>1, <1>4, BlockStart
      <4> QED  BY <4>2, <3>5 DEF x
    <3>7. n = k
      <4> HIDE DEF a
      <4> QED  BY <3>3, <3>6, Zenon
    <3>8. given[n].addr = files[m].addr /\ o = p
      <4>1. given[n].addr = a
        BY <3>2, <3>7
      <4>2. a \in Nat /\ o \in Int /\ p \in Int /\ a + o = a + p
        BY <4>1, <2>2, <3>3
      <4> HIDE DEF a
      <4>3. o = p
        BY <4>2
      <4> QED  BY <4>1, <4>3 DEF a
    <3> QED  BY <2>3, <3>8, Zenon DEF MayDiffer
  <2>4. p \in Nat
    OBVIOUS
  <2>5. SameByte(files[m], p, given[n], o)
    BY <2>2, <2>3, Zenon DEF SameByte
  <2> QED  BY <2>4, <2>5
<1>12. ASSUME NEW m \in 1 .. Len(files), NEW x \in Blocks(files[m])
       PROVE  \E n \in 1 .. Len(given) : x \in Blocks(given[n])
  <2> DEFINE y == (x \div BlockSize) * BlockSize
  <2>1. x \in Nat /\ y \in Span(files[m])
    BY <1>3, <1>6, BlockStart
  <2>2. PICK n \in 1 .. Len(given) : y \in Span(given[n])
    <3> HIDE DEF y
    <3> QED  BY <2>1, <1>7
  <2>3. y \in Blocks(given[n])
    <3> HIDE DEF y
    <3> QED  BY <2>2, <1>4, SpanInBlocks
  <2>4. y % BlockSize = 0 /\ x \in y .. y + BlockSize - 1
    <3> DEFINE b == BlockSize
               q == x \div b
    <3>1. q \in Nat /\ x % b \in 0 .. b - 1 /\ x = q * b + (x % b) /\ b \in Nat \ {0}
      BY <1>0, <2>1, DivModFacts
    <3> HIDE DEF q, b
    <3>2. q * b \in Nat /\ 0 \in 0 .. b - 1 /\ q * b + 0 = q * b
      BY <3>1, SMTT(60)
    <3>3. (q * b + 0) % b = 0
      BY <3>1, <3>2, DivModUnique
    <3> DEFINE start == q * b
               r == x % b
    <3>4. start % b = 0
      <4> HIDE DEF start
      <4>1. (start + 0) % b = 0 /\ start \in Nat /\ start + 0 = start
        BY <3>2, <3>3 DEF start
      <4> QED  BY <4>1
    <3>5. start \in Nat /\ r \in 0 .. b - 1 /\ x = start + r /\ b \in Nat
      BY <3>1, <3>2
    <3> HIDE DEF start, r
    <3>6. x \in start .. start + b - 1
      BY <3>5
    <3> QED  BY <3>4, <3>6 DEF q, b, start
  <2>5. given[n] \in File /\ given[n].addr % BlockSize = 0
    OBVIOUS
  <2> HIDE DEF y
  <2> QED  BY <2>3, <2>4, <2>5, WholeBlock
<1>13. StandFor(files, given)
  BY <1>11, <1>12, Zenon DEF StandFor
<1> QED  BY <1>10, <1>13 DEF files

-----------------------------------------------------------------------------
\* Writing

\* What flashbin makes of byte o of f.
Final(f, o) ==
    IF f.addr = BootloaderAt[chip] /\ params # <<0, 0>> /\ o \in {2, 3} THEN params[o - 1]
    ELSE IF chip = "esp32c3" /\ o = 12 THEN 5
    ELSE f.data[o + 1]

\* The first p bytes of f are in flash as flashbin makes them.
Right(flash, f, p) ==
    \A o \in 0 .. Len(f.data) - 1 : o < p => flash[f.addr + o + 1] = Final(f, o)

\* It changes them only where the file may differ.
LEMMA FinalElsewhere ==
    ASSUME NEW f, NEW o, o \notin MayDiffer(f)
    PROVE  Final(f, o) = f.data[o + 1]
BY DEF Final, MayDiffer

\* From the one to the other, flash has only changed in the blocks of f.
OnlyIn(f, flash, then) ==
    \A a \in 0 .. FlashSize - 1 : a \notin Blocks(f) => then[a + 1] = flash[a + 1]

\* From the one to the other, flash has only changed in the blocks of the files.
RestSame(files, flash, then) ==
    \A a \in 0 .. FlashSize - 1 :
      (\A n \in 1 .. Len(files) : a \notin Blocks(files[n])) => then[a + 1] = flash[a + 1]

\* Of the files, those of t are still to be written, and the others are right; of the
\* first one of t the blocks before the s-th are.
Writing(files, t, s, flash, before) ==
    /\ t \in Seq(File) /\ Len(t) <= Len(files)
    /\ \A i \in 1 .. Len(t) : t[i] = files[Len(files) - Len(t) + i]
    /\ s \in Nat \cup {NotBegun}
    /\ s # NotBegun => t # << >> /\ Right(flash, Head(t), s * BlockSize)
    /\ \A n \in 1 .. Len(files) - Len(t) : Right(flash, files[n], Len(files[n].data))
    /\ RestSame(files, before, flash)

\* The bytes of a file are in the flash and in its blocks.
LEMMA ByteAddress ==
    ASSUME NEW f \in File, f.addr + Len(f.data) <= FlashSize, NEW o \in 0 .. Len(f.data) - 1
    PROVE  f.addr + o \in Blocks(f) /\ f.addr + o \in 0 .. FlashSize - 1
<1>1. f.addr + o \in Blocks(f)
  <2>1. f.addr + o \in Span(f)
    BY SpanParts
  <2> QED  BY <2>1, SpanInBlocks
<1>2. f.addr \in Nat /\ Len(f.data) \in Nat /\ FlashSize \in Nat
  BY FileParts, ImageAssumption
<1> QED  BY <1>1, <1>2

\* Writing one file leaves the others alone.
LEMMA OthersStay ==
    ASSUME NEW files, Laid(files), NEW flash, NEW then, NEW k \in 1 .. Len(files),
           OnlyIn(files[k], flash, then),
           NEW n \in 1 .. Len(files), n # k, Right(flash, files[n], Len(files[n].data))
    PROVE  Right(then, files[n], Len(files[n].data))
<1>1. ASSUME NEW o \in 0 .. Len(files[n].data) - 1
      PROVE  then[files[n].addr + o + 1] = Final(files[n], o)
  <2>1. files[n] \in File /\ files[n].addr + Len(files[n].data) <= FlashSize
    BY DEF Laid
  <2>2. files[n].addr + o \in Blocks(files[n]) /\ files[n].addr + o \in 0 .. FlashSize - 1
    BY <2>1, ByteAddress
  <2>3. Blocks(files[n]) \cap Blocks(files[k]) = {}
    BY Zenon DEF Laid
  <2>4. files[n].addr + o \notin Blocks(files[k])
    BY <2>2, <2>3, Zenon
  <2>5. then[files[n].addr + o + 1] = flash[files[n].addr + o + 1]
    BY <2>2, <2>4, Zenon DEF OnlyIn
  <2>6. o < Len(files[n].data)
    <3>1. Len(files[n].data) \in Nat
      BY <2>1, FileParts
    <3> QED  BY <3>1
  <2>7. flash[files[n].addr + o + 1] = Final(files[n], o)
    BY <2>6, <1>1, Zenon DEF Right
  <2> QED  BY <2>5, <2>7
<1> QED  BY <1>1, Zenon DEF Right

\* And the rest of the flash.
LEMMA RestStays ==
    ASSUME NEW files, NEW before, NEW flash, NEW then, NEW k \in 1 .. Len(files),
           OnlyIn(files[k], flash, then), RestSame(files, before, flash)
    PROVE  RestSame(files, before, then)
<1> SUFFICES ASSUME NEW a \in 0 .. FlashSize - 1,
                    \A n \in 1 .. Len(files) : a \notin Blocks(files[n])
             PROVE  then[a + 1] = before[a + 1]
  BY Zenon DEF RestSame
<1>1. then[a + 1] = flash[a + 1]
  BY Zenon DEF OnlyIn
<1>2. flash[a + 1] = before[a + 1]
  BY Zenon DEF RestSame
<1> QED  BY <1>1, <1>2

\* The first file that is still to be written.
LEMMA CurrentFile ==
    ASSUME NEW files, Laid(files), NEW t, NEW s, NEW flash, NEW before,
           Writing(files, t, s, flash, before), t # << >>
    PROVE  LET k == Len(files) - Len(t) + 1 IN
           /\ k \in 1 .. Len(files) /\ Head(t) = files[k] /\ Head(t) \in File
           /\ Head(t).addr % BlockSize = 0
           /\ Head(t).addr + Len(Head(t).data) <= FlashSize
           /\ \A n \in 1 .. Len(files) - Len(t) : n \in 1 .. Len(files) /\ n # k
<1> DEFINE k == Len(files) - Len(t) + 1
<1>1. t \in Seq(File) /\ Len(t) \in Nat /\ Len(t) <= Len(files) /\ Len(files) \in Nat
  BY DEF Writing, Laid
<1>2. Len(t) >= 1 /\ Head(t) = t[1]
  BY <1>1, EmptySeq
<1>3. t[1] = files[k] /\ k \in 1 .. Len(files)
  <2>1. 1 \in 1 .. Len(t)
    BY <1>1, <1>2
  <2>2. t[1] = files[Len(files) - Len(t) + 1]
    BY <2>1, Zenon DEF Writing
  <2> QED  BY <2>2, <1>1, <1>2
<1>4. \A n \in 1 .. Len(files) - Len(t) : n \in 1 .. Len(files) /\ n # k
  BY <1>1
<1> HIDE DEF k
<1>5. files[k] \in File /\ files[k].addr % BlockSize = 0
      /\ files[k].addr + Len(files[k].data) <= FlashSize
  BY <1>3 DEF Laid
<1> QED  BY <1>2, <1>3, <1>4, <1>5 DEF k

\* Something is written to the blocks of the current file.
LEMMA CurrentWritten ==
    ASSUME NEW files, Laid(files), NEW t, NEW s, NEW flash, NEW before,
           Writing(files, t, s, flash, before), t # << >>,
           NEW then, OnlyIn(Head(t), flash, then),
           NEW s2 \in Nat, Right(then, Head(t), s2 * BlockSize)
    PROVE  Writing(files, t, s2, then, before)
<1> DEFINE k == Len(files) - Len(t) + 1
<1>1. /\ k \in 1 .. Len(files) /\ Head(t) = files[k]
      /\ \A n \in 1 .. Len(files) - Len(t) : n \in 1 .. Len(files) /\ n # k
  BY CurrentFile
<1> HIDE DEF k
<1>2. OnlyIn(files[k], flash, then)
  BY <1>1
<1>4. \A n \in 1 .. Len(files) - Len(t) : Right(then, files[n], Len(files[n].data))
  <2> SUFFICES ASSUME NEW n \in 1 .. Len(files) - Len(t)
               PROVE  Right(then, files[n], Len(files[n].data))
    OBVIOUS
  <2>1. n \in 1 .. Len(files) /\ n # k
    BY <1>1
  <2>2. Right(flash, files[n], Len(files[n].data))
    BY Zenon DEF Writing
  <2> QED  BY <1>1, <1>2, <2>1, <2>2, OthersStay, Zenon
<1>5. RestSame(files, before, then)
  <2>1. RestSame(files, before, flash)
    BY Zenon DEF Writing
  <2> QED  BY <1>1, <1>2, <2>1, RestStays, Zenon
<1>6. /\ t \in Seq(File) /\ Len(t) <= Len(files)
      /\ \A i \in 1 .. Len(t) : t[i] = files[Len(files) - Len(t) + i]
  BY Zenon DEF Writing
<1> QED  BY <1>4, <1>5, <1>6, Zenon DEF Writing

\* The current file has no block more.
LEMMA CurrentDone ==
    ASSUME NEW files, Laid(files), NEW t, NEW s \in Nat, NEW flash, NEW before,
           Writing(files, t, s, flash, before), Len(Head(t).data) <= s * BlockSize
    PROVE  Writing(files, Tail(t), NotBegun, flash, before)
<1> DEFINE k == Len(files) - Len(t) + 1
           rest == Tail(t)
<1>0. s # NotBegun
  BY DEF NotBegun
<1>1. t # << >> /\ Right(flash, Head(t), s * BlockSize)
  BY <1>0, Zenon DEF Writing
<1>2. /\ k \in 1 .. Len(files) /\ Head(t) = files[k] /\ Head(t) \in File
  BY <1>1, CurrentFile
<1>3. /\ t \in Seq(File) /\ Len(t) \in Nat /\ Len(t) >= 1 /\ Len(files) \in Nat
      /\ Len(t) <= Len(files)
  <2>1. t \in Seq(File) /\ Len(t) \in Nat /\ Len(files) \in Nat /\ Len(t) <= Len(files)
    BY DEF Writing, Laid
  <2> QED  BY <2>1, <1>1, EmptySeq
<1>4. rest \in Seq(File) /\ Len(rest) = Len(t) - 1 /\ \A i \in 1 .. Len(rest) : rest[i] = t[i + 1]
  BY <1>1, <1>3
<1>5. \A i \in 1 .. Len(rest) : rest[i] = files[Len(files) - Len(rest) + i]
  <2> SUFFICES ASSUME NEW i \in 1 .. Len(rest)
               PROVE  rest[i] = files[Len(files) - Len(rest) + i]
    OBVIOUS
  <2>1. i + 1 \in 1 .. Len(t) /\ Len(files) - Len(t) + (i + 1) = Len(files) - Len(rest) + i
    BY <1>3, <1>4
  <2>2. t[i + 1] = files[Len(files) - Len(t) + (i + 1)]
    BY <2>1, Zenon DEF Writing
  <2> QED  BY <2>1, <2>2, <1>4
<1>6. Right(flash, Head(t), Len(Head(t).data))
  <2>1. ASSUME NEW o \in 0 .. Len(Head(t).data) - 1 PROVE o < s * BlockSize
    <3> DEFINE x == s * BlockSize
    <3>1. x \in Int /\ Len(Head(t).data) \in Nat
      BY <1>2, FileParts, ImageAssumption
    <3> HIDE DEF x
    <3>2. Len(Head(t).data) <= x
      BY DEF x
    <3>3. o < x
      BY <3>1, <3>2
    <3> QED  BY <3>3 DEF x
  <2> QED  BY <2>1, <1>1, Zenon DEF Right
<1>7. \A n \in 1 .. Len(files) - Len(rest) : Right(flash, files[n], Len(files[n].data))
  <2>1. \A n \in 1 .. Len(files) - Len(rest) : n \in 1 .. Len(files) - Len(t) \/ n = k
    BY <1>3, <1>4
  <2>2. \A n \in 1 .. Len(files) - Len(t) : Right(flash, files[n], Len(files[n].data))
    BY Zenon DEF Writing
  <2>3. Right(flash, files[k], Len(files[k].data))
    BY <1>2, <1>6
  <2> HIDE DEF k, rest
  <2> QED  BY <2>1, <2>2, <2>3, Zenon
<1>8. Len(rest) <= Len(files) /\ NotBegun \in Nat \cup {NotBegun}
  BY <1>3, <1>4
<1>9. RestSame(files, before, flash)
  BY Zenon DEF Writing
<1> HIDE DEF rest
<1> QED  BY <1>4, <1>5, <1>7, <1>8, <1>9, Zenon DEF Writing, rest

-----------------------------------------------------------------------------
\* The inductive invariant

\* The files that flash is given.
Flashing == IF hexed THEN Unpack(dir, list) ELSE args
Aligned(files) ==
    \A n \in 1 .. Len(files) :
      files[n].addr % BlockSize = 0 /\ files[n].addr + Len(files[n].data) <= FlashSize

\* A .hex file goes through mkhex and unhex, and only flash changes the memory.
WayInv ==
    /\ DOMAIN mem = 1 .. FlashSize
    /\ stage \in {"mkhex", "unhex"} => hexed
    /\ stage = "flash" => ~hexed
    /\ stage # "mkbin" => Aligned(args)
    /\ stage \notin {"write", "boot"} => mem = old /\ seq = NotBegun

\* flash is somewhere in its files, and has written what is before.
WriteInv ==
    /\ stage \in {"write", "boot"} =>
         Laid(Flashing) /\ StandFor(Flashing, args) /\ Writing(Flashing, todo, seq, mem, old)
    /\ stage = "boot" => todo = << >>

\* It holds at the start.
LEMMA InitFlashInv == Init => WayInv /\ WriteInv
BY DEF Init, WayInv, WriteInv

\* When all is written, every byte is in flash.
LEMMA InvImpliesFlashed == IInv /\ WayInv /\ WriteInv => FlashedBytes
<1> SUFFICES ASSUME IInv, WayInv, WriteInv, stage = "boot" PROVE FlashedBytes
  BY Zenon DEF FlashedBytes
<1>0. DOMAIN args = 1 .. Len(args)
  <2>1. args \in Seq(File)
    BY Zenon DEF IInv, SettingInv, Fits
  <2> QED  BY <2>1
<1> DEFINE files == Flashing
<1>1. /\ Laid(files) /\ StandFor(files, args) /\ Writing(files, << >>, seq, mem, old)
      /\ DOMAIN mem = 1 .. FlashSize
  BY Zenon DEF WayInv, WriteInv
<1>2. \A n \in 1 .. Len(files) : Right(mem, files[n], Len(files[n].data))
  <2>1. files \in Seq(File)
    BY <1>1 DEF Laid
  <2>2. 1 .. Len(files) - Len(<< >>) = 1 .. Len(files)
    BY <2>1
  <2> QED  BY <1>1, <2>2, Zenon DEF Writing
<1> HIDE DEF files
<1>3. ASSUME NEW n \in DOMAIN args, NEW o \in 0 .. Len(args[n].data) - 1,
             o \notin MayDiffer(args[n])
      PROVE  At(mem, args[n].addr + o + 1) = args[n].data[o + 1]
  <2>1. n \in 1 .. Len(args)
    BY <1>0
  <2>2. PICK m \in 1 .. Len(files), p \in Nat : SameByte(files[m], p, args[n], o)
    BY <1>1, <1>3, <2>1, Zenon DEF StandFor
  <2> DEFINE f == files[m]
             a == args[n].addr + o
  <2>3. /\ p \in 0 .. Len(f.data) - 1 /\ f.addr + p = a /\ f.data[p + 1] = args[n].data[o + 1]
        /\ p \notin MayDiffer(f)
    BY <2>2, <1>3, Zenon DEF SameByte
  <2>4. f \in File /\ f.addr + Len(f.data) <= FlashSize /\ Right(mem, f, Len(f.data))
    BY <1>1, <1>2 DEF Laid
  <2> HIDE DEF f, a
  <2>5. a \in 0 .. FlashSize - 1
    BY <2>3, <2>4, ByteAddress
  <2>6. p < Len(f.data)
    BY <2>3, <2>4, FileParts
  <2>7. mem[f.addr + p + 1] = f.data[p + 1]
    <3>1. Final(f, p) = f.data[p + 1]
      BY <2>3, FinalElsewhere
    <3>2. mem[f.addr + p + 1] = Final(f, p)
      BY <2>3, <2>4, <2>6, Zenon DEF Right
    <3> QED  BY <3>1, <3>2
  <2>8. mem[a + 1] = args[n].data[o + 1]
    BY <2>3, <2>7, Zenon
  <2>9. a + 1 \in DOMAIN mem
    BY <2>5, <1>1, ImageAssumption
  <2>10. At(mem, a + 1) = mem[a + 1]
    BY <2>9, Zenon DEF At
  <2> QED  BY <2>8, <2>10 DEF a
<1>4. ASSUME NEW a \in 0 .. FlashSize - 1, \A n \in DOMAIN args : a \notin Blocks(args[n])
      PROVE  mem[a + 1] = old[a + 1]
  <2>1. ASSUME NEW m \in 1 .. Len(files), a \in Blocks(files[m]) PROVE FALSE
    <3>1. PICK n \in 1 .. Len(args) : a \in Blocks(args[n])
      BY <1>1, <2>1, Zenon DEF StandFor
    <3> QED  BY <3>1, <1>0, <1>4
  <2>2. RestSame(files, old, mem)
    BY <1>1, Zenon DEF Writing
  <2> QED  BY <2>1, <2>2, Zenon DEF RestSame
<1> QED  BY <1>3, <1>4, Zenon DEF FlashedBytes

\* What flash changes depends on the chip and the parameters only, so that what is said of
\* the new values while these are the old ones holds in the new state.
LEMMA WritingKept ==
    ASSUME chip' = chip, params' = params, Writing(Flashing', todo', seq', mem', old')
    PROVE  Writing(Flashing, todo, seq, mem, old)'
<1>1. \A f, o : Final(f, o)' = Final(f, o)
  BY Zenon DEF Final
<1> QED  BY <1>1, Zenon DEF Writing, Right

\* The same of the files that stand for others.
LEMMA StandForKept ==
    ASSUME chip' = chip, StandFor(Flashing', args') PROVE StandFor(Flashing, args)'
<1>1. \A f : MayDiffer(f)' = MayDiffer(f)
  BY Zenon DEF MayDiffer
<1>2. \A f, p, g, o : SameByte(f, p, g, o)' <=> SameByte(f, p, g, o)
  BY <1>1, ZenonT(60) DEF SameByte
<1> QED  BY <1>2, Zenon DEF StandFor

\* Nothing is written yet.
LEMMA NothingWritten ==
    ASSUME Laid(Flashing'), todo' = Flashing', seq' = NotBegun, mem' = old'
    PROVE  Writing(Flashing, todo, seq, mem, old)'
<1> DEFINE files == Flashing'
<1>1. files \in Seq(File) /\ Len(files) \in Nat
  BY DEF Laid
<1>2. \A i \in 1 .. Len(files) : files[i] = files[Len(files) - Len(files) + i]
  BY <1>1
<1>3. 1 .. Len(files) - Len(files) = {} /\ Len(files) <= Len(files)
  BY <1>1
<1>4. RestSame(files, old', mem')
  BY Zenon DEF RestSame
<1>5. NotBegun \in Nat \cup {NotBegun}
  OBVIOUS
<1> QED  BY <1>1, <1>2, <1>3, <1>4, <1>5, Zenon DEF Writing

\* mkbin's image is put at whole blocks in the flash, like the data files.
LEMMA MkbinWay ==
    ASSUME Blockwise, IInv, WayInv, WriteInv, Mkbin
    PROVE  WayInv' /\ WriteInv'
<1> DEFINE image == [addr |-> BootloaderAt[chip], data |-> mkbin(elf)]
<1>1. /\ stage = "mkbin" /\ args' = <<image>> \o args
      /\ stage' = IF hexed THEN "mkhex" ELSE "flash"
      /\ UNCHANGED <<elf, chip, hexed, old, mem, seq>>
  BY DEF Mkbin, setting
<1>2. elf \in Elfs /\ chip \in Chips /\ args \in DataFiles
  BY <1>1 DEF IInv, SettingInv
<1>3. args' \in Seq(File)
  <2>1. IInv'
    BY MkbinKeeps, Zenon DEF Blockwise
  <2>2. stage' # "mkbin"
    BY <1>1
  <2> QED  BY <2>1, <2>2, Zenon DEF IInv, SettingInv, Fits
<1> HIDE DEF image
<1>4. Aligned(args')
  <2>1. \A n \in DOMAIN args' :
          args'[n].addr % BlockSize = 0 /\ args'[n].addr + Len(args'[n].data) <= FlashSize
    BY <1>1, <1>2, Zenon DEF Blockwise, image
  <2>2. DOMAIN args' = 1 .. Len(args')
    BY <1>3
  <2> QED  BY <2>1, <2>2, Zenon DEF Aligned
<1>5. WayInv'
  BY <1>1, <1>4 DEF WayInv
<1>6. WriteInv'
  BY <1>1 DEF WriteInv
<1> QED  BY <1>5, <1>6

\* mkhex and unhex change nothing of what flash works on.
LEMMA HexWay ==
    ASSUME WayInv, WriteInv, Mkhex \/ Unhex
    PROVE  WayInv' /\ WriteInv'
<1>1. /\ stage \in {"mkhex", "unhex"} /\ stage' \in {"mkhex", "unhex"}
      /\ UNCHANGED <<args, hexed, old, mem, seq>>
  BY DEF Mkhex, MkhexOpen, MkhexLine, MkhexEnd, Unhex, UnhexData, UnhexOther, setting
<1>2. WayInv'
  BY <1>1 DEF WayInv
<1>3. WriteInv'
  BY <1>1 DEF WriteInv
<1> QED  BY <1>2, <1>3

\* The files of flash are those that were given, or stand for them.
LEMMA FlashingReady ==
    ASSUME Blockwise, IInv, WayInv, stage = "flash" \/ Unhexed
    PROVE  Laid(Flashing) /\ StandFor(Flashing, args)
<1>1. /\ args \in Seq(File) /\ Aligned(args)
      /\ \A n, m \in 1 .. Len(args) : n # m => Span(args[n]) \cap Span(args[m]) = {}
  <2>1. stage # "mkbin"
    BY DEF Unhexed
  <2> QED  BY <2>1, Zenon DEF IInv, SettingInv, Fits, WayInv
<1>2. CASE stage = "flash"
  <2>1. Flashing = args
    BY <1>2 DEF Flashing, WayInv
  <2>2. Laid(args)
    BY <1>1, LaidApart DEF Aligned
  <2>3. StandFor(args, args)
    BY <1>1, StandForThemselves
  <2> QED  BY <2>1, <2>2, <2>3
<1>3. CASE Unhexed
  <2>1. stage = "unhex" /\ hex = << >>
    BY <1>3 DEF Unhexed
  <2>2. Flashing = Unpack(dir, list)
    BY <2>1 DEF Flashing, WayInv
  <2>3. Reading(un, dir, list) /\ Unpacking(args, dir)
    BY <2>1 DEF IInv, UnhexInv
  <2>4. InFiles(dir) = Contents(Range(args))
    BY <2>1, AllUnpacked
  <2>5. UnpackedFrom(args, dir, list)
    BY <2>3, <2>4, Zenon DEF UnpackedFrom, Reading
  <2>6. Laid(Unpack(dir, list)) /\ StandFor(Unpack(dir, list), args)
    BY <1>1, <2>5, UnpackedStandFor DEF Aligned, Blockwise
  <2> QED  BY <2>2, <2>6
<1> QED  BY <1>2, <1>3

\* flash begins with all of its files.
LEMMA FlashBeginWay ==
    ASSUME Blockwise, IInv, WayInv, WriteInv, FlashBegin
    PROVE  WayInv' /\ WriteInv'
<1>1. /\ stage = "flash" \/ Unhexed
      /\ todo' = Flashing /\ stage' = "write"
      /\ UNCHANGED <<args, dir, list, chip, hexed, old, seq, mem>>
  BY Zenon DEF FlashBegin, setting, hexvars, Flashing, Unpack
<1>2. stage \notin {"mkbin", "write", "boot"}
  BY <1>1 DEF Unhexed
<1>3. mem = old /\ seq = NotBegun /\ Aligned(args)
  BY <1>2 DEF WayInv
<1>4. Flashing' = Flashing
  BY <1>1 DEF Flashing
<1>5. Laid(Flashing) /\ StandFor(Flashing, args)
  BY <1>1, FlashingReady
<1>6. Laid(Flashing') /\ StandFor(Flashing', args')
  BY <1>1, <1>4, <1>5
<1>7. Writing(Flashing, todo, seq, mem, old)'
  BY <1>1, <1>3, <1>4, <1>6, NothingWritten
<1>8. Laid(Flashing)' /\ StandFor(Flashing, args)' /\ Writing(Flashing, todo, seq, mem, old)'
  BY <1>1, <1>6, <1>7, StandForKept
<1>9. WriteInv'
  BY <1>1, <1>8 DEF WriteInv
<1>10. WayInv'
  BY <1>1, <1>2, <1>3 DEF WayInv
<1> QED  BY <1>9, <1>10

\* A step of flash that keeps what is written so far.
LEMMA WritingWay ==
    ASSUME WayInv, WriteInv, stage = "write", UNCHANGED <<hexvars, stage, setting, params>>,
           DOMAIN mem' = 1 .. FlashSize, Writing(Flashing, todo', seq', mem', old)
    PROVE  WayInv' /\ WriteInv'
<1>1. /\ stage' = "write"
      /\ UNCHANGED <<args, dir, list, chip, hexed, old, params>>
  BY DEF hexvars, setting
<1>2. Flashing' = Flashing
  BY <1>1 DEF Flashing
<1>3. Laid(Flashing) /\ StandFor(Flashing, args)
  BY Zenon DEF WriteInv
<1>4. Laid(Flashing') /\ StandFor(Flashing', args') /\ Writing(Flashing', todo', seq', mem', old')
  BY <1>1, <1>2, <1>3
<1>5. Laid(Flashing)' /\ StandFor(Flashing, args)' /\ Writing(Flashing, todo, seq, mem, old)'
  BY <1>1, <1>4, StandForKept, WritingKept
<1>6. WriteInv'
  BY <1>1, <1>5 DEF WriteInv
<1>7. WayInv'
  BY <1>1 DEF WayInv
<1> QED  BY <1>6, <1>7

\* Erasing concerns the blocks of the file, of which nothing is written yet.
LEMMA EraseFileWay ==
    ASSUME WayInv, WriteInv, EraseFile
    PROVE  WayInv' /\ WriteInv'
<1> DEFINE file == Head(todo)
<1>1. /\ stage = "write" /\ todo # << >>
      /\ mem' = [a \in 1 .. FlashSize |-> IF a - 1 \in Blocks(file) THEN 255 ELSE mem[a]]
      /\ seq' = 0 /\ UNCHANGED <<hexvars, stage, setting, todo, params>>
  BY Zenon DEF EraseFile, Blocks, align_to
<1>2. Laid(Flashing) /\ Writing(Flashing, todo, seq, mem, old)
  BY <1>1, Zenon DEF WriteInv
<1>3. OnlyIn(file, mem, mem')
  <2> SUFFICES ASSUME NEW a \in 0 .. FlashSize - 1, a \notin Blocks(file)
               PROVE  mem'[a + 1] = mem[a + 1]
    BY Zenon DEF OnlyIn
  <2>1. a + 1 \in 1 .. FlashSize /\ (a + 1) - 1 = a
    BY ImageAssumption
  <2> HIDE DEF file
  <2> QED  BY <1>1, <2>1, Zenon
<1>4. file \in File
  BY <1>1, <1>2, CurrentFile
<1>5. Right(mem', file, 0 * BlockSize)
  <2>1. 0 * BlockSize = 0
    BY ImageAssumption
  <2>2. \A o \in 0 .. Len(file.data) - 1 : ~(o < 0)
    OBVIOUS
  <2> HIDE DEF file
  <2> QED  BY <2>1, <2>2, Zenon DEF Right
<1>6. Writing(Flashing, todo, 0, mem', old)
  BY <1>1, <1>2, <1>3, <1>5, CurrentWritten
<1>7. DOMAIN mem' = 1 .. FlashSize
  BY <1>1, Zenon
<1> QED  BY <1>1, <1>6, <1>7, WritingWay

\* The bytes of a patched block; only the first block is patched.
LEMMA PatchedBlock ==
    ASSUME NEW f \in File, NEW n \in Nat, seq \in Nat, BlockSize > 12,
           NEW block \in Seq(Byte), Len(block) = n,
           NEW o \in Nat, NEW j \in 1 .. n,
           o = seq * BlockSize + j - 1, block[j] = f.data[o + 1]
    PROVE  Patched(f, block)[j] = Final(f, o)
<1>1. DOMAIN block = 1 .. n
  OBVIOUS
<1>2. CASE seq # 0
  <2> DEFINE b == BlockSize
             at == seq * b
  <2>1. at \in Nat /\ b \in Nat /\ at >= b /\ b > 12
    <3>1. b \in Nat /\ seq - 1 \in Nat /\ at = (seq - 1) * b + b
      BY <1>2, ImageAssumption
    <3>2. (seq - 1) * b \in Nat
      BY <3>1
    <3> DEFINE below == (seq - 1) * b
    <3> HIDE DEF below, at
    <3>3. at \in Nat /\ at >= b
      BY <3>1, <3>2 DEF below
    <3> QED  BY <3>1, <3>3
  <2>2. o = at + j - 1
    OBVIOUS
  <2> HIDE DEF b, at
  <2>3. o \notin {2, 3, 12}
    BY <2>1, <2>2
  <2> QED  BY <1>2, <2>3, Zenon DEF Patched, Final
<1>3. CASE seq = 0
  <2>1. seq * BlockSize = 0
    BY <1>3, ImageAssumption
  <2>2. j = o + 1 /\ j - 2 = o - 1
    BY <2>1
  <2>3. (j \in {3, 4} <=> o \in {2, 3}) /\ (j = 13 <=> o = 12)
    BY <2>2
  <2> QED  BY <1>1, <1>3, <2>2, <2>3, Zenon DEF Patched, Final
<1> QED  BY <1>2, <1>3

\* A block is written behind the blocks before it, or the file has no block more.
LEMMA WriteBlockWay ==
    ASSUME BlockSize > 12, WayInv, WriteInv, WriteBlock
    PROVE  WayInv' /\ WriteInv'
<1> DEFINE file  == Head(todo)
           b     == BlockSize
           first == seq * b
           left  == Len(file.data) - first
           n     == IF left < b THEN left ELSE b
           to    == file.addr + first
           chunk == SubSeq(file.data, first + 1, first + n)
           block == Patched(file, chunk)
<1>1. /\ stage = "write" /\ todo # << >> /\ seq # NotBegun
      /\ UNCHANGED <<hexvars, stage, setting, params>>
      /\ IF n > 0
         THEN /\ mem' = [a \in 1 .. FlashSize |->
                           IF a \in to + 1 .. to + n THEN block[a - to] ELSE mem[a]]
              /\ seq' = seq + 1
              /\ UNCHANGED todo
         ELSE todo' = Tail(todo) /\ seq' = NotBegun /\ UNCHANGED mem
  BY Zenon DEF WriteBlock
<1>2. Laid(Flashing) /\ Writing(Flashing, todo, seq, mem, old)
  BY <1>1, Zenon DEF WriteInv
<1>3. file \in File /\ file.addr + Len(file.data) <= FlashSize
  BY <1>1, <1>2, CurrentFile
<1>4. seq \in Nat /\ Right(mem, file, first)
  <2>1. seq \in Nat \cup {NotBegun} /\ Right(mem, file, seq * BlockSize)
    BY <1>1, <1>2, Zenon DEF Writing
  <2> QED  BY <2>1, <1>1
<1>5. /\ file.addr \in Nat /\ file.data \in Seq(Byte) /\ Len(file.data) \in Nat
      /\ b \in Nat \ {0} /\ FlashSize \in Nat
  BY <1>3, FileParts, ImageAssumption
<1>6. first \in Nat
  BY <1>4, <1>5
<1>7. seq + 1 \in Nat /\ (seq + 1) * b = first + b
  BY <1>4, <1>5
<1>8. CASE n > 0
  <2>1. /\ mem' = [a \in 1 .. FlashSize |->
                     IF a \in to + 1 .. to + n THEN block[a - to] ELSE mem[a]]
        /\ seq' = seq + 1 /\ todo' = todo
    BY <1>1, <1>8
  <2>2. DOMAIN mem' = 1 .. FlashSize
    BY <2>1, Zenon
  <2> HIDE DEF file, first, b
  <2>3. n \in Nat /\ first + n <= Len(file.data) /\ to \in Nat
    BY <1>5, <1>6, <1>8
  <2>4. chunk \in Seq(Byte) /\ Len(chunk) = n /\ \A j \in 1 .. n : chunk[j] = file.data[first + j]
    <3> DEFINE s == file.data
               c == SubSeq(s, first + 1, first + n)
    <3> HIDE DEF n, s, to
    <3>1. s \in Seq(Byte) /\ Len(s) \in Nat /\ n \in Nat /\ first + n <= Len(s)
      BY <1>5, <2>3 DEF s
    <3>2. c \in Seq(Byte) /\ Len(c) = n
      BY <3>1, <1>6
    <3>3. \A j \in 1 .. n : c[j] = s[first + j]
      BY <3>1, <1>6
    <3> QED  BY <3>2, <3>3 DEF s
  <2>5. \A o \in 0 .. Len(file.data) - 1 : o < first + b => o < first \/ o - first + 1 \in 1 .. n
    BY <1>5, <1>6
  <2> HIDE DEF n, chunk, block
  <2>6. OnlyIn(file, mem, mem')
    <3> SUFFICES ASSUME NEW a \in 0 .. FlashSize - 1, a \notin Blocks(file)
                 PROVE  mem'[a + 1] = mem[a + 1]
      BY Zenon DEF OnlyIn
    <3>1. a + 1 \in 1 .. FlashSize
      BY <1>5
    <3>2. a + 1 \notin to + 1 .. to + n
      <4> SUFFICES ASSUME a + 1 \in to + 1 .. to + n PROVE FALSE
        OBVIOUS
      <4> DEFINE o == a - file.addr
      <4>1. o \in 0 .. Len(file.data) - 1 /\ file.addr + o = a
        <5> DEFINE at == file.addr
                   l  == Len(file.data)
        <5>1. at \in Nat /\ l \in Nat /\ a \in Int /\ a + 1 \in at + first + 1 .. at + first + n
          BY <1>5
        <5>2. n \in Nat /\ first + n <= l
          BY <2>3
        <5> HIDE DEF at, l
        <5>3. a - at \in 0 .. l - 1 /\ at + (a - at) = a
          BY <5>1, <5>2, <1>6
        <5> QED  BY <5>3 DEF at, l
      <4> HIDE DEF o
      <4>2. file.addr + o \in Blocks(file)
        BY <1>3, <4>1, ByteAddress
      <4> QED  BY <4>1, <4>2
    <3> HIDE DEF to
    <3> QED  BY <2>1, <3>1, <3>2, Zenon
  <2>7. Right(mem', file, (seq + 1) * b)
    <3> SUFFICES ASSUME NEW o \in 0 .. Len(file.data) - 1, o < (seq + 1) * b
                 PROVE  mem'[file.addr + o + 1] = Final(file, o)
      BY Zenon DEF Right
    <3> DEFINE x == file.addr + o + 1
    <3>1. x \in 1 .. FlashSize /\ o < first + b /\ o \in Nat
      BY <1>3, <1>5, <1>7
    <3>2. CASE o < first
      <4>1. x \notin to + 1 .. to + n
        BY <1>5, <1>6, <2>3, <3>2, SMTT(60)
      <4>2. mem[x] = Final(file, o)
        BY <1>4, <3>2, Zenon DEF Right
      <4> HIDE DEF x, to
      <4>3. mem'[x] = mem[x]
        BY <2>1, <3>1, <4>1, Zenon
      <4> QED  BY <4>2, <4>3 DEF x
    <3>3. CASE ~(o < first)
      <4> DEFINE j == o - first + 1
      <4>1. j \in 1 .. n /\ o = first + j - 1 /\ first + j = o + 1
        <5>1. j \in 1 .. n
          BY <2>5, <3>1, <3>3
        <5> QED  BY <5>1, <1>6, <3>1
      <4>2. x - to = j /\ x \in to + 1 .. to + n
        <5> DEFINE at == file.addr
        <5>1. at \in Nat /\ x = at + o + 1 /\ to = at + first
          BY <1>5
        <5> HIDE DEF at, x, to, j
        <5>2. x = to + j /\ j \in 1 .. n
          BY <5>1, <4>1, <1>6, <3>1
        <5>3. to \in Nat /\ n \in Nat
          BY <2>3
        <5> QED  BY <5>2, <5>3
      <4> HIDE DEF x, to, j
      <4>3. mem'[x] = block[j]
        BY <2>1, <3>1, <4>2, Zenon
      <4>4. o = seq * BlockSize + j - 1
        BY <4>1 DEF first, b
      <4>5. chunk[j] = file.data[o + 1]
        BY <2>4, <4>1
      <4>6. block[j] = Final(file, o)
        BY <1>3, <1>4, <2>3, <2>4, <3>1, <4>1, <4>4, <4>5, PatchedBlock DEF block
      <4> QED  BY <4>3, <4>6 DEF x
    <3> QED  BY <3>2, <3>3
  <2>8. Writing(Flashing, todo, seq + 1, mem', old)
    BY <1>1, <1>2, <1>7, <2>6, <2>7, CurrentWritten DEF file, b
  <2> QED  BY <1>1, <2>1, <2>2, <2>8, WritingWay
<1>9. CASE ~(n > 0)
  <2>1. todo' = Tail(todo) /\ seq' = NotBegun /\ mem' = mem
    BY <1>1, <1>9
  <2>2. Len(file.data) <= seq * BlockSize
    <3> HIDE DEF file, first, b
    <3>1. Len(file.data) <= first
      BY <1>5, <1>6, <1>9
    <3> QED  BY <3>1 DEF first, b
  <2>3. Writing(Flashing, Tail(todo), NotBegun, mem, old)
    BY <1>2, <1>4, <2>2, CurrentDone
  <2>4. DOMAIN mem' = 1 .. FlashSize
    BY <2>1 DEF WayInv
  <2> QED  BY <1>1, <2>1, <2>3, <2>4, WritingWay
<1> QED  BY <1>8, <1>9

\* At the end nothing is left to write.
LEMMA FlashEndWay ==
    ASSUME WayInv, WriteInv, FlashEnd
    PROVE  WayInv' /\ WriteInv'
<1>1. /\ stage = "write" /\ todo = << >> /\ stage' = "boot"
      /\ UNCHANGED <<args, dir, list, chip, hexed, old, todo, seq, params, mem>>
  BY DEF FlashEnd, hexvars, setting
<1>2. Flashing' = Flashing
  BY <1>1 DEF Flashing
<1>3. Laid(Flashing) /\ StandFor(Flashing, args) /\ Writing(Flashing, todo, seq, mem, old)
  BY <1>1, Zenon DEF WriteInv
<1>4. Laid(Flashing') /\ StandFor(Flashing', args') /\ Writing(Flashing', todo', seq', mem', old')
  BY <1>1, <1>2, <1>3
<1>5. Laid(Flashing)' /\ StandFor(Flashing, args)' /\ Writing(Flashing, todo, seq, mem, old)'
  BY <1>1, <1>4, StandForKept, WritingKept
<1>6. WriteInv'
  BY <1>1, <1>5 DEF WriteInv
<1>7. WayInv'
  BY <1>1 DEF WayInv
<1> QED  BY <1>6, <1>7

\* Nothing happens.
LEMMA StutterWay ==
    ASSUME WayInv, WriteInv, UNCHANGED vars
    PROVE  WayInv' /\ WriteInv'
<1>1. UNCHANGED <<stage, args, dir, list, chip, hexed, old, todo, seq, params, mem>>
  BY DEF vars, hexvars
<1>2. Flashing' = Flashing
  BY <1>1 DEF Flashing
<1>3. WayInv'
  BY <1>1 DEF WayInv
<1>4. ASSUME stage \in {"write", "boot"}
      PROVE  Laid(Flashing)' /\ StandFor(Flashing, args)' /\ Writing(Flashing, todo, seq, mem, old)'
  <2>1. Laid(Flashing) /\ StandFor(Flashing, args) /\ Writing(Flashing, todo, seq, mem, old)
    BY <1>4, Zenon DEF WriteInv
  <2>2. Laid(Flashing') /\ StandFor(Flashing', args') /\ Writing(Flashing', todo', seq', mem', old')
    BY <1>1, <1>2, <2>1
  <2> QED  BY <1>1, <2>2, StandForKept, WritingKept
<1>5. WriteInv'
  BY <1>1, <1>4 DEF WriteInv
<1> QED  BY <1>3, <1>5

-----------------------------------------------------------------------------
\* The invariant holds in every state.
LEMMA FlashInductive == ASSUME Blockwise PROVE Spec => [](IInv /\ WayInv /\ WriteInv)
<1>1. Linewise
  BY DEF Blockwise
<1>2. Spec => []IInv
  BY <1>1, Inductive
<1>3. ASSUME IInv, WayInv, WriteInv, [Next]_vars PROVE WayInv' /\ WriteInv'
  <2>1. CASE Mkbin
    BY <1>3, <2>1, MkbinWay
  <2>2. CASE Mkhex \/ Unhex
    BY <1>3, <2>2, HexWay
  <2>3. CASE FlashBegin
    BY <1>3, <2>3, FlashBeginWay
  <2>4. CASE EraseFile
    BY <1>3, <2>4, EraseFileWay
  <2>5. CASE WriteBlock
    BY <1>3, <2>5, WriteBlockWay DEF Blockwise
  <2>6. CASE FlashEnd
    BY <1>3, <2>6, FlashEndWay
  <2>7. CASE UNCHANGED vars
    BY <1>3, <2>7, StutterWay
  <2> QED  BY <1>3, <2>1, <2>2, <2>3, <2>4, <2>5, <2>6, <2>7 DEF Next
<1> QED  BY <1>2, <1>3, InitFlashInv, PTL DEF Spec

\* Files that are put at whole blocks in the flash and do not overlap are in flash byte
\* by byte in the end, whether they went through a .hex file or not, and the rest of
\* the flash is what it was.
THEOREM BlockwiseFlashed == ASSUME Blockwise PROVE Spec => []FlashedBytes
BY FlashInductive, InvImpliesFlashed, PTL

-----------------------------------------------------------------------------
\* Types

\* The parts of the type invariant, and that the flash parameters are bytes.
LineType(l) ==
    /\ Len(l.data) <= LineLen /\ l.addr \in 0 .. Bank - 1
    /\ l.type = "data" => l.data # << >>
PlaceType ==
    /\ stage \in {"mkbin", "mkhex", "unhex", "flash", "write", "boot"}
    /\ mk.file \in 1 .. Len(args) + 1
    /\ mk.file <= Len(args) => mk.pos \in 0 .. Len(args[mk.file].data)
HexType == \A n \in DOMAIN hex : LineType(hex[n])
DirType == DOMAIN dir = Range(list)
FlashType ==
    /\ seq \in Nat \cup {NotBegun} /\ params \in Byte \X Byte
    /\ mem \in Seq(Byte) /\ Len(mem) = FlashSize
TypeInv == PlaceType /\ HexType /\ DirType /\ FlashType

\* Together they are the type invariant.
LEMMA TypeInvImpliesTypeOK == TypeInv => TypeOK
BY Zenon DEF TypeInv, PlaceType, HexType, LineType, DirType, FlashType, TypeOK

\* What is read from flash is a byte.
LEMMA AtByte ==
    ASSUME NEW flash \in Seq(Byte), NEW a
    PROVE  At(flash, a) \in Byte
<1>1. 255 \in Byte
  BY DEF Byte
<1> QED  BY <1>1 DEF At

\* A memory of bytes.
LEMMA MemoryType ==
    ASSUME NEW flash, flash = [a \in 1 .. FlashSize |-> flash[a]],
           \A a \in 1 .. FlashSize : flash[a] \in Byte
    PROVE  flash \in Seq(Byte) /\ Len(flash) = FlashSize
<1>1. FlashSize \in Nat
  BY ImageAssumption
<1> QED  BY <1>1

\* The data files are files.
LEMMA DataFilesType ==
    ASSUME Linewise, elf \in Elfs, chip \in Chips, args \in DataFiles
    PROVE  args \in Seq(File)
<1>1. args \in Seq([addr : Nat, data : Seq(Byte)])
  BY Zenon DEF Linewise
<1> QED  BY <1>1, Zenon DEF File

\* Types hold at the start.
LEMMA InitTypes == ASSUME Linewise, Init PROVE TypeInv
<1>1. FlashType
  <2>1. PICK header \in OldHeaders :
          mem = [a \in 1 .. FlashSize |-> At(header, a - BootloaderAt[chip])]
    BY DEF Init
  <2>2. header \in Seq(Byte)
    BY ImageAssumption
  <2>3. \A a \in 1 .. FlashSize : mem[a] \in Byte
    BY <2>1, <2>2, AtByte
  <2>4. mem = [a \in 1 .. FlashSize |-> mem[a]]
    BY <2>1
  <2>5. mem \in Seq(Byte) /\ Len(mem) = FlashSize
    BY <2>3, <2>4, MemoryType
  <2>6. seq = NotBegun /\ params = <<0, 0>> /\ 0 \in Byte
    BY DEF Init, Byte
  <2> QED  BY <2>5, <2>6 DEF FlashType
<1>2. PlaceType
  <2>1. args \in Seq(File)
    BY DataFilesType DEF Init
  <2>2. \A n \in 1 .. Len(args) : args[n] \in File
    BY <2>1
  <2>3. stage = "mkbin" /\ mk.file = 1 /\ mk.pos = 0 /\ Len(args) \in Nat
    BY <2>1 DEF Init, mkStart
  <2>4. 1 <= Len(args) => 0 \in 0 .. Len(args[1].data)
    BY <2>2, <2>3, FileParts
  <2>5. 1 \in 1 .. Len(args) + 1
    BY <2>3
  <2> QED  BY <2>3, <2>4, <2>5 DEF PlaceType
<1>3. HexType /\ DirType
  <2>1. hex = << >> /\ dir = << >> /\ list = << >>
    BY DEF Init
  <2>2. DOMAIN dir = Range(list) /\ DOMAIN hex = {}
    BY <2>1 DEF Range
  <2> QED  BY <2>2, Zenon DEF HexType, DirType
<1> QED  BY <1>1, <1>2, <1>3 DEF TypeInv

\* A line more.
LEMMA HexGrows ==
    ASSUME NEW h \in Seq(Line), NEW t \in Seq(Line),
           \A n \in DOMAIN h : LineType(h[n]), \A n \in DOMAIN t : LineType(t[n])
    PROVE  \A n \in DOMAIN (h \o t) : LineType((h \o t)[n])
<1> DEFINE all == h \o t
<1>1. /\ DOMAIN all = 1 .. Len(h) + Len(t) /\ DOMAIN h = 1 .. Len(h) /\ DOMAIN t = 1 .. Len(t)
      /\ Len(h) \in Nat /\ Len(t) \in Nat
  OBVIOUS
<1>2. \A n \in 1 .. Len(h) + Len(t) :
        IF n <= Len(h) THEN n \in 1 .. Len(h) /\ all[n] = h[n]
        ELSE n - Len(h) \in 1 .. Len(t) /\ all[n] = t[n - Len(h)]
  OBVIOUS
<1> HIDE DEF all
<1>3. \A n \in DOMAIN all : LineType(all[n])
  BY <1>1, <1>2, Zenon
<1> QED  BY <1>3 DEF all

\* One line, or none.
LEMMA AtMostALine ==
    ASSUME NEW l, NEW s, s = << >> \/ (s = <<l>> /\ l \in Line /\ LineType(l))
    PROVE  s \in Seq(Line) /\ \A n \in DOMAIN s : LineType(s[n])
<1>1. CASE s = << >>
  BY <1>1
<1>2. CASE s = <<l>> /\ l \in Line /\ LineType(l)
  <2>1. s \in Seq(Line) /\ DOMAIN s = {1} /\ s[1] = l
    BY <1>2
  <2> QED  BY <1>2, <2>1, Zenon
<1> QED  BY <1>1, <1>2

\* Files end below 2^32.
LEMMA LowAddress ==
    ASSUME NEW a \in Nat, a <= FlashSize
    PROVE  a \div Bank \in 0 .. Bank - 1 /\ a % Bank \in 0 .. Bank - 1
<1>1. Bank \in Nat \ {0} /\ a < Bank * Bank
  BY HexAssumption, ImageAssumption
<1>2. a \div Bank \in Nat /\ a % Bank \in 0 .. Bank - 1 /\ a = (a \div Bank) * Bank + (a % Bank)
  BY <1>1, DivModFacts
<1> DEFINE q == a \div Bank
           b == Bank
<1>3. q \in Nat /\ b \in Nat \ {0} /\ q * b <= a /\ a < b * b
  BY <1>1, <1>2
<1> HIDE DEF q, b
<1>4. q < b
  <2> SUFFICES ASSUME b <= q PROVE FALSE
    BY <1>3
  <2>1. b * b <= q * b
    BY <1>3
  <2> QED  BY <2>1, <1>3
<1> QED  BY <1>2, <1>3, <1>4 DEF q, b

\* mkbin and its image.
LEMMA MkbinTypes ==
    ASSUME IInv, IInv', TypeInv, Mkbin
    PROVE  TypeInv'
<1>1. /\ stage = "mkbin" /\ stage' \in {"mkhex", "flash"}
      /\ UNCHANGED <<mk, hex, dir, list, seq, params, mem>>
  BY DEF Mkbin
<1>2. args' \in Seq(File) /\ mk = mkStart
  BY <1>1, Zenon DEF IInv, SettingInv, FreshInv, Fits
<1>3. PlaceType'
  <2>1. \A n \in 1 .. Len(args') : args'[n] \in File
    BY <1>2
  <2>2. mk'.file = 1 /\ mk'.pos = 0 /\ Len(args') \in Nat
    BY <1>1, <1>2 DEF mkStart
  <2>3. 1 <= Len(args') => 0 \in 0 .. Len(args'[1].data)
    BY <2>1, <2>2, FileParts
  <2>4. 1 \in 1 .. Len(args') + 1
    BY <2>2
  <2> QED  BY <1>1, <2>2, <2>3, <2>4 DEF PlaceType
<1>4. HexType' /\ DirType' /\ FlashType'
  BY <1>1 DEF TypeInv, HexType, DirType, FlashType
<1> QED  BY <1>3, <1>4 DEF TypeInv

\* The place in mkhex's files is one of them, or behind them.
LEMMA MkhexPlace ==
    ASSUME NEW files \in Seq(File), NEW m, InFile(files, m)
    PROVE  /\ m.file \in 1 .. Len(files) + 1
           /\ m.file <= Len(files) => m.pos \in 0 .. Len(files[m.file].data)
<1>1. /\ m.file \in Nat \ {0} /\ m.pos \in Nat /\ m.file <= Len(files) + 1
      /\ m.file <= Len(files) => m.pos <= Len(files[m.file].data)
  BY DEF InFile
<1>2. Len(files) \in Nat
  OBVIOUS
<1>3. m.file <= Len(files) => files[m.file] \in File
  BY <1>1, <1>2
<1>4. m.file <= Len(files) => Len(files[m.file].data) \in Nat
  BY <1>3, FileParts
<1> QED  BY <1>1, <1>2, <1>4

\* mkhex and its lines.
LEMMA MkhexTypes ==
    ASSUME IInv, IInv', WayInv, TypeInv, Mkhex
    PROVE  TypeInv'
<1>1. /\ stage = "mkhex" /\ stage' \in {"mkhex", "unhex"}
      /\ UNCHANGED <<args, dir, list, seq, params, mem>>
  BY DEF Mkhex, MkhexOpen, MkhexLine, MkhexEnd
<1>2. /\ args \in Seq(File) /\ InFile(args, mk) /\ hex \in Seq(Line) /\ Aligned(args)
  BY <1>1, Zenon DEF IInv, SettingInv, MkhexInv, Fits, WayInv
<1>3. PlaceType'
  <2>1. CASE stage' = "mkhex"
    <3>1. InFile(args', mk') /\ args' \in Seq(File)
      BY <2>1, <1>1, <1>2, Zenon DEF IInv, MkhexInv
    <3>2. /\ mk'.file \in 1 .. Len(args') + 1
          /\ mk'.file <= Len(args') => mk'.pos \in 0 .. Len(args'[mk'.file].data)
      BY <3>1, MkhexPlace
    <3> QED  BY <3>2, <2>1 DEF PlaceType
  <2>2. CASE stage' = "unhex"
    <3>1. mk' = mk
      BY <2>2 DEF Mkhex, MkhexOpen, MkhexLine, MkhexEnd
    <3> QED  BY <3>1, <2>2, <1>1 DEF TypeInv, PlaceType
  <2> QED  BY <2>1, <2>2, <1>1
<1>4. \A a \in Nat : a <= FlashSize => LineType(HighLine(a)) /\ HighLine(a) \in Line
  <2> SUFFICES ASSUME NEW a \in Nat, a <= FlashSize
               PROVE  LineType(HighLine(a)) /\ HighLine(a) \in Line
    OBVIOUS
  <2>1. a \div Bank \in 0 .. Bank - 1
    BY LowAddress
  <2>2. Len(<< >>) <= LineLen /\ << >> \in Seq(Byte)
    BY HexAssumption
  <2>3. a \div Bank \in Nat
    BY <2>1, HexAssumption
  <2>4. HighLine(a) \in Line
    BY <2>2, <2>3 DEF HighLine, Line
  <2> QED  BY <2>1, <2>2, <2>4 DEF HighLine, LineType
<1>5. PICK t \in Seq(Line) : hex' = hex \o t /\ \A n \in DOMAIN t : LineType(t[n])
  <2>1. CASE MkhexOpen
    <3>1. mk.file <= Len(args) /\ hex' = Append(hex, HighLine(args[mk.file].addr))
      BY <2>1 DEF MkhexOpen
    <3> DEFINE l == HighLine(args[mk.file].addr)
    <3>2. LineType(l) /\ l \in Line
      <4>1. mk.file \in 1 .. Len(args)
        BY <3>1, <1>2 DEF InFile
      <4>2. args[mk.file] \in File
            /\ args[mk.file].addr + Len(args[mk.file].data) <= FlashSize
        BY <4>1, <1>2 DEF Aligned
      <4>3. args[mk.file].addr \in Nat /\ Len(args[mk.file].data) \in Nat
        BY <4>2, FileParts
      <4>4. args[mk.file].addr <= FlashSize
        BY <4>2, <4>3, ImageAssumption
      <4> QED  BY <4>3, <4>4, <1>4
    <3> HIDE DEF l
    <3>3. hex' = hex \o <<l>>
      BY <3>1, <3>2, <1>2 DEF l
    <3>4. <<l>> \in Seq(Line) /\ \A n \in DOMAIN <<l>> : LineType(<<l>>[n])
      BY <3>2
    <3> QED  BY <3>3, <3>4
  <2>2. CASE MkhexLine
    <3> DEFINE file == args[mk.file]
               left == Len(file.data) - mk.pos
               n    == IF left < LineLen THEN left ELSE LineLen
               addr == file.addr + mk.pos
               chunk == SubSeq(file.data, mk.pos + 1, mk.pos + n)
    <3>1. mk.file <= Len(args) /\ hex' = (hex \o BankLine(addr)) \o DataLines(addr, chunk)
      BY <2>2, Zenon DEF MkhexLine
    <3>2. mk.file \in 1 .. Len(args) /\ mk.pos \in Nat /\ mk.pos <= Len(file.data)
      <4>1. InFile(args, mk) /\ args \in Seq(File)
        BY <1>2, Zenon
      <4>2. /\ mk.file \in 1 .. Len(args) + 1 /\ Len(args) \in Nat
            /\ mk.file <= Len(args) => mk.pos \in 0 .. Len(file.data)
        BY <4>1, MkhexPlace, LenProperties
      <4>3. mk.pos \in 0 .. Len(file.data)
        BY <3>1, <4>2, Zenon
      <4> DEFINE len == Len(file.data)
                 last == Len(args)
      <4> HIDE DEF len, last
      <4>4. mk.file \in 1 .. last
        <5>1. mk.file \in 1 .. last + 1 /\ last \in Nat /\ mk.file <= last
          BY <3>1, <4>2, Zenon DEF last
        <5> QED  BY <5>1
      <4>5. mk.pos \in Nat /\ mk.pos <= len
        <5>1. mk.pos \in 0 .. len
          BY <4>3, Zenon DEF len
        <5> QED  BY <5>1
      <4> QED  BY <4>4, <4>5 DEF len, last
    <3>3. file \in File /\ file.addr + Len(file.data) <= FlashSize
      BY <3>2, <1>2 DEF Aligned
    <3>4. file.addr \in Nat /\ file.data \in Seq(Byte) /\ Len(file.data) \in Nat
      BY <3>3, FileParts
    <3>5. addr \in Nat /\ addr <= FlashSize
      <4> DEFINE at == file.addr
                 len == Len(file.data)
      <4>1. at \in Nat /\ len \in Nat /\ at + len <= FlashSize /\ mk.pos <= len
        BY <3>2, <3>3, <3>4
      <4> HIDE DEF at, len
      <4>2. at + mk.pos \in Nat /\ at + mk.pos <= FlashSize
        BY <4>1, <3>2, ImageAssumption
      <4> QED  BY <4>2 DEF at
    <3>6. chunk \in Seq(Byte) /\ Len(chunk) <= LineLen
      <4> DEFINE s == file.data
                 p == mk.pos
      <4>1. s \in Seq(Byte) /\ p \in Nat /\ p <= Len(s) /\ Len(s) \in Nat
        BY <3>2, <3>4
      <4>2. n \in Nat /\ p + n <= Len(s) /\ n <= LineLen
        BY <4>1, HexAssumption
      <4> HIDE DEF n, s, p, file
      <4>3. SubSeq(s, p + 1, p + n) \in Seq(Byte) /\ Len(SubSeq(s, p + 1, p + n)) = n
        BY <4>1, <4>2
      <4> QED  BY <4>2, <4>3 DEF s, p
    <3> HIDE DEF addr, chunk, file, n
    <3>7. BankLine(addr) \in Seq(Line)
          /\ \A k \in DOMAIN BankLine(addr) : LineType(BankLine(addr)[k])
      <4>1. HighLine(addr) \in Line /\ LineType(HighLine(addr))
        BY <3>5, <1>4
      <4>2. BankLine(addr) = << >> \/ BankLine(addr) = <<HighLine(addr)>>
        BY Zenon DEF BankLine
      <4> QED  BY <4>1, <4>2, AtMostALine, Zenon
    <3>8. DataLines(addr, chunk) \in Seq(Line)
          /\ \A k \in DOMAIN DataLines(addr, chunk) : LineType(DataLines(addr, chunk)[k])
      <4> DEFINE l == DataLine(addr, chunk)
      <4>1. addr % Bank \in 0 .. Bank - 1 /\ addr % Bank \in Nat
        BY <3>5, LowAddress, HexAssumption
      <4>2. l \in Line
        BY <3>6, <4>1 DEF DataLine, Line
      <4>3. chunk # << >> => LineType(l)
        BY <3>6, <4>1 DEF DataLine, LineType
      <4> HIDE DEF l
      <4>4. DataLines(addr, chunk) = << >> \/ (chunk # << >> /\ DataLines(addr, chunk) = <<l>>)
        BY Zenon DEF DataLines, l
      <4> QED  BY <4>2, <4>3, <4>4, AtMostALine, Zenon
    <3> DEFINE b == BankLine(addr)
               d == DataLines(addr, chunk)
    <3>9. b \in Seq(Line) /\ d \in Seq(Line) /\ hex' = hex \o (b \o d)
      <4>1. b \in Seq(Line) /\ d \in Seq(Line) /\ hex' = (hex \o b) \o d
        BY <3>1, <3>7, <3>8
      <4> HIDE DEF b, d
      <4> QED  BY <4>1, <1>2
    <3>10. \A k \in DOMAIN (b \o d) : LineType((b \o d)[k])
      BY <3>7, <3>8, HexGrows
    <3>11. b \o d \in Seq(Line)
      <4> HIDE DEF b, d
      <4> QED  BY <3>9
    <3> QED  BY <3>9, <3>10, <3>11
  <2>3. CASE MkhexEnd
    <3>1. hex' = Append(hex, EndLine)
      BY <2>3 DEF MkhexEnd
    <3>2. LineType(EndLine) /\ EndLine \in Line
      <4>1. Len(<< >>) <= LineLen /\ << >> \in Seq(Byte) /\ 0 \in 0 .. Bank - 1
        BY HexAssumption
      <4> QED  BY <4>1 DEF EndLine, LineType, Line
    <3>3. hex' = hex \o <<EndLine>>
      BY <3>1, <3>2, <1>2
    <3>4. <<EndLine>> \in Seq(Line) /\ \A n \in DOMAIN <<EndLine>> : LineType(<<EndLine>>[n])
      BY <3>2
    <3> QED  BY <3>3, <3>4
  <2> QED  BY <2>1, <2>2, <2>3 DEF Mkhex
<1>6. HexType'
  <2>1. \A n \in DOMAIN hex : LineType(hex[n])
    BY Zenon DEF TypeInv, HexType
  <2>2. \A n \in DOMAIN (hex \o t) : LineType((hex \o t)[n])
    BY <1>2, <1>5, <2>1, HexGrows
  <2> QED  BY <1>5, <2>2, Zenon DEF HexType
<1>7. DirType' /\ FlashType'
  BY <1>1 DEF TypeInv, DirType, FlashType
<1> QED  BY <1>3, <1>6, <1>7 DEF TypeInv

\* unhex and the lines it has not read.
LEMMA UnhexTypes ==
    ASSUME IInv, IInv', TypeInv, Unhex
    PROVE  TypeInv'
<1>1. /\ stage = "unhex" /\ stage' = "unhex" /\ hex # << >> /\ hex' = Tail(hex)
      /\ UNCHANGED <<args, mk, seq, params, mem>>
  BY DEF Unhex, UnhexData, UnhexOther
<1>2. hex \in Seq(Line)
  BY <1>1, Zenon DEF IInv, UnhexInv
<1>3. HexType'
  <2>1. \A n \in DOMAIN Tail(hex) : n + 1 \in DOMAIN hex /\ Tail(hex)[n] = hex[n + 1]
    BY <1>1, <1>2
  <2>2. \A n \in DOMAIN Tail(hex) : LineType(Tail(hex)[n])
    BY <2>1, Zenon DEF TypeInv, HexType
  <2> QED  BY <1>1, <2>2, Zenon DEF HexType
<1>4. DirType'
  BY <1>1, Zenon DEF IInv, UnhexInv, Reading, DirType
<1>5. PlaceType' /\ FlashType'
  BY <1>1 DEF TypeInv, PlaceType, FlashType
<1> QED  BY <1>3, <1>4, <1>5 DEF TypeInv

\* The flash parameters are bytes.
LEMMA FlashBeginTypes ==
    ASSUME TypeInv, FlashBegin, fpar \in Fpars
    PROVE  TypeInv'
<1>1. /\ stage' = "write" /\ params' = FlashParams
      /\ UNCHANGED <<args, mk, hex, dir, list, seq, mem>>
  BY Zenon DEF FlashBegin, hexvars
<1>2. mem \in Seq(Byte)
  BY DEF TypeInv, FlashType
<1>3. FlashParams \in Byte \X Byte
  <2> DEFINE header == Read(mem, BootloaderAt[chip], 4)
  <2>1. fpar # << >> => fpar \in Byte \X Byte
    BY ImageAssumption
  <2>2. header[3] \in Byte /\ header[4] \in Byte
    BY <1>2, AtByte DEF Read
  <2>3. 0 \in Byte
    BY DEF Byte
  <2>4. FlashParams = IF fpar # << >> THEN fpar
                      ELSE IF unread THEN <<0, 0>>
                      ELSE IF header[1] = 233 THEN <<header[3], header[4]>> ELSE <<0, 0>>
    BY Zenon DEF FlashParams
  <2> HIDE DEF header
  <2> QED  BY <2>1, <2>2, <2>3, <2>4
<1>4. FlashType'
  BY <1>1, <1>3 DEF TypeInv, FlashType
<1>5. PlaceType' /\ HexType' /\ DirType'
  BY <1>1 DEF TypeInv, PlaceType, HexType, DirType
<1> QED  BY <1>4, <1>5 DEF TypeInv

\* What is left alone keeps its type.
LEMMA OthersTypes ==
    ASSUME TypeInv, UNCHANGED hexvars,
           stage' = stage \/ stage' = "boot", FlashType'
    PROVE  TypeInv'
<1>1. UNCHANGED <<args, mk, hex, dir, list>>
  BY DEF hexvars
<1>2. PlaceType' /\ HexType' /\ DirType'
  BY <1>1 DEF TypeInv, PlaceType, HexType, DirType
<1> QED  BY <1>2 DEF TypeInv

\* Erased flash holds bytes.
LEMMA EraseFileTypes ==
    ASSUME TypeInv, EraseFile
    PROVE  TypeInv'
<1> DEFINE file == Head(todo)
<1>1. /\ mem' = [a \in 1 .. FlashSize |-> IF a - 1 \in Blocks(file) THEN 255 ELSE mem[a]]
      /\ seq' = 0 /\ UNCHANGED <<hexvars, stage, params>>
  BY Zenon DEF EraseFile, Blocks, align_to
<1>2. mem \in Seq(Byte) /\ Len(mem) = FlashSize /\ params \in Byte \X Byte
  BY DEF TypeInv, FlashType
<1>3. 255 \in Byte /\ \A a \in 1 .. FlashSize : mem[a] \in Byte
  <2>1. 255 \in Byte
    BY DEF Byte
  <2> QED  BY <1>2, <2>1
<1> HIDE DEF file
<1>4. mem' = [a \in 1 .. FlashSize |-> mem'[a]] /\ \A a \in 1 .. FlashSize : mem'[a] \in Byte
  BY <1>1, <1>3
<1>5. mem' \in Seq(Byte) /\ Len(mem') = FlashSize
  BY <1>4, MemoryType
<1>6. FlashType'
  BY <1>1, <1>2, <1>5 DEF FlashType
<1> QED  BY <1>1, <1>6, OthersTypes

\* So do the blocks that are written.
LEMMA WriteBlockTypes ==
    ASSUME WriteInv, TypeInv, WriteBlock
    PROVE  TypeInv'
<1> DEFINE file  == Head(todo)
           first == seq * BlockSize
           left  == Len(file.data) - first
           n     == IF left < BlockSize THEN left ELSE BlockSize
           to    == file.addr + first
           chunk == SubSeq(file.data, first + 1, first + n)
           block == Patched(file, chunk)
<1>1. /\ stage = "write" /\ todo # << >> /\ seq # NotBegun
      /\ UNCHANGED <<hexvars, stage, params>>
      /\ IF n > 0
         THEN /\ mem' = [a \in 1 .. FlashSize |->
                           IF a \in to + 1 .. to + n THEN block[a - to] ELSE mem[a]]
              /\ seq' = seq + 1
         ELSE seq' = NotBegun /\ UNCHANGED mem
  BY Zenon DEF WriteBlock
<1>2. /\ mem \in Seq(Byte) /\ Len(mem) = FlashSize /\ params \in Byte \X Byte
      /\ seq \in Nat \cup {NotBegun}
  BY DEF TypeInv, FlashType
<1>3. file \in File
  <2>1. Laid(Flashing) /\ Writing(Flashing, todo, seq, mem, old)
    BY <1>1, Zenon DEF WriteInv
  <2> QED  BY <1>1, <2>1, CurrentFile
<1>4. /\ file.addr \in Nat /\ file.data \in Seq(Byte) /\ Len(file.data) \in Nat
      /\ seq \in Nat /\ first \in Nat /\ BlockSize \in Nat
  BY <1>1, <1>2, <1>3, FileParts, ImageAssumption
<1>5. CASE n > 0
  <2>1. /\ mem' = [a \in 1 .. FlashSize |->
                     IF a \in to + 1 .. to + n THEN block[a - to] ELSE mem[a]]
        /\ seq' = seq + 1
    BY <1>1, <1>5
  <2>2. chunk \in Seq(Byte) /\ Len(chunk) = n /\ n \in Nat
    <3> DEFINE s == file.data
    <3>1. s \in Seq(Byte) /\ Len(s) \in Nat
      BY <1>4
    <3>2. n \in Nat /\ first + n <= Len(s)
      <4> HIDE DEF file, first
      <4> QED  BY <1>4, <1>5
    <3> HIDE DEF n, s, first
    <3>3. SubSeq(s, first + 1, first + n) \in Seq(Byte) /\ Len(SubSeq(s, first + 1, first + n)) = n
      BY <1>4, <3>1, <3>2
    <3> QED  BY <3>2, <3>3 DEF s
  <2> HIDE DEF chunk, file, first, n
  <2>3. \A j \in 1 .. n : block[j] \in Byte
    <3>1. DOMAIN chunk = 1 .. n /\ \A j \in 1 .. n : chunk[j] \in Byte
      BY <2>2
    <3>2. params[1] \in Byte /\ params[2] \in Byte /\ 5 \in Byte
      BY <1>2 DEF Byte
    <3>3. \A j \in {3, 4} : params[j - 2] \in Byte
      BY <3>2
    <3>4. \A j \in 1 .. n : block[j] \in {chunk[j], 5} \cup {params[k - 2] : k \in {3, 4}}
      BY <3>1, Zenon DEF Patched
    <3> QED  BY <3>1, <3>2, <3>3, <3>4
  <2> HIDE DEF block
  <2>4. \A a \in to + 1 .. to + n : a - to \in 1 .. n
    <3>1. to \in Nat
      BY <1>4
    <3> HIDE DEF to
    <3> QED  BY <3>1, <2>2
  <2>5. \A a \in 1 .. FlashSize : mem[a] \in Byte
    BY <1>2
  <2> HIDE DEF to
  <2>6. mem' = [a \in 1 .. FlashSize |-> mem'[a]] /\ \A a \in 1 .. FlashSize : mem'[a] \in Byte
    BY <2>1, <2>3, <2>4, <2>5
  <2>7. mem' \in Seq(Byte) /\ Len(mem') = FlashSize
    BY <2>6, MemoryType
  <2>8. FlashType'
    BY <1>1, <1>2, <1>4, <2>1, <2>7 DEF FlashType
  <2> QED  BY <1>1, <2>8, OthersTypes
<1>6. CASE ~(n > 0)
  <2>1. seq' = NotBegun /\ mem' = mem
    BY <1>1, <1>6
  <2>2. FlashType'
    BY <1>1, <1>2, <2>1 DEF FlashType
  <2> QED  BY <1>1, <2>2, OthersTypes
<1> QED  BY <1>5, <1>6

\* What else may happen.
LEMMA RestTypes ==
    ASSUME TypeInv, FlashEnd \/ UNCHANGED vars
    PROVE  TypeInv'
<1>1. UNCHANGED <<hexvars, seq, params, mem>> /\ (stage' = stage \/ stage' = "boot")
  BY DEF FlashEnd, vars
<1>2. FlashType'
  BY <1>1 DEF TypeInv, FlashType
<1> QED  BY <1>1, <1>2, OthersTypes

\* Every variable keeps its type.
LEMMA TypesHold == ASSUME Blockwise PROVE Spec => []TypeInv
<1>1. Linewise
  BY DEF Blockwise
<1> DEFINE J == IInv /\ WayInv /\ WriteInv
           K == TypeInv /\ fpar \in Fpars
<1>2. Spec => []J
  BY FlashInductive
<1>3. Init => K
  BY <1>1, InitTypes DEF Init
<1>4. ASSUME J, J', K, [Next]_vars PROVE K'
  <2>1. TypeInv'
    <3>1. CASE Mkbin
      BY <1>4, <3>1, MkbinTypes
    <3>2. CASE Mkhex
      BY <1>4, <3>2, MkhexTypes
    <3>3. CASE Unhex
      BY <1>4, <3>3, UnhexTypes
    <3>4. CASE FlashBegin
      BY <1>4, <3>4, FlashBeginTypes
    <3>5. CASE EraseFile
      BY <1>4, <3>5, EraseFileTypes
    <3>6. CASE WriteBlock
      BY <1>4, <3>6, WriteBlockTypes
    <3>7. CASE FlashEnd \/ UNCHANGED vars
      BY <1>4, <3>7, RestTypes
    <3> QED  BY <1>4, <3>1, <3>2, <3>3, <3>4, <3>5, <3>6, <3>7 DEF Next
  <2>2. fpar' = fpar
    BY <1>4 DEF Next, Mkbin, Mkhex, Unhex, FlashBegin, EraseFile, WriteBlock, FlashEnd, vars, setting
  <2> QED  BY <1>4, <2>1, <2>2
<1>5. K => TypeInv
  OBVIOUS
<1> HIDE DEF J, K
<1> QED  BY <1>2, <1>3, <1>4, <1>5, PTL DEF Spec

\* Lines, banks and files are where they can be, and what mkbin, mkhex, unhex and flash
\* handle are bytes.
THEOREM TypeCorrect == ASSUME Blockwise PROVE Spec => []TypeOK
BY TypesHold, TypeInvImpliesTypeOK, PTL

-----------------------------------------------------------------------------
\* The image

\* The first data in lines belong at a: before them only a's high half is said, at least
\* once unless it holds already.
FirstAt(lines, upper, a) ==
    \E k \in 1 .. Len(lines) :
      /\ lines[k].type = "data" /\ lines[k].addr = a % Bank
      /\ \A m \in 1 .. k - 1 : lines[m] = HighLine(a)
      /\ k = 1 => upper = (a \div Bank) * Bank

\* mkhex has not read anything yet.
AtStart(lines, m, a) ==
    \/ lines = << >> /\ m = mkStart
    \/ lines = <<HighLine(a)>> /\ m = [mkStart EXCEPT !.begun = TRUE]

\* The image is the first file that mkbin leaves, the first one that unhex creates, and
\* what it is flashed with is what was wanted.
ImageInv ==
    LET at == BootloaderAt[chip] IN
    /\ stage # "mkbin" => args # << >> /\ args[1] = [addr |-> at, data |-> mkbin(elf)]
    /\ stage = "mkhex" => AtStart(hex, mk, at) \/ FirstAt(hex, un.upper, at)
    /\ stage = "mkhex" => un = unStart /\ list = << >>
    /\ stage = "unhex" => \/ list = << >> /\ un.out = NoFile /\ FirstAt(hex, un.upper, at)
                          \/ list # << >> /\ list[1] = at
    /\ stage \in {"write", "boot"} => params = WantedParams
    /\ stage \in {"write", "boot"} /\ hexed => 1 \in DOMAIN list /\ list[1] = at /\ dir[at] # << >>

\* Lines behind them do not change which data come first.
LEMMA FirstStays ==
    ASSUME NEW h \in Seq(Line), NEW t \in Seq(Line), NEW u, NEW a, FirstAt(h, u, a)
    PROVE  FirstAt(h \o t, u, a)
<1> DEFINE all == h \o t
<1>1. Len(h) \in Nat /\ Len(t) \in Nat /\ Len(all) = Len(h) + Len(t)
  BY ConcatProperties
<1>2. \A m \in 1 .. Len(h) : all[m] = h[m]
  OBVIOUS
<1> HIDE DEF all
<1>3. PICK k \in 1 .. Len(h) :
        /\ h[k].type = "data" /\ h[k].addr = a % Bank
        /\ \A m \in 1 .. k - 1 : h[m] = HighLine(a)
        /\ k = 1 => u = (a \div Bank) * Bank
  BY Zenon DEF FirstAt
<1>4. k \in 1 .. Len(all) /\ all[k] = h[k]
  BY <1>1, <1>2
<1>5. \A m \in 1 .. k - 1 : all[m] = HighLine(a)
  <2>1. \A m \in 1 .. k - 1 : m \in 1 .. Len(h)
    BY <1>1
  <2> QED  BY <1>2, <1>3, <2>1
<1>6. FirstAt(all, u, a)
  BY <1>3, <1>4, <1>5, Zenon DEF FirstAt
<1> QED  BY <1>6 DEF all

\* The line in front is that of the data, and they belong at a, or it says a's high half.
LEMMA FirstTaken ==
    ASSUME NEW h \in Seq(Line), NEW u, NEW a \in Nat, FirstAt(h, u, a)
    PROVE  /\ h # << >>
           /\ Head(h).type = "data" => u + Head(h).addr = a
           /\ Head(h).type # "data" =>
                /\ Head(h).type = "high" /\ Head(h).addr * Bank = (a \div Bank) * Bank
                /\ FirstAt(Tail(h), (a \div Bank) * Bank, a)
<1>0. Bank \in Nat \ {0}
  BY HexAssumption
<1>1. PICK k \in 1 .. Len(h) :
        /\ h[k].type = "data" /\ h[k].addr = a % Bank
        /\ \A m \in 1 .. k - 1 : h[m] = HighLine(a)
        /\ k = 1 => u = (a \div Bank) * Bank
  BY Zenon DEF FirstAt
<1>2. HighLine(a).type = "high" /\ HighLine(a).addr = a \div Bank
  BY DEF HighLine
<1>3. Len(h) \in Nat /\ h # << >> /\ Head(h) = h[1]
  <2>1. Len(h) \in Nat
    OBVIOUS
  <2>2. Len(h) # 0
    BY <1>1, <2>1
  <2> QED  BY <2>1, <2>2, EmptySeq
<1>4. CASE k = 1
  <2>1. a = (a \div Bank) * Bank + (a % Bank)
    BY <1>0, DivModFacts
  <2>2. Head(h).type = "data" /\ Head(h).addr = a % Bank /\ u = (a \div Bank) * Bank
    BY <1>1, <1>3, <1>4
  <2>3. u + Head(h).addr = a
    BY <2>1, <2>2, Zenon
  <2> QED  BY <1>3, <2>2, <2>3
<1>5. CASE k # 1
  <2>1. 1 \in 1 .. k - 1
    BY <1>1, <1>5
  <2>2. Head(h) = HighLine(a)
    BY <1>1, <1>3, <2>1
  <2> DEFINE t == Tail(h)
             c == HighLine(a)
             v == (a \div Bank) * Bank
  <2>3. Len(t) = Len(h) - 1 /\ \A m \in 1 .. Len(h) - 1 : t[m] = h[m + 1]
    BY <1>3
  <2> HIDE DEF t, c, v
  <2>4. k - 1 \in 1 .. Len(t) /\ t[k - 1] = h[k]
    <3>1. k - 1 \in 1 .. Len(h) - 1 /\ (k - 1) + 1 = k
      BY <1>1, <1>3, <1>5
    <3> QED  BY <2>3, <3>1
  <2>5. \A m \in 1 .. (k - 1) - 1 : t[m] = c
    <3>1. \A m \in 1 .. (k - 1) - 1 : m \in 1 .. Len(h) - 1 /\ m + 1 \in 1 .. k - 1
      BY <1>1, <1>3
    <3> QED  BY <1>1, <2>3, <3>1 DEF c
  <2>6. FirstAt(t, v, a)
    BY <1>1, <2>4, <2>5, Zenon DEF FirstAt, c, v
  <2>7. Head(h).type = "high" /\ Head(h).addr = a \div Bank
    BY <1>2, <2>2
  <2> QED  BY <1>3, <2>6, <2>7 DEF t, v
<1> QED  BY <1>4, <1>5

\* Nothing comes first where there are no lines.
LEMMA NothingFirst == \A u, a : ~FirstAt(<< >>, u, a)
BY DEF FirstAt

\* Where the image is put, and that it is not empty.
LEMMA ImageFile1 ==
    ASSUME Blockwise, IInv, WayInv, ImageInv, stage # "mkbin"
    PROVE  /\ args \in Seq(File) /\ 1 \in 1 .. Len(args)
           /\ args[1] \in File /\ args[1].addr = BootloaderAt[chip] /\ args[1].data = mkbin(elf)
           /\ ElfFile(elf) /\ BootloaderAt[chip] \in Nat /\ BootloaderAt[chip] % BlockSize = 0
           /\ BootloaderAt[chip] + Len(mkbin(elf)) <= FlashSize
<1>1. args \in Seq(File) /\ args # << >>
  BY Zenon DEF ImageInv, IInv, SettingInv, Fits
<1>2. args[1] = [addr |-> BootloaderAt[chip], data |-> mkbin(elf)]
  BY Zenon DEF ImageInv
<1>3. Len(args) \in Nat /\ Len(args) # 0
  BY <1>1, EmptySeq
<1>4. 1 \in 1 .. Len(args)
  BY <1>3
<1>5. args[1] \in File
  BY <1>1, <1>4
<1>6. elf \in Elfs /\ chip \in Chips
  BY Zenon DEF IInv, SettingInv
<1>7. ElfFile(elf) /\ BootloaderAt[chip] \in Nat /\ BootloaderAt[chip] % BlockSize = 0
  BY <1>6, ImageAssumption
<1>8. args[1].addr = BootloaderAt[chip] /\ args[1].data = mkbin(elf)
  BY <1>2
<1>9. args[1].addr + Len(args[1].data) <= FlashSize
  BY <1>4, Zenon DEF WayInv, Aligned
<1> QED  BY <1>1, <1>4, <1>5, <1>7, <1>8, <1>9

\* It holds at the start.
LEMMA InitImage == Init => ImageInv
BY DEF Init, ImageInv

\* mkbin puts the image in front.
LEMMA MkbinImage ==
    ASSUME Linewise, IInv, Mkbin
    PROVE  ImageInv'
<1> DEFINE image == [addr |-> BootloaderAt[chip], data |-> mkbin(elf)]
<1>1. /\ stage = "mkbin" /\ args' = <<image>> \o args
      /\ stage' \in {"mkhex", "flash"}
      /\ UNCHANGED <<mk, hex, un, dir, list, elf, chip>>
  BY DEF Mkbin, setting
<1>2. mk = mkStart /\ hex = << >> /\ un = unStart /\ list = << >>
  BY <1>1 DEF IInv, FreshInv
<1>3. args \in Seq(File)
  BY <1>1, DataFilesType DEF IInv, SettingInv
<1>4. args' # << >> /\ args'[1] = image
  <2> HIDE DEF image
  <2> QED  BY <1>1, <1>3
<1>5. AtStart(hex', mk', BootloaderAt[chip'])
  BY <1>1, <1>2, Zenon DEF AtStart
<1>6. args'[1] = [addr |-> BootloaderAt[chip'], data |-> mkbin(elf')]
  BY <1>1, <1>4, Zenon
<1>7. un' = unStart /\ list' = << >> /\ stage' \notin {"mkbin", "unhex", "write", "boot"}
  BY <1>1, <1>2
<1> HIDE DEF image
<1> QED  BY <1>4, <1>5, <1>6, <1>7 DEF ImageInv

\* What mkhex and unhex keep of it.
LEMMA ImageKept ==
    ASSUME ImageInv, stage \in {"mkhex", "unhex"}, UNCHANGED <<args, elf, chip>>,
           stage' \in {"mkhex", "unhex"},
           stage' = "mkhex" =>
              /\ \/ AtStart(hex', mk', BootloaderAt[chip])
                 \/ FirstAt(hex', un'.upper, BootloaderAt[chip])
              /\ un' = unStart /\ list' = << >>,
           stage' = "unhex" =>
              \/ /\ list' = << >> /\ un'.out = NoFile
                 /\ FirstAt(hex', un'.upper, BootloaderAt[chip])
              \/ list' # << >> /\ list'[1] = BootloaderAt[chip]
    PROVE  ImageInv'
<1>1. args # << >> /\ args[1] = [addr |-> BootloaderAt[chip], data |-> mkbin(elf)]
  BY DEF ImageInv
<1>2. args' # << >> /\ args'[1] = [addr |-> BootloaderAt[chip'], data |-> mkbin(elf')]
  BY <1>1, Zenon
<1>3. BootloaderAt[chip'] = BootloaderAt[chip]
  OBVIOUS
<1>4. stage' \notin {"write", "boot"}
  OBVIOUS
<1> QED  BY <1>2, <1>3, <1>4, Zenon DEF ImageInv

\* mkhex opens the image first, or there are data already.
LEMMA MkhexOpenImage ==
    ASSUME Blockwise, IInv, WayInv, ImageInv, MkhexOpen, UNCHANGED setting
    PROVE  ImageInv'
<1> DEFINE at == BootloaderAt[chip]
           l == HighLine(args[mk.file].addr)
<1>1. /\ stage = "mkhex" /\ ~mk.begun /\ hex' = Append(hex, l)
      /\ mk' = [mk EXCEPT !.begun = TRUE] /\ mk.file <= Len(args)
      /\ UNCHANGED <<args, un, dir, list, stage, elf, chip>>
  BY DEF MkhexOpen, setting
<1>2. AtStart(hex, mk, at) \/ FirstAt(hex, un.upper, at)
  BY <1>1 DEF ImageInv
<1>3. un = unStart /\ list = << >>
  BY <1>1 DEF ImageInv
<1>4. args[1].addr = at
  BY <1>1, ImageFile1
<1>5. ASSUME AtStart(hex, mk, at) PROVE AtStart(hex', mk', at)
  <2>1. hex = << >> /\ mk = mkStart
    BY <1>1, <1>5 DEF AtStart, mkStart
  <2>2. mk.file = 1
    BY <2>1 DEF mkStart
  <2>3. l = HighLine(at)
    BY <1>4, <2>2
  <2> HIDE DEF l, at
  <2>4. hex' = <<l>>
    BY <1>1, <2>1
  <2>5. mk' = [mkStart EXCEPT !.begun = TRUE]
    BY <1>1, <2>1
  <2> QED  BY <2>3, <2>4, <2>5, Zenon DEF AtStart
<1>6. ASSUME FirstAt(hex, un.upper, at) PROVE FirstAt(hex', un'.upper, at)
  <2>1. hex \in Seq(Line) /\ l \in Line
    <3>1. hex \in Seq(Line) /\ InFile(args, mk)
      BY <1>1 DEF IInv, MkhexInv
    <3>2. args \in Seq(File)
      BY <1>1, ImageFile1
    <3>3. mk.file \in Nat \ {0}
      <4>1. mk \in [file : Nat \ {0}, pos : Nat, begun : BOOLEAN]
        BY <3>1, Zenon DEF InFile
      <4> QED  BY <4>1
    <3>4. Len(args) \in Nat
      BY <3>2
    <3>5. args[mk.file] \in File
      BY <1>1, <3>2, <3>3, <3>4
    <3>6. << >> \in Seq(Byte)
      OBVIOUS
    <3> QED  BY <3>1, <3>5, <3>6, FileParts, LinesType
  <2> HIDE DEF l, at
  <2>2. <<l>> \in Seq(Line) /\ Append(hex, l) = hex \o <<l>>
    BY <2>1
  <2>3. FirstAt(hex \o <<l>>, un.upper, at)
    BY <1>6, <2>1, <2>2, FirstStays
  <2> QED  BY <1>1, <2>2, <2>3
<1>7. AtStart(hex', mk', at) \/ FirstAt(hex', un'.upper, at)
  BY <1>1, <1>2, <1>5, <1>6, Zenon
<1> QED  BY <1>1, <1>3, <1>7, ImageKept

\* What mkhex reads of a file at p.
ChunkAt(f, p) ==
    SubSeq(f.data, p + 1,
           p + (IF Len(f.data) - p < LineLen THEN Len(f.data) - p ELSE LineLen))

\* What it prints then are lines, with the data if there are any.
LEMMA LinesOfChunk ==
    ASSUME NEW f \in File, NEW p \in Nat, p <= Len(f.data)
    PROVE  /\ BankLine(f.addr + p) = << >> \/ BankLine(f.addr + p) = <<HighLine(f.addr + p)>>
           /\ BankLine(f.addr + p) \in Seq(Line)
           /\ DataLines(f.addr + p, ChunkAt(f, p)) \in Seq(Line)
           /\ p < Len(f.data) => DataLines(f.addr + p, ChunkAt(f, p))
                                   = <<DataLine(f.addr + p, ChunkAt(f, p))>>
<1> DEFINE s == f.data
           n == IF Len(s) - p < LineLen THEN Len(s) - p ELSE LineLen
           addr == f.addr + p
           chunk == ChunkAt(f, p)
           c == SubSeq(s, p + 1, p + n)
<1>1. f.addr \in Nat /\ s \in Seq(Byte) /\ Len(s) \in Nat /\ p <= Len(s)
  BY FileParts
<1>2. addr \in Nat
  BY <1>1
<1>3. n \in Nat /\ p + n <= Len(s) /\ (p < Len(s) => n # 0)
  BY <1>1, HexAssumption
<1>4. chunk = c
  BY DEF ChunkAt
<1> HIDE DEF n, s, addr, chunk
<1>5. c \in Seq(Byte) /\ Len(c) = n
  BY <1>1, <1>3
<1> HIDE DEF c
<1>6. chunk \in Seq(Byte) /\ (p < Len(s) => chunk # << >>)
  <2>1. c # << >> \/ n = 0
    BY <1>5
  <2> QED  BY <1>3, <1>4, <1>5, <2>1
<1>7. HighLine(addr) \in Line /\ DataLine(addr, chunk) \in Line
  BY <1>2, <1>6, LinesType
<1>8. BankLine(addr) = << >> \/ BankLine(addr) = <<HighLine(addr)>>
  BY Zenon DEF BankLine
<1>9. /\ DataLines(addr, chunk) = << >> \/ DataLines(addr, chunk) = <<DataLine(addr, chunk)>>
      /\ chunk # << >> => DataLines(addr, chunk) = <<DataLine(addr, chunk)>>
  BY Zenon DEF DataLines
<1>10. \A l \in Line : <<l>> \in Seq(Line)
  OBVIOUS
<1>11. << >> \in Seq(Line)
  OBVIOUS
<1>12. BankLine(addr) \in Seq(Line) /\ DataLines(addr, chunk) \in Seq(Line)
  BY <1>7, <1>8, <1>9, <1>10, <1>11, Zenon
<1> QED  BY <1>6, <1>8, <1>9, <1>12, Zenon DEF s, addr, chunk

\* Two or three elements, put together.
LEMMA Together ==
    ASSUME NEW S, NEW x \in S, NEW y \in S
    PROVE  /\ LET s == (<<x>> \o << >>) \o <<y>> IN Len(s) = 2 /\ s[1] = x /\ s[2] = y
           /\ LET s == (<<x>> \o <<x>>) \o <<y>> IN
              Len(s) = 3 /\ s[1] = x /\ s[2] = x /\ s[3] = y
<1>1. <<x>> \in Seq(S) /\ <<y>> \in Seq(S) /\ << >> \in Seq(S)
  OBVIOUS
<1>2. ASSUME NEW p \in Seq(S) PROVE (p \o <<y>>) \in Seq(S) /\ Len(p \o <<y>>) = Len(p) + 1
                                    /\ (p \o <<y>>)[Len(p) + 1] = y
                                    /\ \A k \in 1 .. Len(p) : (p \o <<y>>)[k] = p[k]
  OBVIOUS
<1> DEFINE p == <<x>> \o << >>
           q == <<x>> \o <<x>>
<1>3. p \in Seq(S) /\ Len(p) = 1 /\ p[1] = x
  BY <1>1
<1>4. q \in Seq(S) /\ Len(q) = 2 /\ q[1] = x /\ q[2] = x
  BY <1>1
<1> HIDE DEF p, q
<1>5. LET s == p \o <<y>> IN Len(s) = 2 /\ s[1] = x /\ s[2] = y
  BY <1>2, <1>3
<1>6. LET s == q \o <<y>> IN Len(s) = 3 /\ s[1] = x /\ s[2] = x /\ s[3] = y
  <2>1. 1 \in 1 .. Len(q) /\ 2 \in 1 .. Len(q) /\ Len(q) + 1 = 3
    BY <1>4
  <2> QED  BY <1>2, <1>4, <2>1, Zenon
<1> QED  BY <1>5, <1>6 DEF p, q

\* The image's first line comes behind its high half, which may be said twice.
LEMMA FirstPrinted ==
    ASSUME NEW a \in Nat, NEW b, b = << >> \/ b = <<HighLine(a)>>, NEW data, NEW u
    PROVE  FirstAt((<<HighLine(a)>> \o b) \o <<DataLine(a, data)>>, u, a)
<1> DEFINE h == HighLine(a)
           l == DataLine(a, data)
           all == (<<h>> \o b) \o <<l>>
<1>1. l.type = "data" /\ l.addr = a % Bank
  BY DEF DataLine
<1> HIDE DEF h, l
<1> DEFINE S == {h, l}
<1>0. h \in S /\ l \in S
  OBVIOUS
<1> HIDE DEF S
<1>2. CASE b = << >>
  <2>1. Len(all) = 2 /\ all[1] = h /\ all[2] = l
    BY <1>0, <1>2, Together
  <2> HIDE DEF all
  <2>2. 2 \in 1 .. Len(all) /\ \A m \in 1 .. 2 - 1 : all[m] = h
    BY <2>1
  <2>3. 2 # 1
    OBVIOUS
  <2>4. FirstAt(all, u, a)
    BY <1>1, <2>1, <2>2, <2>3, Zenon DEF FirstAt, h
  <2> QED  BY <2>4 DEF all, h, l
<1>3. CASE b = <<h>>
  <2>1. Len(all) = 3 /\ all[1] = h /\ all[2] = h /\ all[3] = l
    BY <1>0, <1>3, Together
  <2> HIDE DEF all
  <2>2. 3 \in 1 .. Len(all) /\ \A m \in 1 .. 3 - 1 : all[m] = h
    BY <2>1
  <2>3. 3 # 1
    OBVIOUS
  <2>4. FirstAt(all, u, a)
    BY <1>1, <2>1, <2>2, <2>3, Zenon DEF FirstAt, h
  <2> QED  BY <2>4 DEF all, h, l
<1> QED  BY <1>2, <1>3 DEF h

\* mkhex prints the image's first line first.
LEMMA MkhexLineImage ==
    ASSUME Blockwise, IInv, WayInv, ImageInv, MkhexLine, UNCHANGED setting
    PROVE  ImageInv'
<1> DEFINE at == BootloaderAt[chip]
           f == args[mk.file]
           p == mk.pos
           b == BankLine(f.addr + p)
           d == DataLines(f.addr + p, ChunkAt(f, p))
<1>1. /\ stage = "mkhex" /\ mk.begun /\ mk.file <= Len(args)
      /\ hex' = (hex \o b) \o d
      /\ UNCHANGED <<args, un, dir, list, stage, elf, chip>>
  BY Zenon DEF MkhexLine, setting, ChunkAt
<1>2. AtStart(hex, mk, at) \/ FirstAt(hex, un.upper, at)
  BY <1>1 DEF ImageInv
<1>3. un = unStart /\ list = << >>
  BY <1>1 DEF ImageInv
<1>4. /\ args \in Seq(File) /\ args[1] \in File /\ args[1].addr = at
      /\ args[1].data = mkbin(elf) /\ ElfFile(elf) /\ at \in Nat
  BY <1>1, ImageFile1
<1>5. hex \in Seq(Line) /\ InFile(args, mk)
  BY <1>1 DEF IInv, MkhexInv
<1>6. f \in File /\ p \in Nat /\ p <= Len(f.data)
  <2>1. mk.file \in Nat \ {0} /\ mk.pos \in Nat
    <3>1. mk \in [file : Nat \ {0}, pos : Nat, begun : BOOLEAN]
      BY <1>5, Zenon DEF InFile
    <3> QED  BY <3>1
  <2>2. Len(args) \in Nat
    BY <1>4
  <2>3. f \in File
    BY <1>1, <1>4, <2>1, <2>2
  <2>4. p <= Len(f.data)
    BY <1>1, <1>5, Zenon DEF InFile
  <2> QED  BY <2>1, <2>3, <2>4
<1> HIDE DEF at
<1>7. /\ b \in Seq(Line) /\ d \in Seq(Line)
      /\ b = << >> \/ b = <<HighLine(f.addr + p)>>
      /\ p < Len(f.data) => d = <<DataLine(f.addr + p, ChunkAt(f, p))>>
  <2> HIDE DEF f, p
  <2> QED  BY <1>6, LinesOfChunk, Zenon
<1>8. ASSUME AtStart(hex, mk, at) PROVE FirstAt(hex', un'.upper, at)
  <2>1. hex = <<HighLine(at)>> /\ mk = [mkStart EXCEPT !.begun = TRUE]
    BY <1>1, <1>8 DEF AtStart, mkStart
  <2>2. f = args[1] /\ p = 0
    BY <2>1 DEF mkStart
  <2>3. f.addr + p = at /\ 0 < Len(f.data)
    <3>1. 24 < Len(mkbin(elf)) /\ Len(mkbin(elf)) \in Nat
      BY <1>4, MkbinHeader, LenProperties
    <3> QED  BY <1>4, <2>2, <3>1
  <2> HIDE DEF f, p
  <2>4. b = << >> \/ b = <<HighLine(at)>>
    BY <1>7, <2>3
  <2>5. d = <<DataLine(at, ChunkAt(f, p))>>
    BY <1>7, <2>2, <2>3
  <2> HIDE DEF b, d
  <2> DEFINE c == ChunkAt(f, p)
  <2> HIDE DEF c
  <2>6. FirstAt((<<HighLine(at)>> \o b) \o <<DataLine(at, c)>>, un'.upper, at)
    BY <1>4, <2>4, FirstPrinted, Zenon
  <2>7. hex' = (<<HighLine(at)>> \o b) \o <<DataLine(at, c)>>
    BY <1>1, <2>1, <2>5 DEF c
  <2> QED  BY <2>6, <2>7
<1>9. ASSUME FirstAt(hex, un.upper, at) PROVE FirstAt(hex', un'.upper, at)
  <2> HIDE DEF b, d, f, p
  <2>1. FirstAt(hex \o b, un.upper, at) /\ hex \o b \in Seq(Line)
    <3>1. FirstAt(hex \o b, un.upper, at)
      BY <1>5, <1>7, <1>9, FirstStays
    <3> QED  BY <1>5, <1>7, <3>1
  <2> DEFINE h == hex \o b
  <2> HIDE DEF h
  <2>2. FirstAt(h \o d, un.upper, at)
    BY <1>7, <2>1, FirstStays DEF h
  <2> QED  BY <1>1, <2>2 DEF h
<1>10. AtStart(hex', mk', at) \/ FirstAt(hex', un'.upper, at)
  BY <1>2, <1>8, <1>9, Zenon
<1> QED  BY <1>1, <1>3, <1>10, ImageKept DEF at

\* It comes first when unhex begins.
LEMMA MkhexEndImage ==
    ASSUME Blockwise, IInv, WayInv, ImageInv, MkhexEnd, UNCHANGED setting
    PROVE  ImageInv'
<1> DEFINE at == BootloaderAt[chip]
<1>1. /\ stage = "mkhex" /\ mk.file > Len(args) /\ hex' = Append(hex, EndLine) /\ stage' = "unhex"
      /\ UNCHANGED <<args, un, list, elf, chip>>
  BY DEF MkhexEnd, setting
<1>2. AtStart(hex, mk, at) \/ FirstAt(hex, un.upper, at)
  BY <1>1 DEF ImageInv
<1>3. un = unStart /\ list = << >>
  BY <1>1 DEF ImageInv
<1> HIDE DEF at
<1>4. ~AtStart(hex, mk, at)
  <2>1. AtStart(hex, mk, at) => mk.file = 1
    BY DEF AtStart, mkStart
  <2>2. 1 \in 1 .. Len(args) /\ args \in Seq(File)
    BY <1>1, ImageFile1
  <2> QED  BY <1>1, <2>1, <2>2
<1>5. FirstAt(hex', un'.upper, at)
  <2>1. hex \in Seq(Line)
    BY <1>1 DEF IInv, MkhexInv
  <2>2. EndLine \in Line
    <3>1. 0 \in Nat /\ << >> \in Seq(Byte)
      OBVIOUS
    <3> QED  BY <3>1, LinesType
  <2> DEFINE l == EndLine
  <2> HIDE DEF l
  <2>3. <<l>> \in Seq(Line) /\ Append(hex, l) = hex \o <<l>>
    BY <2>1, <2>2 DEF l
  <2>4. FirstAt(hex \o <<l>>, un.upper, at)
    BY <1>2, <1>4, <2>1, <2>3, FirstStays
  <2> QED  BY <1>1, <2>3, <2>4 DEF l
<1>6. un'.out = NoFile /\ list' = << >>
  BY <1>1, <1>3 DEF unStart
<1> QED  BY <1>1, <1>5, <1>6, ImageKept DEF at

\* unhex creates the image's file first.
LEMMA UnhexDataImage ==
    ASSUME Blockwise, IInv, WayInv, ImageInv, UnhexData, UNCHANGED setting
    PROVE  ImageInv'
<1> DEFINE at   == BootloaderAt[chip]
           addr == un.upper + Head(hex).addr
           new  == un.out = NoFile \/ un.next # addr
<1>1. /\ stage = "unhex" /\ hex # << >> /\ Head(hex).type = "data"
      /\ list' = IF new THEN Append(list, addr) ELSE list
      /\ UNCHANGED <<args, stage, elf, chip>>
  BY Zenon DEF UnhexData, setting
<1>2. \/ list = << >> /\ un.out = NoFile /\ FirstAt(hex, un.upper, at)
      \/ list # << >> /\ list[1] = at
  BY <1>1 DEF ImageInv
<1>3. at \in Nat
  BY <1>1, ImageFile1
<1>4. addr \in Nat /\ list \in Seq(Nat) /\ hex \in Seq(Line)
  <2>1. Reading(un, dir, list) /\ hex \in Seq(Line)
    BY <1>1 DEF IInv, UnhexInv
  <2>2. un.upper \in Nat /\ list \in Seq(Nat)
    BY <2>1 DEF Reading
  <2>3. Head(hex) \in Line
    BY <1>1, <2>1
  <2>4. Head(hex).addr \in Nat
    BY <2>3 DEF Line
  <2> QED  BY <2>1, <2>2, <2>4
<1> HIDE DEF at
<1>5. list' # << >> /\ list'[1] = at
  <2>1. CASE list = << >> /\ un.out = NoFile /\ FirstAt(hex, un.upper, at)
    <3>1. addr = at
      BY <1>1, <1>3, <1>4, <2>1, FirstTaken
    <3>2. list' = Append(<< >>, at)
      BY <1>1, <2>1, <3>1
    <3> QED  BY <1>3, <3>2
  <2>2. CASE list # << >> /\ list[1] = at
    <3> HIDE DEF addr, new
    <3>1. Append(list, addr) # << >> /\ Append(list, addr)[1] = list[1]
      <4>1. Len(list) \in Nat /\ Len(list) # 0
        BY <1>4, <2>2, LenProperties, EmptySeq
      <4>2. 1 \in 1 .. Len(list)
        BY <4>1
      <4>3. \A s \in Seq(Nat), x \in Nat :
              /\ Append(s, x) # << >>
              /\ \A n \in 1 .. Len(s) : Append(s, x)[n] = s[n]
        BY AppendProperties
      <4> QED  BY <1>4, <4>2, <4>3, Zenon
    <3>2. list' = Append(list, addr) \/ list' = list
      <4>1. CASE new
        BY <1>1, <4>1, Zenon
      <4>2. CASE ~new
        BY <1>1, <4>2, Zenon
      <4> QED  BY <4>1, <4>2, Zenon
    <3> QED  BY <2>2, <3>1, <3>2, Zenon
  <2> QED  BY <1>2, <2>1, <2>2
<1> QED  BY <1>1, <1>5, ImageKept DEF at

\* A line without data says no more than the high half of the image's address.
LEMMA UnhexOtherImage ==
    ASSUME Blockwise, IInv, WayInv, ImageInv, UnhexOther, UNCHANGED setting
    PROVE  ImageInv'
<1> DEFINE at == BootloaderAt[chip]
<1>1. /\ stage = "unhex" /\ hex # << >> /\ Head(hex).type # "data" /\ hex' = Tail(hex)
      /\ un' = IF Head(hex).type = "high" THEN [un EXCEPT !.upper = Head(hex).addr * Bank]
               ELSE [un EXCEPT !.out = NoFile]
      /\ UNCHANGED <<args, list, stage, elf, chip>>
  BY DEF UnhexOther, setting
<1>2. \/ list = << >> /\ un.out = NoFile /\ FirstAt(hex, un.upper, at)
      \/ list # << >> /\ list[1] = at
  BY <1>1 DEF ImageInv
<1>3. at \in Nat
  BY <1>1, ImageFile1
<1>4. un \in [upper : Nat, next : Nat, out : Nat \cup {NoFile}] /\ hex \in Seq(Line)
  BY <1>1 DEF IInv, UnhexInv, Reading
<1> HIDE DEF at
<1>5. ASSUME list = << >>, un.out = NoFile, FirstAt(hex, un.upper, at)
      PROVE  list' = << >> /\ un'.out = NoFile /\ FirstAt(hex', un'.upper, at)
  <2> DEFINE v == (at \div Bank) * Bank
  <2>1. Head(hex).type = "high" /\ Head(hex).addr * Bank = v /\ FirstAt(Tail(hex), v, at)
    BY <1>1, <1>3, <1>4, <1>5, FirstTaken
  <2> HIDE DEF v
  <2>2. un' = [un EXCEPT !.upper = v]
    BY <1>1, <2>1
  <2>3. un'.out = NoFile /\ un'.upper = v
    BY <1>4, <1>5, <2>2
  <2> QED  BY <1>1, <1>5, <2>1, <2>3
<1>6. \/ list' = << >> /\ un'.out = NoFile /\ FirstAt(hex', un'.upper, at)
      \/ list' # << >> /\ list'[1] = at
  BY <1>1, <1>2, <1>5
<1> QED  BY <1>1, <1>6, ImageKept DEF at

\* What is read from flash, where there is flash.
LEMMA ReadParts ==
    ASSUME NEW flash, NEW a \in Nat
    PROVE  /\ LET h == Read(flash, a, 4) IN
              h[1] = At(flash, a + 1) /\ h[3] = At(flash, a + 3) /\ h[4] = At(flash, a + 4)
           /\ Read(flash, a + 2, 2) = <<At(flash, a + 3), At(flash, a + 4)>>
<1>1. (a + 2) + 1 = a + 3 /\ (a + 2) + 2 = a + 4
  OBVIOUS
<1>2. 1 \in 1 .. 4 /\ 3 \in 1 .. 4 /\ 4 \in 1 .. 4
  OBVIOUS
<1>3. \A n, j : j \in 1 .. n => Read(flash, a, n)[j] = At(flash, a + j)
  BY Zenon DEF Read
<1>4. Read(flash, a + 2, 2) = [j \in 1 .. 2 |-> At(flash, (a + 2) + j)]
  BY Zenon DEF Read
<1>5. [j \in 1 .. 2 |-> At(flash, (a + 2) + j)] = <<At(flash, (a + 2) + 1), At(flash, (a + 2) + 2)>>
  OBVIOUS
<1> QED  BY <1>1, <1>2, <1>3, <1>4, <1>5, Zenon

\* flash takes the parameters that were wanted, and the image's file first.
LEMMA FlashBeginImage ==
    ASSUME Blockwise, IInv, WayInv, ImageInv, FlashBegin
    PROVE  ImageInv'
<1> DEFINE at == BootloaderAt[chip]
<1>1. /\ stage = "flash" \/ Unhexed
      /\ params' = FlashParams /\ stage' = "write"
      /\ UNCHANGED <<args, hex, dir, list, elf, chip, fpar, hexed, unread, old>>
  BY Zenon DEF FlashBegin, setting, hexvars
<1>2. stage \notin {"mkbin", "write", "boot"}
  BY <1>1 DEF Unhexed
<1>3. mem = old /\ DOMAIN mem = 1 .. FlashSize
  BY <1>2 DEF WayInv
<1>4. args # << >> /\ args[1] = [addr |-> at, data |-> mkbin(elf)]
  BY <1>2 DEF ImageInv
<1>5. at \in Nat /\ at + Len(mkbin(elf)) <= FlashSize /\ 24 < Len(mkbin(elf)) /\ Len(mkbin(elf)) \in Nat
  <2>1. at \in Nat /\ at + Len(mkbin(elf)) <= FlashSize /\ ElfFile(elf)
    BY <1>2, ImageFile1
  <2> QED  BY <2>1, MkbinHeader, LenProperties
<1> HIDE DEF at
<1>6. FlashParams = WantedParams
  <2>1. at + 1 \in DOMAIN mem
    BY <1>3, <1>5, ImageAssumption
  <2>2. At(mem, at + 1) = old[at + 1]
    BY <1>3, <2>1 DEF At
  <2> DEFINE h == Read(mem, at, 4)
  <2>3. /\ h[1] = At(mem, at + 1) /\ h[3] = At(mem, at + 3) /\ h[4] = At(mem, at + 4)
        /\ Read(mem, at + 2, 2) = <<At(mem, at + 3), At(mem, at + 4)>>
    BY <1>5, ReadParts
  <2> HIDE DEF h
  <2>4. FlashParams = IF fpar # << >> THEN fpar
                      ELSE IF unread THEN <<0, 0>>
                      ELSE IF h[1] = 233 THEN <<h[3], h[4]>> ELSE <<0, 0>>
    BY Zenon DEF FlashParams, h, at
  <2>5. WantedParams = IF fpar # << >> THEN fpar
                       ELSE IF unread THEN <<0, 0>>
                       ELSE IF old[at + 1] = 233 THEN Read(old, at + 2, 2) ELSE <<0, 0>>
    BY Zenon DEF WantedParams, at
  <2>6. h[1] = old[at + 1] /\ <<h[3], h[4]>> = Read(old, at + 2, 2)
    BY <1>3, <2>2, <2>3, Zenon
  <2> QED  BY <2>4, <2>5, <2>6, Zenon
<1>7. WantedParams' = WantedParams
  BY <1>1, Zenon DEF WantedParams, Read, At
<1>8. hexed => 1 \in DOMAIN list /\ list[1] = at /\ dir[at] # << >>
  <2>1. SUFFICES ASSUME hexed PROVE 1 \in DOMAIN list /\ list[1] = at /\ dir[at] # << >>
    OBVIOUS
  <2>2. Unhexed
    BY <1>1, <2>1 DEF WayInv
  <2>3. stage = "unhex" /\ hex = << >>
    BY <2>2 DEF Unhexed
  <2>4. ~FirstAt(hex, un.upper, at)
    BY <2>3, NothingFirst
  <2>5. list # << >> /\ list[1] = at
    BY <2>3, <2>4 DEF ImageInv, at
  <2>6. Reading(un, dir, list)
    BY <2>3 DEF IInv, UnhexInv
  <2>7. list \in Seq(Nat) /\ DOMAIN dir = Range(list) /\ \A a \in DOMAIN dir : dir[a] # << >>
    BY <2>6, Zenon DEF Reading
  <2>8. 1 \in DOMAIN list
    BY <2>5, <2>7, EmptySeq
  <2>9. at \in Range(list)
    BY <2>5, <2>8, Zenon DEF Range
  <2> QED  BY <2>5, <2>7, <2>8, <2>9, Zenon
<1>9. params' = WantedParams'
  BY <1>1, <1>6, <1>7
<1>10. args' # << >> /\ args'[1] = [addr |-> BootloaderAt[chip'], data |-> mkbin(elf')]
  BY <1>1, <1>4, Zenon DEF at
<1>11. hexed' => /\ 1 \in DOMAIN list' /\ list'[1] = BootloaderAt[chip']
                /\ dir'[BootloaderAt[chip']] # << >>
  BY <1>1, <1>8 DEF at
<1> QED  BY <1>1, <1>9, <1>10, <1>11, Zenon DEF ImageInv

\* flash keeps the parameters and the list of the files.
LEMMA RestImage ==
    ASSUME ImageInv, EraseFile \/ WriteBlock \/ FlashEnd \/ UNCHANGED vars
    PROVE  ImageInv'
<1>1. CASE EraseFile \/ WriteBlock \/ FlashEnd
  <2>1. /\ stage = "write" /\ stage' \in {"write", "boot"}
        /\ UNCHANGED <<args, dir, list, elf, chip, fpar, hexed, unread, old, params>>
    BY <1>1 DEF EraseFile, WriteBlock, FlashEnd, hexvars, setting
  <2>2. WantedParams' = WantedParams
    BY <2>1, Zenon DEF WantedParams, Read, At
  <2>3. /\ args # << >> /\ args[1] = [addr |-> BootloaderAt[chip], data |-> mkbin(elf)]
        /\ params = WantedParams
        /\ hexed => /\ 1 \in DOMAIN list /\ list[1] = BootloaderAt[chip]
                    /\ dir[BootloaderAt[chip]] # << >>
    BY <2>1 DEF ImageInv
  <2>4. /\ args' # << >> /\ args'[1] = [addr |-> BootloaderAt[chip'], data |-> mkbin(elf')]
        /\ params' = WantedParams'
        /\ hexed' => /\ 1 \in DOMAIN list' /\ list'[1] = BootloaderAt[chip']
                     /\ dir'[BootloaderAt[chip']] # << >>
    BY <2>1, <2>2, <2>3, Zenon
  <2>5. stage' \notin {"mkhex", "unhex"}
    BY <2>1
  <2> QED  BY <2>4, <2>5, Zenon DEF ImageInv
<1>2. CASE UNCHANGED vars
  <2>1. UNCHANGED <<args, mk, hex, un, dir, list, stage, elf, chip, fpar, hexed, unread, old, params>>
    BY <1>2 DEF vars, hexvars
  <2>2. WantedParams' = WantedParams
    BY <2>1, Zenon DEF WantedParams, Read, At
  <2>3. \A a : AtStart(hex', mk', a) <=> AtStart(hex, mk, a)
    BY <2>1, Zenon
  <2>4. \A a : FirstAt(hex', un'.upper, a) <=> FirstAt(hex, un.upper, a)
    BY <2>1, Zenon
  <2> QED  BY <2>1, <2>2, <2>3, <2>4, Zenon DEF ImageInv
<1> QED  BY <1>1, <1>2

\* It holds throughout.
LEMMA ImageInductive == ASSUME Blockwise PROVE Spec => []ImageInv
<1>1. Linewise
  BY DEF Blockwise
<1> DEFINE J == IInv /\ WayInv /\ WriteInv
<1>2. Spec => []J
  BY FlashInductive
<1>3. Init => ImageInv
  BY InitImage
<1>4. ASSUME J, ImageInv, [Next]_vars PROVE ImageInv'
  <2>1. CASE Mkbin
    BY <1>1, <1>4, <2>1, MkbinImage
  <2>2. CASE Mkhex
    <3>1. (MkhexOpen \/ MkhexLine \/ MkhexEnd) /\ UNCHANGED setting
      BY <2>2 DEF Mkhex
    <3> QED  BY <1>4, <3>1, MkhexOpenImage, MkhexLineImage, MkhexEndImage
  <2>3. CASE Unhex
    <3>1. (UnhexData \/ UnhexOther) /\ UNCHANGED setting
      BY <2>3 DEF Unhex
    <3> QED  BY <1>4, <3>1, UnhexDataImage, UnhexOtherImage
  <2>4. CASE FlashBegin
    BY <1>4, <2>4, FlashBeginImage
  <2>5. CASE EraseFile \/ WriteBlock \/ FlashEnd \/ UNCHANGED vars
    BY <1>4, <2>5, RestImage
  <2> QED  BY <1>4, <2>1, <2>2, <2>3, <2>4, <2>5 DEF Next
<1> HIDE DEF J
<1> QED  BY <1>2, <1>3, <1>4, PTL DEF Spec

\* The image's bytes are in flash as flashbin makes them, by either way: the first file
\* of a .hex file begins where the image does, and no other has one of its first bytes.
LEMMA ImageFlashed ==
    ASSUME Blockwise, IInv, WayInv, WriteInv, ImageInv, stage = "boot",
           NEW o \in 0 .. Len(mkbin(elf)) - 1
    PROVE  At(mem, BootloaderAt[chip] + o + 1) = Final(args[1], o)
<1> DEFINE at == BootloaderAt[chip]
           image == args[1]
           files == Flashing
<1>1. /\ args \in Seq(File) /\ 1 \in 1 .. Len(args) /\ image \in File /\ image.addr = at
      /\ image.data = mkbin(elf) /\ at \in Nat /\ at % BlockSize = 0
  BY ImageFile1
<1>2. /\ Laid(files) /\ StandFor(files, args) /\ Writing(files, << >>, seq, mem, old)
      /\ DOMAIN mem = 1 .. FlashSize
  BY Zenon DEF WayInv, WriteInv
<1>3. files \in Seq(File) /\ Len(files) \in Nat
  BY <1>2 DEF Laid
<1>4. files # << >> /\ files[1].addr = at /\ files[1].data # << >>
  <2>1. CASE hexed
    <3>1. 1 \in DOMAIN list /\ list[1] = at /\ dir[at] # << >>
      BY <2>1, Zenon DEF ImageInv
    <3>2. files = [n \in DOMAIN list |-> [addr |-> list[n], data |-> dir[list[n]]]]
      BY <2>1, Zenon DEF Flashing, Unpack
    <3>3. files[1] = [addr |-> at, data |-> dir[at]] /\ 1 \in DOMAIN files
      BY <3>1, <3>2
    <3>4. files # << >>
      <4> HIDE DEF files
      <4> QED  BY <3>3
    <3> QED  BY <3>1, <3>3, <3>4
  <2>2. CASE ~hexed
    <3>1. files = args
      BY <2>2 DEF Flashing
    <3>2. Len(mkbin(elf)) # 0
      BY <1>1, FileParts
    <3> QED  BY <1>1, <3>1, <3>2
  <2> QED  BY <2>1, <2>2
<1> HIDE DEF files, at, image
<1>5. 1 \in 1 .. Len(files) /\ files[1] \in File
  <2>1. Len(files) # 0
    BY <1>3, <1>4, EmptySeq
  <2>2. 1 \in 1 .. Len(files)
    BY <1>3, <2>1
  <2> QED  BY <1>3, <2>2
<1>6. o \in 0 .. Len(image.data) - 1 /\ o \in Nat
  <2>1. Len(image.data) \in Nat
    BY <1>1, FileParts
  <2> QED  BY <1>1, <2>1
<1>7. PICK m \in 1 .. Len(files), p \in Nat : SameByte(files[m], p, image, o)
  BY <1>1, <1>2, <1>6, Zenon DEF StandFor, image
<1> DEFINE f == files[m]
<1>8. /\ p \in 0 .. Len(f.data) - 1 /\ f.addr + p = at + o /\ f.data[p + 1] = image.data[o + 1]
      /\ p \in MayDiffer(f) => o \in MayDiffer(image)
  BY <1>1, <1>7, Zenon DEF SameByte
<1>9. f \in File /\ f.addr \in Nat /\ f.addr + Len(f.data) <= FlashSize
      /\ f.addr % BlockSize = 0 /\ Right(mem, f, Len(f.data))
  <2>1. f \in File
    BY <1>3
  <2>2. m \in 1 .. Len(files) - Len(<< >>)
    BY <1>3
  <2>3. Right(mem, f, Len(f.data))
    BY <1>2, <2>2, Zenon DEF Writing
  <2>4. f.addr + Len(f.data) <= FlashSize /\ f.addr % BlockSize = 0
    BY <1>2, Zenon DEF Laid
  <2> QED  BY <2>1, <2>3, <2>4, FileParts
<1>10. At(mem, at + o + 1) = Final(f, p)
  <2> HIDE DEF f
  <2>1. p < Len(f.data)
    BY <1>8, <1>9, FileParts
  <2>2. mem[f.addr + p + 1] = Final(f, p)
    BY <1>8, <1>9, <2>1, Zenon DEF Right
  <2>3. f.addr + p \in 0 .. FlashSize - 1
    BY <1>8, <1>9, ByteAddress
  <2>4. f.addr + p + 1 \in DOMAIN mem
    BY <2>3, <1>2, ImageAssumption
  <2>5. At(mem, f.addr + p + 1) = Final(f, p)
    BY <2>2, <2>4, Zenon DEF At
  <2> QED  BY <1>8, <2>5, Zenon
<1>11. Final(f, p) = Final(image, o)
  <2>1. CASE m = 1
    <3>1. f.addr = at
      BY <1>4, <2>1
    <3> HIDE DEF f
    <3>2. p = o
      BY <1>1, <1>6, <1>8, <3>1
    <3> QED  BY <1>1, <1>8, <3>1, <3>2, Zenon DEF Final
  <2>2. CASE m # 1
    <3>1. Blocks(files[1]) \cap Blocks(f) = {}
      BY <1>2, <1>5, <2>2, Zenon DEF Laid
    <3> HIDE DEF f
    <3>2. at + o \in Blocks(f)
      <4>1. f.addr + p \in Span(f)
        <5>1. \A x : x \in Span(f) <=> \E q \in 0 .. Len(f.data) - 1 : x = f.addr + q
          BY <1>9, SpanParts
        <5> QED  BY <1>8, <5>1, Zenon
      <4> QED  BY <1>8, <1>9, <4>1, SpanInBlocks
    <3>3. at \in Blocks(files[1])
      <4> DEFINE g == files[1]
      <4>1. g \in File /\ g.addr = at /\ g.data # << >> /\ g.data \in Seq(Byte)
        BY <1>4, <1>5, FileParts
      <4> HIDE DEF g
      <4>2. Len(g.data) # 0 /\ Len(g.data) \in Nat
        BY <4>1, EmptySeq
      <4>3. at \in Span(g)
        BY <1>1, <4>1, <4>2 DEF Span
      <4> QED  BY <4>1, <4>3, SpanInBlocks DEF g
    <3>4. BlockSize <= o
      <4>1. SUFFICES ASSUME ~(BlockSize <= o) PROVE FALSE
        OBVIOUS
      <4>2. at + o \in at .. at + BlockSize - 1
        BY <1>1, <1>6, <4>1, ImageAssumption
      <4>3. files[1].addr % BlockSize = 0
        BY <1>1, <1>4
      <4>4. at + o \in Blocks(files[1])
        BY <1>1, <1>5, <3>3, <4>2, <4>3, WholeBlock
      <4> QED  BY <3>1, <3>2, <4>4, Zenon
    <3>5. o \notin MayDiffer(image)
      <4>1. 12 < o
        BY <1>6, <3>4, ImageAssumption DEF Blockwise
      <4> QED  BY <4>1 DEF MayDiffer
    <3>6. p \notin MayDiffer(f)
      BY <1>8, <3>5
    <3>7. Final(f, p) = f.data[p + 1] /\ Final(image, o) = image.data[o + 1]
      BY <3>5, <3>6, FinalElsewhere
    <3> QED  BY <1>8, <3>7
  <2> QED  BY <2>1, <2>2
<1> QED  BY <1>10, <1>11 DEF at, image

\* With these bytes the ROM finds the image and reads it back.
LEMMA InvImpliesBoots ==
    ASSUME Blockwise, IInv, WayInv, WriteInv, TypeInv, ImageInv
    PROVE  Boots
<1> SUFFICES ASSUME stage = "boot" PROVE Boots
  BY Zenon DEF Boots
<1> DEFINE at == BootloaderAt[chip]
           image == args[1]
           i == mkbin(elf)
           base == at + 1
<1>1. /\ image.addr = at /\ image.data = i /\ ElfFile(elf) /\ at \in Nat
      /\ at + Len(i) <= FlashSize
  BY ImageFile1
<1>2. /\ i \in Seq(Byte) /\ 24 < Len(i) /\ Len(i) \in Nat
      /\ \A j \in 1 .. 24 : i[j] = ImageHeader(elf)[j]
  BY <1>1, MkbinHeader, LenProperties
<1>3. \A o \in 0 .. Len(i) - 1 : At(mem, at + o + 1) = Final(image, o)
  BY ImageFlashed
<1>4. /\ mem \in Seq(Byte) /\ Len(mem) = FlashSize /\ FlashSize \in Nat
      /\ params \in Byte \X Byte /\ params = WantedParams
  <2>1. FlashType
    BY DEF TypeInv
  <2>2. params = WantedParams
    BY Zenon DEF ImageInv
  <2> QED  BY <2>1, <2>2, ImageAssumption DEF FlashType
<1> HIDE DEF at, image, i
<1>5. i[3] = 0 /\ i[4] = 0 /\ i[13] = 0
  <2>1. ImageHeader(elf)[3] = 0 /\ ImageHeader(elf)[4] = 0 /\ ImageHeader(elf)[13] = 0
    BY <1>1, ImageHeaderBytes
  <2>2. 3 \in 1 .. 24 /\ 4 \in 1 .. 24 /\ 13 \in 1 .. 24
    OBVIOUS
  <2> QED  BY <1>2, <2>1, <2>2
<1>6. ImageAt(mem, base, elf)
  <2>1. SUFFICES ASSUME NEW j \in 1 .. Len(i), j \notin {3, 4, 13}
                 PROVE  At(mem, base + j - 1) = i[j]
    BY Zenon DEF ImageAt, i
  <2>2. j - 1 \in 0 .. Len(i) - 1 /\ at + (j - 1) + 1 = base + j - 1 /\ (j - 1) + 1 = j
    BY <1>1, <1>2
  <2>3. j - 1 \notin {2, 3} /\ j - 1 # 12
    BY <2>1
  <2>4. Final(image, j - 1) = i[j]
    BY <1>1, <2>2, <2>3, Zenon DEF Final
  <2> QED  BY <1>3, <2>2, <2>4
<1>7. /\ base \in Nat /\ Len(mem) \in Nat /\ Len(mem) <= MaxSize /\ Len(i) <= Len(mem)
  <2>1. FlashSize <= MaxSize
    BY ImageAssumption, Zenon
  <2>2. base \in Nat /\ Len(i) <= FlashSize
    <3> DEFINE len == Len(i)
    <3>1. at \in Nat /\ len \in Nat /\ at + len <= FlashSize /\ FlashSize \in Nat
      BY <1>1, <1>2, <1>4, Zenon DEF i
    <3> HIDE DEF len
    <3>2. at + 1 \in Nat /\ len <= FlashSize
      BY <3>1
    <3> QED  BY <3>2, Zenon DEF len
  <2> QED  BY <1>4, <2>1, <2>2
<1> DEFINE loaded == Loader(mem, base)
<1>8. loaded.valid /\ loaded.entry = elf.entry /\ loaded.segments = LoadedSegments(elf)
  BY <1>1, <1>6, <1>7, ImageReadBack DEF i
<1>9. SameSegments(elf.phdrs, loaded.segments)
  BY <1>1, <1>8, SegmentsAreHeaders
<1>10. loaded.chip = IF chip = "esp32c3" THEN 5 ELSE 0
  <2>1. 12 \in 0 .. Len(i) - 1 /\ at + 12 + 1 = base + 12 /\ 12 \notin {2, 3} /\ 12 + 1 = 13
    BY <1>1, <1>2
  <2>2. At(mem, base + 12) = Final(image, 12)
    BY <1>3, <2>1
  <2>3. Final(image, 12) = IF chip = "esp32c3" THEN 5 ELSE i[13]
    BY <1>1, <2>1 DEF Final
  <2>4. loaded.chip = At(mem, base + 12)
    BY HeaderReadBack
  <2> QED  BY <1>5, <2>2, <2>3, <2>4
<1>11. loaded.params = WantedParams
  <2>1. 2 \in 0 .. Len(i) - 1 /\ 3 \in 0 .. Len(i) - 1
    <3> DEFINE n == Len(i)
    <3>1. n \in Nat /\ 24 < n
      BY <1>2
    <3> HIDE DEF n
    <3>2. 2 \in 0 .. n - 1 /\ 3 \in 0 .. n - 1
      BY <3>1
    <3> QED  BY <3>2 DEF n
  <2>2. at + 2 + 1 = (base + 2) + 1 - 1 /\ at + 3 + 1 = (base + 2) + 2 - 1
    BY <1>1
  <2>3. 2 \in {2, 3} /\ 3 \in {2, 3} /\ 2 # 12 /\ 3 # 12
    OBVIOUS
  <2>4. 2 + 1 = 3 /\ 3 + 1 = 4 /\ 2 - 1 = 1 /\ 3 - 1 = 2
    OBVIOUS
  <2>5. At(mem, (base + 2) + 1 - 1) = Final(image, 2) /\ At(mem, (base + 2) + 2 - 1) = Final(image, 3)
    BY <1>3, <2>1, <2>2
  <2>6. params = <<params[1], params[2]>>
    BY <1>4
  <2>7. Final(image, 2) = params[1] /\ Final(image, 3) = params[2]
    <3>1. CASE params # <<0, 0>>
      BY <1>1, <2>3, <2>4, <3>1, Zenon DEF Final, at
    <3>2. CASE params = <<0, 0>>
      <4>1. params[1] = 0 /\ params[2] = 0
        BY <3>2
      <4>2. Final(image, 2) = i[3] /\ Final(image, 3) = i[4]
        BY <1>1, <2>3, <2>4, <3>2, Zenon DEF Final
      <4> QED  BY <1>5, <4>1, <4>2
    <3> QED  BY <3>1, <3>2
  <2>8. BytesAt(mem, base + 2, 2) = <<At(mem, (base + 2) + 1 - 1), At(mem, (base + 2) + 2 - 1)>>
    BY DEF BytesAt
  <2>9. loaded.params = BytesAt(mem, base + 2, 2)
    BY HeaderReadBack
  <2> QED  BY <1>4, <2>5, <2>6, <2>7, <2>8, <2>9, Zenon
<1> HIDE DEF loaded
<1> QED  BY <1>8, <1>9, <1>10, <1>11, Zenon DEF Boots, loaded, base, at

\* By either way, with whatever files beside it and whatever was in flash before, the ROM
\* finds a valid image for this chip, with the parameters that were wanted (none when flash
\* could not read the old image's), and copies to RAM what the ELF file's headers say.
THEOREM ImageBoots == ASSUME Blockwise PROVE Spec => []Boots
<1> DEFINE J == IInv /\ WayInv /\ WriteInv
<1>1. J /\ TypeInv /\ ImageInv => Boots
  BY InvImpliesBoots
<1>2. Spec => []J
  BY FlashInductive
<1>3. Spec => []TypeInv
  BY TypesHold
<1>4. Spec => []ImageInv
  BY ImageInductive
<1> HIDE DEF J
<1> QED  BY <1>1, <1>2, <1>3, <1>4, PTL
=============================================================================
