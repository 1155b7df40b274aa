----------------------------- MODULE ImageFile ------------------------------
(***************************************************************************)
(* esputil mkbin: an ELF file turned into a firmware image, and the ROM    *)
(* loader that reads such an image from flash.  Of an ELF file there are   *)
(* the entry point and the program headers with the bytes they refer to;   *)
(* an address is its four bytes, as neither side computes with it.         *)
(***************************************************************************)
EXTENDS Integers, Sequences, FiniteSets, SequencesExt

Byte    == 0 .. 255
Address == [1 .. 4 -> Byte]

\* An ELF file: its entry point and program headers, whose number is a byte.
ElfFile(elf) ==
    /\ elf.entry \in Address
    /\ elf.phdrs \in Seq([vaddr : Address, data : Seq(Byte)]) \ {<< >>}
    /\ Len(elf.phdrs) <= 255

Zeros(n) == [j \in 1 .. n |-> 0]
LittleEndian(n) == [j \in 1 .. 4 |-> (n \div 256 ^ (j - 1)) % 256]
align_to(n, to) == ((n + to - 1) \div to) * to

\* The exclusive or of 239 and the bytes: a bit is set if an odd number of them has it.
checksum(data) ==
    LET all == <<239>> \o data
        ones(b) == Cardinality({j \in DOMAIN all : (all[j] \div 2 ^ b) % 2 = 1})
        upto[b \in 0 .. 8] ==
            IF b = 0 THEN 0 ELSE upto[b - 1] + 2 ^ (b - 1) * (ones(b - 1) % 2)
    IN  upto[8]

\* elf_get_phdr: an empty first header is skipped, so that the last index is one
\* behind the table, where the file has the padding before the first section.
Phdr(elf, no) ==
    LET n == IF elf.phdrs[1].data = << >> THEN no + 1 ELSE no IN
    IF n \in DOMAIN elf.phdrs THEN elf.phdrs[n] ELSE [vaddr |-> Zeros(4), data |-> << >>]

\* A segment: its address, its size and its bytes, filled to a multiple of four.
Segment(h) ==
    LET aligned_size == align_to(Len(h.data), 4) IN
    h.vaddr \o LittleEndian(aligned_size) \o h.data \o Zeros(aligned_size - Len(h.data))

common_hdr(num_segments) == <<233, num_segments, 0, 0>>
extended_hdr == <<238>> \o Zeros(14) \o <<1>>

\* Mutant: no line is added when the segments end with one.
Padding_SameLine(n) == align_to(n, 16) - n - 1

\* The bytes between the segments and the checksum, the last of a line of 16.
Padding(n) == align_to(n + 1, 16) - n - 1

\* mkbin: headers, segments, padding, checksum.
mkbin(elf) ==
    LET headers == [n \in DOMAIN elf.phdrs |-> Phdr(elf, n)]
        upto    == common_hdr(Len(elf.phdrs)) \o elf.entry \o extended_hdr
                   \o FlattenSeq([n \in DOMAIN headers |-> Segment(headers[n])])
    IN  upto \o Zeros(Padding(Len(upto)))
        \o <<checksum(FlattenSeq([n \in DOMAIN headers |-> headers[n].data]))>>

-----------------------------------------------------------------------------
\* The ROM loader (external)

At(mem, a) == IF a \in DOMAIN mem THEN mem[a] ELSE 255
BytesAt(mem, a, n) == [j \in 1 .. n |-> At(mem, a + j - 1)]

\* A size, four bytes; those of 16 MB and more are not told apart, as no flash holds
\* them.
MaxSize == 16777216
SizeAt(mem, a) ==
    LET b == BytesAt(mem, a, 4)
    IN  IF b[4] # 0 THEN MaxSize ELSE b[1] + 256 * b[2] + 65536 * b[3]

\* The segments at a, num of them, each with the address it is copied to, and where
\* they end; the loader gives up at a size that does not fit the memory.
SegmentsAt(mem, a, num) ==
    LET walk[n \in 0 .. num] ==
            IF n = 0 THEN [end |-> a, segments |-> << >>]
            ELSE LET w    == walk[n - 1]
                     size == SizeAt(mem, w.end + 4)
                 IN  IF size > Len(mem) THEN w
                     ELSE [end |-> w.end + 8 + size,
                           segments |-> Append(w.segments,
                               [vaddr |-> BytesAt(mem, w.end, 4),
                                data  |-> BytesAt(mem, w.end + 8, size)])]
    IN  walk[num]

\* What the ROM makes of the image at base: the headers, and the segments, provided
\* the magic number and the checksum are right.
Loader(mem, base) ==
    LET w    == SegmentsAt(mem, base + 24, At(mem, base + 1))
        data == FlattenSeq([n \in DOMAIN w.segments |-> w.segments[n].data])
    IN  [valid    |-> /\ At(mem, base) = 233
                      /\ At(mem, base + align_to(w.end - base + 1, 16) - 1) = checksum(data),
         params   |-> BytesAt(mem, base + 2, 2),
         entry    |-> BytesAt(mem, base + 4, 4),
         chip     |-> At(mem, base + 12),
         segments |-> w.segments]
=============================================================================
