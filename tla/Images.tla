------------------------------- MODULE Images -------------------------------
(***************************************************************************)
(* A firmware's way onto the chip: mkbin makes an image of an ELF file,    *)
(* flash writes it and other files, given as binary files or as the one    *)
(* .hex file that mkhex made of them, and the ROM loader reads it back.    *)
(* That cmd delivers the blocks is the subject of BootLink; here each      *)
(* arrives, and the question is what is in it and where it goes.           *)
(***************************************************************************)
EXTENDS HexFile, ImageFile

CONSTANTS
    Elfs,            \* ELF files
    DataFiles,       \* what else may be flashed: sequences of [addr, data]
    Chips,           \* the chips
    BootloaderAt,    \* chip -> where its ROM looks for an image (chip.bla)
    Fpars,           \* values of the option -fp: two bytes, or << >> for none
    OldHeaders,      \* what may be in flash where the image goes
    BlockSize,       \* block_size (4096)
    FlashSize        \* bytes of flash

ASSUME ImageAssumption ==
    /\ \A elf \in Elfs : ElfFile(elf)
    /\ Chips \subseteq {"esp32", "esp32c3"}
    /\ \A c \in Chips : BootloaderAt[c] \in Nat /\ BootloaderAt[c] % BlockSize = 0
    /\ Fpars \subseteq {<< >>} \cup (Byte \X Byte)
    /\ OldHeaders \subseteq Seq(Byte)
    /\ BlockSize \in Nat \ {0} /\ FlashSize \in Nat /\ FlashSize % BlockSize = 0
    /\ FlashSize < Bank * Bank /\ FlashSize <= MaxSize

VARIABLES
    elf,     \* the ELF file
    chip,    \* the chip on the line, known to esputil
    fpar,    \* the option -fp
    hexed,   \* whether a .hex file is flashed
    unread,  \* whether cmd fails when flash reads the old image's header
    todo,    \* the files flash has still to write, the current one first
    seq,     \* flashbin: the next block, or NotBegun
    params,  \* flash_params, two bytes
    old,     \* history: the flash memory before
    mem      \* the flash memory; address a is mem[a + 1]

vars == <<hexvars, stage, elf, chip, fpar, hexed, unread, todo, seq, params, old, mem>>
setting == <<elf, chip, fpar, hexed, unread, old>>

NotBegun == -1
Read(flash, a, n) == [j \in 1 .. n |-> At(flash, a + j)]

Init ==
    /\ elf \in Elfs /\ chip \in Chips /\ fpar \in Fpars /\ hexed \in BOOLEAN
    /\ unread \in IF fpar = << >> THEN BOOLEAN ELSE {FALSE}
    /\ args \in DataFiles
    /\ \E header \in OldHeaders :
         mem = [a \in 1 .. FlashSize |->
                  At(header, a - BootloaderAt[chip])]
    /\ old = mem
    /\ stage = "mkbin" /\ mk = mkStart /\ hex = << >>
    /\ un = unStart /\ dir = << >> /\ list = << >>
    /\ todo = << >> /\ seq = NotBegun /\ params = <<0, 0>>

-----------------------------------------------------------------------------
\* mkbin; the image is given to mkhex or to flash together with the other files.
Mkbin ==
    /\ stage = "mkbin"
    /\ args' = <<[addr |-> BootloaderAt[chip], data |-> mkbin(elf)]>> \o args
    /\ stage' = IF hexed THEN "mkhex" ELSE "flash"
    /\ UNCHANGED <<mk, hex, un, dir, list, setting, todo, seq, params, mem>>

Mkhex == (MkhexOpen \/ MkhexLine \/ MkhexEnd) /\ UNCHANGED <<setting, todo, seq, params, mem>>

Unhex ==
    /\ UnhexData \/ UnhexOther
    /\ UNCHANGED <<setting, todo, seq, params, mem>>

\* flash: the parameters are given, or read from the image that is in flash; when the
\* chip refuses to read it or does not answer, flash says so and goes on without any.
FlashParams ==
    IF fpar # << >> THEN fpar
    ELSE IF unread THEN <<0, 0>>
    ELSE LET header == Read(mem, BootloaderAt[chip], 4)
         IN  IF header[1] = 233 THEN <<header[3], header[4]>> ELSE <<0, 0>>

FlashBegin ==
    /\ stage = "flash" \/ Unhexed
    /\ params' = FlashParams
    /\ todo' = IF hexed THEN [n \in DOMAIN list |-> [addr |-> list[n], data |-> dir[list[n]]]]
               ELSE args
    /\ stage' = "write"
    /\ UNCHANGED <<hexvars, setting, seq, mem>>

\* Mutant: every block is treated as the first one of the image.
Patched_Always(file, block) ==
    [j \in DOMAIN block |-> IF chip = "esp32c3" /\ j = 13 THEN 5 ELSE block[j]]

\* flashbin: in the first block of a file the flash parameters are put into an
\* image where the ROM looks for one, and the ID of an ESP32-C3 into byte 12.
Patched(file, block) ==
    LET at_header == file.addr = BootloaderAt[chip] /\ params # <<0, 0>>
        new(j) == IF at_header /\ j \in {3, 4} THEN params[j - 2]
                  ELSE IF chip = "esp32c3" /\ j = 13 THEN 5 ELSE block[j]
    IN  IF seq # 0 THEN block ELSE [j \in DOMAIN block |-> new(j)]

\* The chip at a FLASH_BEGIN: it erases the blocks.
EraseFile ==
    /\ stage = "write" /\ todo # << >> /\ seq = NotBegun
    /\ LET file   == Head(todo)
           blocks == (Len(file.data) + BlockSize - 1) \div BlockSize
       IN  mem' = [a \in 1 .. FlashSize |->
                     IF a - 1 \in file.addr .. file.addr + blocks * BlockSize - 1
                     THEN 255 ELSE mem[a]]
    /\ seq' = 0
    /\ UNCHANGED <<hexvars, stage, setting, todo, params>>

\* flashbin's loop and the chip at a FLASH_DATA: one block is read, changed and
\* written behind the blocks before it; behind the last one comes the next file.
WriteBlock ==
    /\ stage = "write" /\ todo # << >> /\ seq # NotBegun
    /\ LET file  == Head(todo)
           first == seq * BlockSize
           n     == IF Len(file.data) - first < BlockSize
                    THEN Len(file.data) - first ELSE BlockSize
           to    == file.addr + first
           block == Patched(file, SubSeq(file.data, first + 1, first + n))
       IN  IF n > 0
           THEN /\ mem' = [a \in 1 .. FlashSize |->
                             IF a \in to + 1 .. to + n THEN block[a - to] ELSE mem[a]]
                /\ seq' = seq + 1
                /\ UNCHANGED todo
           ELSE todo' = Tail(todo) /\ seq' = NotBegun /\ UNCHANGED mem
    /\ UNCHANGED <<hexvars, stage, setting, params>>

\* flash ends with a hard_reset.
FlashEnd ==
    /\ stage = "write" /\ todo = << >>
    /\ stage' = "boot"
    /\ UNCHANGED <<hexvars, setting, todo, seq, params, mem>>

Next ==
    Mkbin \/ Mkhex \/ Unhex \/ FlashBegin \/ EraseFile \/ WriteBlock \/ FlashEnd

Spec == Init /\ [][Next]_vars

-----------------------------------------------------------------------------
\* Blocks, files and lines are where they can be, and nothing but bytes is flashed.
TypeOK ==
    /\ stage \in {"mkbin", "mkhex", "unhex", "flash", "write", "boot"}
    /\ mk.file \in 1 .. Len(args) + 1
    /\ mk.file <= Len(args) => mk.pos \in 0 .. Len(args[mk.file].data)
    /\ \A n \in DOMAIN hex : Len(hex[n].data) <= LineLen /\ hex[n].addr \in 0 .. Bank - 1
    /\ \A n \in DOMAIN hex : hex[n].type = "data" => hex[n].data # << >>
    /\ DOMAIN dir = Range(list)
    /\ seq \in Nat \cup {NotBegun}
    /\ mem \in Seq(Byte) /\ Len(mem) = FlashSize

\* Where a file may differ from what is in flash: the flash parameters of an image
\* where the ROM looks for one, and the chip ID of an ESP32-C3 - in every file, as
\* flashbin does not ask whether it is an image.
MayDiffer(file) ==
    (IF file.addr = BootloaderAt[chip] THEN {2, 3} ELSE {})
    \cup (IF chip = "esp32c3" THEN {12} ELSE {})

\* The addresses of a file's blocks.
Blocks(file) == file.addr .. file.addr + align_to(Len(file.data), BlockSize) - 1

\* Flashed by either way, each file is in flash at its address byte by byte, apart
\* from the fields that are set on purpose; what belongs to no block of a file is
\* what it was.
FlashedBytes ==
    stage = "boot" =>
        /\ \A n \in DOMAIN args : \A o \in 0 .. Len(args[n].data) - 1 :
             o \notin MayDiffer(args[n]) => At(mem, args[n].addr + o + 1) = args[n].data[o + 1]
        /\ \A a \in 0 .. FlashSize - 1 :
             (\A n \in DOMAIN args : a \notin Blocks(args[n])) => mem[a + 1] = old[a + 1]

\* The parameters asked for, those of the image that was in flash, or the default, which
\* is also what is left when that image could not be read.
WantedParams ==
    IF fpar # << >> THEN fpar
    ELSE IF unread THEN <<0, 0>>
    ELSE IF old[BootloaderAt[chip] + 1] = 233 THEN Read(old, BootloaderAt[chip] + 2, 2)
    ELSE <<0, 0>>

\* The headers or segments of which there are bytes.
Filled(headers) == {n \in DOMAIN headers : headers[n].data # << >>}

\* What the ELF file's headers say is what is copied, in this order: no more, no less.
SameSegments(phdrs, segments) ==
    \E at \in [Filled(phdrs) -> Filled(segments)] :
        /\ Filled(segments) = {at[n] : n \in Filled(phdrs)}
        /\ \A n, m \in Filled(phdrs) : n < m => at[n] < at[m]
        /\ \A n \in Filled(phdrs) :
             /\ segments[at[n]].vaddr = phdrs[n].vaddr
             /\ IsPrefix(phdrs[n].data, segments[at[n]].data)
             /\ Len(segments[at[n]].data) = align_to(Len(phdrs[n].data), 4)

\* After any of these ways the ROM finds a valid image for this chip, with the flash
\* parameters the user gave or flash read from the old image, and copies to RAM what
\* the ELF file's headers say, filled up to whole words, before it jumps to the entry
\* point.
Boots ==
    stage = "boot" =>
        LET loaded == Loader(mem, BootloaderAt[chip] + 1)
        IN  /\ loaded.valid
            /\ loaded.chip = IF chip = "esp32c3" THEN 5 ELSE 0
            /\ loaded.params = WantedParams
            /\ loaded.entry = elf.entry
            /\ SameSegments(elf.phdrs, loaded.segments)

-----------------------------------------------------------------------------
\* What RoundTrip takes for granted: the files are put at whole lines, as banks are,
\* and do not overlap.
Span(file) == file.addr .. file.addr + Len(file.data) - 1
Linewise ==
    /\ Bank % LineLen = 0
    /\ \A c \in Chips, e \in Elfs, files \in DataFiles :
         LET all == <<[addr |-> BootloaderAt[c], data |-> mkbin(e)]>> \o files IN
         /\ files \in Seq([addr : Nat, data : Seq(Byte)])
         /\ \A n \in DOMAIN all : all[n].addr % LineLen = 0
         /\ \A n, m \in DOMAIN all : n # m => Span(all[n]) \cap Span(all[m]) = {}

\* What FlashedBytes takes for granted: they are also put at whole blocks, in the flash.
Blockwise ==
    /\ Linewise
    /\ BlockSize > 12
    /\ \A c \in Chips, e \in Elfs, files \in DataFiles :
         LET all == <<[addr |-> BootloaderAt[c], data |-> mkbin(e)]>> \o files IN
         \A n \in DOMAIN all :
           all[n].addr % BlockSize = 0 /\ all[n].addr + Len(all[n].data) <= FlashSize
=============================================================================
