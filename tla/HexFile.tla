------------------------------ MODULE HexFile -------------------------------
(***************************************************************************)
(* esputil mkhex and unhex: several binary files with their addresses are  *)
(* printed as the lines of one Intel HEX file, and such a file is unpacked *)
(* into a directory of binary files named after their addresses.  A data   *)
(* line has the low half of its address only; a "high" line says the other *)
(* half for the lines behind it.                                           *)
(***************************************************************************)
EXTENDS Integers, Sequences, SequencesExt, TLC

CONSTANTS
    LineLen,  \* data bytes of a line (16)
    Bank      \* addresses that share their high half (65536)

ASSUME HexAssumption == LineLen \in Nat \ {0} /\ Bank \in Nat \ {0} /\ LineLen <= Bank

VARIABLES
    args,   \* the files given to mkhex: sequence of [addr, data]
    mk,     \* mkhex: the file it is at, what it has read, and whether it has begun
    hex,    \* the lines printed, and not yet read by unhex
    un,     \* unhex: upper, next, and the file it writes to (out)
    dir,    \* the files unhex has created, by address
    list,   \* their addresses, in the order of their creation
    stage   \* "mkhex", "unhex", or what comes behind them

hexvars == <<args, mk, hex, un, dir, list>>

NoFile == -1
mkStart == [file |-> 1, pos |-> 0, begun |-> FALSE]
unStart == [upper |-> 0, next |-> 0, out |-> NoFile]

HighLine(addr)       == [type |-> "high", addr |-> addr \div Bank, data |-> << >>]
DataLine(addr, data) == [type |-> "data", addr |-> addr % Bank, data |-> data]
EndLine              == [type |-> "end", addr |-> 0, data |-> << >>]

\* mkhex opens a file and prints the high half of its address.
MkhexOpen ==
    /\ stage = "mkhex" /\ mk.file <= Len(args) /\ ~mk.begun
    /\ hex' = Append(hex, HighLine(args[mk.file].addr))
    /\ mk' = [mk EXCEPT !.begun = TRUE]
    /\ UNCHANGED <<args, un, dir, list, stage>>

\* Mutant: the high half is only printed when a file is opened.
BankLine_Never(addr) == << >>
\* The high half, again whenever a line starts a bank.
BankLine(addr) == IF addr >= Bank - 1 /\ addr % Bank = 0 THEN <<HighLine(addr)>> ELSE << >>

\* Mutant: a line is printed for nothing, too.
DataLines_Always(addr, data) == <<DataLine(addr, data)>>
DataLines(addr, data) == IF data # << >> THEN <<DataLine(addr, data)>> ELSE << >>

\* mkhex has read a full line, or less when the file ends; an end of file that
\* follows a full line finds nothing more.
MkhexLine ==
    /\ stage = "mkhex" /\ mk.file <= Len(args) /\ mk.begun
    /\ LET file == args[mk.file]
           left == Len(file.data) - mk.pos
           n    == IF left < LineLen THEN left ELSE LineLen
           addr == file.addr + mk.pos
       IN  /\ hex' = hex \o BankLine(addr)
                     \o DataLines(addr, SubSeq(file.data, mk.pos + 1, mk.pos + n))
           /\ mk' = IF n < LineLen
                    THEN [file |-> mk.file + 1, pos |-> 0, begun |-> FALSE]
                    ELSE [mk EXCEPT !.pos = @ + n]
    /\ UNCHANGED <<args, un, dir, list, stage>>

MkhexEnd ==
    /\ stage = "mkhex" /\ mk.file > Len(args)
    /\ hex' = Append(hex, EndLine)
    /\ stage' = "unhex"
    /\ UNCHANGED <<args, mk, un, dir, list>>

\* unhex reads a line of data: unless it goes on where the last one ended, a file
\* of its own is created (one of that name is overwritten).
UnhexData ==
    /\ stage = "unhex" /\ hex # << >> /\ Head(hex).type = "data"
    /\ LET line == Head(hex)
           addr == un.upper + line.addr
           new  == un.out = NoFile \/ un.next # addr
           out  == IF new THEN addr ELSE un.out
           file == (IF new THEN << >> ELSE dir[out]) \o line.data
       IN  /\ dir' = [a \in DOMAIN dir \cup {out} |-> IF a = out THEN file ELSE dir[a]]
           /\ list' = IF new THEN Append(list, addr) ELSE list
           /\ un' = [un EXCEPT !.out = out, !.next = addr + Len(line.data)]
    /\ hex' = Tail(hex)
    /\ UNCHANGED <<args, mk, stage>>

\* Any other line.
UnhexOther ==
    /\ stage = "unhex" /\ hex # << >> /\ Head(hex).type # "data"
    /\ un' = IF Head(hex).type = "high" THEN [un EXCEPT !.upper = Head(hex).addr * Bank]
             ELSE [un EXCEPT !.out = NoFile]
    /\ hex' = Tail(hex)
    /\ UNCHANGED <<args, mk, dir, list, stage>>

Unhexed == stage = "unhex" /\ hex = << >>

-----------------------------------------------------------------------------
\* What a set of files with addresses puts where.
Contents(files) ==
    UNION {{<<f.addr + j - 1, f.data[j]>> : j \in DOMAIN f.data} : f \in files}
Unpacked == {[addr |-> list[n], data |-> dir[list[n]]] : n \in DOMAIN list}

\* unhex gives back what mkhex was given: the same bytes at the same addresses.
\* "esputil unhex command unpacks .hex file back into a set of .bin files"
\* (esputil/README.md:16).
RoundTrip == Unhexed => Contents(Unpacked) = Contents(Range(args))
=============================================================================
