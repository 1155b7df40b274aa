----------------------------- MODULE BuildChain -----------------------------
(***************************************************************************)
(* flasher.py with the instrumenter in its middle: a command deletes what  *)
(* earlier ones left in toolsExtra/, compiles, instruments the user's      *)
(* assembly files in place, one after the other, links every assembly file *)
(* it finds there, and flashes the result.  Each step runs another program *)
(* and can fail or be interrupted half-way, which ends the command; the    *)
(* user may then change the sources and start over.                        *)
(***************************************************************************)
EXTENDS InstrumenterPass, Functions

CONSTANTS
    UserFiles,    \* names a file of usercode/ may have, without its suffix
    System,       \* stands for boot, main, intr_vector_table and shadow_stack
    OUTPUT,       \* the name given on the command line
    SystemLines,  \* what the compiler makes of the system's files
    Listing,      \* what objdump makes of an image
    Projects,     \* contents of usercode/, as the compiler would translate them
    Edits,        \* the projects the user may change between two commands
    MaxCommands,  \* bound: commands given for a project of Edits
    Missing,      \* no such file
    Broken        \* a file or flash that was not written to its end

AsmFiles == UserFiles \cup {System, OUTPUT}

\* The checks are what the templates insert; the compiler makes none.
Checks == {"jump_check", "ret_check"}
SourceLine == {l \in Line : l.kind \notin Checks}
Project(p) == DOMAIN p \subseteq UserFiles /\ \A f \in DOMAIN p : p[f] \in Seq(SourceLine)

ASSUME NameAssumption ==
    /\ System \notin UserFiles /\ OUTPUT \notin UserFiles \cup {System}
    /\ IsFiniteSet(UserFiles) /\ Missing \notin Seq(Line)
ASSUME ProjectAssumption ==
    /\ \A p \in Projects \cup Edits : Project(p)
    /\ SystemLines \in Seq(SourceLine) /\ Listing \in Seq(Line)
    /\ MaxCommands \in Nat \ {0}

Commands == {"build", "run", "secure-build", "secure-run", "clear"}
Secure   == {"secure-build", "secure-run"}
Ended    == {"idle", "done", "failed"}

VARIABLES
    source,    \* usercode/
    asm,       \* the .s files of toolsExtra/
    elf, bin,  \* OUTPUT.elf and OUTPUT.bin: Missing, Broken, or an image
    board,     \* what is flashed
    command,   \* the command of the last process
    at,        \* where it is, or how it ended
    files,     \* its list of user files, in the order of os.listdir
    k, i,      \* instrument(): the file it is at, and the lines of it it has read
    pass,      \* instrument(): the local variables and leaf_functions
    commands   \* how many were given

toolsExtra == <<asm, elf, bin>>
process    == <<files, k, i, pass>>
vars == <<source, toolsExtra, board, command, at, process, commands>>

\* An image is what was linked: the lines of each file.
PlainImage == [f \in DOMAIN source \cup {System} |->
                  IF f = System THEN SystemLines ELSE source[f]]
Present == {f \in AsmFiles : asm[f] # Missing}

Init ==
    /\ source \in Projects
    /\ asm = [f \in AsmFiles |-> Missing]
    /\ elf = Missing /\ bin = Missing /\ board = Missing
    /\ command = "clear" /\ at = "idle"
    /\ files = << >> /\ k = 1 /\ i = 0 /\ pass = PassStart({})
    /\ commands = 0

-----------------------------------------------------------------------------
\* The user

\* main(): one command line.
Start(c) ==
    /\ at \in Ended
    /\ commands < IF source \in Edits THEN MaxCommands ELSE 1
    /\ command' = c /\ at' = "clear" /\ commands' = commands + 1
    /\ UNCHANGED <<source, toolsExtra, board, process>>

\* The user adds, changes or removes source files.
Edit ==
    /\ at \in Ended /\ commands < MaxCommands /\ source \in Edits
    /\ source' \in Edits \ {source}
    /\ UNCHANGED <<toolsExtra, board, command, at, process, commands>>

-----------------------------------------------------------------------------
\* The process

NoProcess == files' = << >> /\ k' = 1 /\ i' = 0 /\ pass' = PassStart({})

\* On to the next step, or to the end of the process and its memory.
Go(from, to) ==
    /\ at = from /\ at' = to
    /\ IF to \in Ended THEN NoProcess ELSE UNCHANGED process
    /\ UNCHANGED <<source, command, commands>>

\* run_command raises when the program it runs fails, and nothing catches that; an
\* interrupt ends the process as well.
Fail(from) == Go(from, "failed")

AfterClear == IF command = "clear" THEN "done" ELSE "retrieve"

\* Mutant: the assembly files stay.
clear_KeepsAsm ==
    /\ Go("clear", AfterClear)
    /\ elf' = Missing /\ bin' = Missing
    /\ UNCHANGED <<asm, board>>

\* clear(): one rm for all files; when it stops early any of them may be left.
clear ==
    /\ \/ /\ Go("clear", AfterClear)
          /\ asm' = [f \in AsmFiles |-> Missing] /\ elf' = Missing /\ bin' = Missing
       \/ /\ Fail("clear")
          /\ \E gone \in SUBSET Present :
               asm' = [f \in AsmFiles |-> IF f \in gone THEN Missing ELSE asm[f]]
          /\ elf' \in {elf, Missing} /\ bin' \in {bin, Missing}
    /\ UNCHANGED board

\* The list of user files, in any order.
Retrieve ==
    /\ at = "retrieve" /\ at' = IF command \in Secure THEN "compile" ELSE "link"
    /\ files' \in SetToSeqs(DOMAIN source)
    /\ UNCHANGED <<source, toolsExtra, board, command, commands, k, i, pass>>

\* gcc -S: one assembly file for each source file, the system's included.
Compiled(names) == [f \in AsmFiles |-> IF f \in names THEN PlainImage[f] ELSE asm[f]]
Compile ==
    /\ \/ Go("compile", "instrument") /\ asm' = Compiled(DOMAIN PlainImage)
       \/ /\ Fail("compile")
          /\ \E written \in SUBSET DOMAIN PlainImage : asm' = Compiled(written)
    /\ UNCHANGED <<elf, bin, board>>

\* instrument(): the files it reads, as they are now.
assembly_files == [n \in DOMAIN files |-> asm[files[n]]]
Lines == asm[files[k]]
InFile == at = "instrument" /\ k <= Len(files)

\* The loop over the lines of a file; nothing is written yet.
InstrumentLine ==
    /\ InFile /\ i < Len(Lines)
    /\ pass' = PassLine(assembly_files, pass, Lines[i + 1])
    /\ i' = i + 1
    /\ UNCHANGED <<source, toolsExtra, board, command, at, files, k, commands>>

\* Mutant: the file is written back without being truncated first.
WriteFile_Appends ==
    /\ InFile /\ i = Len(Lines)
    /\ asm' = [asm EXCEPT ![files[k]] = @ \o pass.new_lines]
    /\ k' = k + 1 /\ i' = 0 /\ pass' = PassStart(pass.leaf_functions)
    /\ UNCHANGED <<source, elf, bin, board, command, at, files, commands>>

\* The file is opened for writing, which empties it, and written.
WriteFile ==
    /\ InFile /\ i = Len(Lines)
    /\ asm' = [asm EXCEPT ![files[k]] = pass.new_lines]
    /\ k' = k + 1 /\ i' = 0 /\ pass' = PassStart(pass.leaf_functions)
    /\ UNCHANGED <<source, elf, bin, board, command, at, files, commands>>

\* The process dies in instrument(): between two lines, or in the middle of a write.
InstrumentFails ==
    /\ InFile
    /\ Fail("instrument")
    /\ \/ UNCHANGED asm
       \/ /\ i = Len(Lines)
          /\ \E n \in 0 .. Len(pass.new_lines) :
               asm' = [asm EXCEPT ![files[k]] = SubSeq(pass.new_lines, 1, n)]
    /\ UNCHANGED <<elf, bin, board>>

Instrumented ==
    /\ Go("instrument", "link") /\ k > Len(files)
    /\ UNCHANGED <<toolsExtra, board>>

\* gcc: a plain build links the sources, a secure one every .s file there is.
Link ==
    /\ \/ /\ Go("link", "mkbin")
          /\ elf' = IF command \in Secure THEN Restrict(asm, Present) ELSE PlainImage
       \/ Fail("link") /\ elf' \in {elf, Broken}
    /\ UNCHANGED <<asm, bin, board>>

\* esputil mkbin: creates the file, then fills it.
Mkbin ==
    /\ \/ Go("mkbin", "objdump") /\ bin' = elf
       \/ Fail("mkbin") /\ bin' \in {bin, Broken}
    /\ UNCHANGED <<asm, elf, board>>

\* objdump: the listing is a .s file of toolsExtra/ as well.
Objdump ==
    /\ \/ /\ Go("objdump", IF command \in {"run", "secure-run"} THEN "flash" ELSE "done")
          /\ asm' = [asm EXCEPT ![OUTPUT] = Listing]
       \/ Fail("objdump") /\ asm' = [asm EXCEPT ![OUTPUT] = << >>]
    /\ UNCHANGED <<elf, bin, board>>

\* esputil flash, then esputil monitor until the user stops it.
Flash ==
    /\ \/ Go("flash", "monitor") /\ board' = bin
       \/ Fail("flash") /\ board' \in {board, Broken}
    /\ UNCHANGED toolsExtra
Monitor == Go("monitor", "done") /\ UNCHANGED <<toolsExtra, board>>

Next ==
    \/ \E c \in Commands : Start(c)
    \/ Edit
    \/ clear \/ Retrieve \/ Compile
    \/ InstrumentLine \/ WriteFile \/ InstrumentFails \/ Instrumented
    \/ Link \/ Mkbin \/ Objdump \/ Flash \/ Monitor

Spec == Init /\ [][Next]_vars

-----------------------------------------------------------------------------
\* The program as the compiler meant it

Label(f) == [kind |-> "label", name |-> f]
Call(f)  == [kind |-> "call", name |-> f]
Return   == [kind |-> "jr", name |-> "ra"]
LinesOf(image) == UNION {Range(image[n]) : n \in DOMAIN image}

Functions == {l.name : l \in {m \in LinesOf(source) : Matches(m, "label")}}

\* The lines from the label of f to the next label or the end of its file.
Body(image, f) ==
    LET file   == image[CHOOSE n \in DOMAIN image : Label(f) \in Range(image[n])]
        first  == CHOOSE j \in DOMAIN file : file[j] = Label(f)
        labels == {j \in DOMAIN file : j > first /\ Matches(file[j], "label")}
    IN  SubSeq(file, first, IF labels = {} THEN Len(file) ELSE Min(labels) - 1)

\* A leaf calls nothing, not even the library: it never saves ra.
TrueLeaf(f) == \A l \in Range(Body(source, f)) : ~Matches(l, "call")

Check(line) ==
    [kind |-> IF Matches(line, "call") THEN "jump_check" ELSE "ret_check", name |-> line.name]

\* Every line of the image that is l has its check in front, or none has.
Checked(image, l) ==
    \A n \in DOMAIN image : \A j \in DOMAIN image[n] :
        image[n][j] = l => j > 1 /\ image[n][j - 1] = Check(l)
ReturnsChecked(image, f)   == Checked([n \in {1} |-> Body(image, f)], Return)
ReturnsUnchecked(image, f) == \A l \in Range(Body(image, f)) : ~Matches(l, "ret_check")
CallsUnchecked(image, f)   == Check(Call(f)) \notin LinesOf(image)

\* A file with checks, and the file the compiler made of it: without the checks it
\* is that file, and each check stands in front of the line it is for.
Guards(file, plain) ==
    LET kept == {j \in DOMAIN file : file[j].kind \notin Checks} IN
    /\ Cardinality(kept) = Len(plain)
    /\ \A j \in kept : file[j] = plain[Cardinality({m \in kept : m <= j})]
    /\ \A j \in DOMAIN file \ kept : j < Len(file) /\ file[j] = Check(file[j + 1])

\* The system as it is, and the user's present sources with checks; no other file.
Instruments(image) ==
    /\ DOMAIN image = DOMAIN PlainImage
    /\ image[System] = SystemLines
    /\ \A f \in DOMAIN source : Guards(image[f], source[f])

\* Each call of a non-leaf and each of its returns is checked.
ChecksNonLeaves(image) ==
    \A f \in Functions \ STD_C_FUNCS :
        ~TrueLeaf(f) => Checked(image, Call(f)) /\ ReturnsChecked(image, f)

\* The layouts the pass was written for: a leaf comes after a call of it, in the
\* order the lines are read, and is not the last function of its file.
LeafPlaced(f) ==
    /\ \E m, n \in DOMAIN files :
         \E j \in DOMAIN source[files[m]], l \in DOMAIN source[files[n]] :
            /\ m < n \/ (m = n /\ j < l)
            /\ source[files[m]][j] = Call(f) /\ source[files[n]][l] = Label(f)
    /\ \E n \in DOMAIN source : \E j, l \in DOMAIN source[n] :
         j < l /\ source[n][j] = Label(f) /\ Matches(source[n][l], "label")
WellPlaced == \A f \in Functions : TrueLeaf(f) => LeafPlaced(f)

-----------------------------------------------------------------------------
\* Properties

SecureLinked == command \in Secure /\ at \in {"mkbin", "objdump", "flash", "monitor"}

\* Files, process and history keep their types; only functions of the program are
\* ever taken for leaves.
TypeOK ==
    /\ Project(source)
    /\ asm \in [AsmFiles -> Seq(Line) \cup {Missing}]
    /\ \A image \in {elf, bin, board} :
         image \in {Missing, Broken} \/ DOMAIN image \subseteq AsmFiles
    /\ command \in Commands
    /\ files \in Seq(DOMAIN source) /\ k \in 1 .. Len(files) + 1
    /\ i \in 0 .. (IF InFile THEN Len(Lines) ELSE 0)
    /\ pass.leaf_functions \subseteq Functions
    /\ commands \in 0 .. MaxCommands

\* While files are rewritten in place, those the pass has finished hold the
\* compiler's lines and one check in front of some of them, and those it has not
\* reached hold the compiler's lines, although it keeps reading all of them.
OnlyInserts ==
    at = "instrument" =>
        /\ asm[System] = SystemLines
        /\ \A n \in DOMAIN files :
             IF n < k THEN Guards(asm[files[n]], source[files[n]])
             ELSE asm[files[n]] = source[files[n]]

\* In every layout and for every order of os.listdir, each call of a non-leaf and
\* each of its returns is checked in what a secure command links.
NonLeavesChecked == SecureLinked => ChecksNonLeaves(elf)

\* In the layouts the pass was written for, calls and returns of a leaf are treated
\* alike: neither are checked.  (It is about leaves only: the jump of a switch gets a
\* return check, as instrumenter.py:5 takes it for a return, and nothing is pushed.)
Paired ==
    SecureLinked /\ WellPlaced => \A f \in Functions :
        TrueLeaf(f) => CallsUnchecked(elf, f) /\ ReturnsUnchecked(elf, f)

\* What is flashed is what the command promised, for the sources as they are now:
\* the plain program, or the program with each line checked that must be, once,
\* and the system without any check.  Whatever earlier commands left behind when
\* they failed - half an image, instrumented files, files of sources that were
\* removed since, a listing - nothing of it is part of it.
FlashedWhole ==
    [][board' \notin {board, Broken} =>
         IF command = "run" THEN board' = PlainImage
         ELSE command = "secure-run" /\ Instruments(board') /\ ChecksNonLeaves(board')]_vars

\* "Check if the current function is a leaf. If it is, skip" (instrumenter.py:69):
\* the returns of a leaf are skipped in every layout.
LeavesSkipped ==
    SecureLinked => \A f \in Functions : TrueLeaf(f) => ReturnsUnchecked(elf, f)

-----------------------------------------------------------------------------
\* What the properties rest on

\* The user's functions have different names, and the system's files neither
\* define nor call one of them: else the linker refuses the program, or an
\* is_leaf that goes by the name finds another function of that name.
Linkable ==
    \A p \in Projects \cup Edits : \A n \in DOMAIN p : \A j \in DOMAIN p[n] :
        Matches(p[n][j], "label") =>
            /\ \A m \in DOMAIN p : \A l \in DOMAIN p[m] :
                 p[m][l] = p[n][j] => m = n /\ l = j
            /\ {Label(p[n][j].name), Call(p[n][j].name)} \cap Range(SystemLines) = {}

\* No function of the user has the name of one the pass leaves alone.
OwnNames ==
    \A p \in Projects \cup Edits : \A n \in DOMAIN p : \A j \in DOMAIN p[n] :
        Matches(p[n][j], "label") => p[n][j].name \notin STD_C_FUNCS

\* The steps of a process, in their order.
Listed == {"compile", "instrument", "link", "mkbin", "objdump", "flash", "monitor"}
ImageSteps == {"mkbin", "objdump", "flash", "monitor"}

\* Where the process is says what it is for and what it holds.
ProcessInv ==
    /\ source \in Projects \cup Edits
    /\ at \in Ended \cup {"clear", "retrieve"} \cup Listed
    /\ at \in Listed => files \in SetToSeqs(DOMAIN source)
    /\ at \notin Listed => files = << >>
    /\ at \in {"retrieve"} \cup Listed => command # "clear"
    /\ at \in {"compile", "instrument"} => command \in Secure
    /\ at \in {"flash", "monitor"} => command \in {"run", "secure-run"}
    /\ at \in Ended \cup {"clear", "retrieve", "compile"} =>
         k = 1 /\ i = 0 /\ pass = PassStart({})
    /\ pass.new_lines \in Seq(Line)
    /\ at = "link" /\ command \in Secure => k = Len(files) + 1

\* From clear on toolsExtra/ holds what the process has put there.
FilesInv ==
    /\ at \in {"retrieve", "compile"} => Present = {}
    /\ at = "instrument" \/ (at = "link" /\ command \in Secure) =>
         /\ Present = DOMAIN PlainImage
         /\ asm[System] = SystemLines
         /\ \A n \in DOMAIN files :
              IF n < k THEN Guards(asm[files[n]], source[files[n]])
              ELSE asm[files[n]] = source[files[n]]
    /\ InFile => Guards(pass.new_lines, SubSeq(Lines, 1, i))
    /\ at \in ImageSteps =>
         IF command \in Secure THEN Instruments(elf) ELSE elf = PlainImage
    /\ at \in ImageSteps \ {"mkbin"} => bin = elf

BuildInv == TypeOK /\ ProcessInv /\ FilesInv

\* Line j of the file belongs to the function f.
InFunction(file, f, j) ==
    \E a \in DOMAIN file :
        /\ a < j /\ file[a] = Label(f)
        /\ \A m \in a + 1 .. j - 1 : ~Matches(file[m], "label")

\* The calls of non-leaves in a file, and their returns, are checked.
NonLeaves == {f \in Functions \ STD_C_FUNCS : ~TrueLeaf(f)}
Preceded(file, j) == j > 1 /\ file[j - 1] = Check(file[j])
FileChecked(file) ==
    \A f \in NonLeaves : \A j \in DOMAIN file :
        file[j] = Call(f) \/ (file[j] = Return /\ InFunction(file, f, j)) => Preceded(file, j)

\* The pass knows the function it is in, and takes no other function for a leaf.
CheckInv ==
    /\ pass.leaf_functions \cap NonLeaves = {}
    /\ InFile =>
         /\ FileChecked(pass.new_lines)
         /\ \A f \in Functions :
              InFunction(pass.new_lines, f, Len(pass.new_lines) + 1) => pass.curr_function = f
    /\ at = "instrument" \/ (at = "link" /\ command \in Secure) =>
         \A n \in DOMAIN files : n < k => FileChecked(asm[files[n]])
    /\ at \in ImageSteps /\ command \in Secure => ChecksNonLeaves(elf)

\* The leaves of the layouts the pass was written for; in no file are their calls
\* and their returns checked.
PlacedLeaves == {f \in Functions : TrueLeaf(f) /\ LeafPlaced(f)}
FileUnchecked(file) ==
    \A f \in PlacedLeaves : \A j \in DOMAIN file :
        /\ file[j] # Check(Call(f))
        /\ Matches(file[j], "ret_check") => ~InFunction(file, f, j)

\* The pass has remembered each such leaf that it has seen a call of.
LeavesKnown ==
    \A f \in PlacedLeaves : \A m \in DOMAIN files : \A j \in DOMAIN source[files[m]] :
        source[files[m]][j] = Call(f) /\ (m < k \/ (m = k /\ j <= i))
        => f \in pass.leaf_functions

PairInv ==
    /\ InFile => FileUnchecked(pass.new_lines)
    /\ at = "instrument" => LeavesKnown
    /\ at = "instrument" \/ (at = "link" /\ command \in Secure) =>
         \A n \in DOMAIN files : n < k => FileUnchecked(asm[files[n]])
    /\ at \in ImageSteps /\ command \in Secure =>
         \A f \in PlacedLeaves : CallsUnchecked(elf, f) /\ ReturnsUnchecked(elf, f)
=============================================================================
