-------------------------- MODULE InstrumenterPass --------------------------
(***************************************************************************)
(* instrumenter.py: the pass over the assembly files of the user program   *)
(* that puts a check before each call of a non-leaf and before each return *)
(* of a non-leaf.  A line is what the regular expressions tell apart:      *)
(*   label f      the start of function f       call f   a direct call     *)
(*   jr r         a jump through register r     exit     the final ecall   *)
(*   jump_check f, ret_check r                  what the templates insert  *)
(*   other        anything else, an indirect call (jalr) included: there is *)
(*                a pattern for it (UNDIR_JUMP_PATTERN) that nothing uses, *)
(*                so the pass neither checks it nor counts it as a call    *)
(* Files are rewritten one at a time, and is_leaf reads all of them as they *)
(* are on disk at that moment.                                             *)
(***************************************************************************)
EXTENDS Naturals, Sequences, FiniteSets, SequencesExt

CONSTANTS
    STD_C_FUNCS  \* library functions that are never checked

Line == [kind : {"label", "call", "jr", "exit", "jump_check", "ret_check", "other"},
         name : STRING]

Matches(line, kind) == line.kind = kind

\* Mutant: the scan looks for the next label only.
Scan_LabelsOnly(file, f) ==
    LET starts == {i \in DOMAIN file : file[i] = [kind |-> "label", name |-> f]}
    IN  IF \E i \in DOMAIN file : Matches(file[i], "label")
              /\ i \notin starts /\ \E j \in starts : j < i
        THEN "leaf" ELSE "nothing"

\* is_leaf's scan of one file: after the label of f, the next label says leaf and
\* a call says not; a file that ends before either says nothing.
Scan(file, f) ==
    LET starts == {i \in DOMAIN file : file[i] = [kind |-> "label", name |-> f]}
        ends   == {i \in DOMAIN file :
                     /\ Matches(file[i], "label") \/ Matches(file[i], "call")
                     /\ i \notin starts /\ \E j \in starts : j < i}
    IN  IF ends = {} THEN "nothing"
        ELSE IF Matches(file[Min(ends)], "label") THEN "leaf" ELSE "calls"

\* is_leaf: the first file that says anything decides; if none does, a leaf.
is_leaf(f, disk) ==
    \A k \in DOMAIN disk : Scan(disk[k], f) = "calls" =>
        \E j \in 1 .. k - 1 : Scan(disk[j], f) = "leaf"

\* Mutants: no leaf is remembered; every function found to be a leaf is.
Remembered_Nothing(f, disk) == {}
Remembered_Unseen(f, disk) == IF is_leaf(f, disk) THEN {f} ELSE {}

\* is_leaf's side effect: only a leaf found by the next label is remembered.
Remembered(f, disk) ==
    IF is_leaf(f, disk) /\ \E k \in DOMAIN disk : Scan(disk[k], f) = "leaf"
    THEN {f} ELSE {}

Asked(line) == Matches(line, "call") /\ line.name \notin STD_C_FUNCS

\* What instrument() knows in the middle of a file: the lines to write, the last
\* label read, and the leaves found so far in all files.
PassStart(leaf_functions) ==
    [new_lines |-> << >>, curr_function |-> "", leaf_functions |-> leaf_functions]

\* The loop of instrument() for one line, with the files as they are on disk.
PassLine(disk, pass, line) ==
    LET curr_function  == IF Matches(line, "label") THEN line.name ELSE pass.curr_function
        leaf_functions == pass.leaf_functions
                          \cup IF Asked(line) THEN Remembered(line.name, disk) ELSE {}
        jump == IF Asked(line) /\ ~is_leaf(line.name, disk)
                THEN <<[kind |-> "jump_check", name |-> line.name]>> ELSE << >>
        ret  == IF Matches(line, "jr") /\ curr_function \notin leaf_functions
                THEN <<[kind |-> "ret_check", name |-> line.name]>> ELSE << >>
    IN  [new_lines |-> pass.new_lines \o jump \o ret \o <<line>>,
         curr_function |-> curr_function, leaf_functions |-> leaf_functions]

\* One file of instrument(), and the whole of it, as functions of the files.
InstrumentFile(k, disk, leaf_functions) ==
    LET pass[i \in 0 .. Len(disk[k])] ==
            IF i = 0 THEN PassStart(leaf_functions)
            ELSE PassLine(disk, pass[i - 1], disk[k][i])
    IN  pass[Len(disk[k])]
Instrument(files) ==
    LET done[k \in 0 .. Len(files)] ==
            IF k = 0
            THEN [disk |-> files, leaf_functions |-> {}]
            ELSE LET prev == done[k - 1]
                     pass == InstrumentFile(k, prev.disk, prev.leaf_functions)
                 IN  [disk |-> [prev.disk EXCEPT ![k] = pass.new_lines],
                      leaf_functions |-> pass.leaf_functions]
    IN  done[Len(files)].disk
=============================================================================
