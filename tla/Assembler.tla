----------------------------- MODULE Assembler -----------------------------
(***************************************************************************)
(* What the toolchain makes of assembly files (lines of InstrumenterPass): *)
(* a program text as SecureMonitor reads it.  Calls of functions that no   *)
(* file defines are library code, straight-line as far as the monitor can  *)
(* tell.  Calls and returns are two bytes, an ecall is four.               *)
(***************************************************************************)
EXTENDS InstrumenterPass, Integers, TLC

\* Bytes of a line, with those of the body behind a call.
Bytes(line) ==
    IF line.kind \in {"jump_check", "ret_check", "exit", "call"} THEN 4 ELSE 2

\* Address of line i of an image that starts at base.
Address(image, base, i) ==
    LET at[n \in 1 .. Len(image)] ==
            IF n = 1 THEN base ELSE at[n - 1] + Bytes(image[n - 1])
    IN  at[i]

\* The symbol table: each label at its address.
Symbol(image, base, name) ==
    Address(image, base,
            CHOOSE i \in DOMAIN image : image[i] = [kind |-> "label", name |-> name])
Defined(image, name) == [kind |-> "label", name |-> name] \in Range(image)

Instr(op, fn, dest, size, checked) ==
    [op |-> op, fn |-> fn, dest |-> dest, size |-> size, checked |-> checked,
     params |-> 0]

\* The function line i is in.
Enclosing(image, i) ==
    image[Max({j \in 1 .. i : Matches(image[j], "label")})].name

\* Behind an exit ecall the epilogue of its function is never reached.
Dead(image, i) ==
    \E e \in 1 .. i - 1 : /\ Matches(image[e], "exit")
                          /\ \A j \in e .. i : ~Matches(image[j], "label")

\* The instructions of line i.  Behind a call comes the code that uses its result.
Encode(image, base, i) ==
    LET line == image[i]
        fn   == Enclosing(image, i)
        a    == Address(image, base, i)
        after(kind) == i > 1 /\ Matches(image[i - 1], kind)
    IN  CASE line.kind \in {"ret_check", "exit"} ->
               a :> Instr(line.kind, fn, 0, 4, FALSE)
          [] Matches(line, "jump_check") ->
               a :> Instr("jump_check", fn, Symbol(image, base, line.name), 4, FALSE)
          [] Matches(line, "jr") -> a :> Instr("jr", fn, 0, 2, after("ret_check"))
          [] Matches(line, "call") /\ Defined(image, line.name) ->
                  a :> Instr("call", fn, Symbol(image, base, line.name), 2,
                             after("jump_check"))
               @@ a + 2 :> Instr("body", fn, 0, 2, FALSE)
          [] OTHER -> a :> Instr("body", fn, 0, 2, FALSE)

\* The text of an image, the linked lines of all files, at base.
Assemble(image, base) ==
    LET emit[i \in 0 .. Len(image)] ==
            IF i = 0 THEN << >>
            ELSE emit[i - 1] @@ (IF Dead(image, i) THEN << >> ELSE Encode(image, base, i))
    IN  emit[Len(image)]
=============================================================================
