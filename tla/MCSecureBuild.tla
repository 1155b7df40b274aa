--------------------------- MODULE MCSecureBuild ---------------------------
(***************************************************************************)
(* The firmware's own user program (user_code.c, user_entry.c) taken       *)
(* through the instrumenter and the toolchain and run under the monitor.   *)
(* user_code calls sum and diff through funPtr, which is set in the line   *)
(* before (user_code.c:75-76, 84-85).  They are taken to be direct calls,  *)
(* which rests on the constant propagation of -O1 (flasher.py:13): left    *)
(* indirect, they would get no check.                                      *)
(***************************************************************************)
EXTENDS SecureMonitor, Assembler

L(kind, name) == [kind |-> kind, name |-> name]
Ret == <<L("jr", "ra")>>

user_code_s ==
    <<L("label", "diff"), L("call", "printf"), L("call", "division"), L("call", "printf")>>
    \o Ret \o <<L("label", "division"), L("other", "")>>
    \o Ret \o <<L("label", "sum"), L("call", "printf"), L("call", "multiplication"),
                L("call", "printf")>>
    \o Ret \o <<L("label", "multiplication"), L("other", "")>>
    \o Ret \o <<L("label", "user_code"), L("call", "scanf"), L("call", "printf"),
                L("call", "sum"), L("call", "printf"), L("call", "diff"),
                L("call", "printf")>>
    \o Ret

user_entry_s ==
    <<L("label", "user_mode_entry_point"), L("call", "printf"), L("call", "user_code"),
      L("call", "printf"), L("exit", "")>>
    \o Ret

Files == Instrument(<<user_code_s, user_entry_s>>)

\* The linked image, loaded at 2, and its entry.  The set binds the image, and a
\* definition of their own the results, so that TLC computes each of them once.
Built == CHOOSE b \in {[text  |-> Assemble(f[1] \o f[2], 2),
                        entry |-> Symbol(f[1] \o f[2], 2, "user_mode_entry_point")] :
                          f \in {Files}} : TRUE
MCText  == Built.text
MCEntry == Built.entry

\* The sample program is never stopped by a check, and when it gets to its own
\* exit every push has been popped: what instrument() put around its calls and
\* what it put around its returns pair up, leaves and library calls included.
SampleRuns ==
    /\ outcome \in {"running", "exit"}
    /\ outcome = "exit" => isEmpty(shadow_stack)
=============================================================================
