-------------------------- MODULE MCSecureMonitor --------------------------
(***************************************************************************)
(* SecureMonitor for TLC: a small instrumented program with a recursive    *)
(* function, an unchecked leaf and an access that can fault.               *)
(***************************************************************************)
EXTENDS SecureMonitor

CONSTANTS
    CallSize, AccessSize,  \* bytes of the checked calls and of the access
    Params                 \* instructions between sum's check and its call

I(op, fn, dest, size, checked) ==
    [op |-> op, fn |-> fn, dest |-> dest, size |-> size, checked |-> checked,
     params |-> 0]
WithParams(i, n) == [i EXCEPT !.params = n]

\* user_mode_entry_point calls sum (20), sum calls itself, with a check that is
\* written by hand if Params is not 0, and a leaf (60).
MCText ==
    2  :> I("body", "entry", 0, 2, FALSE)
 @@ 4  :> I("jump_check", "entry", 20, 4, FALSE)
 @@ 8  :> I("call", "entry", 20, CallSize, TRUE)
 @@ 8 + CallSize :> I("body", "entry", 0, 2, FALSE)
 @@ 14 :> I("exit", "entry", 0, 4, FALSE)
 @@ 20 :> I("body", "sum", 0, 2, FALSE)
 @@ 22 :> WithParams(I("jump_check", "sum", 20, 4, FALSE), Params)
 @@ 26 + 2 * Params :> I("call", "sum", 20, CallSize, TRUE)
 @@ 26 + 2 * Params + CallSize :> I("body", "sum", 0, 2, FALSE)
 @@ [p \in {26 + 2 * k : k \in 0 .. Params - 1} |->
        WithParams(I("load", "sum", 20, 2, FALSE), Params - (p - 26) \div 2)]
 @@ 42 :> I("call", "sum", 60, 2, FALSE)
 @@ 44 :> I("body", "sum", 0, 2, FALSE)
 @@ 46 :> I("ret_check", "sum", 0, 4, FALSE)
 @@ 50 :> I("jr", "sum", 0, 2, TRUE)
 @@ 60 :> I("body", "mul", 0, 2, FALSE)
 @@ 62 :> I("access", "mul", 0, AccessSize, FALSE)
 @@ 62 + AccessSize :> I("body", "mul", 0, 2, FALSE)
 @@ 68 :> I("jr", "mul", 0, 2, FALSE)

=============================================================================
