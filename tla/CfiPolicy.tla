----------------------------- MODULE CfiPolicy -----------------------------
(***************************************************************************)
(* What the monitor promises about returns, with no registers, no traps    *)
(* and no shadow stack array: every checked call records the address after *)
(* it, a checked return is granted only to the newest address recorded and *)
(* not yet consumed, and once it is granted the very next move of control  *)
(* is to that address.  Otherwise the program has been halted.             *)
(***************************************************************************)
EXTENDS Naturals, Sequences, SequencesExt

CONSTANTS
    Code,         \* addresses user control may be at
    ReturnSites,  \* addresses that follow a checked call
    Entry,        \* where user code starts
    End,          \* where a halted program spins
    Depth         \* calls that can be pending at once

VARIABLES
    control,  \* where user control is
    pending,  \* recorded return addresses, oldest first
    target,   \* {a}: a return to a was granted and not yet taken; {}: none
    halted

policyVars == <<control, pending, target, halted>>

Init ==
    /\ control = Entry
    /\ pending = << >>
    /\ target = {}
    /\ halted = FALSE

Running == ~halted /\ target = {}

\* User code moves on without a check.
Work ==
    /\ Running
    /\ control' \in Code
    /\ UNCHANGED <<pending, target, halted>>

\* A checked call: the address after it becomes the newest pending one.
Record ==
    /\ Running
    /\ Len(pending) < Depth
    /\ \E a \in ReturnSites : pending' = Append(pending, a)
    /\ control' \in Code
    /\ UNCHANGED <<target, halted>>

\* A checked return is granted to the newest pending address only.
Grant ==
    /\ Running
    /\ pending # << >>
    /\ target' = {Last(pending)}
    /\ pending' = Front(pending)
    /\ control' \in Code
    /\ UNCHANGED halted

\* The granted return is taken: control lands on the granted address.
Take ==
    /\ ~halted
    /\ control' \in target
    /\ target' = {}
    /\ UNCHANGED <<pending, halted>>

\* The program ends, or is stopped because a check failed.
Halt ==
    /\ Running
    /\ halted' = TRUE
    /\ control' = End
    /\ \/ pending' = pending
       \/ pending # << >> /\ pending' = Front(pending)
    /\ UNCHANGED target

Next == Work \/ Record \/ Grant \/ Take \/ Halt

Spec == Init /\ [][Next]_policyVars
=============================================================================
