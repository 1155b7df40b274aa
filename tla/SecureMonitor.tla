--------------------------- MODULE SecureMonitor ---------------------------
(***************************************************************************)
(* The machine-mode monitor (intr_vector_table.c) and the instrumented     *)
(* user program it watches, at the level of the instructions that transfer *)
(* control.  One hart runs both: user code runs in U-mode until it traps,  *)
(* the handler runs in M-mode to its mret, and nothing interrupts it.      *)
(*                                                                         *)
(* The program is the constant Text, from addresses to instructions:       *)
(*   body        straight-line code from which any transfer of the same    *)
(*               function may come next (the branches are left out)        *)
(*   jump_check  "la a7,dest; ecall": the ecall before a checked call      *)
(*   load        one of the params instructions that hand-written code has *)
(*               between that ecall and the call: a parameter is loaded,   *)
(*               or a6 itself (instrumented code has none of them)         *)
(*   ret_check   "mv a7,ra; addi a7,a7,1; ecall": before a checked return  *)
(*   exit        "li a7,1; ecall"                                          *)
(*   call, jr    the transfers themselves, checked or not                  *)
(*   access      an instruction that can raise an exception                *)
(***************************************************************************)
EXTENDS ShadowStack, FiniteSets, SequencesExt

CONSTANTS
    Text,                 \* the loaded program
    EntryPoint,           \* user_mode_entry_point
    TERMINATE_EXECUTION,  \* terminate_execution
    A6Values,             \* what user code can leave in a6
    FaultCauses,          \* mcause of the exceptions an access can raise
    StrayWords,           \* what a defect of user code can leave in a saved ra
    MaxWork               \* bound: transfers before user code only winds down

Code == DOMAIN Text

Instruction ==
    [op : {"body", "jump_check", "load", "ret_check", "exit", "call", "jr", "access"},
     fn : STRING, dest : Word, size : {2, 4, 8}, checked : BOOLEAN, params : Nat]

\* Is address p an instruction of this kind?
Is(p, op) == p \in Code /\ Text[p].op = op
IsBody(p, fn) == Is(p, "body") /\ Text[p].fn = fn

\* At p, n loads and then the checked call that the check i announces.
Announced(p, n, i) ==
    /\ IF n = 0 THEN Is(p, "call") /\ Text[p].checked
                ELSE Is(p, "load") /\ Text[p].params = n
    /\ Text[p].dest = i.dest /\ Text[p].fn = i.fn

\* The layout the compiler and the instrumenter's templates give the code.
ImageAssumption ==
    /\ \A p \in Code : /\ p \in Word /\ p % 2 = 0
                       /\ 1 < p /\ p + 8 < WordMod
                       /\ Text[p] \in Instruction
    /\ Is(EntryPoint, "body")
    /\ TERMINATE_EXECUTION \in Word \ Code
    /\ \A p \in Code :
         /\ Is(p, "jump_check") =>
              /\ Announced(p + 4, Text[p].params, Text[p])
              /\ Announced(p + 4 + 2 * Text[p].params, 0, Text[p])
         /\ Is(p, "load") => /\ Text[p].params > 0
                             /\ Announced(p + 2, Text[p].params - 1, Text[p])
         /\ Is(p, "ret_check") => /\ Is(p + 4, "jr") /\ Text[p + 4].checked
                                  /\ Text[p + 4].fn = Text[p].fn
         /\ Is(p, "call") => /\ Is(Text[p].dest, "body")
                             /\ IsBody(p + Text[p].size, Text[p].fn)
         /\ Is(p, "access") => IsBody(p + Text[p].size, Text[p].fn)
         \* An ecall has no compressed encoding.
         /\ Is(p, "jump_check") \/ Is(p, "ret_check") \/ Is(p, "exit")
              => Text[p].size = 4

ASSUME TextAssumption == ImageAssumption
ASSUME InputAssumption ==
    /\ A6Values \subseteq Nat
    /\ FaultCauses \subseteq 0 .. 15 \ {8}
    /\ StrayWords \subseteq {w \in Word : w % 2 = 0}
    /\ MaxWork \in Nat

\* A function without calls keeps its return address in ra (instrumenter's leaf).
Leaf(fn) == \A p \in Code : Is(p, "call") => Text[p].fn # fn

\* What instrument() means to produce: calls of a function and its returns are
\* checked together, exactly when it is no leaf; user code ends at its entry.
ConsistentlyInstrumented ==
    \A p \in Code :
        /\ Is(p, "call") => (Text[p].checked <=> ~Leaf(Text[Text[p].dest].fn))
        /\ Is(p, "jr") => (Text[p].checked <=> ~Leaf(Text[p].fn))
        /\ Is(p, "ret_check") => ~Leaf(Text[p].fn)
        /\ Is(p, "ret_check") \/ Is(p, "jr") => Text[p].fn # Text[EntryPoint].fn

\* What the handler's arithmetic takes for granted of the code it serves.
HandlerHypotheses ==
    \A p \in Code :
        /\ Is(p, "call") /\ Text[p].checked => Text[p].size = 2
        /\ Is(p, "access") => Text[p].size = 4

Intended ==
    ConsistentlyInstrumented /\ HandlerHypotheses /\ ~Leaf(Text[EntryPoint].fn)

VARIABLES
    mode,          \* "U": user code runs at pc; "M": the handler runs
    pc,            \* user program counter (where user code was, in M-mode)
    ra, a7,        \* registers
    a0,            \* whose value the argument and result register holds
    saved,         \* return addresses in the frames of the user stack
    mepc, mcause,  \* trap CSRs
    shadow_stack,
    outcome,       \* "running", or why code_termination was called
    strayed,       \* history: user code overwrote a saved return address
    skewed,        \* history: a6 was not params at the check before a call
    work           \* transfers left before user code only winds down

userVars    == <<pc, ra, a7, a0, saved, work>>
monitorVars == <<shadow_stack, outcome>>
trapVars    == <<mode, mepc, mcause>>
history     == <<strayed, skewed>>
vars        == <<userVars, monitorVars, trapVars, history>>

Init ==
    /\ mode = "U" /\ pc = EntryPoint
    /\ ra = 0 /\ a7 = 0 /\ a0 = "user"
    /\ saved = << >>
    /\ mepc = EntryPoint /\ mcause = 0
    /\ shadow_stack = EmptyStack
    /\ outcome = "running"
    /\ strayed = FALSE /\ skewed = FALSE
    /\ work = MaxWork

-----------------------------------------------------------------------------
\* User code

At(op) == mode = "U" /\ Is(pc, op)

\* The transfers of this kind in the function that runs.
Reach(op) == {p \in Code : Is(p, op) /\ Text[p].fn = Text[pc].fn}

SpendWork == work > 0 /\ work' = work - 1

\* Arguments loaded, then "la a7,dest": control is at the ecall of the call.
PrepareCall ==
    /\ At("body") /\ SpendWork
    /\ pc' \in Reach("jump_check")
    /\ a7' = Text[pc'].dest
    /\ a0' = "user"
    /\ UNCHANGED <<ra, saved, monitorVars, trapVars, history>>

\* Straight to a call that was left unchecked, or to a faulting instruction.
PreparePlain ==
    /\ At("body") /\ SpendWork
    /\ pc' \in {p \in Reach("call") : ~Text[p].checked} \cup Reach("access")
    /\ a0' = "user"
    /\ UNCHANGED <<ra, a7, saved, monitorVars, trapVars, history>>

\* The epilogue: the result is in a0 and a non-leaf reloads ra from its frame.
Epilogue ==
    /\ a0' = "user"
    /\ IF Leaf(Text[pc].fn)
       THEN UNCHANGED <<ra, saved>>
       ELSE ra' = Last(saved) /\ saved' = Front(saved)

\* Mutant: the return code is sent without the 1 that tells it from a jump.
PrepareReturn_NoMark ==
    /\ At("body")
    /\ pc' \in Reach("ret_check")
    /\ Epilogue
    /\ a7' = ra'
    /\ UNCHANGED <<work, monitorVars, trapVars, history>>

\* Epilogue, then "mv a7,ra; addi a7,a7,1": control is at the return's ecall.
PrepareReturn ==
    /\ At("body")
    /\ pc' \in Reach("ret_check")
    /\ Epilogue
    /\ a7' = (ra' + 1) % WordMod
    /\ UNCHANGED <<work, monitorVars, trapVars, history>>

\* Epilogue of a function whose return was left unchecked.
PreparePlainReturn ==
    /\ At("body")
    /\ pc' \in {p \in Reach("jr") : ~Text[p].checked}
    /\ Epilogue
    /\ UNCHANGED <<a7, work, monitorVars, trapVars, history>>

\* "li a7,1" at the end of user_mode_entry_point.
PrepareExit ==
    /\ At("body")
    /\ pc' \in Reach("exit")
    /\ a7' = 1
    /\ UNCHANGED <<ra, a0, saved, work, monitorVars, trapVars, history>>

\* Behind the check a parameter is loaded, or a6: too late for this check, and
\* one more value that the next one may find there.
Load ==
    /\ At("load")
    /\ pc' = pc + 2
    /\ a0' = "user"
    /\ UNCHANGED <<ra, a7, saved, work, monitorVars, trapVars, history>>

\* The call instruction and the callee's prologue, which saves ra in its frame.
Call ==
    /\ At("call")
    /\ ra' = pc + Text[pc].size
    /\ pc' = Text[pc].dest
    /\ saved' = IF Leaf(Text[pc'].fn) THEN saved ELSE Append(saved, ra')
    /\ UNCHANGED <<a7, a0, work, monitorVars, trapVars, history>>

\* "jr ra"
Return ==
    /\ At("jr")
    /\ pc' = ra
    /\ UNCHANGED <<ra, a7, a0, saved, work, monitorVars, trapVars, history>>

\* The access succeeds.
Access ==
    /\ At("access")
    /\ pc' = pc + Text[pc].size
    /\ UNCHANGED <<ra, a7, a0, saved, work, monitorVars, trapVars, history>>

\* A defect of user code overwrites the return address in some frame.  Not in a
\* program that has been recorded with a wrong address already: the two may agree
\* on any address whatever, and nothing is said about a program that has both.
StrayWrite ==
    /\ At("body") /\ ~skewed
    /\ \E i \in DOMAIN saved, w \in StrayWords : saved' = [saved EXCEPT ![i] = w]
    /\ strayed' = TRUE
    /\ UNCHANGED <<pc, ra, a7, a0, work, skewed, monitorVars, trapVars>>

-----------------------------------------------------------------------------
\* The hart: an exception enters the handler through the vector table.

Trap(cause) ==
    /\ mode' = "M" /\ mepc' = pc /\ mcause' = cause
    /\ UNCHANGED <<userVars, monitorVars, history>>

Ecall == /\ At("jump_check") \/ At("ret_check") \/ At("exit")
         /\ Trap(8)
Fault == At("access") /\ \E cause \in FaultCauses : Trap(cause)

-----------------------------------------------------------------------------
\* The handler

\* Mutant: the handler steps over two bytes only.
TrapReturn_Compressed ==
    /\ mepc' = (mepc + 2) % WordMod
    /\ pc' = mepc' /\ mode' = "U"
    /\ a0' = "handler"
    /\ UNCHANGED <<ra, outcome>>

\* The tail of synchronous_exception_handler: ra is restored, the argument
\* registers keep what the handler left in them, mepc moves past the ecall.
TrapReturn ==
    /\ mepc' = (mepc + 4) % WordMod
    /\ pc' = mepc' /\ mode' = "U"
    /\ a0' = "handler"
    /\ UNCHANGED <<ra, outcome>>

\* code_termination: mret to terminate_execution, for the reason printed (ra is
\* dead from here on).
code_termination(why) ==
    /\ mepc' = TERMINATE_EXECUTION
    /\ pc' = mepc' /\ mode' = "U"
    /\ a0' = "handler"
    /\ ra' = 0
    /\ outcome' = why

\* Mutant: the parameter loads are forgotten.
address_to_store_NoParams(epc, param_number) == (epc + 6) % WordMod

address_to_store(epc, param_number) == (epc + 6 + 2 * param_number) % WordMod

esr_jump(param_number, epc) ==
    LET address == address_to_store(epc, param_number) IN
    /\ shadow_stack' = Push(shadow_stack, address)
    /\ IF PushResult(shadow_stack) # 1 THEN code_termination("full")
                                       ELSE TrapReturn

\* Mutants: the mark is left in the code when it is compared; nothing is compared.
esr_return_Marked(ecode_address_encoding) ==
    LET stored_address == PopResult(shadow_stack) IN
    /\ shadow_stack' = Pop(shadow_stack)
    /\ IF stored_address = 0 \/ stored_address # ecode_address_encoding
       THEN code_termination("mismatch")
       ELSE TrapReturn
esr_return_Unchecked(ecode_address_encoding) ==
    shadow_stack' = Pop(shadow_stack) /\ TrapReturn

esr_return(ecode_address_encoding) ==
    LET stored_address == PopResult(shadow_stack) IN
    /\ shadow_stack' = Pop(shadow_stack)
    /\ IF stored_address = 0 \/ stored_address # ecode_address_encoding - 1
       THEN code_termination("mismatch")
       ELSE TrapReturn

esr_handler_U_mode_ecall(ecode_address_encoding, param_number, epc) ==
    \/ /\ ecode_address_encoding = 1
       /\ code_termination("exit") /\ UNCHANGED shadow_stack
    \/ /\ ecode_address_encoding % 2 = 0
       /\ esr_jump(param_number, epc)
    \/ /\ ecode_address_encoding % 2 # 0 /\ ecode_address_encoding # 1
       /\ esr_return(ecode_address_encoding)

\* What a6 holds at an ecall is what user code left there earlier: instrumented
\* code never loads it, and the check written out in user_code.c loads it behind
\* the ecall.  (In a program with a damaged frame it is right: see StrayWrite.)
a6Left == IF strayed THEN {Text[pc].params} ELSE A6Values

\* A jump check reads an a6 that is not the number of instructions up to the call.
Skews(a6) == Is(pc, "jump_check") /\ a6 # Text[pc].params

\* Mutant: the instruction that raised the exception is tried again.
esr_handler_other_Retries ==
    /\ pc' = mepc /\ mode' = "U" /\ a0' = "handler"
    /\ UNCHANGED <<ra, outcome, mepc, shadow_stack>>

\* Every other exception handler only prints.
esr_handler_other == TrapReturn /\ UNCHANGED shadow_stack

synchronous_exception_handler ==
    /\ mode = "M"
    /\ \/ /\ mcause = 8
          /\ \E a6 \in a6Left : /\ esr_handler_U_mode_ecall(a7, a6, mepc)
                               /\ skewed' = (skewed \/ Skews(a6))
       \/ mcause # 8 /\ esr_handler_other /\ UNCHANGED skewed
    /\ UNCHANGED <<mcause, a7, saved, work, strayed>>

\* while (1);
terminate_execution == mode = "U" /\ pc = TERMINATE_EXECUTION /\ UNCHANGED vars

-----------------------------------------------------------------------------
Program ==
    \/ PrepareCall \/ PreparePlain \/ PrepareReturn \/ PreparePlainReturn
    \/ PrepareExit \/ Load \/ Call \/ Return \/ Access
    \/ Ecall \/ Fault \/ synchronous_exception_handler

Next == Program \/ StrayWrite \/ terminate_execution

Spec == Init /\ [][Next]_vars
FairSpec == Spec /\ WF_vars(Program)

-----------------------------------------------------------------------------
\* Properties

\* Every variable keeps its type; the shadow stack stays a legal SStack.
TypeOK ==
    /\ mode \in {"U", "M"}
    /\ pc \in Word /\ ra \in Word /\ a7 \in Word
    /\ a0 \in {"user", "handler"}
    /\ saved \in Seq(Word)
    /\ mepc \in Word /\ mcause \in 0 .. 15
    /\ shadow_stack \in SStack
    /\ outcome \in {"running", "exit", "full", "mismatch"}
    /\ strayed \in BOOLEAN /\ skewed \in BOOLEAN
    /\ work \in 0 .. MaxWork

Running == outcome = "running"
Shadow  == Contents(shadow_stack)
Checked(op) == Is(pc, op) /\ Text[pc].checked

\* The return addresses the shadow stack must hold at this point of the code:
\* those in the frames, and one more from the push of a jump check to the
\* prologue that saves it and from the epilogue to the pop of the return check.
Owed == CASE Checked("call")     -> Append(saved, pc + Text[pc].size)
          [] Is(pc, "load")      -> Append(saved, pc + 2 * Text[pc].params + 2)
          [] Is(pc, "ret_check") -> Append(saved, ra)
          [] OTHER               -> saved

\* The shadow stack has exactly one entry for each checked call that has not
\* returned, whatever user code did to its own stack: pushes and pops pair up.
Balanced == Running => Len(Shadow) = Len(Owed)

\* As long as user code has not damaged a frame, and has left in a6 what each
\* check before a call needs there, the shadow stack is the very sequence of
\* return addresses in the frames: the address_to_store that the handler computes
\* at the ecall is the one the call instruction puts in ra.
Mirror == Running /\ ~strayed /\ ~skewed => Shadow = Owed

\* A program is stopped for a wrong return address only if it damaged a saved one
\* or left a wrong value in a6 at a check.
NoFalseAlarm == outcome = "mismatch" => strayed \/ skewed

\* "the number of parameters (not needed when instrumented)" (intr_vector_table.c
\* 120): an instrumented program that damages no frame is not stopped, whatever it
\* has left in a6.
A6NotNeeded == outcome = "mismatch" => strayed

\* Even when frames are damaged, user code only ever runs at instructions of
\* the program, until it is parked in terminate_execution.
ControlInImage == IF Running THEN pc \in Code ELSE pc = TERMINATE_EXECUTION

\* A trap that resumes user code leaves it the registers it had: "Restore
\* context" of synchronous_exception_handler.
ContextRestored ==
    [][mode = "M" /\ outcome' = "running" => ra' = ra /\ a0' = a0]_vars

\* The return addresses that the checks before calls were made for: what the shadow
\* stack holds, or, when a wrong a6 kept them from it, what the frames hold.
Pending == IF skewed THEN Owed ELSE Shadow

\* The returns follow the abstract policy: whatever frames hold, or whatever a6
\* held, a checked return only goes to the newest return address still pending.
ReturnSites ==
    {p + Text[p].size : p \in {q \in Code : Is(q, "call") /\ Text[q].checked}}
Granted == IF Running /\ Checked("jr") THEN {ra} ELSE {}
Policy == INSTANCE CfiPolicy WITH
    Entry <- EntryPoint, End <- TERMINATE_EXECUTION, Depth <- MAX_SIZE,
    control <- pc, pending <- Pending, halted <- ~Running, target <- Granted
PolicySpec == Policy!Spec

\* A program that stops making calls gets to code_termination: no check, no
\* exception and no damaged frame leaves it stuck or looping in the monitor.
EventuallyTerminates == <>(outcome # "running")

-----------------------------------------------------------------------------
\* The inductive invariant behind the safety properties

\* An address a return may go to: in a function with a frame, or the entry.
ReturnPoint(a) ==
    /\ Is(a, "body") /\ ~Leaf(Text[a].fn)
    /\ saved # << >> \/ Text[a].fn = Text[EntryPoint].fn

\* The handler runs for the instruction at pc, for the cause it can raise.
TrapInv ==
    /\ ~Running => mode = "U"
    /\ mode = "M" =>
         /\ mepc = pc
         /\ IF mcause = 8
            THEN Is(pc, "jump_check") \/ Is(pc, "ret_check") \/ Is(pc, "exit")
            ELSE Is(pc, "access")

\* a7 holds the code of the check control stands at, and addresses are even.
CodeInv ==
    /\ Running /\ Is(pc, "jump_check") => a7 = Text[pc].dest
    /\ Running /\ Is(pc, "ret_check") => a7 = ra + 1
    /\ Running /\ Is(pc, "exit") => a7 = 1
    /\ ra % 2 = 0
    /\ \A i \in DOMAIN saved : saved[i] % 2 = 0

\* The addresses pending are return sites, the oldest in the entry function, the
\* newest being the one of a checked call that is about to be made.
SitesInv ==
    /\ ~(strayed /\ skewed)
    /\ Pending \in Seq(ReturnSites)
    /\ Pending # << >> => Text[Pending[1]].fn = Text[EntryPoint].fn
    /\ Running /\ Is(pc, "load") => Last(Pending) = pc + 2 * Text[pc].params + 2
    /\ Running /\ Checked("call") => Last(Pending) = pc + 2

\* Every function that will return has somewhere to return to.
FrameInv ==
    /\ Running /\ (Checked("jr") \/ Leaf(Text[pc].fn)) => ReturnPoint(ra)
    /\ /\ Running /\ ~Leaf(Text[pc].fn) /\ Text[pc].fn # Text[EntryPoint].fn
       /\ ~Is(pc, "ret_check") /\ ~Is(pc, "jr")
       => saved # << >>

IInv ==
    /\ TypeOK /\ ControlInImage /\ Balanced /\ Mirror /\ NoFalseAlarm
    /\ TrapInv /\ CodeInv /\ SitesInv /\ FrameInv
=============================================================================
