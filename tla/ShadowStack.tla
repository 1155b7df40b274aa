---------------------------- MODULE ShadowStack ----------------------------
(***************************************************************************)
(* The shadow stack of the monitor: the record SStack and the operations   *)
(* isFull, isEmpty, push and pop of shadow_stack.c.  A C function that     *)
(* changes the stack and returns a value is two operators here: PushResult *)
(* and PopResult are what the caller gets, Push and Pop the stack that the *)
(* call leaves behind.                                                     *)
(***************************************************************************)
EXTENDS Integers, Sequences

CONSTANTS
    MAX_SIZE,   \* slots of the addresses array (63 in the firmware)
    WordMod     \* number of values of an unsigned int (2^32 on the hart)

ASSUME SizeAssumption == MAX_SIZE \in Nat \ {0}
ASSUME WordAssumption == WordMod \in Nat /\ WordMod > 1 /\ WordMod % 2 = 0

Word  == 0 .. WordMod - 1
Index == 0 .. MAX_SIZE - 1

\* typedef struct { unsigned int addresses[MAX_SIZE]; short top; } SStack
SStack == [addresses : [Index -> Word], top : -1 .. MAX_SIZE - 1]

\* The static initialiser {.top = -1}: the slots are zeroed.
EmptyStack == [addresses |-> [i \in Index |-> 0], top |-> -1]

\* Mutant: the full test is off by one.
isFull_OffByOne(s) == s.top = MAX_SIZE

isFull(s)  == s.top = MAX_SIZE - 1
isEmpty(s) == s.top = -1

\* push: refuses with 0 when full, else stores above top and answers 1.
PushResult(s) == IF isFull(s) THEN 0 ELSE 1
Push(s, address) ==
    IF isFull(s)
    THEN s
    ELSE [addresses |-> [s.addresses EXCEPT ![s.top + 1] = address],
          top       |-> s.top + 1]

\* pop: 0 when empty (0 is also a word, so the caller cannot tell them apart).
PopResult(s) == IF isEmpty(s) THEN 0 ELSE s.addresses[s.top]
\* Mutant: pop forgets to decrement top.
Pop_KeepsTop(s) == s

Pop(s) == IF isEmpty(s) THEN s ELSE [s EXCEPT !.top = @ - 1]

\* The addresses the stack holds, oldest first: what the record stands for.
Contents(s) == [i \in 1 .. s.top + 1 |-> s.addresses[i - 1]]
=============================================================================
