------------------------ MODULE SecureMonitorProofs ------------------------
(***************************************************************************)
(* For every program laid out and instrumented as Intended says, every     *)
(* size of the shadow stack and every word size: the invariants of         *)
(* SecureMonitor and its refinement of CfiPolicy.                          *)
(***************************************************************************)
EXTENDS SecureMonitor, ShadowStackProofs

-----------------------------------------------------------------------------
\* Facts about the program text

\* The word after an even word is a word: the return code ra + 1 does not wrap.
LEMMA EvenSucc ==
    ASSUME NEW w \in Word, w % 2 = 0
    PROVE  w + 1 \in Word /\ (w + 1) % WordMod = w + 1 /\ (w + 1) % 2 = 1
<1>1. w \in Nat /\ w < WordMod
  BY WordAssumption DEF Word
<1>2. w # WordMod - 1
  BY <1>1, WordAssumption
<1>3. w + 1 \in Nat /\ w + 1 < WordMod
  BY <1>1, <1>2, WordAssumption
<1> QED
  BY <1>1, <1>3, WordAssumption DEF Word

\* Every address of the program is a small even word, every field typed.
LEMMA CodeTypes ==
    ASSUME NEW p \in Code
    PROVE  /\ p \in Word /\ p \in Int /\ p % 2 = 0 /\ 1 < p /\ p + 8 < WordMod
           /\ p + 2 \in Word /\ p + 4 \in Word
           /\ (p + 4) % WordMod = p + 4
           /\ Text[p].dest \in Word
           /\ Text[p].size \in {2, 4, 8}
           /\ p + Text[p].size \in Word
           /\ Text[p].params \in Nat
           /\ Text[p].checked \in BOOLEAN
<1>1. /\ p \in Word /\ p % 2 = 0 /\ 1 < p /\ p + 8 < WordMod
      /\ Text[p] \in Instruction
  BY TextAssumption DEF ImageAssumption
<1>2. /\ Text[p].dest \in Word
      /\ Text[p].size \in {2, 4, 8}
      /\ Text[p].params \in Nat
      /\ Text[p].checked \in BOOLEAN
  BY <1>1 DEF Instruction
<1>3. \A n \in {0, 2, 4, 8} : p + n \in Word /\ p \in Int
  BY <1>1, WordAssumption DEF Word
<1>4. (p + 4) % WordMod = p + 4
  BY <1>3, WordAssumption DEF Word
<1> QED
  BY <1>1, <1>2, <1>3, <1>4

\* The site after a checked call can be returned to.
LEMMA SiteFacts ==
    ASSUME NEW a \in ReturnSites
    PROVE  /\ Is(a, "body") /\ a \in Code
           /\ ~Leaf(Text[a].fn)
           /\ a \in Word /\ a % 2 = 0 /\ a # 0 /\ 1 < a
<1>1. PICK p \in Code : Is(p, "call") /\ Text[p].checked /\ a = p + Text[p].size
  BY DEF ReturnSites
<1>2. IsBody(a, Text[p].fn)
  BY <1>1, TextAssumption DEF ImageAssumption
<1>3. ~Leaf(Text[a].fn)
  BY <1>1, <1>2 DEF IsBody, Leaf
<1>4. a \in Code
  BY <1>2 DEF IsBody, Is
<1>5. a \in Word /\ a % 2 = 0 /\ 1 < a
  BY <1>4, CodeTypes
<1> QED
  BY <1>2, <1>3, <1>4, <1>5 DEF IsBody, Word

\* Every call, checked or not, lands on a body and returns behind itself.
LEMMA CallFacts ==
    ASSUME NEW p, Is(p, "call"), Intended
    PROVE  /\ p \in Code
           /\ Is(Text[p].dest, "body")
           /\ IsBody(p + Text[p].size, Text[p].fn)
           /\ ~Leaf(Text[p].fn)
           /\ Text[p].checked => /\ Text[p].size = 2
                                 /\ p + 2 \in ReturnSites
                                 /\ ~Leaf(Text[Text[p].dest].fn)
           /\ ~Text[p].checked => Leaf(Text[Text[p].dest].fn)
           /\ p + Text[p].size \in Word /\ (p + Text[p].size) % 2 = 0
<1>1. p \in Code
  BY DEF Is
<1>2. Is(Text[p].dest, "body") /\ IsBody(p + Text[p].size, Text[p].fn)
  BY <1>1, TextAssumption DEF ImageAssumption
<1>3. ~Leaf(Text[p].fn)
  BY <1>1 DEF Leaf
<1>4. Text[p].checked <=> ~Leaf(Text[Text[p].dest].fn)
  BY <1>1 DEF Intended, ConsistentlyInstrumented
<1>5. Text[p].checked => Text[p].size = 2
  BY <1>1 DEF Intended, HandlerHypotheses
<1>6. Text[p].checked => p + 2 \in ReturnSites
  BY <1>1, <1>5 DEF ReturnSites
<1>7. p + Text[p].size \in Word /\ (p + Text[p].size) % 2 = 0
  BY <1>2, CodeTypes DEF IsBody, Is
<1> QED
  BY <1>1, <1>2, <1>3, <1>4, <1>5, <1>6, <1>7

\* A jump check stands before its loads and its call; address_to_store is the
\* address behind the call.
LEMMA JumpCheckFacts ==
    ASSUME NEW p, Is(p, "jump_check"), Intended
    PROVE  /\ p \in Code
           /\ Announced(p + 4, Text[p].params, Text[p])
           /\ p + 2 * Text[p].params + 6 \in ReturnSites
           /\ Text[p + 2 * Text[p].params + 6].fn = Text[p].fn
           /\ ~Leaf(Text[p].fn)
           /\ Text[p].dest \in Word /\ Text[p].dest % 2 = 0 /\ Text[p].dest # 1
<1> DEFINE q == p + 4 + 2 * Text[p].params
<1>1. p \in Code
  BY DEF Is
<1>2. Announced(p + 4, Text[p].params, Text[p]) /\ Announced(q, 0, Text[p])
  BY <1>1, TextAssumption DEF ImageAssumption
<1>3. /\ Is(q, "call") /\ Text[q].checked
      /\ Text[q].dest = Text[p].dest /\ Text[q].fn = Text[p].fn
  BY <1>2 DEF Announced
<1>4. p \in Int /\ Text[p].params \in Nat
  BY <1>1, CodeTypes
<1>5. q + 2 = p + 2 * Text[p].params + 6
  BY <1>4
<1> HIDE DEF q
<1>6. /\ q + 2 \in ReturnSites /\ ~Leaf(Text[q].fn) /\ Is(Text[q].dest, "body")
      /\ IsBody(q + 2, Text[q].fn)
  BY <1>3, CallFacts
<1>7. Text[p].dest \in Word /\ Text[p].dest % 2 = 0 /\ Text[p].dest # 1
  <2>1. Text[p].dest \in Code
    BY <1>3, <1>6 DEF Is
  <2> QED  BY <2>1, CodeTypes
<1> QED
  BY <1>1, <1>2, <1>3, <1>5, <1>6, <1>7 DEF IsBody

\* A load stands before the remaining loads and the call.
LEMMA LoadFacts ==
    ASSUME NEW p, Is(p, "load"), Intended
    PROVE  /\ p \in Code
           /\ Text[p].params \in Nat \ {0}
           /\ Announced(p + 2, Text[p].params - 1, Text[p])
<1>1. p \in Code
  BY DEF Is
<1>2. Text[p].params > 0 /\ Announced(p + 2, Text[p].params - 1, Text[p])
  BY <1>1, TextAssumption DEF ImageAssumption
<1>3. Text[p].params \in Nat
  BY <1>1, CodeTypes
<1> QED
  BY <1>1, <1>2, <1>3

\* A return check stands before the return of a non-leaf that is not the entry.
LEMMA RetCheckFacts ==
    ASSUME NEW p, Is(p, "ret_check"), Intended
    PROVE  /\ p \in Code
           /\ Is(p + 4, "jr") /\ Text[p + 4].checked /\ Text[p + 4].fn = Text[p].fn
           /\ ~Leaf(Text[p].fn) /\ Text[p].fn # Text[EntryPoint].fn
<1>1. p \in Code
  BY DEF Is
<1> QED
  BY <1>1, TextAssumption
  DEF ImageAssumption, Intended, ConsistentlyInstrumented

\* A return is checked exactly in a non-leaf; the entry has none.
LEMMA JrFacts ==
    ASSUME NEW p, Is(p, "jr"), Intended
    PROVE  /\ p \in Code
           /\ Text[p].checked <=> ~Leaf(Text[p].fn)
           /\ Text[p].fn # Text[EntryPoint].fn
<1>1. p \in Code
  BY DEF Is
<1> QED
  BY <1>1 DEF Intended, ConsistentlyInstrumented

\* An access is four bytes long and stands before a body.
LEMMA AccessFacts ==
    ASSUME NEW p, Is(p, "access"), Intended
    PROVE  /\ p \in Code
           /\ Text[p].size = 4
           /\ IsBody(p + 4, Text[p].fn)
<1>1. p \in Code
  BY DEF Is
<1>2. Text[p].size = 4
  BY <1>1 DEF Intended, HandlerHypotheses
<1> QED
  BY <1>1, <1>2, TextAssumption DEF ImageAssumption

-----------------------------------------------------------------------------
\* Steps of user code

\* What the shadow stack must hold, by the kind of instruction at pc.
LEMMA OwedCases ==
    /\ Is(pc, "call") /\ Text[pc].checked => Owed = Append(saved, pc + Text[pc].size)
    /\ Is(pc, "load") => Owed = Append(saved, pc + 2 * Text[pc].params + 2)
    /\ Is(pc, "ret_check") => Owed = Append(saved, ra)
    /\ ~(Is(pc, "call") /\ Text[pc].checked) /\ ~Is(pc, "load") /\ ~Is(pc, "ret_check")
         => Owed = saved
BY DEF Owed, Checked, Is

\* User code that stands at an instruction is running, at that kind only.
LEMMA UserAt ==
    ASSUME NEW op, IInv, At(op)
    PROVE  /\ Running /\ mode = "U" /\ pc \in Code /\ Text[pc].op = op
           /\ \A o : Is(pc, o) <=> o = op
BY TextAssumption DEF At, Is, IInv, ControlInImage, ImageAssumption

\* User code reaches the ecall of a checked call.
LEMMA PrepareCallStep ==
    ASSUME Intended, IInv, PrepareCall
    PROVE  IInv' /\ Pending' = Pending
<1> USE DEF IInv
<1>1. PICK p \in Code : /\ Is(p, "jump_check") /\ Text[p].fn = Text[pc].fn
                       /\ pc' = p /\ a7' = Text[p].dest
  BY DEF PrepareCall, Reach
<1>2. /\ mode = "U" /\ Running /\ pc \in Code /\ \A o : Is(pc, o) <=> o = "body"
  BY UserAt DEF PrepareCall
<1>3. /\ ~Is(p, "ret_check") /\ ~Is(p, "jr") /\ ~Is(p, "call") /\ ~Is(p, "load")
      /\ ~Is(p, "exit") /\ p \in Code
  BY <1>1 DEF Is
<1>4. ra' = ra /\ saved' = saved /\ shadow_stack' = shadow_stack
      /\ outcome' = outcome /\ strayed' = strayed /\ skewed' = skewed /\ mode' = mode
      /\ Shadow' = Shadow /\ Running' = Running
      /\ mepc' = mepc /\ mcause' = mcause
  BY DEF PrepareCall, monitorVars, trapVars, history, Shadow, Running
<1>5. Owed' = Owed
  <2>1. Owed = saved
    BY <1>2, OwedCases
  <2>2. Owed' = saved'
    BY <1>1, <1>3 DEF Owed, Checked, Is
  <2> QED  BY <2>1, <2>2, <1>4
<1>6. TypeOK'
  BY <1>1, <1>4, CodeTypes, InputAssumption DEF PrepareCall, SpendWork, TypeOK
<1>7. ControlInImage' /\ Balanced' /\ Mirror' /\ NoFalseAlarm'
  BY <1>1, <1>2, <1>4, <1>5 DEF ControlInImage, Balanced, Mirror, NoFalseAlarm
<1>8. TrapInv'
  BY <1>2, <1>4 DEF TrapInv
<1>9. CodeInv'
  BY <1>1, <1>3, <1>4 DEF CodeInv
<1>10. SitesInv'
  BY <1>1, <1>3, <1>4, <1>5 DEF SitesInv, Pending, Checked
<1>11. FrameInv'
  BY <1>1, <1>2, <1>3, <1>4 DEF FrameInv, Checked, ReturnPoint
<1>12. Pending' = Pending
  BY <1>4, <1>5 DEF Pending
<1> QED  BY <1>6, <1>7, <1>8, <1>9, <1>10, <1>11, <1>12

\* User code reaches an unchecked call or an access.
LEMMA PreparePlainStep ==
    ASSUME Intended, IInv, PreparePlain
    PROVE  IInv' /\ Pending' = Pending
<1> USE DEF IInv
<1>1. PICK p \in Code : /\ (Is(p, "call") /\ ~Text[p].checked) \/ Is(p, "access")
                       /\ Text[p].fn = Text[pc].fn
                       /\ pc' = p
  BY DEF PreparePlain, Reach
<1>2. /\ mode = "U" /\ Running /\ pc \in Code /\ \A o : Is(pc, o) <=> o = "body"
  BY UserAt DEF PreparePlain
<1>3. /\ ~Is(p, "ret_check") /\ ~Is(p, "jr") /\ ~Is(p, "load")
      /\ ~Is(p, "exit") /\ ~Is(p, "jump_check")
      /\ ~(Is(p, "call") /\ Text[p].checked)
  BY <1>1 DEF Is
<1>4. /\ ra' = ra /\ saved' = saved /\ shadow_stack' = shadow_stack
      /\ outcome' = outcome /\ strayed' = strayed /\ skewed' = skewed /\ mode' = mode
      /\ Shadow' = Shadow /\ Running' = Running
      /\ mepc' = mepc /\ mcause' = mcause /\ a7' = a7
  BY DEF PreparePlain, monitorVars, trapVars, history, Shadow, Running
<1>5. Owed' = Owed
  <2>1. Owed = saved
    BY <1>2, OwedCases
  <2>2. Owed' = saved'
    BY <1>1, <1>3 DEF Owed, Checked, Is
  <2> QED  BY <2>1, <2>2, <1>4
<1>6. TypeOK'
  BY <1>1, <1>4, CodeTypes, InputAssumption DEF PreparePlain, SpendWork, TypeOK
<1>7. ControlInImage' /\ Balanced' /\ Mirror' /\ NoFalseAlarm'
  BY <1>1, <1>2, <1>4, <1>5 DEF ControlInImage, Balanced, Mirror, NoFalseAlarm
<1>8. TrapInv'
  BY <1>2, <1>4 DEF TrapInv
<1>9. CodeInv'
  BY <1>1, <1>3, <1>4 DEF CodeInv
<1>10. SitesInv'
  BY <1>1, <1>3, <1>4, <1>5 DEF SitesInv, Pending, Checked
<1>11. FrameInv'
  BY <1>1, <1>2, <1>3, <1>4 DEF FrameInv, Checked, ReturnPoint
<1>12. Pending' = Pending
  BY <1>4, <1>5 DEF Pending
<1> QED  BY <1>6, <1>7, <1>8, <1>9, <1>10, <1>11, <1>12

\* User code reaches the ecall of a checked return: ra leaves its frame.
LEMMA PrepareReturnStep ==
    ASSUME Intended, IInv, PrepareReturn
    PROVE  IInv' /\ Pending' = Pending
<1> USE DEF IInv
<1>1. PICK p \in Code : Is(p, "ret_check") /\ Text[p].fn = Text[pc].fn /\ pc' = p
  BY DEF PrepareReturn, Reach
<1>2. /\ mode = "U" /\ Running /\ pc \in Code /\ \A o : Is(pc, o) <=> o = "body"
  BY UserAt DEF PrepareReturn
<1>3. \A o : Is(p, o) <=> o = "ret_check"
  BY <1>1 DEF Is
<1>4. /\ shadow_stack' = shadow_stack /\ a0' = "user" /\ work' = work
      /\ outcome' = outcome /\ strayed' = strayed /\ skewed' = skewed /\ mode' = mode
      /\ Shadow' = Shadow /\ Running' = Running
      /\ mepc' = mepc /\ mcause' = mcause
  BY DEF PrepareReturn, Epilogue, monitorVars, trapVars, history, Shadow, Running
<1>5. ~Leaf(Text[pc].fn) /\ Text[pc].fn # Text[EntryPoint].fn
  BY <1>1, RetCheckFacts
<1>6. saved \in Seq(Word) /\ saved # << >>
  BY <1>2, <1>5 DEF FrameInv, TypeOK
<1>7. ra' = Last(saved) /\ saved' = Front(saved)
  BY <1>5 DEF PrepareReturn, Epilogue
<1>8. /\ saved' \in Seq(Word) /\ ra' \in Word /\ Append(saved', ra') = saved
      /\ ra' = saved[Len(saved)] /\ Len(saved) \in Nat \ {0}
      /\ Len(saved') = Len(saved) - 1
      /\ \A i \in 1 .. Len(saved) - 1 : saved'[i] = saved[i]
  BY <1>6, <1>7, FrontLast, AppendFrontLast
<1>9. ra' % 2 = 0 /\ \A i \in DOMAIN saved' : saved'[i] % 2 = 0
  <2>1. DOMAIN saved = 1 .. Len(saved) /\ DOMAIN saved' = 1 .. Len(saved) - 1
    BY <1>6, <1>8, LenProperties
  <2> QED  BY <1>8, <2>1 DEF CodeInv
<1>10. a7' = ra' + 1 /\ a7' \in Word
  <2>1. a7' = (ra' + 1) % WordMod
    BY DEF PrepareReturn
  <2> QED  BY <1>8, <1>9, <2>1, EvenSucc
<1>11. Owed' = Owed
  <2>1. Owed = saved
    BY <1>2, OwedCases
  <2>2. Owed' = Append(saved', ra')
    BY <1>1, <1>3 DEF Owed, Checked
  <2> QED  BY <2>1, <2>2, <1>8
<1>12. TypeOK'
  BY <1>1, <1>4, <1>8, <1>10, CodeTypes DEF TypeOK
<1>13. ControlInImage' /\ Balanced' /\ Mirror' /\ NoFalseAlarm'
  BY <1>1, <1>2, <1>4, <1>11 DEF ControlInImage, Balanced, Mirror, NoFalseAlarm
<1>14. TrapInv'
  BY <1>2, <1>4 DEF TrapInv
<1>15. CodeInv'
  BY <1>1, <1>3, <1>4, <1>9, <1>10 DEF CodeInv
<1>16. SitesInv'
  BY <1>1, <1>3, <1>4, <1>11 DEF SitesInv, Pending, Checked
<1>17. FrameInv'
  BY <1>1, <1>3, <1>5 DEF FrameInv, Checked
<1>18. Pending' = Pending
  BY <1>4, <1>11 DEF Pending
<1> QED  BY <1>12, <1>13, <1>14, <1>15, <1>16, <1>17, <1>18

\* User code reaches the return of a leaf, which uses the ra it was called with.
LEMMA PreparePlainReturnStep ==
    ASSUME Intended, IInv, PreparePlainReturn
    PROVE  IInv' /\ Pending' = Pending
<1> USE DEF IInv
<1>1. PICK p \in Code : /\ Is(p, "jr") /\ ~Text[p].checked
                       /\ Text[p].fn = Text[pc].fn /\ pc' = p
  BY DEF PreparePlainReturn, Reach
<1>2. /\ mode = "U" /\ Running /\ pc \in Code /\ \A o : Is(pc, o) <=> o = "body"
  BY UserAt DEF PreparePlainReturn
<1>3. \A o : Is(p, o) <=> o = "jr"
  BY <1>1 DEF Is
<1>4. Leaf(Text[pc].fn)
  BY <1>1, JrFacts
<1>5. /\ ra' = ra /\ saved' = saved /\ shadow_stack' = shadow_stack
      /\ outcome' = outcome /\ strayed' = strayed /\ skewed' = skewed /\ mode' = mode
      /\ Shadow' = Shadow /\ Running' = Running
      /\ mepc' = mepc /\ mcause' = mcause /\ a7' = a7 /\ a0' = "user" /\ work' = work
  BY <1>4 DEF PreparePlainReturn, Epilogue, monitorVars, trapVars, history, Shadow, Running
<1>6. Owed' = Owed
  <2>1. Owed = saved
    BY <1>2, OwedCases
  <2>2. Owed' = saved'
    BY <1>1, <1>3 DEF Owed, Checked
  <2> QED  BY <2>1, <2>2, <1>5
<1>7. TypeOK'
  BY <1>1, <1>5, CodeTypes DEF TypeOK
<1>8. ControlInImage' /\ Balanced' /\ Mirror' /\ NoFalseAlarm'
  BY <1>1, <1>2, <1>5, <1>6 DEF ControlInImage, Balanced, Mirror, NoFalseAlarm
<1>9. TrapInv'
  BY <1>2, <1>5 DEF TrapInv
<1>10. CodeInv'
  BY <1>1, <1>3, <1>5 DEF CodeInv
<1>11. SitesInv'
  BY <1>1, <1>3, <1>5, <1>6 DEF SitesInv, Pending, Checked
<1>12. FrameInv'
  BY <1>1, <1>2, <1>3, <1>4, <1>5 DEF FrameInv, Checked, ReturnPoint
<1>13. Pending' = Pending
  BY <1>5, <1>6 DEF Pending
<1> QED  BY <1>7, <1>8, <1>9, <1>10, <1>11, <1>12, <1>13

\* User code reaches the ecall that ends it.
LEMMA PrepareExitStep ==
    ASSUME Intended, IInv, PrepareExit
    PROVE  IInv' /\ Pending' = Pending
<1> USE DEF IInv
<1>1. PICK p \in Code : Is(p, "exit") /\ Text[p].fn = Text[pc].fn /\ pc' = p
  BY DEF PrepareExit, Reach
<1>2. /\ mode = "U" /\ Running /\ pc \in Code /\ \A o : Is(pc, o) <=> o = "body"
  BY UserAt DEF PrepareExit
<1>3. \A o : Is(p, o) <=> o = "exit"
  BY <1>1 DEF Is
<1>4. /\ ra' = ra /\ saved' = saved /\ shadow_stack' = shadow_stack
      /\ outcome' = outcome /\ strayed' = strayed /\ skewed' = skewed /\ mode' = mode
      /\ Shadow' = Shadow /\ Running' = Running
      /\ mepc' = mepc /\ mcause' = mcause /\ a7' = 1 /\ a0' = a0 /\ work' = work
  BY DEF PrepareExit, monitorVars, trapVars, history, Shadow, Running
<1>5. Owed' = Owed
  <2>1. Owed = saved
    BY <1>2, OwedCases
  <2>2. Owed' = saved'
    BY <1>1, <1>3 DEF Owed, Checked
  <2> QED  BY <2>1, <2>2, <1>4
<1>6. TypeOK'
  BY <1>1, <1>4, CodeTypes, WordAssumption DEF TypeOK, Word
<1>7. ControlInImage' /\ Balanced' /\ Mirror' /\ NoFalseAlarm'
  BY <1>1, <1>2, <1>4, <1>5 DEF ControlInImage, Balanced, Mirror, NoFalseAlarm
<1>8. TrapInv'
  BY <1>2, <1>4 DEF TrapInv
<1>9. CodeInv'
  BY <1>1, <1>3, <1>4 DEF CodeInv
<1>10. SitesInv'
  BY <1>1, <1>3, <1>4, <1>5 DEF SitesInv, Pending, Checked
<1>11. FrameInv'
  BY <1>1, <1>2, <1>3, <1>4 DEF FrameInv, Checked, ReturnPoint
<1>12. Pending' = Pending
  BY <1>4, <1>5 DEF Pending
<1> QED  BY <1>6, <1>7, <1>8, <1>9, <1>10, <1>11, <1>12

\* A parameter is loaded: one load less before the announced call.
LEMMA LoadStep ==
    ASSUME Intended, IInv, Load
    PROVE  IInv' /\ Pending' = Pending
<1> USE DEF IInv
<1> DEFINE n == Text[pc].params
<1>1. /\ mode = "U" /\ Running /\ pc \in Code /\ \A o : Is(pc, o) <=> o = "load"
  BY UserAt DEF Load
<1>2. /\ ra' = ra /\ saved' = saved /\ shadow_stack' = shadow_stack
      /\ outcome' = outcome /\ strayed' = strayed /\ skewed' = skewed /\ mode' = mode
      /\ Shadow' = Shadow /\ Running' = Running /\ pc' = pc + 2
      /\ mepc' = mepc /\ mcause' = mcause /\ a7' = a7 /\ a0' = "user" /\ work' = work
  BY DEF Load, monitorVars, trapVars, history, Shadow, Running
<1>3. n \in Nat \ {0} /\ Announced(pc', n - 1, Text[pc])
  BY <1>1, <1>2, LoadFacts
<1>4. Text[pc'].fn = Text[pc].fn /\ pc' \in Code /\ pc \in Int
  BY <1>1, <1>3, CodeTypes DEF Announced, Is
<1>5. Owed = Append(saved, pc + 2 * n + 2) /\ Last(Pending) = pc + 2 * n + 2
  BY <1>1, OwedCases DEF SitesInv
<1>6. \/ /\ \A o : Is(pc', o) <=> o = "call"
         /\ Text[pc'].checked /\ Text[pc'].size = 2 /\ pc + 2 * n + 2 = pc' + 2
      \/ /\ \A o : Is(pc', o) <=> o = "load"
         /\ Text[pc'].params = n - 1 /\ pc + 2 * n + 2 = pc' + 2 * (n - 1) + 2
  <2>1. CASE n = 1
    <3>1. Is(pc', "call") /\ Text[pc'].checked
      BY <1>3, <2>1 DEF Announced
    <3>2. Text[pc'].size = 2
      BY <3>1, CallFacts
    <3>3. pc + 2 * n + 2 = pc' + 2
      BY <1>2, <1>4, <2>1
    <3> QED  BY <3>1, <3>2, <3>3 DEF Is
  <2>2. CASE n # 1
    <3>1. Is(pc', "load") /\ Text[pc'].params = n - 1
      BY <1>3, <2>2 DEF Announced
    <3>2. pc + 2 * n + 2 = pc' + 2 * (n - 1) + 2
      BY <1>2, <1>3, <1>4
    <3> QED  BY <3>1, <3>2 DEF Is
  <2> QED  BY <2>1, <2>2
<1> HIDE DEF n
<1>7. Owed' = Owed
  BY <1>2, <1>5, <1>6 DEF Owed, Checked
<1>8. TypeOK'
  BY <1>2, <1>4, CodeTypes DEF TypeOK
<1>9. ControlInImage' /\ Balanced' /\ Mirror' /\ NoFalseAlarm'
  BY <1>1, <1>2, <1>4, <1>7 DEF ControlInImage, Balanced, Mirror, NoFalseAlarm
<1>10. TrapInv'
  BY <1>1, <1>2 DEF TrapInv
<1>11. CodeInv'
  BY <1>1, <1>2, <1>6 DEF CodeInv
<1>12. SitesInv'
  BY <1>1, <1>2, <1>5, <1>6, <1>7 DEF SitesInv, Pending, Checked
<1>13. FrameInv'
  BY <1>1, <1>2, <1>4, <1>6 DEF FrameInv, Checked, ReturnPoint
<1>14. Pending' = Pending
  BY <1>2, <1>7 DEF Pending
<1> QED  BY <1>8, <1>9, <1>10, <1>11, <1>12, <1>13, <1>14

\* A call, checked or not, and the callee's prologue.
LEMMA CallStep ==
    ASSUME Intended, IInv, Call
    PROVE  IInv' /\ Pending' = Pending
<1> USE DEF IInv
<1>1. /\ mode = "U" /\ Running /\ pc \in Code /\ \A o : Is(pc, o) <=> o = "call"
  BY UserAt DEF Call
<1>2. /\ ra' = pc + Text[pc].size /\ shadow_stack' = shadow_stack
      /\ outcome' = outcome /\ strayed' = strayed /\ skewed' = skewed /\ mode' = mode
      /\ Shadow' = Shadow /\ Running' = Running /\ pc' = Text[pc].dest
      /\ mepc' = mepc /\ mcause' = mcause /\ a7' = a7 /\ a0' = a0 /\ work' = work
  BY DEF Call, monitorVars, trapVars, history, Shadow, Running
<1>3. /\ Is(pc', "body") /\ IsBody(ra', Text[pc].fn) /\ ~Leaf(Text[pc].fn)
      /\ Text[pc].checked => ~Leaf(Text[pc'].fn)
      /\ ~Text[pc].checked => Leaf(Text[pc'].fn)
      /\ ra' \in Word /\ ra' % 2 = 0
  BY <1>1, <1>2, CallFacts
<1>4. pc' \in Code /\ \A o : Is(pc', o) <=> o = "body"
  BY <1>3 DEF Is
<1>5. saved \in Seq(Word)
  BY DEF TypeOK
<1>6. saved' = IF Leaf(Text[pc'].fn) THEN saved ELSE Append(saved, ra')
  BY DEF Call
<1>7. /\ saved' \in Seq(Word)
      /\ saved # << >> => saved' # << >>
      /\ ~Leaf(Text[pc'].fn) => saved' # << >>
      /\ \A i \in DOMAIN saved' : saved'[i] % 2 = 0
  <2>1. CASE Leaf(Text[pc'].fn)
    BY <2>1, <1>5, <1>6 DEF CodeInv
  <2>2. CASE ~Leaf(Text[pc'].fn)
    <3>1. /\ saved' \in Seq(Word) /\ saved' # << >> /\ Len(saved') = Len(saved) + 1
          /\ \A i \in 1 .. Len(saved) : saved'[i] = saved[i]
          /\ saved'[Len(saved) + 1] = ra'
      BY <2>2, <1>3, <1>5, <1>6, AppendProperties
    <3>2. /\ DOMAIN saved' = 1 .. Len(saved) + 1 /\ DOMAIN saved = 1 .. Len(saved)
          /\ Len(saved) \in Nat
      BY <1>5, <3>1, LenProperties
    <3>3. \A i \in DOMAIN saved' : saved'[i] % 2 = 0
      BY <1>3, <3>1, <3>2 DEF CodeInv
    <3> QED  BY <3>1, <3>3
  <2> QED  BY <2>1, <2>2
<1>8. Owed' = Owed
  <2>1. Owed' = saved'
    BY <1>4 DEF Owed, Checked
  <2>2. CASE Text[pc].checked
    BY <2>1, <2>2, <1>1, <1>2, <1>3, <1>6, OwedCases
  <2>3. CASE ~Text[pc].checked
    BY <2>1, <2>3, <1>1, <1>3, <1>6, OwedCases
  <2> QED  BY <2>2, <2>3
<1>9. TypeOK'
  BY <1>2, <1>3, <1>4, <1>7, CodeTypes DEF TypeOK
<1>10. ControlInImage' /\ Balanced' /\ Mirror' /\ NoFalseAlarm'
  BY <1>1, <1>2, <1>4, <1>8 DEF ControlInImage, Balanced, Mirror, NoFalseAlarm
<1>11. TrapInv'
  BY <1>1, <1>2 DEF TrapInv
<1>12. CodeInv'
  BY <1>1, <1>3, <1>4, <1>7 DEF CodeInv
<1>13. SitesInv'
  BY <1>2, <1>4, <1>8 DEF SitesInv, Pending, Checked
<1>14. FrameInv'
  <2>1. Leaf(Text[pc'].fn) => ReturnPoint(ra)'
    <3>1. saved # << >> \/ Text[pc].fn = Text[EntryPoint].fn
      BY <1>1, <1>3 DEF FrameInv
    <3> QED  BY <3>1, <1>3, <1>6 DEF ReturnPoint, IsBody
  <2> QED  BY <2>1, <1>4, <1>7 DEF FrameInv, Checked
<1>15. Pending' = Pending
  BY <1>2, <1>8 DEF Pending
<1> QED  BY <1>9, <1>10, <1>11, <1>12, <1>13, <1>14, <1>15

\* A return: ra is where FrameInv says control may go.
LEMMA ReturnStep ==
    ASSUME Intended, IInv, Return
    PROVE  IInv' /\ Pending' = Pending
<1> USE DEF IInv
<1>1. /\ mode = "U" /\ Running /\ pc \in Code /\ \A o : Is(pc, o) <=> o = "jr"
  BY UserAt DEF Return
<1>2. /\ ra' = ra /\ saved' = saved /\ shadow_stack' = shadow_stack
      /\ outcome' = outcome /\ strayed' = strayed /\ skewed' = skewed /\ mode' = mode
      /\ Shadow' = Shadow /\ Running' = Running /\ pc' = ra
      /\ mepc' = mepc /\ mcause' = mcause /\ a7' = a7 /\ a0' = a0 /\ work' = work
  BY DEF Return, monitorVars, trapVars, history, Shadow, Running
<1>3. ReturnPoint(ra)
  BY <1>1, JrFacts DEF FrameInv, Checked
<1>4. pc' \in Code /\ \A o : Is(pc', o) <=> o = "body"
  BY <1>2, <1>3 DEF ReturnPoint, Is
<1>5. Owed' = Owed
  BY <1>1, <1>2, <1>4, OwedCases DEF Owed, Checked
<1>6. TypeOK'
  BY <1>2, <1>4, CodeTypes DEF TypeOK
<1>7. ControlInImage' /\ Balanced' /\ Mirror' /\ NoFalseAlarm'
  BY <1>1, <1>2, <1>4, <1>5 DEF ControlInImage, Balanced, Mirror, NoFalseAlarm
<1>8. TrapInv'
  BY <1>1, <1>2 DEF TrapInv
<1>9. CodeInv'
  BY <1>1, <1>2, <1>4 DEF CodeInv
<1>10. SitesInv'
  BY <1>2, <1>4, <1>5 DEF SitesInv, Pending, Checked
<1>11. FrameInv'
  BY <1>2, <1>3, <1>4 DEF FrameInv, Checked, ReturnPoint
<1>12. Pending' = Pending
  BY <1>2, <1>5 DEF Pending
<1> QED  BY <1>6, <1>7, <1>8, <1>9, <1>10, <1>11, <1>12

\* An access that raises no exception.
LEMMA AccessStep ==
    ASSUME Intended, IInv, Access
    PROVE  IInv' /\ Pending' = Pending
<1> USE DEF IInv
<1>1. /\ mode = "U" /\ Running /\ pc \in Code /\ \A o : Is(pc, o) <=> o = "access"
  BY UserAt DEF Access
<1>2. /\ ra' = ra /\ saved' = saved /\ shadow_stack' = shadow_stack
      /\ outcome' = outcome /\ strayed' = strayed /\ skewed' = skewed /\ mode' = mode
      /\ Shadow' = Shadow /\ Running' = Running /\ pc' = pc + Text[pc].size
      /\ mepc' = mepc /\ mcause' = mcause /\ a7' = a7 /\ a0' = a0 /\ work' = work
  BY DEF Access, monitorVars, trapVars, history, Shadow, Running
<1>3. IsBody(pc', Text[pc].fn)
  BY <1>1, <1>2, AccessFacts
<1>4. /\ pc' \in Code /\ Text[pc'].fn = Text[pc].fn
      /\ \A o : Is(pc', o) <=> o = "body"
  BY <1>3 DEF IsBody, Is
<1>5. Owed' = Owed
  BY <1>1, <1>2, <1>4, OwedCases DEF Owed, Checked
<1>6. TypeOK'
  BY <1>2, <1>4, CodeTypes DEF TypeOK
<1>7. ControlInImage' /\ Balanced' /\ Mirror' /\ NoFalseAlarm'
  BY <1>1, <1>2, <1>4, <1>5 DEF ControlInImage, Balanced, Mirror, NoFalseAlarm
<1>8. TrapInv'
  BY <1>1, <1>2 DEF TrapInv
<1>9. CodeInv'
  BY <1>1, <1>2, <1>4 DEF CodeInv
<1>10. SitesInv'
  BY <1>2, <1>4, <1>5 DEF SitesInv, Pending, Checked
<1>11. FrameInv'
  BY <1>1, <1>2, <1>4 DEF FrameInv, Checked, ReturnPoint
<1>12. Pending' = Pending
  BY <1>2, <1>5 DEF Pending
<1> QED  BY <1>6, <1>7, <1>8, <1>9, <1>10, <1>11, <1>12

\* A damaged frame: only the value of one saved address changes.
LEMMA StrayWriteStep ==
    ASSUME Intended, IInv, StrayWrite
    PROVE  IInv' /\ Pending' = Pending
<1> USE DEF IInv
<1>1. /\ mode = "U" /\ Running /\ pc \in Code /\ \A o : Is(pc, o) <=> o = "body"
  BY UserAt DEF StrayWrite
<1>2. PICK i \in DOMAIN saved, w \in StrayWords : saved' = [saved EXCEPT ![i] = w]
  BY DEF StrayWrite
<1>3. /\ ra' = ra /\ shadow_stack' = shadow_stack /\ pc' = pc
      /\ outcome' = outcome /\ strayed' = TRUE /\ ~skewed /\ skewed' = skewed /\ mode' = mode
      /\ Shadow' = Shadow /\ Running' = Running
      /\ mepc' = mepc /\ mcause' = mcause /\ a7' = a7 /\ a0' = a0 /\ work' = work
  BY DEF StrayWrite, monitorVars, trapVars, Shadow, Running
<1>4. saved \in Seq(Word) /\ DOMAIN saved = 1 .. Len(saved)
  BY LenProperties DEF TypeOK
<1>5. w \in Word /\ w % 2 = 0
  BY InputAssumption
<1>6. /\ saved' \in Seq(Word) /\ Len(saved') = Len(saved)
      /\ \A j \in 1 .. Len(saved) : saved'[j] = IF j = i THEN w ELSE saved[j]
  BY <1>2, <1>4, <1>5, ExceptSeq
<1>7. DOMAIN saved' = 1 .. Len(saved) /\ (saved' = << >> <=> saved = << >>)
  BY <1>4, <1>6, LenProperties, EmptySeq
<1>8. \A j \in DOMAIN saved' : saved'[j] % 2 = 0
  BY <1>4, <1>5, <1>6, <1>7 DEF CodeInv
<1>9. Owed = saved /\ Owed' = saved'
  BY <1>1, <1>3, OwedCases DEF Owed, Checked
<1>16. Pending' = Pending
  BY <1>3 DEF Pending
<1>10. TypeOK'
  BY <1>3, <1>6 DEF TypeOK
<1>11. ControlInImage' /\ Balanced' /\ Mirror' /\ NoFalseAlarm'
  BY <1>1, <1>3, <1>6, <1>9 DEF ControlInImage, Balanced, Mirror, NoFalseAlarm
<1>12. TrapInv'
  BY <1>1, <1>3 DEF TrapInv
<1>13. CodeInv'
  BY <1>1, <1>3, <1>8 DEF CodeInv
<1>14. SitesInv'
  BY <1>3, <1>16 DEF SitesInv, Checked
<1>15. FrameInv'
  BY <1>3, <1>7 DEF FrameInv, Checked, ReturnPoint
<1> QED  BY <1>10, <1>11, <1>12, <1>13, <1>14, <1>15, <1>16

-----------------------------------------------------------------------------
\* Traps

\* The hart enters the handler for an ecall or for a faulting access.
LEMMA TrapStep ==
    ASSUME Intended, IInv, Ecall \/ Fault
    PROVE  IInv' /\ Pending' = Pending
<1> USE DEF IInv
<1>1. PICK cause \in 0 .. 15 :
        /\ Trap(cause)
        /\ IF cause = 8
           THEN At("jump_check") \/ At("ret_check") \/ At("exit")
           ELSE At("access")
  BY InputAssumption DEF Ecall, Fault
<1>2. Running /\ mode = "U" /\ pc \in Code
  BY <1>1, UserAt
<1>3. /\ mode' = "M" /\ mepc' = pc /\ mcause' = cause
      /\ pc' = pc /\ ra' = ra /\ a7' = a7 /\ a0' = a0 /\ saved' = saved
      /\ work' = work /\ shadow_stack' = shadow_stack /\ outcome' = outcome
      /\ strayed' = strayed /\ skewed' = skewed /\ Shadow' = Shadow /\ Running' = Running
      /\ Owed' = Owed /\ Pending' = Pending
  BY <1>1 DEF Trap, userVars, monitorVars, history, Shadow, Running, Owed, Pending,
     Checked
<1>4. TypeOK'
  BY <1>1, <1>3 DEF TypeOK
<1>5. ControlInImage' /\ Balanced' /\ Mirror' /\ NoFalseAlarm'
  BY <1>3 DEF ControlInImage, Balanced, Mirror, NoFalseAlarm
<1>6. TrapInv'
  BY <1>1, <1>2, <1>3 DEF TrapInv, At
<1>7. CodeInv' /\ SitesInv' /\ FrameInv'
  BY <1>3 DEF CodeInv, SitesInv, FrameInv, Checked, ReturnPoint
<1> QED  BY <1>3, <1>4, <1>5, <1>6, <1>7

-----------------------------------------------------------------------------
\* The handler

\* The addresses pending are return sites, the oldest of the entry.
GoodPending ==
    /\ Pending \in Seq(ReturnSites)
    /\ Pending # << >> => Text[Pending[1]].fn = Text[EntryPoint].fn

\* What the handler knows when it starts: why it was entered and from where.
LEMMA HandlerEntry ==
    ASSUME IInv, mode = "M"
    PROVE  /\ Running /\ mepc = pc /\ pc \in Code
           /\ pc \in Int /\ (pc + 4) % WordMod = pc + 4
           /\ GoodPending
           /\ shadow_stack \in SStack /\ Shadow \in Seq(Word)
           /\ saved \in Seq(Word) /\ ra \in Word
           /\ mcause = 8 =>
                Is(pc, "jump_check") \/ Is(pc, "ret_check") \/ Is(pc, "exit")
           /\ mcause # 8 => Is(pc, "access")
           /\ Is(pc, "jump_check") => a7 = Text[pc].dest
           /\ Is(pc, "ret_check") => a7 = ra + 1
           /\ Is(pc, "exit") => a7 = 1
<1>1. Running /\ mepc = pc /\ pc \in Code
  BY DEF IInv, TrapInv, ControlInImage
<1>2. shadow_stack \in SStack /\ saved \in Seq(Word) /\ ra \in Word
  BY DEF IInv, TypeOK
<1>3. Shadow \in Seq(Word)
  BY <1>2, ContentsType DEF Shadow
<1> QED
  BY <1>1, <1>2, <1>3, CodeTypes DEF IInv, TrapInv, CodeInv, SitesInv, GoodPending

\* Where user code is parked nothing is owed but the frames.
LEMMA Parked ==
    ASSUME NEW why, code_termination(why)
    PROVE  Owed' = saved' /\ pc' = TERMINATE_EXECUTION /\ ~(pc' \in Code)
<1>1. pc' = TERMINATE_EXECUTION /\ ~(TERMINATE_EXECUTION \in Code)
  BY TextAssumption DEF code_termination, ImageAssumption
<1> QED  BY <1>1 DEF Owed, Checked, Is

\* code_termination parks the program; a mismatch has one of its two causes.
LEMMA Termination ==
    ASSUME IInv, mode = "M", NEW why \in {"exit", "full", "mismatch"},
           code_termination(why), why = "mismatch" => strayed \/ skewed',
           GoodPending', shadow_stack' \in SStack,
           skewed' \in BOOLEAN, ~(strayed /\ skewed'),
           UNCHANGED <<mcause, a7, saved, work, strayed>>
    PROVE  IInv'
<1> USE DEF IInv
<1>1. /\ mepc' = TERMINATE_EXECUTION /\ pc' = TERMINATE_EXECUTION /\ mode' = "U"
      /\ a0' = "handler" /\ ra' = 0 /\ outcome' = why /\ ~Running'
  BY DEF code_termination, Running
<1>2. TERMINATE_EXECUTION \in Word /\ 0 \in Word
  BY TextAssumption, WordAssumption DEF ImageAssumption, Word
<1>3. TypeOK'
  BY <1>1, <1>2 DEF TypeOK
<1>4. ControlInImage' /\ Balanced' /\ Mirror' /\ NoFalseAlarm'
  BY <1>1 DEF ControlInImage, Balanced, Mirror, NoFalseAlarm
<1>5. TrapInv' /\ SitesInv' /\ FrameInv'
  BY <1>1 DEF TrapInv, SitesInv, FrameInv, GoodPending
<1>6. CodeInv'
  BY <1>1 DEF CodeInv
<1> QED  BY <1>3, <1>4, <1>5, <1>6

\* An exception other than an ecall: the program goes on behind the access.
LEMMA OtherStep ==
    ASSUME Intended, IInv, mode = "M", mcause # 8, esr_handler_other,
           UNCHANGED <<mcause, a7, saved, work, strayed, skewed>>
    PROVE  IInv' /\ Pending' = Pending
<1> USE DEF IInv
<1>1. /\ Running /\ mepc = pc /\ pc \in Code /\ (pc + 4) % WordMod = pc + 4
      /\ \A o : Is(pc, o) <=> o = "access"
  BY HandlerEntry DEF Is
<1>2. /\ mepc' = pc + 4 /\ pc' = pc + 4 /\ mode' = "U" /\ a0' = "handler"
      /\ ra' = ra /\ outcome' = outcome /\ shadow_stack' = shadow_stack
      /\ Shadow' = Shadow /\ Running' = Running
  BY <1>1 DEF esr_handler_other, TrapReturn, Shadow, Running
<1>3. IsBody(pc', Text[pc].fn)
  BY <1>1, <1>2, AccessFacts
<1>4. /\ pc' \in Code /\ Text[pc'].fn = Text[pc].fn
      /\ \A o : Is(pc', o) <=> o = "body"
  BY <1>3 DEF IsBody, Is
<1>5. Owed' = Owed
  BY <1>1, <1>2, <1>4, OwedCases DEF Owed, Checked
<1>6. Pending' = Pending
  BY <1>2, <1>5 DEF Pending
<1>7. TypeOK'
  BY <1>2, <1>4, CodeTypes DEF TypeOK
<1>8. ControlInImage' /\ Balanced' /\ Mirror' /\ NoFalseAlarm'
  BY <1>1, <1>2, <1>4, <1>5 DEF ControlInImage, Balanced, Mirror, NoFalseAlarm
<1>9. TrapInv'
  BY <1>1, <1>2 DEF TrapInv
<1>10. CodeInv'
  BY <1>1, <1>2, <1>4 DEF CodeInv
<1>11. SitesInv'
  BY <1>2, <1>4, <1>6 DEF SitesInv, Checked
<1>12. FrameInv'
  BY <1>1, <1>2, <1>4 DEF FrameInv, Checked, ReturnPoint
<1> QED  BY <1>6, <1>7, <1>8, <1>9, <1>10, <1>11, <1>12

\* What the handler computes from a6 is a word; with the a6 that the code needs
\* it is the call's return site.
LEMMA StoredAddress ==
    ASSUME Intended, NEW a6 \in a6Left, Is(pc, "jump_check")
    PROVE  /\ address_to_store(pc, a6) \in Word
           /\ a6 = Text[pc].params =>
                address_to_store(pc, a6) = pc + 2 * Text[pc].params + 6
<1>1. /\ pc \in Code /\ pc + 2 * Text[pc].params + 6 \in ReturnSites
  BY JumpCheckFacts
<1>2. pc \in Int /\ 1 < pc /\ Text[pc].params \in Nat
  BY <1>1, CodeTypes
<1>3. a6 \in Nat
  BY <1>2, InputAssumption DEF a6Left
<1>4. pc + 2 * Text[pc].params + 6 \in Word
  BY <1>1, SiteFacts
<1>5. (pc + 2 * Text[pc].params + 6) % WordMod = pc + 2 * Text[pc].params + 6
  BY <1>4, WordAssumption DEF Word
<1>6. pc + 6 + 2 * Text[pc].params = pc + 2 * Text[pc].params + 6
  BY <1>2
<1>7. pc + 6 + 2 * a6 \in Nat
  BY <1>2, <1>3
<1>8. (pc + 6 + 2 * a6) % WordMod \in Word
  BY <1>7, WordAssumption DEF Word
<1> QED
  BY <1>5, <1>6, <1>8 DEF address_to_store

\* A jump check: the call is recorded, or the stack is full and the program ends.
LEMMA JumpStep ==
    ASSUME Intended, IInv, mode = "M", Is(pc, "jump_check"),
           NEW a6 \in a6Left, esr_jump(a6, mepc),
           skewed' = (skewed \/ Skews(a6)),
           UNCHANGED <<mcause, a7, saved, work, strayed>>
    PROVE  /\ IInv'
           /\ \/ ~Running' /\ Pending' = Pending
              \/ /\ Running' /\ Len(Pending) < MAX_SIZE
                 /\ \E a \in ReturnSites : Pending' = Append(Pending, a)
                 /\ pc' \in Code /\ ~Checked("jr")'
<1> USE DEF IInv
<1> DEFINE n == Text[pc].params
           a == address_to_store(mepc, a6)
           site == pc + 2 * n + 6
<1>1. /\ Running /\ mepc = pc /\ pc \in Code /\ pc \in Int
      /\ (pc + 4) % WordMod = pc + 4 /\ GoodPending
      /\ shadow_stack \in SStack /\ Shadow \in Seq(Word) /\ saved \in Seq(Word)
      /\ \A o : Is(pc, o) <=> o = "jump_check"
  BY HandlerEntry DEF Is
<1>2. /\ site \in ReturnSites /\ site \in Word /\ Text[site].fn = Text[pc].fn
      /\ n \in Nat /\ a \in Word /\ (a6 = n => a = site)
  BY <1>1, StoredAddress, JumpCheckFacts, SiteFacts, CodeTypes
<1>3. /\ shadow_stack' = Push(shadow_stack, a)
      /\ IF PushResult(shadow_stack) # 1 THEN code_termination("full") ELSE TrapReturn
  BY DEF esr_jump
<1>4. /\ shadow_stack' \in SStack
      /\ Len(Shadow) < MAX_SIZE =>
           PushResult(shadow_stack) = 1 /\ Shadow' = Append(Shadow, a)
      /\ Len(Shadow) = MAX_SIZE =>
           PushResult(shadow_stack) = 0 /\ shadow_stack' = shadow_stack
      /\ Len(Shadow) <= MAX_SIZE
  BY <1>1, <1>2, <1>3, PushAppends DEF Shadow
<1>5. Owed = saved /\ Len(saved) = Len(Shadow) /\ Len(Shadow) \in Nat
  BY <1>1, OwedCases, LenProperties DEF Balanced
<1>6. /\ skewed \in BOOLEAN /\ skewed' \in BOOLEAN
      /\ skewed' => ~strayed /\ Pending = saved
      /\ ~skewed' => a = site /\ ~skewed /\ Pending = Shadow
  <2>1. skewed \in BOOLEAN
    BY DEF TypeOK
  <2>2. Skews(a6) <=> a6 # n
    BY DEF Skews
  <2>3. a6 # n => ~strayed
    BY DEF a6Left
  <2>4. skewed => ~strayed /\ Pending = saved
    BY <1>5 DEF SitesInv, Pending
  <2>5. ~skewed => Pending = Shadow
    BY DEF Pending
  <2>6. ~skewed /\ ~strayed => Pending = saved
    BY <1>1, <1>5, <2>5 DEF Mirror
  <2> QED  BY <1>2, <2>1, <2>2, <2>3, <2>4, <2>5, <2>6
<1>7. Len(Pending) = Len(Shadow)
  BY <1>5, <1>6
<1> HIDE DEF a, site
<1>8. CASE Len(Shadow) = MAX_SIZE
  <2>1. Shadow' = Shadow /\ code_termination("full")
    BY <1>3, <1>4, <1>8 DEF Shadow
  <2>2. Pending' = Pending
    BY <1>6, <2>1, Parked DEF Pending
  <2>3. GoodPending'
    BY <1>1, <2>2 DEF GoodPending
  <2>4. IInv'
    BY <1>4, <1>6, <2>1, <2>3, Termination
  <2>5. ~Running'
    BY <2>1 DEF code_termination, Running
  <2> QED  BY <2>2, <2>4, <2>5
<1>9. CASE Len(Shadow) < MAX_SIZE
  <2>1. Shadow' = Append(Shadow, a) /\ TrapReturn
    BY <1>3, <1>4, <1>9
  <2>2. /\ mepc' = pc + 4 /\ pc' = pc + 4 /\ mode' = "U" /\ a0' = "handler"
        /\ ra' = ra /\ outcome' = outcome /\ Running'
    BY <1>1, <2>1 DEF TrapReturn, Running
  <2>3. ~Leaf(Text[pc].fn) /\ Announced(pc', n, Text[pc])
    BY <1>1, <2>2, JumpCheckFacts
  <2>4. /\ pc' \in Code /\ Text[pc'].fn = Text[pc].fn
        /\ \/ /\ \A o : Is(pc', o) <=> o = "call"
              /\ Text[pc'].checked /\ Text[pc'].size = 2 /\ site = pc' + 2
           \/ /\ \A o : Is(pc', o) <=> o = "load"
              /\ Text[pc'].params = n /\ site = pc' + 2 * n + 2
    <3>0. site = pc' + 2 * n + 2
      <4>1. pc \in Int /\ n \in Nat /\ pc' = pc + 4 /\ site = pc + 2 * n + 6
        BY <1>1, <1>2, <2>2 DEF site
      <4> HIDE DEF n
      <4> QED  BY <4>1
    <3>1. CASE n = 0
      <4>1. Is(pc', "call") /\ Text[pc'].checked /\ Text[pc'].fn = Text[pc].fn
        BY <2>3, <3>1 DEF Announced
      <4>2. Text[pc'].size = 2
        BY <4>1, CallFacts
      <4>3. site = pc' + 2
        BY <1>1, <2>2, <3>0, <3>1
      <4> QED  BY <4>1, <4>2, <4>3 DEF Is
    <3>2. CASE n # 0
      <4>1. Is(pc', "load") /\ Text[pc'].params = n /\ Text[pc'].fn = Text[pc].fn
        BY <2>3, <3>2 DEF Announced
      <4> QED  BY <3>0, <4>1 DEF Is
    <3> QED  BY <3>1, <3>2
  <2> HIDE DEF n
  <2>5. Owed' = Append(saved, site)
    BY <2>2, <2>4 DEF Owed, Checked
  <2>6. Pending' = Append(Pending, site)
    BY <1>6, <2>1, <2>5 DEF Pending
  <2>7. Pending \in Seq(ReturnSites)
    BY <1>1 DEF GoodPending
  <2>8. /\ Pending' \in Seq(ReturnSites) /\ Pending' # << >>
        /\ Len(Pending') = Len(Pending) + 1 /\ Last(Pending') = site
        /\ \A i \in 1 .. Len(Pending) : Pending'[i] = Pending[i]
        /\ Pending'[Len(Pending) + 1] = site
    BY <1>2, <2>6, <2>7, FrontLastAppend, AppendProperties
  <2>9. Pending = << >> => Text[pc].fn = Text[EntryPoint].fn
    <3>1. Pending = << >> => saved = << >>
      BY <1>1, <1>5, <1>7, EmptySeq
    <3> QED  BY <1>1, <2>3, <3>1 DEF FrameInv
  <2>10. Text[Pending'[1]].fn = Text[EntryPoint].fn
    <3>1. CASE Pending = << >>
      <4>1. Pending'[1] = site
        BY <2>8, <3>1, EmptySeq
      <4> QED  BY <4>1, <1>2, <2>9, <3>1
    <3>2. CASE Pending # << >>
      <4>1. 1 \in 1 .. Len(Pending)
        BY <2>7, <3>2, EmptySeq
      <4>2. Pending'[1] = Pending[1]
        BY <2>8, <4>1
      <4> QED  BY <4>2, <1>1, <3>2 DEF GoodPending
    <3> QED  BY <3>1, <3>2
  <2>11. TypeOK'
    BY <1>4, <1>6, <2>2, <2>4, CodeTypes DEF TypeOK
  <2>12. Balanced' /\ Mirror'
    <3>1. Len(Append(saved, site)) = Len(saved) + 1
      BY <1>1, <1>2, AppendProperties
    <3>2. Len(Append(Shadow, a)) = Len(Shadow) + 1
      BY <1>1, <1>2, AppendProperties
    <3>3. ~strayed /\ ~skewed' => Shadow' = Owed'
      BY <1>1, <1>5, <1>6, <2>1, <2>5 DEF Mirror
    <3> QED  BY <1>5, <2>1, <2>5, <3>1, <3>2, <3>3 DEF Balanced, Mirror
  <2>13. ControlInImage' /\ NoFalseAlarm' /\ TrapInv'
    BY <2>2, <2>4 DEF ControlInImage, NoFalseAlarm, TrapInv
  <2>14. CodeInv'
    BY <2>2, <2>4 DEF CodeInv
  <2>15. SitesInv'
    BY <1>6, <2>4, <2>8, <2>10 DEF SitesInv, Checked
  <2>16. FrameInv'
    BY <1>1, <2>2, <2>3, <2>4 DEF FrameInv, Checked
  <2>17. ~Checked("jr")'
    BY <2>4 DEF Checked
  <2> QED
    BY <1>2, <1>7, <1>9, <2>2, <2>4, <2>6, <2>11, <2>12, <2>13, <2>14, <2>15, <2>16,
       <2>17
<1> QED  BY <1>4, <1>5, <1>8, <1>9, SizeAssumption

\* A return check: the newest address is consumed; the return goes on if it is
\* the address in ra, and the program ends if it is not.
LEMMA RetCheckStep ==
    ASSUME Intended, IInv, mode = "M", Is(pc, "ret_check"), esr_return(a7),
           UNCHANGED <<mcause, a7, saved, work, strayed, skewed>>
    PROVE  /\ IInv'
           /\ Pending # << >> /\ Pending' = Front(Pending)
           /\ Running' => ra' = Last(Pending) /\ Checked("jr")' /\ pc' \in Code
<1> USE DEF IInv
<1>1. /\ Running /\ mepc = pc /\ pc \in Code /\ (pc + 4) % WordMod = pc + 4
      /\ GoodPending /\ a7 = ra + 1
      /\ shadow_stack \in SStack /\ Shadow \in Seq(Word)
      /\ \A o : Is(pc, o) <=> o = "ret_check"
  BY HandlerEntry DEF Is
<1>2. ra \in Word /\ ra \in Int /\ a7 - 1 = ra /\ saved \in Seq(Word)
  <2>1. ra \in Word /\ saved \in Seq(Word)
    BY DEF TypeOK
  <2> QED  BY <1>1, <2>1 DEF Word
<1>3. /\ Owed = Append(saved, ra) /\ Len(Owed) = Len(saved) + 1
      /\ Front(Owed) = saved /\ Last(Owed) = ra /\ Len(saved) \in Nat
  <2>1. Owed = Append(saved, ra)
    BY <1>1, OwedCases
  <2> QED  BY <1>2, <2>1, FrontLastAppend, LenProperties
<1>4. /\ Len(Shadow) = Len(saved) + 1 /\ Len(Pending) = Len(saved) + 1
      /\ Pending \in Seq(ReturnSites)
  BY <1>1, <1>3 DEF Balanced, GoodPending, Pending
<1>5. Shadow # << >> /\ Pending # << >>
  BY <1>1, <1>3, <1>4, EmptySeq
<1>6. /\ Front(Pending) \in Seq(ReturnSites) /\ Last(Pending) \in ReturnSites
      /\ Last(Pending) = Pending[Len(Pending)]
      /\ Len(Front(Pending)) = Len(Pending) - 1
      /\ \A i \in 1 .. Len(Pending) - 1 : Front(Pending)[i] = Pending[i]
  BY <1>4, <1>5, FrontLast
<1>7. /\ PopResult(shadow_stack) = Last(Shadow) /\ Shadow' = Front(Shadow)
      /\ shadow_stack' \in SStack /\ Len(Shadow') = Len(Shadow) - 1
  BY <1>1, <1>5, PopTakesLast, FrontLast DEF esr_return, Shadow
<1>8. Last(Pending) # 0 /\ skewed \in BOOLEAN /\ ~(strayed /\ skewed)
  BY <1>6, SiteFacts DEF TypeOK, SitesInv
<1>9. Owed' = saved => Pending' = Front(Pending)
  BY <1>3, <1>7 DEF Pending
<1>10. Pending' = Front(Pending) => GoodPending'
  <2> SUFFICES ASSUME Pending' = Front(Pending), Pending' # << >>
               PROVE  Text[Pending'[1]].fn = Text[EntryPoint].fn
    BY <1>6 DEF GoodPending
  <2>1. Len(Pending') \in Nat \ {0}
    BY <1>6, EmptySeq
  <2>2. Pending'[1] = Pending[1]
    BY <1>3, <1>4, <1>6, <2>1
  <2> QED  BY <1>1, <1>5, <2>2 DEF GoodPending
<1>11. CASE Last(Shadow) = 0 \/ Last(Shadow) # ra
  <2>1. code_termination("mismatch")
    BY <1>2, <1>7, <1>11 DEF esr_return
  <2>2. Pending' = Front(Pending)
    BY <1>9, <2>1, Parked
  <2>3. strayed \/ skewed
    BY <1>1, <1>3, <1>8, <1>11 DEF Mirror, Pending
  <2>4. IInv'
    BY <1>7, <1>8, <1>10, <2>1, <2>2, <2>3, Termination
  <2>5. ~Running'
    BY <2>1 DEF code_termination, Running
  <2> QED  BY <1>5, <2>2, <2>4, <2>5
<1>12. CASE Last(Shadow) # 0 /\ Last(Shadow) = ra
  <2>1. TrapReturn
    BY <1>2, <1>7, <1>12 DEF esr_return
  <2>2. /\ mepc' = pc + 4 /\ pc' = pc + 4 /\ mode' = "U" /\ a0' = "handler"
        /\ ra' = ra /\ outcome' = outcome /\ Running' /\ saved' = saved
    BY <1>1, <2>1 DEF TrapReturn, Running
  <2>3. /\ Is(pc', "jr") /\ Text[pc'].checked /\ Text[pc'].fn = Text[pc].fn
        /\ ~Leaf(Text[pc].fn)
    BY <1>1, <2>2, RetCheckFacts
  <2>4. pc' \in Code /\ \A o : Is(pc', o) <=> o = "jr"
    BY <2>3 DEF Is
  <2>5. Owed' = saved
    BY <2>2, <2>4 DEF Owed, Checked
  <2>6. Pending' = Front(Pending) /\ GoodPending'
    BY <1>9, <1>10, <2>5
  <2>7. ra = Last(Pending)
    BY <1>3, <1>12 DEF Pending
  <2>8. TypeOK'
    BY <1>7, <1>8, <2>2, <2>4, CodeTypes DEF TypeOK
  <2>9. Balanced'
    BY <1>3, <1>4, <1>7, <2>5 DEF Balanced
  <2>10. Mirror'
    BY <1>1, <1>3, <1>7, <2>5 DEF Mirror
  <2>11. ControlInImage' /\ NoFalseAlarm' /\ TrapInv'
    BY <2>2, <2>4 DEF ControlInImage, NoFalseAlarm, TrapInv
  <2>12. CodeInv'
    BY <2>2, <2>4 DEF CodeInv
  <2>13. SitesInv'
    BY <1>8, <2>4, <2>6 DEF SitesInv, GoodPending, Checked
  <2>14. ReturnPoint(ra)'
    <3>1. Is(ra, "body") /\ ~Leaf(Text[ra].fn)
      BY <1>6, <2>7, SiteFacts
    <3>2. saved = << >> => Text[ra].fn = Text[EntryPoint].fn
      <4>1. saved = << >> => Len(Pending) = 1
        BY <1>3, <1>4, EmptySeq
      <4>2. saved = << >> => ra = Pending[1]
        BY <1>6, <2>7, <4>1
      <4> QED  BY <1>1, <1>5, <4>2 DEF GoodPending
    <3> QED  BY <2>2, <3>1, <3>2 DEF ReturnPoint
  <2>15. FrameInv'
    BY <2>3, <2>4, <2>14 DEF FrameInv, Checked
  <2> QED
    BY <1>5, <2>2, <2>3, <2>4, <2>6, <2>7, <2>8, <2>9, <2>10, <2>11, <2>12, <2>13,
       <2>15 DEF Checked
<1> QED  BY <1>11, <1>12

\* The exit check ends the program.
LEMMA ExitStep ==
    ASSUME Intended, IInv, mode = "M", skewed => Is(pc, "exit"),
           code_termination("exit"), UNCHANGED shadow_stack,
           UNCHANGED <<mcause, a7, saved, work, strayed, skewed>>
    PROVE  IInv' /\ ~Running' /\ Pending' = Pending
<1>1. Shadow' = Shadow /\ Owed' = saved
  BY Parked DEF Shadow
<1>2. skewed => Owed = saved
  BY OwedCases DEF Is
<1>3. Pending' = Pending
  BY <1>1, <1>2 DEF Pending
<1>4. GoodPending'
  BY <1>3, HandlerEntry DEF GoodPending
<1>5. /\ shadow_stack' \in SStack /\ skewed' \in BOOLEAN /\ ~(strayed /\ skewed')
  BY DEF IInv, TypeOK, SitesInv
<1>6. IInv'
  BY <1>4, <1>5, Termination
<1> QED  BY <1>3, <1>6 DEF code_termination, Running

\* The ways through the handler.
LEMMA HandlerCases ==
    ASSUME Intended, IInv, synchronous_exception_handler
    PROVE  /\ mode = "M" /\ UNCHANGED <<mcause, a7, saved, work, strayed>>
           /\ \/ mcause # 8 /\ esr_handler_other /\ UNCHANGED skewed
              \/ /\ code_termination("exit") /\ UNCHANGED <<shadow_stack, skewed>>
                 /\ skewed => Is(pc, "exit")
              \/ /\ Is(pc, "jump_check")
                 /\ \E a6 \in a6Left : /\ esr_jump(a6, mepc)
                                       /\ skewed' = (skewed \/ Skews(a6))
              \/ Is(pc, "ret_check") /\ esr_return(a7) /\ UNCHANGED skewed
<1>1. mode = "M" /\ UNCHANGED <<mcause, a7, saved, work, strayed>>
  BY DEF synchronous_exception_handler
<1>2. CASE mcause # 8
  BY <1>1, <1>2 DEF synchronous_exception_handler
<1>3. CASE mcause = 8
  <2>1. PICK a6 \in a6Left : /\ esr_handler_U_mode_ecall(a7, a6, mepc)
                            /\ skewed' = (skewed \/ Skews(a6))
    BY <1>3 DEF synchronous_exception_handler
  <2>2. Is(pc, "jump_check") \/ UNCHANGED skewed
    BY <2>1 DEF Skews, IInv, TypeOK
  <2>3. ra \in Word /\ ra % 2 = 0
    BY DEF IInv, TypeOK, CodeInv
  <2>4. CASE a7 = 1 /\ code_termination("exit") /\ UNCHANGED shadow_stack
    <3>1. ~Is(pc, "jump_check")
      BY <1>1, <2>4, HandlerEntry, JumpCheckFacts
    <3>2. skewed => ~Is(pc, "ret_check")
      <4> SUFFICES ASSUME skewed, Is(pc, "ret_check") PROVE FALSE
        OBVIOUS
      <4>1. ra = 0
        BY <1>1, <2>3, <2>4, HandlerEntry DEF Word
      <4>2. Pending = Append(saved, ra) /\ Last(Append(saved, ra)) = ra
            /\ Append(saved, ra) # << >>
        BY <1>1, <2>3, HandlerEntry, OwedCases, FrontLastAppend DEF Pending
      <4>3. Last(Pending) \in ReturnSites
        BY <1>1, <4>2, HandlerEntry, FrontLast DEF GoodPending
      <4> QED  BY <4>1, <4>2, <4>3, SiteFacts
    <3> QED  BY <1>1, <1>3, <2>2, <2>4, <3>1, <3>2, HandlerEntry
  <2>5. CASE a7 % 2 = 0 /\ esr_jump(a6, mepc)
    <3>1. ~Is(pc, "ret_check")
      <4> SUFFICES ASSUME Is(pc, "ret_check") PROVE FALSE
        OBVIOUS
      <4>1. a7 = ra + 1
        BY <1>1, HandlerEntry
      <4> QED  BY <2>3, <2>5, <4>1, EvenSucc
    <3>2. ~Is(pc, "exit")
      BY <1>1, <2>5, HandlerEntry
    <3> QED  BY <1>1, <1>3, <2>1, <2>5, <3>1, <3>2, HandlerEntry
  <2>6. CASE a7 % 2 # 0 /\ a7 # 1 /\ esr_return(a7)
    <3>1. ~Is(pc, "jump_check")
      BY <1>1, <2>6, HandlerEntry, JumpCheckFacts
    <3>2. ~Is(pc, "exit")
      BY <1>1, <2>6, HandlerEntry
    <3> QED  BY <1>1, <1>3, <2>2, <2>6, <3>1, <3>2, HandlerEntry
  <2> QED  BY <2>1, <2>4, <2>5, <2>6 DEF esr_handler_U_mode_ecall
<1> QED  BY <1>2, <1>3

\* The whole handler keeps the invariant.
LEMMA HandlerStep ==
    ASSUME Intended, IInv, synchronous_exception_handler
    PROVE  IInv'
BY HandlerCases, OtherStep, ExitStep, JumpStep, RetCheckStep

-----------------------------------------------------------------------------
\* The theorems

\* The state in which main enters user mode satisfies the invariant.
LEMMA InitInv ==
    ASSUME Intended, Init
    PROVE  IInv
<1>1. /\ Is(EntryPoint, "body") /\ EntryPoint \in Code
      /\ \A o : Is(EntryPoint, o) <=> o = "body"
  BY TextAssumption DEF ImageAssumption, Is
<1>2. shadow_stack \in SStack /\ Shadow = << >> /\ Running
  BY EmptyStackType DEF Init, Shadow, Running
<1>3. Owed = << >>
  BY <1>1, OwedCases DEF Init
<1>4. TypeOK
  <2>1. EntryPoint \in Word /\ 0 \in Word
    BY <1>1, CodeTypes, WordAssumption DEF Word
  <2>2. saved \in Seq(Word)
    BY EmptySeq DEF Init
  <2>3. work \in 0 .. MaxWork
    BY InputAssumption DEF Init
  <2>4. /\ mode \in {"U", "M"} /\ a0 \in {"user", "handler"} /\ mcause \in 0 .. 15
        /\ outcome \in {"running", "exit", "full", "mismatch"}
    BY DEF Init
  <2>6. strayed \in BOOLEAN /\ skewed \in BOOLEAN
    BY Zenon DEF Init
  <2>5. pc \in Word /\ ra \in Word /\ a7 \in Word /\ mepc \in Word
    BY <2>1 DEF Init
  <2> QED  BY <1>2, <2>2, <2>3, <2>4, <2>5, <2>6 DEF TypeOK
<1>5. ControlInImage /\ Balanced /\ Mirror /\ NoFalseAlarm /\ TrapInv
  BY <1>1, <1>2, <1>3 DEF Init, ControlInImage, Balanced, Mirror, NoFalseAlarm, TrapInv
<1>6. CodeInv
  BY <1>1 DEF Init, CodeInv
<1>7. SitesInv
  <2>1. Pending = << >> /\ ~strayed
    BY <1>2, <1>3 DEF Init, Pending
  <2>2. Pending \in Seq(ReturnSites)
    BY <2>1, EmptySeq
  <2> QED  BY <1>1, <2>1, <2>2 DEF Init, SitesInv, Checked
<1>8. FrameInv
  BY <1>1 DEF Init, FrameInv, Checked, Intended
<1> QED  BY <1>4, <1>5, <1>6, <1>7, <1>8 DEF IInv

\* Every step keeps the inductive invariant.
LEMMA NextInv ==
    ASSUME Intended, IInv, [Next]_vars
    PROVE  IInv'
<1>1. CASE PrepareCall          BY <1>1, PrepareCallStep
<1>2. CASE PreparePlain         BY <1>2, PreparePlainStep
<1>3. CASE PrepareReturn        BY <1>3, PrepareReturnStep
<1>4. CASE PreparePlainReturn   BY <1>4, PreparePlainReturnStep
<1>5. CASE PrepareExit          BY <1>5, PrepareExitStep
<1>6. CASE Load                 BY <1>6, LoadStep
<1>7. CASE Call                 BY <1>7, CallStep
<1>8. CASE Return               BY <1>8, ReturnStep
<1>9. CASE Access               BY <1>9, AccessStep
<1>10. CASE Ecall \/ Fault      BY <1>10, TrapStep
<1>11. CASE synchronous_exception_handler  BY <1>11, HandlerStep
<1>12. CASE StrayWrite          BY <1>12, StrayWriteStep
<1>13. CASE UNCHANGED vars
  BY <1>13 DEF vars, userVars, monitorVars, trapVars, history, IInv, TypeOK,
     ControlInImage, Balanced, Mirror, NoFalseAlarm, TrapInv, CodeInv, SitesInv,
     FrameInv, Owed, Pending, Shadow, Running, Checked, ReturnPoint
<1>14. CASE terminate_execution
  BY <1>13, <1>14 DEF terminate_execution
<1> QED
  BY <1>1, <1>2, <1>3, <1>4, <1>5, <1>6, <1>7, <1>8, <1>9, <1>10, <1>11, <1>12,
     <1>13, <1>14 DEF Next, Program

\* The strengthening is inductive: in an instrumented program the monitor and
\* the user stack stay in step at every instruction.
THEOREM Inductive ==
    ASSUME Intended
    PROVE  Spec => []IInv
<1>1. Init => IInv
  BY InitInv
<1>2. IInv /\ [Next]_vars => IInv'
  BY NextInv
<1> QED  BY <1>1, <1>2, PTL DEF Spec

\* Types, in particular: the shadow stack stays a legal SStack and its index
\* never leaves the array.
THEOREM TypeCorrect ==
    ASSUME Intended
    PROVE  Spec => []TypeOK
<1>1. IInv => TypeOK
  BY DEF IInv
<1> QED  BY <1>1, Inductive, PTL

\* One shadow entry per checked call that has not returned.
THEOREM AlwaysBalanced ==
    ASSUME Intended
    PROVE  Spec => []Balanced
<1>1. IInv => Balanced
  BY DEF IInv
<1> QED  BY <1>1, Inductive, PTL

\* While no frame is damaged and a6 was right at every check before a call, the
\* shadow stack is the user's own return chain; A6Values is not restricted.
THEOREM AlwaysMirror ==
    ASSUME Intended
    PROVE  Spec => []Mirror
<1>1. IInv => Mirror
  BY DEF IInv
<1> QED  BY <1>1, Inductive, PTL

\* A program is only stopped for a wrong return address if it damaged a frame or
\* left a wrong a6 at a check before a call.
THEOREM NeverFalseAlarm ==
    ASSUME Intended
    PROVE  Spec => []NoFalseAlarm
<1>1. IInv => NoFalseAlarm
  BY DEF IInv
<1> QED  BY <1>1, Inductive, PTL

\* User code never leaves its program text: neither a damaged frame nor a wrong
\* a6 (one of the two, see StrayWrite) gets a return past its check.
THEOREM AlwaysInImage ==
    ASSUME Intended
    PROVE  Spec => []ControlInImage
<1>1. IInv => ControlInImage
  BY DEF IInv
<1> QED  BY <1>1, Inductive, PTL

-----------------------------------------------------------------------------
\* The refinement

\* A step that moves control within the program and touches nothing else.
LEMMA WorkStep ==
    ASSUME Running, Running', Granted = {}, Granted' = {}, pc' \in Code,
           Pending' = Pending
    PROVE  Policy!Next
BY DEF Policy!Next, Policy!Work, Policy!Running

\* The step that stops the program is a Halt of the policy.
LEMMA HaltStep ==
    ASSUME Running, ~Running', Granted = {}, IInv',
           Pending' = Pending \/ (Pending # << >> /\ Pending' = Front(Pending))
    PROVE  Policy!Next
<1>1. Granted' = {}
  BY DEF Granted
<1>2. pc' = TERMINATE_EXECUTION
  BY DEF IInv, ControlInImage
<1> QED
  BY <1>1, <1>2 DEF Policy!Next, Policy!Halt, Policy!Running,
     Policy!Front, Front

\* User code makes the policy's steps Work and Take.
LEMMA UserRefines ==
    ASSUME Intended, IInv, IInv',
           \/ PrepareCall \/ PreparePlain \/ PrepareReturn \/ PreparePlainReturn
           \/ PrepareExit \/ Load \/ Call \/ Return \/ Access
    PROVE  Policy!Next
<1>1. /\ Running /\ pc \in Code
      /\ \/ Text[pc].op = "body" \/ Text[pc].op = "load" \/ Text[pc].op = "call"
         \/ Text[pc].op = "jr" \/ Text[pc].op = "access"
  BY UserAt DEF PrepareCall, PreparePlain, PrepareReturn, PreparePlainReturn,
     PrepareExit, Load, Call, Return, Access
<1>2. Pending' = Pending
  BY PrepareCallStep, PreparePlainStep, PrepareReturnStep, PreparePlainReturnStep,
     PrepareExitStep, LoadStep, CallStep, ReturnStep, AccessStep
<1>3. Running' /\ pc' \in Code
  <2>1. outcome' = outcome
    BY DEF PrepareCall, PreparePlain, PrepareReturn, PreparePlainReturn, PrepareExit,
       Load, Call, Return, Access, monitorVars
  <2> QED  BY <1>1, <2>1 DEF Running, IInv, ControlInImage
<1>4. CASE ~Return
  <2>1. ~Is(pc, "jr")
    BY <1>4, UserAt DEF PrepareCall, PreparePlain, PrepareReturn,
       PreparePlainReturn, PrepareExit, Load, Call, Access
  <2>2. ~Checked("jr")'
    <3>1. CASE PrepareCall \/ PreparePlain \/ PrepareReturn \/ PreparePlainReturn
               \/ PrepareExit
      BY <3>1 DEF PrepareCall, PreparePlain, PrepareReturn, PreparePlainReturn,
         PrepareExit, Reach, Checked, Is
    <3>2. CASE Load
      <4>1. Is(pc, "load") /\ pc' = pc + 2
        BY <3>2 DEF Load, At
      <4>2. Announced(pc', Text[pc].params - 1, Text[pc])
        BY <4>1, LoadFacts
      <4> QED  BY <4>2 DEF Announced, Checked, Is
    <3>3. CASE Call
      <4>1. Is(pc, "call") /\ pc' = Text[pc].dest
        BY <3>3 DEF Call, At
      <4> QED  BY <4>1, CallFacts DEF Checked, Is
    <3>4. CASE Access
      <4>1. Is(pc, "access") /\ pc' = pc + 4
        BY <3>4, AccessFacts DEF Access, At
      <4> QED  BY <4>1, AccessFacts DEF Checked, Is, IsBody
    <3> QED  BY <1>4, <3>1, <3>2, <3>3, <3>4
  <2>3. Granted = {} /\ Granted' = {}
    BY <2>1, <2>2 DEF Granted, Checked
  <2> QED  BY <1>1, <1>2, <1>3, <2>3, WorkStep
<1>5. CASE Return
  <2>1. Is(pc, "jr") /\ pc' = ra
    BY <1>5 DEF Return, At
  <2>2. Is(pc', "body")
    BY <1>1, <2>1, JrFacts DEF IInv, FrameInv, Checked, ReturnPoint
  <2>3. Granted' = {}
    BY <2>2 DEF Granted, Checked, Is
  <2>4. CASE Text[pc].checked
    <3>1. Granted = {ra}
      BY <1>1, <2>1, <2>4 DEF Granted, Checked
    <3> QED
      BY <1>1, <1>2, <1>3, <2>1, <2>3, <3>1 DEF Policy!Next, Policy!Take
  <2>5. CASE ~Text[pc].checked
    <3>1. Granted = {}
      BY <2>5 DEF Granted, Checked
    <3> QED  BY <1>1, <1>2, <1>3, <2>3, <3>1, WorkStep
  <2> QED  BY <2>4, <2>5
<1> QED  BY <1>4, <1>5

\* The handler makes the policy's steps Record, Grant and Halt.
LEMMA HandlerRefines ==
    ASSUME Intended, IInv, IInv', synchronous_exception_handler
    PROVE  Policy!Next
<1>1. mode = "M" /\ UNCHANGED <<mcause, a7, saved, work, strayed>>
  BY HandlerCases
<1>2. Running /\ mepc = pc /\ pc \in Code
  BY <1>1, HandlerEntry
<1>3. Granted = {}
  <2>1. ~Is(pc, "jr")
    BY <1>1, HandlerEntry DEF Is
  <2> QED  BY <2>1 DEF Granted, Checked
<1>4. CASE mcause # 8 /\ esr_handler_other /\ UNCHANGED skewed
  <2>1. Is(pc, "access") /\ (pc + 4) % WordMod = pc + 4 /\ Pending' = Pending
    BY <1>1, <1>4, HandlerEntry, OtherStep
  <2>2. pc' = pc + 4 /\ Running'
    BY <1>2, <1>4, <2>1 DEF esr_handler_other, TrapReturn, Running
  <2>3. Is(pc', "body") /\ pc' \in Code
    BY <2>1, <2>2, AccessFacts DEF IsBody, Is
  <2>4. Granted' = {}
    BY <2>3 DEF Granted, Checked, Is
  <2> QED  BY <1>2, <1>3, <2>1, <2>2, <2>3, <2>4, WorkStep
<1>5. CASE /\ code_termination("exit") /\ UNCHANGED <<shadow_stack, skewed>>
           /\ skewed => Is(pc, "exit")
  BY <1>1, <1>2, <1>3, <1>5, ExitStep, HaltStep
<1>6. CASE /\ Is(pc, "jump_check")
           /\ \E a6 \in a6Left : /\ esr_jump(a6, mepc)
                                 /\ skewed' = (skewed \/ Skews(a6))
  <2>1. \/ ~Running' /\ Pending' = Pending
        \/ /\ Running' /\ Len(Pending) < MAX_SIZE
           /\ \E a \in ReturnSites : Pending' = Append(Pending, a)
           /\ pc' \in Code /\ ~Checked("jr")'
    BY <1>1, <1>6, JumpStep
  <2>2. CASE ~Running' /\ Pending' = Pending
    BY <1>2, <1>3, <2>2, HaltStep
  <2>3. CASE /\ Running' /\ Len(Pending) < MAX_SIZE
             /\ \E a \in ReturnSites : Pending' = Append(Pending, a)
             /\ pc' \in Code /\ ~Checked("jr")'
    <3>1. Granted' = {}
      BY <2>3 DEF Granted
    <3> QED
      BY <1>2, <1>3, <2>3, <3>1 DEF Policy!Next, Policy!Record, Policy!Running
  <2> QED  BY <2>1, <2>2, <2>3
<1>7. CASE Is(pc, "ret_check") /\ esr_return(a7) /\ UNCHANGED skewed
  <2>1. /\ Pending # << >> /\ Pending' = Front(Pending)
        /\ Running' => ra' = Last(Pending) /\ Checked("jr")' /\ pc' \in Code
    BY <1>1, <1>7, RetCheckStep
  <2>2. CASE ~Running'
    BY <1>2, <1>3, <2>1, <2>2, HaltStep
  <2>3. CASE Running'
    <3>1. Granted' = {Last(Pending)}
      BY <2>1, <2>3 DEF Granted
    <3> QED
      BY <1>2, <1>3, <2>1, <2>3, <3>1 DEF Policy!Next, Policy!Grant, Policy!Running,
         Policy!Front, Policy!Last, Front, Last
  <2> QED  BY <2>2, <2>3
<1> QED  BY <1>4, <1>5, <1>6, <1>7, HandlerCases

\* Nothing else is visible to the policy.
LEMMA OthersStutter ==
    ASSUME Ecall \/ Fault \/ StrayWrite \/ terminate_execution \/ UNCHANGED vars
    PROVE  UNCHANGED Policy!policyVars
<1>1. UNCHANGED <<pc, ra, shadow_stack, outcome, skewed>>
  BY DEF Ecall, Fault, Trap, StrayWrite, terminate_execution, vars, userVars,
     monitorVars, trapVars, history
<1>2. ~skewed \/ UNCHANGED saved
  BY DEF Ecall, Fault, Trap, StrayWrite, terminate_execution, vars, userVars
<1>3. UNCHANGED Pending
  BY <1>1, <1>2 DEF Pending, Owed, Shadow, Checked
<1> QED
  BY <1>1, <1>3 DEF Policy!policyVars, Granted, Running, Checked

\* The monitor implements the policy: whatever user code does to its frames, or
\* whatever it leaves in a6, a checked return only goes to the return address of
\* the newest checked call that has not returned, and it goes there at once.
THEOREM ImplementsPolicy ==
    ASSUME Intended
    PROVE  Spec => PolicySpec
<1>1. Init => Policy!Init
  <2> SUFFICES ASSUME Init PROVE Policy!Init
    OBVIOUS
  <2>1. Pending = << >> /\ Running /\ pc = EntryPoint
    BY EmptyStackType DEF Init, Pending, Shadow, Running
  <2>2. Granted = {}
    BY <2>1, TextAssumption DEF Granted, Checked, ImageAssumption, Is
  <2> QED  BY <2>1, <2>2 DEF Policy!Init
<1>2. IInv /\ IInv' /\ [Next]_vars => [Policy!Next]_(Policy!policyVars)
  <2> SUFFICES ASSUME IInv, IInv', [Next]_vars
               PROVE  Policy!Next \/ UNCHANGED Policy!policyVars
    OBVIOUS
  <2> QED
    BY UserRefines, HandlerRefines, OthersStutter DEF Next, Program
<1> QED
  BY <1>1, <1>2, Inductive, PTL DEF Spec, PolicySpec, Policy!Spec
=============================================================================
