---------------------------- MODULE DebuggerProofs ----------------------------
(***************************************************************************)
(* Proofs about Debugger, for any program, breakpoints and buttons.        *)
(***************************************************************************)
EXTENDS Debugger, TLAPS

\* The mutex is the emulation's from the instruction to check_button_count, and
\* the event thread's while it handles an event.
LockInv ==
  /\ mtx = "emu" <=> emu = "count"
  /\ mtx = "event" <=> ev # "wait"

\* A pressed button waits for the count, which PressCounts starts.
KeyInv == PressesEnd /\ (ev = "pressed" => keys # {})

\* Nobody but a command, which is read while go is false, lets the emulation go on
\* after it was told to stop.
StopInv ==
  /\ stop => ~go
  /\ ~stop => late = 0
  /\ emu \in {"instr", "line"} => late = 0
  /\ late <= 1

\* What is left of a step, and at which place one of it was made but not counted.
StepInv ==
  /\ emu = "line" => ran = 0
  /\ cmd.op = "one" => /\ ~go /\ emu # "line" /\ cmd.n = 1
                       /\ ran = IF emu = "instr" THEN 0 ELSE 1
  /\ cmd.op = "step" /\ cmd.n > 0 =>
       /\ cmd.n < RanMax /\ ran <= cmd.n
       /\ emu = "instr" => ran < cmd.n
       /\ go => /\ step > 0
                /\ ran + step <= IF emu \in {"count", "done", "checks"}
                                 THEN cmd.n + 1 ELSE cmd.n

\* The breakpoints that are asked for are set, until one before another is removed.
AskedInv == ~moved => asked \subseteq Set

\* The emulation goes on only from an instruction that hit nothing; what it looks
\* at is what the user asked for.
Missed ==
  /\ ~trap
  /\ at \in asked => moved
  /\ cmd.op = "next" => sp # cmd.n

HitInv ==
  /\ cmd.op = "next" /\ go => next_sp = cmd.n
  /\ emu = "test" /\ go => Missed
  /\ emu = "instr" /\ ran > 0 => Missed

-----------------------------------------------------------------------------
(* The breakpoints.                                                        *)

Octet == {x \in Nat : x < 256}

LEMMA BytesOf ==
  ASSUME NEW x \in Word
  PROVE  /\ Byte(x, 0) \in Octet /\ Byte(x, 1) \in Octet
         /\ Byte(x, 0) + 256 * Byte(x, 1) = x
BY DEF Byte, Word, Octet

LEMMA WordOf ==
  ASSUME NEW x \in Octet, NEW y \in Octet
  PROVE  0 \in Word /\ x + 256 * y \in Word
BY DEF Word, Octet

\* Whatever memmove mixes, each int is made of two bytes of addresses.
LEMMA MemmoveType ==
  ASSUME nbreaks \in 0 .. MAX_BREAKS, breaks \in [Slots -> Word],
         NEW i \in 0 .. nbreaks - 1
  PROVE  memmove(i) \in [Slots -> Word]
<1>1. ASSUME NEW j \in Slots, j < nbreaks - 1
      PROVE  Moved(i, j, 0) \in Octet /\ Moved(i, j, 1) \in Octet
  <2>1. j + 1 \in Slots
    BY <1>1, TimeAssumption DEF Slots
  <2>2. breaks[j] \in Word /\ breaks[j + 1] \in Word
    BY <2>1
  <2> QED BY <2>2, BytesOf DEF Moved
<1>2. ASSUME NEW j \in Slots
      PROVE  (IF j < nbreaks - 1 THEN Moved(i, j, 0) + 256 * Moved(i, j, 1) ELSE 0)
               \in Word
  <2>1. 0 \in Octet
    BY DEF Octet
  <2> QED BY <1>1, <2>1, WordOf
<1> QED BY <1>2 DEF memmove

\* The last breakpoint is removed without harm to the others.
LEMMA LastRemoved ==
  ASSUME nbreaks \in 0 .. MAX_BREAKS, breaks \in [Slots -> Word],
         NEW i \in 0 .. nbreaks - 1, i = nbreaks - 1,
         NEW j \in 0 .. i - 1
  PROVE  memmove(i)[j] = breaks[j]
<1>1. j \in Slots /\ j < nbreaks - 1 /\ breaks[j] \in Word
  BY TimeAssumption DEF Slots
<1>2. Moved(i, j, 0) = Byte(breaks[j], 0) /\ Moved(i, j, 1) = Byte(breaks[j], 1)
  BY <1>1 DEF Moved
<1>3. memmove(i)[j] = Moved(i, j, 0) + 256 * Moved(i, j, 1)
  BY <1>1 DEF memmove
<1> QED BY <1>1, <1>2, <1>3, BytesOf

-----------------------------------------------------------------------------
(* Every step keeps each of them.                                          *)

\* The parts of TypeOK.
FlagTypes ==
  /\ mtx \in {"none", "emu", "event"} /\ go \in BOOLEAN /\ trap \in BOOLEAN
  /\ exited \in BOOLEAN /\ stop \in BOOLEAN
  /\ emu \in {"test", "line", "instr", "count", "done", "checks"}
  /\ ev \in {"wait", "handle", "pressed"}

ValueTypes ==
  /\ next_sp \in Sps \cup {-1} /\ at \in Addrs /\ sp \in Sps
  /\ keys \subseteq Keys /\ event \in Keys \cup {NoEvent, "Break", "Del", "write"}
  /\ cmd \in [op : {"none", "one", "step", "next", "go"}, n : Nat]

CountTypes ==
  /\ step \in Nat /\ button_count \in 0 .. BUTTON_TIME
  /\ ran \in 0 .. RanMax /\ late \in 0 .. 2

BreakTypes ==
  /\ nbreaks \in 0 .. MAX_BREAKS /\ breaks \in [Slots -> Word]
  /\ asked \subseteq Addrs /\ moved \in BOOLEAN

LEMMA Types ==
  ASSUME FlagTypes', ValueTypes', CountTypes', BreakTypes'
  PROVE  TypeOK'
BY DEF TypeOK, FlagTypes, ValueTypes, CountTypes, BreakTypes

LEMMA SetBreakTypes ==
  ASSUME TypeOK, NEW x \in Addrs, SetBreak(x)
  PROVE  BreakTypes'
<1>1. x \in Word /\ nbreaks < MAX_BREAKS /\ breaks \in [Slots -> Word]
  BY ValueAssumption DEF SetBreak, HasRoom, TypeOK
<1>2. breaks' \in [Slots -> Word]
  BY <1>1 DEF SetBreak
<1>3. nbreaks' \in 0 .. MAX_BREAKS
  BY <1>1, TimeAssumption DEF SetBreak, TypeOK
<1> QED BY <1>2, <1>3 DEF BreakTypes, SetBreak, TypeOK

LEMMA RemoveBreakTypes ==
  ASSUME TypeOK, NEW x \in Addrs, RemoveBreak(x)
  PROVE  BreakTypes'
<1>1. PICK i \in 0 .. nbreaks - 1 :
        breaks' = memmove(i) /\ moved' = (moved \/ i < nbreaks - 1)
  BY DEF RemoveBreak
<1>2. nbreaks \in 0 .. MAX_BREAKS /\ breaks \in [Slots -> Word]
  BY DEF TypeOK
<1>3. breaks' \in [Slots -> Word]
  BY <1>1, <1>2, MemmoveType
<1>4. nbreaks' \in 0 .. MAX_BREAKS
  BY <1>1, <1>2, TimeAssumption DEF RemoveBreak
<1>5. moved' \in BOOLEAN
  BY <1>1
<1>6. asked' \subseteq Addrs
  BY DEF RemoveBreak, TypeOK
<1> QED BY <1>3, <1>4, <1>5, <1>6 DEF BreakTypes

LEMMA ExitTypes ==
  ASSUME TypeOK, Exits
  PROVE  TypeOK'
<1> USE DEF Exits
<1>1. FlagTypes'
  BY DEF FlagTypes, TypeOK
<1>2. ValueTypes'
  BY DEF ValueTypes, TypeOK, NoCmd
<1>3. CountTypes'
  BY ArgAssumption, TimeAssumption DEF CountTypes, TypeOK
<1>4. BreakTypes'
  <2>1. breaks' \in [Slots -> Word]
    BY DEF Word
  <2>2. nbreaks' \in 0 .. MAX_BREAKS
    BY TimeAssumption
  <2> QED BY <2>1, <2>2 DEF BreakTypes
<1> QED BY <1>1, <1>2, <1>3, <1>4, Types

LEMMA BreakCommandTypes ==
  ASSUME TypeOK, NEW x \in Addrs, SetBreak(x) \/ RemoveBreak(x)
  PROVE  TypeOK'
<1> USE DEF SetBreak, RemoveBreak, UnchangedButBreaks, keyVars, gbVars, cmdVars
<1>1. FlagTypes'
  BY DEF FlagTypes, TypeOK
<1>2. ValueTypes'
  BY DEF ValueTypes, TypeOK
<1>3. CountTypes'
  BY DEF CountTypes, TypeOK
<1> QED BY <1>1, <1>2, <1>3, SetBreakTypes, RemoveBreakTypes, Types

\* A command leaves its SP or count.
LEMMA CommandTypes ==
  ASSUME TypeOK, Stepped \/ do_next \/ Go \/ \E x \in StepArgs : do_step(x)
  PROVE  TypeOK'
<1>1. sp \in Nat
  BY ValueAssumption DEF TypeOK, Word
<1>2. PICK op \in {"one", "step", "next", "go"}, n \in Nat : Commanded(op, n)
  BY <1>1, ArgAssumption DEF Stepped, do_step, do_next, Go
<1>3. go' \in BOOLEAN /\ emu' \in {"line", "instr"}
  BY DEF Stepped, do_step, do_next, Go, TypeOK, ReadsLine
<1>4. step' \in Nat /\ next_sp' \in Sps \cup {-1}
  BY ArgAssumption DEF Stepped, do_step, do_next, Go, TypeOK
<1> USE <1>2 DEF Commanded, keyVars, gbVars, breakVars
<1>5. FlagTypes'
  BY <1>3 DEF FlagTypes, TypeOK
<1>6. ValueTypes'
  BY <1>4 DEF ValueTypes, TypeOK
<1>7. CountTypes'
  BY <1>4, ArgAssumption DEF CountTypes, TypeOK
<1>8. BreakTypes'
  BY DEF BreakTypes, TypeOK
<1> QED BY <1>5, <1>6, <1>7, <1>8, Types

\* The actions that only go to another place of the emulation.
LEMMA PlaceTypes ==
  ASSUME TypeOK, TestGoes \/ Prompts \/ LeavesPrompt \/ Done \/ UNCHANGED vars
  PROVE  TypeOK'
<1> USE DEF TestGoes, Prompts, LeavesPrompt, Done, EmuGoes, vars, debugVars, keyVars,
            gbVars, cmdVars, breakVars, NoCmd
<1>1. FlagTypes'
  BY DEF FlagTypes, TypeOK
<1>2. ValueTypes'
  BY DEF ValueTypes, TypeOK
<1>3. CountTypes'
  BY ArgAssumption DEF CountTypes, TypeOK
<1>4. BreakTypes'
  BY DEF BreakTypes, TypeOK
<1> QED BY <1>1, <1>2, <1>3, <1>4, Types

LEMMA InstructionTypes ==
  ASSUME TypeOK, Instruction \/ check_button_count \/ Checks
  PROVE  TypeOK'
<1> USE DEF Instruction, EmuLocks, Capped, check_button_count, Checks, check_step,
            debugVars, keyVars, gbVars, cmdVars, breakVars
<1>1. FlagTypes'
  BY DEF FlagTypes, TypeOK
<1>2. ValueTypes'
  BY DEF ValueTypes, TypeOK
<1>3. CountTypes'
  <2>1. CASE Instruction
    BY <2>1, ArgAssumption DEF CountTypes, TypeOK
  <2>2. CASE check_button_count
    BY <2>2, TimeAssumption DEF CountTypes, TypeOK
  <2>3. CASE Checks
    BY <2>3 DEF CountTypes, TypeOK
  <2> QED BY <2>1, <2>2, <2>3
<1>4. BreakTypes'
  BY DEF BreakTypes, TypeOK
<1> QED BY <1>1, <1>2, <1>3, <1>4, Types

LEMMA EventTypes ==
  ASSUME TypeOK,
         \/ Press \/ PressCounts \/ Break \/ WriteBack
         \/ \E e \in Keys \cup {"Break", "Del", "write"} : EventLocks(e)
         \/ sigint_handler /\ ~Exits
  PROVE  TypeOK'
<1> USE DEF Press, PressCounts, Break, WriteBack, EventLocks, sigint_handler,
            UnchangedButEvent, EventHandled, keyVars, gbVars, breakVars
<1>1. FlagTypes'
  BY DEF FlagTypes, TypeOK
<1>2. ValueTypes'
  BY DEF ValueTypes, TypeOK
<1>3. CountTypes'
  BY TimeAssumption DEF CountTypes, TypeOK
<1>4. BreakTypes'
  BY DEF BreakTypes, TypeOK
<1> QED BY <1>1, <1>2, <1>3, <1>4, Types

LEMMA TypeStep ==
  ASSUME TypeOK, [Next]_vars
  PROVE  TypeOK'
BY ExitTypes, BreakCommandTypes, CommandTypes, PlaceTypes, InstructionTypes, EventTypes
   DEF Next, Line, Emulate, Handle, Outside, Quit, Delete, EventError

\* A process that is gone keeps everything.
LEMMA ExitStep ==
  ASSUME TypeOK, Exits
  PROVE  LockInv' /\ KeyInv' /\ StopInv' /\ StepInv' /\ AskedInv' /\ HitInv'
<1>1. LockInv' /\ KeyInv' /\ StopInv'
  BY DEF Exits, LockInv, KeyInv, PressesEnd, StopInv
<1>2. StepInv' /\ AskedInv' /\ HitInv'
  BY DEF Exits, StepInv, AskedInv, HitInv, Missed, NoCmd
<1> QED BY <1>1, <1>2

\* Only the thread that holds the mutex is between locking and unlocking it.
LEMMA LockStep ==
  ASSUME LockInv, [Next]_vars, ~Exits
  PROVE  LockInv'
<1> USE DEF LockInv
<1>1. CASE Line
  BY <1>1 DEF Line, Quit, Stepped, do_step, do_next, Go, Commanded, SetBreak, RemoveBreak,
       UnchangedButBreaks, ReadsLine
<1>2. CASE Emulate
  BY <1>2 DEF Emulate, TestGoes, Prompts, LeavesPrompt, Instruction, EmuLocks,
       check_button_count, Done, Checks, EmuGoes
<1>3. CASE Handle \/ Outside
  BY <1>3 DEF Handle, Outside, Press, PressCounts, Break, WriteBack, Delete, EventLocks,
       EventError, sigint_handler, EventHandled, UnchangedButEvent
<1> QED BY <1>1, <1>2, <1>3 DEF Next, vars

\* The count and the buttons are changed under the mutex.
LEMMA KeyStep ==
  ASSUME TypeOK, LockInv, KeyInv, [Next]_vars, ~Exits
  PROVE  KeyInv'
<1> USE DEF KeyInv, PressesEnd
<1>1. CASE check_button_count
  <2>1. ev = "wait" /\ ev' = "wait"
    BY <1>1 DEF check_button_count, LockInv
  <2>2. button_count \in Nat
    BY DEF TypeOK
  <2> QED BY <1>1, <2>1, <2>2 DEF check_button_count
<1>2. CASE PressCounts
  BY <1>2, TimeAssumption DEF PressCounts, EventHandled
<1>3. CASE Press
  BY <1>3 DEF Press
<1>4. CASE Break \/ WriteBack \/ \E e \in Keys \cup {"Break", "Del", "write"} : EventLocks(e)
  BY <1>4 DEF Break, WriteBack, EventLocks, EventHandled, keyVars
<1>5. CASE UNCHANGED <<keyVars, ev>>
  BY <1>5 DEF keyVars
<1>6. CASE Line \/ TestGoes \/ Prompts \/ LeavesPrompt \/ Instruction \/ Done \/ Checks
  BY <1>5, <1>6 DEF Line, Quit, Stepped, do_step, do_next, Go, Commanded, SetBreak, RemoveBreak,
       UnchangedButBreaks, TestGoes, Prompts, LeavesPrompt, Instruction, Done, Checks, EmuGoes
<1>7. CASE sigint_handler \/ Delete \/ EventError \/ UNCHANGED vars
  BY <1>5, <1>7 DEF sigint_handler, Delete, EventError, vars
<1> QED BY <1>1, <1>2, <1>3, <1>4, <1>6, <1>7 DEF Next, Emulate, Handle, Outside

LEMMA StopStep ==
  ASSUME TypeOK, StopInv, [Next]_vars, ~Exits
  PROVE  StopInv'
<1> USE DEF StopInv
<1>1. CASE Stepped \/ do_next \/ Go \/ \E x \in StepArgs : do_step(x)
  BY <1>1 DEF Stepped, do_step, do_next, Go, Commanded
<1>2. CASE Instruction
  BY <1>2 DEF Instruction, Capped, debugVars
<1>3. CASE Prompts
  BY <1>3 DEF Prompts
<1>4. CASE TestGoes \/ LeavesPrompt \/ Done \/ check_button_count
  BY <1>4 DEF TestGoes, LeavesPrompt, Done, check_button_count, EmuGoes, debugVars, cmdVars
<1>5. CASE Checks
  BY <1>5 DEF Checks, check_step, cmdVars
<1>6. CASE Break \/ sigint_handler
  BY <1>6 DEF Break, sigint_handler, UnchangedButEvent, TypeOK
<1>7. CASE UNCHANGED <<go, stop, late, emu>>
  BY <1>7
<1>8. CASE \/ \E x \in Addrs : SetBreak(x) \/ RemoveBreak(x)
           \/ \E e \in Keys \cup {"Break", "Del", "write"} : EventLocks(e)
           \/ Press \/ PressCounts \/ WriteBack \/ UNCHANGED vars
  BY <1>7, <1>8 DEF SetBreak, RemoveBreak, UnchangedButBreaks, cmdVars, EventLocks, Press,
       PressCounts, WriteBack, UnchangedButEvent, vars, debugVars
<1> QED BY <1>1, <1>2, <1>3, <1>4, <1>5, <1>6, <1>8 DEF Next, Line, Quit, Emulate, Handle,
      Outside, Delete, EventError

\* Instruction counts one more, Checks one less to make.
LEMMA StepStep ==
  ASSUME TypeOK, StepInv, [Next]_vars, ~Exits
  PROVE  StepInv'
<1> USE DEF StepInv
<1>1. CASE Stepped \/ do_next \/ Go \/ \E x \in StepArgs : do_step(x)
  BY <1>1, ArgAssumption DEF Stepped, do_step, do_next, Go, Commanded, ReadsLine
<1>2. CASE Instruction
  <2>1. ran \in Nat /\ ran <= RanMax /\ cmd.n \in Nat /\ step \in Nat
    BY DEF TypeOK
  <2>2. emu = "instr" /\ emu' = "count" /\ UNCHANGED <<cmd, go, step>>
    BY <1>2 DEF Instruction, debugVars
  <2>3. ran < RanMax => ran' = ran + 1
    BY <1>2, <2>1, ArgAssumption DEF Instruction, Capped
  <2>4. cmd.op = "one" => ran' = 1
    BY <2>2, <2>3, ArgAssumption
  <2> QED BY <2>1, <2>2, <2>3, <2>4, ArgAssumption
<1>3. CASE Prompts
  BY <1>3 DEF Prompts, NoCmd
<1>4. CASE TestGoes \/ LeavesPrompt \/ Done \/ check_button_count
  <2>1. UNCHANGED <<cmd, ran, go, step>>
    BY <1>4 DEF TestGoes, LeavesPrompt, Done, check_button_count, EmuGoes, debugVars, cmdVars
  <2>2. ran \in Nat /\ cmd.n \in Nat /\ step \in Nat
    BY DEF TypeOK
  <2>3. CASE (TestGoes \/ LeavesPrompt) /\ go /\ emu' = "instr" /\ emu \in {"test", "line"}
    BY <2>1, <2>2, <2>3
  <2>4. CASE emu' \in {"done", "checks", "test"} /\ emu \in {"count", "done"} /\ (emu' = "test" => ~go)
    BY <2>1, <2>2, <2>4
  <2> QED BY <1>4, <2>3, <2>4 DEF TestGoes, LeavesPrompt, Done, check_button_count, EmuGoes
<1>5. CASE Checks
  <2>1. ran \in Nat /\ cmd.n \in Nat /\ step \in Nat /\ go \in BOOLEAN
    BY DEF TypeOK
  <2>2. emu = "checks" /\ emu' = "test" /\ UNCHANGED <<cmd, ran>>
    BY <1>5 DEF Checks, cmdVars
  <2>3. step > 0 => step' = step - 1
    BY <1>5, <2>1 DEF Checks
  <2>4. go' => go /\ step # 1
    BY <1>5, <2>1 DEF Checks, check_step
  <2> QED BY <2>1, <2>2, <2>3, <2>4
<1>6. CASE Break \/ sigint_handler
  BY <1>6 DEF Break, sigint_handler, UnchangedButEvent, TypeOK
<1>7. CASE UNCHANGED <<go, step, cmd, ran, emu>>
  BY <1>7
<1>8. CASE \/ \E x \in Addrs : SetBreak(x) \/ RemoveBreak(x)
           \/ \E e \in Keys \cup {"Break", "Del", "write"} : EventLocks(e)
           \/ Press \/ PressCounts \/ WriteBack \/ UNCHANGED vars
  BY <1>7, <1>8 DEF SetBreak, RemoveBreak, UnchangedButBreaks, cmdVars, EventLocks, Press,
       PressCounts, WriteBack, UnchangedButEvent, vars, debugVars
<1> QED BY <1>1, <1>2, <1>3, <1>4, <1>5, <1>6, <1>8 DEF Next, Line, Quit, Emulate, Handle,
      Outside, Delete, EventError

LEMMA AskedStep ==
  ASSUME TypeOK, AskedInv, [Next]_vars, ~Exits
  PROVE  AskedInv'
<1> USE DEF AskedInv
<1>1. ASSUME NEW x \in Addrs, SetBreak(x)
      PROVE  AskedInv'
  <2>1. nbreaks \in Nat /\ nbreaks < MAX_BREAKS /\ nbreaks' = nbreaks + 1
    BY <1>1 DEF SetBreak, HasRoom, TypeOK
  <2>2. \A i \in 0 .. nbreaks - 1 : i \in Slots /\ breaks'[i] = breaks[i]
    BY <1>1, <2>1, TimeAssumption DEF SetBreak, Slots
  <2>3. nbreaks \in Slots /\ breaks'[nbreaks] = x
    BY <1>1, <2>1, TimeAssumption DEF SetBreak, Slots
  <2>4. Set \cup {x} \subseteq Set'
    <3>1. \A i \in 0 .. nbreaks - 1 : breaks[i] \in Set'
      BY <2>1, <2>2 DEF Set
    <3>2. x \in Set'
      BY <2>1, <2>3 DEF Set
    <3> QED BY <3>1, <3>2 DEF Set
  <2> QED BY <1>1, <2>4 DEF SetBreak
<1>2. ASSUME NEW x \in Addrs, RemoveBreak(x)
      PROVE  AskedInv'
  <2>1. PICK i \in 0 .. nbreaks - 1 :
          breaks[i] = x /\ breaks' = memmove(i) /\ moved' = (moved \/ i < nbreaks - 1)
    BY <1>2 DEF RemoveBreak
  <2>2. nbreaks \in 0 .. MAX_BREAKS /\ nbreaks' = nbreaks - 1 /\ breaks \in [Slots -> Word]
    BY <1>2 DEF RemoveBreak, TypeOK
  <2>3. SUFFICES ASSUME ~moved'
                 PROVE  asked' \subseteq Set'
    OBVIOUS
  <2>4. i = nbreaks - 1
    <3>1. ~(i < nbreaks - 1)
      BY <2>1, <2>3
    <3>2. nbreaks \in Nat
      BY <2>2, TimeAssumption
    <3> QED BY <3>1, <3>2
  <2>5. \A j \in 0 .. i - 1 : breaks'[j] = breaks[j]
    BY <2>1, <2>2, <2>4, LastRemoved
  <2>6. Set \ {x} \subseteq Set'
    <3>1. ASSUME NEW j \in 0 .. nbreaks - 1, breaks[j] # x
          PROVE  breaks[j] \in Set'
      <4>1. j # i
        BY <2>1, <3>1
      <4>2. nbreaks \in Nat /\ nbreaks' = nbreaks - 1 /\ i = nbreaks - 1
        BY <2>2, <2>4, TimeAssumption
      <4>3. j \in 0 .. i - 1 /\ j \in 0 .. nbreaks' - 1
        BY <4>1, <4>2
      <4> QED BY <2>5, <4>3 DEF Set
    <3> QED BY <3>1 DEF Set
  <2>7. asked' = asked \ {x} /\ asked \subseteq Set
    BY <1>2, <2>1, <2>3 DEF RemoveBreak
  <2> QED BY <2>6, <2>7
<1>3. CASE UNCHANGED <<nbreaks, breaks, asked, moved>>
  BY <1>3 DEF Set
<1>4. CASE Stepped \/ do_next \/ Go \/ \E x \in StepArgs : do_step(x)
  BY <1>3, <1>4 DEF Stepped, do_next, Go, do_step, Commanded, breakVars
<1>5. CASE Emulate
  BY <1>3, <1>5 DEF Emulate, TestGoes, Prompts, LeavesPrompt, Instruction,
       check_button_count, Done, Checks, EmuGoes, debugVars, breakVars
<1>6. CASE Handle \/ Outside \/ UNCHANGED vars
  BY <1>3, <1>6 DEF Handle, Outside, Press, PressCounts, Break, WriteBack, Delete, EventLocks,
       EventError, sigint_handler, UnchangedButEvent, vars, debugVars, breakVars
<1> QED BY <1>1, <1>2, <1>4, <1>5, <1>6 DEF Next, Line, Quit

LEMMA HitStep ==
  ASSUME TypeOK, StepInv, AskedInv, HitInv, [Next]_vars, ~Exits
  PROVE  HitInv'
<1> USE DEF HitInv, Missed
<1>1. CASE Stepped \/ do_next \/ Go \/ \E x \in StepArgs : do_step(x)
  BY <1>1 DEF Stepped, do_step, do_next, Go, Commanded, ReadsLine
<1>2. CASE Instruction
  BY <1>2 DEF Instruction, debugVars
<1>3. CASE Prompts
  BY <1>3 DEF Prompts, NoCmd
<1>4. CASE LeavesPrompt
  BY <1>4 DEF LeavesPrompt, EmuGoes, debugVars, cmdVars, gbVars, breakVars, StepInv
<1>5. CASE TestGoes \/ Done \/ check_button_count
  BY <1>5 DEF TestGoes, Done, check_button_count, EmuGoes, debugVars, cmdVars, gbVars,
       breakVars
<1>6. CASE Checks
  <2>1. go' => go /\ ~Hit
    BY <1>6 DEF Checks, check_step, TypeOK
  <2>2. go' => /\ sp # next_sp /\ at \notin Set
               /\ next_sp' = next_sp
    BY <1>6, <2>1 DEF Checks, Hit
  <2>3. emu' = "test" /\ trap' = FALSE /\ UNCHANGED <<at, sp, cmd, asked, moved>>
    BY <1>6 DEF Checks, cmdVars, breakVars
  <2> QED BY <2>1, <2>2, <2>3 DEF AskedInv
<1>7. CASE \E x \in Addrs : SetBreak(x) \/ RemoveBreak(x)
  BY <1>7 DEF SetBreak, RemoveBreak, UnchangedButBreaks, ReadsLine, cmdVars, gbVars
<1>8. CASE Break \/ sigint_handler
  BY <1>8 DEF Break, sigint_handler, UnchangedButEvent, gbVars, breakVars
<1>9. CASE \/ \E e \in Keys \cup {"Break", "Del", "write"} : EventLocks(e)
           \/ Press \/ PressCounts \/ WriteBack \/ UNCHANGED vars
  <2>1. UNCHANGED <<go, next_sp, emu, cmd, ran, gbVars, breakVars>>
    BY <1>9 DEF EventLocks, Press, PressCounts, WriteBack, UnchangedButEvent, vars, debugVars,
         cmdVars
  <2> QED BY <2>1 DEF gbVars, breakVars
<1> QED BY <1>1, <1>2, <1>3, <1>4, <1>5, <1>6, <1>7, <1>8, <1>9 DEF Next, Line, Quit, Emulate,
      Handle, Outside, Delete, EventError

-----------------------------------------------------------------------------

Inv == TypeOK /\ LockInv /\ KeyInv /\ StopInv /\ StepInv /\ AskedInv /\ HitInv

LEMMA InitInv == Init => Inv
<1> SUFFICES ASSUME Init
             PROVE  Inv
  OBVIOUS
<1> USE DEF Init
<1>1. FlagTypes /\ ValueTypes
  BY DEF FlagTypes, ValueTypes, NoCmd
<1>2. CountTypes
  BY ArgAssumption, TimeAssumption DEF CountTypes
<1>3. breaks \in [Slots -> Word] /\ nbreaks \in 0 .. MAX_BREAKS
  BY TimeAssumption DEF Word
<1>4. BreakTypes
  BY <1>3 DEF BreakTypes
<1>5. TypeOK
  BY <1>1, <1>2, <1>4 DEF TypeOK, FlagTypes, ValueTypes, CountTypes, BreakTypes
<1>6. LockInv /\ KeyInv /\ StopInv
  BY DEF LockInv, KeyInv, PressesEnd, StopInv
<1>7. StepInv /\ AskedInv /\ HitInv
  BY DEF StepInv, AskedInv, HitInv, NoCmd
<1> HIDE DEF Init
<1> QED BY <1>5, <1>6, <1>7 DEF Inv

LEMMA StepKeepsInv == Inv /\ [Next]_vars => Inv'
<1> SUFFICES ASSUME Inv, [Next]_vars
             PROVE  Inv'
  OBVIOUS
<1>1. TypeOK /\ LockInv /\ KeyInv /\ StopInv /\ StepInv /\ AskedInv /\ HitInv
  BY DEF Inv
<1>2. TypeOK'
  BY <1>1, TypeStep
<1>3. CASE Exits
  BY <1>1, <1>2, <1>3, ExitStep DEF Inv
<1>4. CASE ~Exits
  BY <1>1, <1>2, <1>4, LockStep, KeyStep, StopStep, StepStep, AskedStep, HitStep DEF Inv
<1> QED BY <1>3, <1>4

LEMMA InvHolds == Spec => []Inv
BY InitInv, StepKeepsInv, PTL DEF Spec

\* TypeOK: of the debugger, whatever memmove leaves of the breakpoints.
THEOREM TypeCorrect == Spec => []TypeOK
<1>1. Inv => TypeOK
  BY DEF Inv
<1> QED BY <1>1, InvHolds, PTL

\* NeverRunsPast: the emulation never makes more than it was told to, after a Break
\* or SIGINT, for `step n` and an empty line, past a breakpoint that is set, the end of
\* a `next` or a trap.
THEOREM StopsInTime == Spec => []NeverRunsPast
<1>1. Inv => NeverRunsPast
  <2> SUFFICES ASSUME Inv
               PROVE  NeverRunsPast
    OBVIOUS
  <2>1. late <= 1
    BY DEF Inv, StopInv
  <2>2. cmd.op \in {"one", "step"} /\ cmd.n > 0 => ran <= cmd.n
    BY DEF Inv, StepInv
  <2>3. emu = "instr" /\ ran > 0 => Missed
    BY DEF Inv, HitInv
  <2> QED BY <2>1, <2>2, <2>3 DEF NeverRunsPast, Missed
<1> QED BY <1>1, InvHolds, PTL

\* PressesEnd: outside the event thread's critical section, some button is pressed
\* exactly when the count that releases it is running.
THEOREM PressEnds == Spec => []PressesEnd
<1>1. Inv => PressesEnd
  BY DEF Inv, KeyInv
<1> QED BY <1>1, InvHolds, PTL
===============================================================================
