------------------------------- MODULE Debugger -------------------------------
(***************************************************************************)
(* The debugger of src/debug.c with -acme: the thread that emulates and    *)
(* reads commands, the thread that handles events of the LCD's window, and *)
(* SIGINT.  They share `go` and, under mtx, the buttons of the Gameboy.    *)
(*                                                                         *)
(* An instruction, one call of mcycle, is a step that leaves any values of *)
(* what the debugger looks at: pc - 1, SP and trap.                        *)
(***************************************************************************)
EXTENDS Integers

CONSTANTS
  Addrs,             \* addresses of instructions and of breakpoints
  Sps,               \* values of SP
  Keys,              \* the buttons and directions of the window's tag
  BUTTON_TIME, MAX_BREAKS,
  StepArgs,          \* arguments of the step command
  RanMax             \* bound: instructions that are counted

Word == {x \in Nat : x < 256 * 256}

ASSUME ValueAssumption == Addrs \subseteq Word /\ Sps \subseteq Word
ASSUME ArgAssumption ==
  StepArgs \subseteq Nat /\ RanMax \in Nat \ {0, 1} /\ \A x \in StepArgs : x < RanMax
ASSUME TimeAssumption == BUTTON_TIME \in Nat \ {0} /\ MAX_BREAKS \in Nat

VARIABLES
  mtx,               \* "none", "emu" or "event"
  go, step, next_sp, nbreaks, breaks,
  keys, button_count,    \* g.buttons and g.dpad; instructions until they clear
  at, sp, trap,      \* of the Gameboy: pc - 1, SP, trap
  exited,
  emu, ev, event,    \* places of the two threads; the event that is handled
  \* history: the last command, with SP or the count it was given; instructions
  \* since then, and since a Break or SIGINT asked to stop; whether one did; the
  \* breakpoints that are set, and whether a later one was there when one was removed
  cmd, ran, late, stop, asked, moved

debugVars == <<go, step, next_sp, nbreaks, breaks>>
keyVars == <<keys, button_count>>
gbVars == <<at, sp, trap>>
cmdVars == <<cmd, ran, late, stop>>
breakVars == <<asked, moved>>
vars == <<mtx, debugVars, keyVars, gbVars, exited, emu, ev, event, cmdVars, breakVars>>

NoEvent == "none"
NoCmd == [op |-> "none", n |-> 0]
Slots == 0 .. MAX_BREAKS - 1
\* Of the four bytes of an int, those that an address has.
Byte(x, b) == IF b = 0 THEN x % 256 ELSE x \div 256
Capped(x, m) == IF x > m THEN m ELSE x

TypeOK ==
  /\ mtx \in {"none", "emu", "event"} /\ go \in BOOLEAN
  /\ step \in Nat /\ next_sp \in Sps \cup {-1}
  /\ nbreaks \in 0 .. MAX_BREAKS /\ breaks \in [Slots -> Word]
  /\ keys \subseteq Keys /\ button_count \in 0 .. BUTTON_TIME
  /\ at \in Addrs /\ sp \in Sps /\ trap \in BOOLEAN /\ exited \in BOOLEAN
  /\ emu \in {"test", "line", "instr", "count", "done", "checks"}
  /\ ev \in {"wait", "handle", "pressed"}
  /\ event \in Keys \cup {NoEvent, "Break", "Del", "write"}
  /\ cmd \in [op : {"none", "one", "step", "next", "go"}, n : Nat]
  /\ ran \in 0 .. RanMax /\ late \in 0 .. 2 /\ stop \in BOOLEAN
  /\ asked \subseteq Addrs /\ moved \in BOOLEAN

Init ==
  /\ mtx = "none" /\ go = FALSE /\ step = 0 /\ next_sp = -1
  /\ nbreaks = 0 /\ breaks = [i \in Slots |-> 0]
  /\ keys = {} /\ button_count = 0
  /\ at \in Addrs /\ sp \in Sps /\ trap = FALSE
  /\ exited = FALSE
  /\ emu = "test" /\ ev = "wait" /\ event = NoEvent
  /\ cmd = NoCmd /\ ran = 0 /\ late = 0 /\ stop = FALSE
  /\ asked = {} /\ moved = FALSE

-----------------------------------------------------------------------------
(* handle_input_line, one action for each command that changes anything.   *)

\* The loop of run_gameboy that reads lines while go is false.
ReadsLine == emu = "line" /\ ~go

Commanded(op, x) ==
  /\ cmd' = [op |-> op, n |-> x]
  /\ ran' = 0 /\ late' = 0 /\ stop' = FALSE
  /\ UNCHANGED <<mtx, nbreaks, breaks, keyVars, gbVars, exited, ev, event, breakVars>>

\* An empty line: one instruction, with go still false.
Stepped ==
  /\ ReadsLine
  /\ emu' = "instr"
  /\ Commanded("one", 1)
  /\ UNCHANGED <<go, step, next_sp>>

\* A negative argument changes nothing.
do_step(x) ==
  /\ ReadsLine
  /\ step' = x
  /\ go' = TRUE
  /\ Commanded("step", x)
  /\ UNCHANGED <<next_sp, emu>>

do_next ==
  /\ ReadsLine
  /\ next_sp' = sp
  /\ go' = TRUE
  /\ Commanded("next", sp)
  /\ UNCHANGED <<step, emu>>

Go ==
  /\ ReadsLine
  /\ go' = TRUE
  /\ Commanded("go", 0)
  /\ UNCHANGED <<step, next_sp, emu>>

UnchangedButBreaks == UNCHANGED <<mtx, go, step, next_sp, keyVars, gbVars, exited, emu,
                                  ev, event, cmdVars>>

Set == {breaks[i] : i \in 0 .. nbreaks - 1}

\* Mutant: one more than there is room for.
HasRoomAtMax == nbreaks <= MAX_BREAKS
HasRoom == nbreaks < MAX_BREAKS

SetBreak(x) ==
  /\ ReadsLine /\ x \notin Set /\ HasRoom
  /\ breaks' = [i \in Slots |-> IF i = nbreaks THEN x ELSE breaks[i]]
  /\ nbreaks' = nbreaks + 1
  /\ asked' = asked \cup {x}
  /\ UNCHANGED moved /\ UnchangedButBreaks

\* memmove of as many bytes as there are ints behind the one that is removed: byte b
\* of breaks[j] when the i-th is.  What is past the last breakpoint is never read: 0.
Moved(i, j, b) ==
  IF 4 * j + b \in 4 * i .. 4 * i + nbreaks - i - 2
  THEN Byte(breaks[j + 1], b)
  ELSE Byte(breaks[j], b)

memmove(i) ==
  [j \in Slots |-> IF j < nbreaks - 1 THEN Moved(i, j, 0) + 256 * Moved(i, j, 1) ELSE 0]

RemoveBreak(x) ==
  /\ ReadsLine /\ HasRoom
  /\ \E i \in 0 .. nbreaks - 1 :
       /\ breaks[i] = x /\ \A j \in 0 .. i - 1 : breaks[j] # x
       /\ breaks' = memmove(i)
       /\ moved' = (moved \/ i < nbreaks - 1)
  /\ nbreaks' = nbreaks - 1
  /\ asked' = asked \ {x}
  /\ UnchangedButBreaks

\* The process and its memory are gone.
Exits ==
  /\ exited' = TRUE
  /\ mtx' = "none" /\ go' = FALSE /\ step' = 0 /\ next_sp' = -1
  /\ nbreaks' = 0 /\ breaks' = [i \in Slots |-> 0]
  /\ keys' = {} /\ button_count' = 0 /\ trap' = FALSE
  /\ emu' = "test" /\ ev' = "wait" /\ event' = NoEvent
  /\ cmd' = NoCmd /\ ran' = 0 /\ late' = 0 /\ stop' = FALSE
  /\ asked' = {} /\ moved' = FALSE
  /\ UNCHANGED <<at, sp>>

\* quit, or the end of stdin.
Quit == ReadsLine /\ Exits

-----------------------------------------------------------------------------
(* run_gameboy.  mcycle returns with the CPU's state DONE or HALTED.       *)

EmuGoes(l) ==
  /\ emu' = l
  /\ UNCHANGED <<mtx, debugVars, keyVars, gbVars, exited, ev, event, cmdVars, breakVars>>

TestGoes == emu = "test" /\ go /\ EmuGoes("instr")

\* The history of the command ends at the prompt.
Prompts ==
  /\ emu = "test" /\ ~go
  /\ emu' = "line"
  /\ cmd' = NoCmd /\ ran' = 0 /\ late' = 0 /\ stop' = FALSE
  /\ UNCHANGED <<mtx, debugVars, keyVars, gbVars, exited, ev, event, breakVars>>

LeavesPrompt == emu = "line" /\ go /\ EmuGoes("instr")

\* Mutant: the emulation does not take the mutex.
EmuUnlocked == UNCHANGED mtx
EmuLocks == mtx = "none" /\ mtx' = "emu"

Instruction ==
  /\ emu = "instr" /\ EmuLocks
  /\ at' \in Addrs /\ sp' \in Sps /\ trap' \in {trap, TRUE}
  /\ ran' = Capped(ran + 1, RanMax)
  /\ late' = IF stop THEN Capped(late + 1, 2) ELSE late
  /\ emu' = "count"
  /\ UNCHANGED <<debugVars, keyVars, exited, ev, event, cmd, stop, breakVars>>

check_button_count ==
  /\ emu = "count"
  /\ button_count' = IF button_count = 0 THEN 0 ELSE button_count - 1
  /\ keys' = IF button_count = 1 THEN {} ELSE keys
  /\ mtx' = IF mtx = "emu" THEN "none" ELSE mtx
  /\ emu' = "done"
  /\ UNCHANGED <<debugVars, gbVars, exited, ev, event, cmdVars, breakVars>>

Done == emu = "done" /\ EmuGoes(IF go THEN "checks" ELSE "test")

\* Mutant: go is assigned whether the step is over or not.
check_step_assigns(g) == IF step = 0 THEN g ELSE step # 1
check_step(g) == IF step = 1 THEN FALSE ELSE g

Hit == sp = next_sp \/ at \in Set \/ trap

Checks ==
  /\ emu = "checks"
  /\ step' = IF step = 0 THEN 0 ELSE step - 1
  /\ next_sp' = IF sp = next_sp THEN -1 ELSE next_sp
  /\ trap' = FALSE
  /\ go' = (check_step(go) /\ ~Hit)
  /\ emu' = "test"
  /\ UNCHANGED <<mtx, nbreaks, breaks, keyVars, at, sp, exited, ev, event, cmdVars,
                 breakVars>>

-----------------------------------------------------------------------------
(* acme_event_thread and sigint_handler.                                   *)

UnchangedButEvent == UNCHANGED <<step, next_sp, nbreaks, breaks, gbVars, emu, cmd, ran,
                                 late, breakVars>>

\* win_wait_event, and mtx.  "write" is any other command of the tag, which
\* win_write_event sends back.
EventLocks(e) ==
  /\ ev = "wait" /\ mtx = "none"
  /\ mtx' = "event"
  /\ event' = e
  /\ ev' = "handle"
  /\ UNCHANGED <<go, keyVars, exited, stop>> /\ UnchangedButEvent

Press ==
  /\ ev = "handle" /\ event \in Keys
  /\ keys' = keys \cup {event}
  /\ ev' = "pressed"
  /\ UNCHANGED <<mtx, go, button_count, exited, stop, event>> /\ UnchangedButEvent

EventHandled == mtx' = "none" /\ ev' = "wait" /\ event' = NoEvent

PressCounts ==
  /\ ev = "pressed"
  /\ button_count' = BUTTON_TIME
  /\ EventHandled
  /\ UNCHANGED <<go, keys, exited, stop>> /\ UnchangedButEvent

Break ==
  /\ ev = "handle" /\ event = "Break"
  /\ go' = FALSE
  /\ stop' = (stop \/ go)
  /\ EventHandled
  /\ UNCHANGED <<keyVars, exited>> /\ UnchangedButEvent

\* win_write_event waits for the server with mtx held.
WriteBack ==
  /\ ev = "handle" /\ event = "write"
  /\ EventHandled
  /\ UNCHANGED <<go, keyVars, exited, stop>> /\ UnchangedButEvent

\* Del, or an error of the events.
Delete == ev = "handle" /\ event = "Del" /\ Exits
EventError == ev = "wait" /\ Exits

sigint_handler ==
  \/ /\ go
     /\ go' = FALSE /\ stop' = TRUE
     /\ UNCHANGED <<mtx, keyVars, exited, ev, event>> /\ UnchangedButEvent
  \/ ~go /\ Exits

-----------------------------------------------------------------------------

Line ==
  \/ Stepped \/ do_next \/ Go \/ Quit
  \/ \E x \in StepArgs : do_step(x)
  \/ \E x \in Addrs : SetBreak(x) \/ RemoveBreak(x)
Emulate == TestGoes \/ Prompts \/ LeavesPrompt \/ Instruction \/ check_button_count \/
           Done \/ Checks
Handle == Press \/ PressCounts \/ Break \/ WriteBack \/ Delete
Outside ==
  \/ \E e \in Keys \cup {"Break", "Del", "write"} : EventLocks(e)
  \/ EventError \/ sigint_handler

Next == ~exited /\ (Line \/ Emulate \/ Handle \/ Outside)

Spec == Init /\ [][Next]_vars

-----------------------------------------------------------------------------
(* Properties.                                                             *)

\* The emulation never runs past what it was told: after a Break or SIGINT at most
\* the instruction that was under way or next, for `step n` and an empty line at
\* most n and one, and no instruction after the first one while the last one hit a
\* breakpoint that is set, ended a `next` or trapped.  A breakpoint that is removed
\* before another one destroys it (debug.c:75-82, 476-477, 844-908, 957-1021).
NeverRunsPast ==
  /\ late <= 1
  /\ cmd.op \in {"one", "step"} /\ cmd.n > 0 => ran <= cmd.n
  /\ emu = "instr" /\ ran > 0 =>
       /\ ~trap
       /\ at \in asked => moved
       /\ cmd.op = "next" => sp # cmd.n

\* A press is never cut short nor left on: outside the event thread's critical
\* section some button is pressed exactly when the count is running
\* (debug.c:451-475, 498-507, 984-991).
PressesEnd == ev # "pressed" => (keys # {} <=> button_count > 0)
===============================================================================
