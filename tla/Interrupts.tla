------------------------------- MODULE Interrupts -------------------------------
(***************************************************************************)
(* The CPU of src/gb/cpu.c as cpu_mcycle drives it, M cycle by M cycle:    *)
(* executing, calling an interrupt, halted.  The instructions that touch   *)
(* this machinery (EI, DI, RETI, HALT, the 0xCB prefix, STOP, an unknown   *)
(* op-code) have actions of their own; any other is OTHER, a number of     *)
(* cycles each of which may store to IF or IE.  The program is arbitrary:  *)
(* a fetch may return any kind.  Between M cycles the timer and the PPU    *)
(* request interrupts.                                                     *)
(*                                                                         *)
(* Of the PC, only its distance from the instruction in IR is kept, which  *)
(* is what an interrupt call and HALT depend on.                           *)
(***************************************************************************)
EXTENDS Integers

CONSTANTS
  Bits,        \* the bits of IF and IE that are told apart
  Hardware,    \* those that the timer and the PPU request
  MAX_CYCLES   \* M cycles of the longest instruction, 6 in the code

IRQS == 0 .. 4      \* the bits get_if looks at

ASSUME BitsAssumption == Bits \subseteq 0 .. 7 /\ Hardware \subseteq Bits \cap IRQS
ASSUME CyclesAssumption == MAX_CYCLES \in Nat \ {0}

VARIABLES
  state, cycle,     \* cpu.state and cpu.cycle
  ime, ei_pend,
  ir,               \* the kind of the instruction in cpu.ir
  ahead,            \* cpu.pc, less the address of the instruction in ir
  irf, ie,          \* MEM_IF and MEM_IE
  vec,              \* the interrupt whose handler cpu.pc names, or -1
  failed,           \* fail() has ended the program
  masked,           \* history: since the last call or DI there was no EI or RETI
  last,             \* history: the last instruction, if it was EI or ended an EI
  tick              \* changes with each M cycle, so that a program that repeats
                    \* one instruction does not look like one that stands still

cpuVars == <<state, cycle, ime, ei_pend, ir, ahead, irf, ie, vec, failed, masked, last>>
vars == <<cpuVars, tick>>
imeVars == <<ime, ei_pend, masked>>

Kinds  == {"OTHER", "EI", "DI", "HALT", "RETI", "CB", "STOP", "UNKNOWN"}
ELSEWHERE == 2      \* the PC is not near the instruction in ir

TypeOK ==
  /\ state \in {"DONE", "EXECUTING", "INTERRUPTING", "HALTED"}
  /\ cycle \in 0 .. MAX_CYCLES + 4
  /\ state \in {"DONE", "HALTED"} <=> cycle = 0
  /\ ime \in BOOLEAN /\ ei_pend \in BOOLEAN
  /\ ir \in Kinds
  /\ ahead \in {-1, 0, 1, ELSEWHERE}
  /\ irf \subseteq Bits /\ ie \subseteq Bits
  /\ vec \in {-1} \cup IRQS
  /\ failed \in BOOLEAN
  /\ masked \in {"no", "yes", "leftover"}
  /\ last \in {"EI", "EI HALT", "other"}
  /\ tick \in BOOLEAN

\* init_gameboy: IF is 0xE1, IE is 0, and a NOP is in ir.
Init ==
  /\ state = "DONE" /\ cycle = 0
  /\ ime = FALSE /\ ei_pend = FALSE
  /\ ir = "OTHER" /\ ahead = 1
  /\ irf = {0, 5, 6, 7} \cap Bits /\ ie = {}
  /\ vec = -1 /\ failed = FALSE
  /\ masked = "no" /\ last = "other" /\ tick = FALSE

interrupts_pending == irf \cap ie # {}

\* get_if: the lowest bit, or none.  It does not look at IE.
\* Mutant: the highest bit.
GetIfHighest(f) == {i \in f \cap IRQS : \A j \in f \cap IRQS : j <= i}
get_if(f) == {i \in f \cap IRQS : \A j \in f \cap IRQS : i <= j}

\* A store of the CPU: to IF, to IE, or to some other place.
Store ==
  \/ UNCHANGED <<irf, ie>>
  \/ irf' \in SUBSET Bits /\ UNCHANGED ie
  \/ ie' \in SUBSET Bits /\ UNCHANGED irf

-----------------------------------------------------------------------------
(* The timer and the PPU.                                                  *)

Request(i) ==
  /\ ~failed /\ i \notin irf
  /\ irf' = irf \cup {i}
  /\ UNCHANGED <<state, cycle, ime, ei_pend, ir, ahead, ie, vec, failed, masked, last,
                 tick>>

McycleStarts == ~failed /\ tick' = ~tick

-----------------------------------------------------------------------------
(* call_interrupt.                                                         *)

\* Mutant: an EI that has not taken effect holds the call back.
CallsUnlessPending == state = "DONE" /\ ime /\ ~ei_pend /\ interrupts_pending
CallsNow == state = "DONE" /\ ime /\ interrupts_pending

Calling(n) ==
  /\ McycleStarts
  /\ state = "INTERRUPTING" \/ CallsNow
  /\ cycle = n

CallGoesOn ==
  /\ state' = "INTERRUPTING" /\ cycle' = cycle + 1
  /\ UNCHANGED <<imeVars, ir, failed, last>>

CallBegin ==
  /\ Calling(0)
  /\ ahead' = IF ahead = ELSEWHERE THEN ELSEWHERE ELSE ahead - 1     \* pc--
  /\ CallGoesOn
  /\ UNCHANGED <<irf, ie, vec>>

CallSp ==
  /\ Calling(1)
  /\ CallGoesOn
  /\ UNCHANGED <<ahead, irf, ie, vec>>

\* SP may be anywhere, and the push then stores to IF or IE.
CallPushHigh ==
  /\ Calling(2)
  /\ Store
  /\ CallGoesOn
  /\ UNCHANGED <<ahead, vec>>

CallPushLow ==
  /\ Calling(3)
  /\ Store
  /\ vec' \in get_if(irf')
  /\ CallGoesOn
  /\ UNCHANGED ahead

CallEnd ==
  /\ Calling(4)
  /\ \E i \in get_if(irf) : irf' = irf \ {i}
  /\ ime' = FALSE
  /\ ir' \in Kinds /\ ahead' = 1
  /\ state' = "DONE" /\ cycle' = 0 /\ vec' = -1
  /\ masked' = IF ei_pend THEN "leftover" ELSE "yes"
  /\ UNCHANGED <<ei_pend, ie, failed, last>>

\* get_if finds no request, because only bits above the fourth are pending,
\* or the push has overwritten IF.
CallFails ==
  /\ \/ Calling(3) /\ Store /\ get_if(irf') = {}
     \/ Calling(4) /\ UNCHANGED <<irf, ie>> /\ get_if(irf) = {}
  /\ failed' = TRUE
  /\ UNCHANGED <<state, cycle, imeVars, ir, ahead, vec, last>>

Call == \/ CallBegin \/ CallSp \/ CallPushHigh \/ CallPushLow \/ CallEnd
        \/ CallFails

-----------------------------------------------------------------------------
(* One cycle of an instruction.                                            *)

Executes(op) ==
  /\ McycleStarts /\ ir = op
  /\ state = "EXECUTING" \/ (state = "DONE" /\ ~CallsNow)

GoOn == state' = "EXECUTING" /\ cycle' = cycle + 1

Done(l) == state' = "DONE" /\ cycle' = 0 /\ last' = l

FetchIr == ir' \in Kinds /\ ahead' = 1

\* After a cycle of any instruction but EI, an EI takes effect.
EnableIme ==
  /\ ime' = (ime \/ ei_pend)
  /\ ei_pend' = FALSE
  /\ UNCHANGED masked

Other ==
  /\ Executes("OTHER")
  /\ Store
  /\ EnableIme
  /\ \/ /\ cycle + 1 < MAX_CYCLES
        /\ GoOn
        /\ UNCHANGED <<ir, ahead, last>>
     \/ Done("other") /\ FetchIr
  /\ UNCHANGED <<vec, failed>>

\* exec_cb_bank_switch: instr is NULL after it, so that an EI does not take
\* effect yet.
Prefix ==
  /\ Executes("CB")
  /\ ir' = "OTHER" /\ ahead' = 1
  /\ GoOn
  /\ UNCHANGED <<imeVars, irf, ie, vec, failed, last>>

\* Mutants: a second EI counts as the instruction after the first; DI leaves
\* the EI before it pending.
EiAtOnce == ime' = (ime \/ ei_pend) /\ ei_pend' = TRUE
DiKeepsPending == UNCHANGED ei_pend
EiEffect == UNCHANGED ime /\ ei_pend' = TRUE
DiPending == ei_pend' = FALSE

Ei ==
  /\ Executes("EI")
  /\ EiEffect
  /\ masked' = "no"
  /\ Done(IF ime THEN "other" ELSE "EI")
  /\ FetchIr
  /\ UNCHANGED <<irf, ie, vec, failed>>

Di ==
  /\ Executes("DI")
  /\ ime' = FALSE /\ DiPending
  /\ masked' = "yes"
  /\ Done("other")
  /\ FetchIr
  /\ UNCHANGED <<irf, ie, vec, failed>>

RetiPop ==
  /\ Executes("RETI") /\ cycle < 2
  /\ EnableIme
  /\ GoOn
  /\ UNCHANGED <<ir, ahead, irf, ie, vec, failed, last>>

RetiJump ==
  /\ Executes("RETI") /\ cycle = 2
  /\ ime' = TRUE /\ ei_pend' = FALSE
  /\ masked' = "no"
  /\ ahead' = ELSEWHERE
  /\ GoOn
  /\ UNCHANGED <<ir, irf, ie, vec, failed, last>>

RetiFetch ==
  /\ Executes("RETI") /\ cycle > 2
  /\ EnableIme
  /\ Done("other")
  /\ FetchIr
  /\ UNCHANGED <<irf, ie, vec, failed>>

\* Mutant: the cycles of HALT are counted on while it sleeps.
HaltCycleKept == cycle + 1
HaltCycle == 0

\* exec_halt fetches without incrementing the PC.  With an interrupt pending
\* the CPU does not halt, and the instruction in ir will be read again.
Halt ==
  /\ Executes("HALT")
  /\ ir' \in Kinds /\ ahead' = 0
  /\ EnableIme
  /\ state' = IF interrupts_pending THEN "DONE" ELSE "HALTED"
  /\ cycle' = HaltCycle
  /\ last' = IF ei_pend THEN "EI HALT" ELSE "other"
  /\ UNCHANGED <<irf, ie, vec, failed>>

\* exec_unknown loads the PC, not IR, so that the same op-code is next.
Unknown ==
  /\ Executes("UNKNOWN")
  /\ ahead' = ELSEWHERE
  /\ EnableIme
  /\ Done("other")
  /\ UNCHANGED <<ir, irf, ie, vec, failed>>

Stop ==
  /\ Executes("STOP")
  /\ failed' = TRUE
  /\ UNCHANGED <<state, cycle, imeVars, ir, ahead, irf, ie, vec, last>>

Execute == \/ Other \/ Prefix \/ Ei \/ Di \/ RetiPop \/ RetiJump \/ RetiFetch
           \/ Halt \/ Unknown \/ Stop

-----------------------------------------------------------------------------
(* A halted CPU.                                                           *)

Wakes == interrupts_pending

\* Mutant: the NOP forgets to fetch past the instruction after HALT.
NopFetchAgain == ir' \in Kinds /\ ahead' = 0
NopFetch == FetchIr

\* It executes a NOP, which fetches the instruction after HALT once more.
Wake ==
  /\ McycleStarts /\ state = "HALTED"
  /\ Wakes
  /\ EnableIme
  /\ Done("other")
  /\ NopFetch
  /\ UNCHANGED <<irf, ie, vec, failed>>

Sleep ==
  /\ McycleStarts /\ state = "HALTED" /\ ~Wakes
  /\ UNCHANGED cpuVars

-----------------------------------------------------------------------------

Exited == failed /\ UNCHANGED vars

cpu_mcycle == Call \/ Execute \/ Wake \/ Sleep

Next == (\E i \in Hardware : Request(i)) \/ cpu_mcycle \/ Exited

Spec == Init /\ [][Next]_vars

\* The emulator keeps running M cycles; requests need never come.
FairSpec == Spec /\ WF_vars(cpu_mcycle)

-----------------------------------------------------------------------------
(* Properties.                                                             *)

\* After DI, and in a handler, interrupts stay off until the program executes
\* EI or RETI, unless an EI was still pending when the call began
\* (cpu.c:383-384, 423-426, 1653-1654).
MaskedUntilEnabled == masked = "yes" => ~ime

\* No interrupt is called between an EI that turns interrupts on and the end
\* of the instruction after it, a prefixed or a second EI included
\* (cpu.c:421-426).
EiDelayed == state = "INTERRUPTING" => last # "EI"

\* "The current instruction about to execute is the one we want to return
\* to" (cpu.c:366): the address that a call pushes is that of the
\* instruction in IR, also when HALT has stopped the PC.  Only after EI and
\* HALT with a request pending is it the address of HALT.  An unknown op-code
\* has moved the PC away.
ReturnAddress ==
  state = "INTERRUPTING" =>
    ahead = 0 \/ (ahead = -1 /\ last = "EI HALT") \/ ir = "UNKNOWN"

\* A call acknowledges exactly one request: that of the handler it goes to, or
\* a more urgent one that has come since the handler was chosen, one cycle
\* before (cpu.c:380, 383).
AckedRequest ==
  [][state = "INTERRUPTING" /\ state' = "DONE"
       => \E i \in IRQS : i <= vec /\ irf \ irf' = {i}]_vars

\* A halted CPU wakes up when an enabled interrupt is requested, with IME off
\* too, and whether the request comes before, with or after HALT.  The most urgent
\* interrupt, enabled and requested with IME on, is called before long, whatever
\* the program executes: EI over and over, prefixes, an op-code that is unknown;
\* or the program turns it off (cpu.c:397-408, 429-431).
RequestServed ==
  /\ state = "HALTED" /\ interrupts_pending ~> state # "HALTED" \/ failed
  /\ ime /\ 0 \in irf \cap ie ~>
       (state = "INTERRUPTING" /\ vec = 0) \/ 0 \notin irf \cap ie \/ ~ime \/ failed

\* "interrupt not called" with IE off (cpu_test.c:5622-5633): when a call
\* begins, the interrupt it will go to is one that IE enables.
OnlyEnabled ==
  [][state = "DONE" /\ state' = "INTERRUPTING" => get_if(irf) \subseteq ie]_vars
=============================================================================
