---------------------------- MODULE InterruptsProofs ----------------------------
(***************************************************************************)
(* Proofs about Interrupts, for any bits of IF and IE, any hardware that   *)
(* requests them, and instructions of any length.                          *)
(***************************************************************************)
EXTENDS Interrupts, TLAPS

\* Interrupts stay off in a handler and after DI because no EI is pending
\* either.
MaskInv == masked = "yes" => ~ime /\ ~ei_pend

\* A call begins with IME on, and an EI that has not taken effect is followed
\* by an instruction that is still executing.
DelayInv ==
  /\ last = "EI" => ~ime \/ state = "EXECUTING"
  /\ state = "INTERRUPTING" => ime

\* Instructions and calls begin with cycle 0, and a call has cycles to 4.
CycleInv ==
  /\ state = "DONE" => cycle = 0
  /\ state = "INTERRUPTING" => cycle \in {1, 2, 3, 4}

\* Where the PC is when an instruction has ended and a call may begin.  HALT
\* leaves it on the instruction in IR, and can do so with IME on only if the
\* EI before it turned IME on: else the request that keeps the CPU from
\* halting would have been called before HALT.
PcInv ==
  /\ state = "EXECUTING" => ir \in {"OTHER", "RETI"}
  /\ state = "DONE" =>
       \/ ahead = 1
       \/ ahead = 0 /\ (~ime \/ last = "EI HALT")
       \/ ir = "UNKNOWN"
  /\ ReturnAddress

\* The handler that a call goes to is that of a request, and the request
\* stays until the last cycle of the call.
VecInv == state = "INTERRUPTING" /\ cycle = 4 => vec \in irf \cap IRQS

-----------------------------------------------------------------------------
(* Every step keeps each of them.                                          *)

\* EI, RETI and the end of a call set the history variable; nothing else
\* turns interrupts on while no EI is pending.
LEMMA MaskStep ==
  ASSUME MaskInv, [Next]_vars
  PROVE  MaskInv'
<1> USE DEF MaskInv
<1>1. CASE Call
  BY <1>1 DEF Call, CallBegin, CallSp, CallPushHigh, CallPushLow, CallEnd,
       CallFails, CallGoesOn, imeVars
<1>2. CASE Ei \/ Di \/ RetiJump
  BY <1>2 DEF Ei, Di, RetiJump, DiPending
<1>3. CASE Other \/ RetiPop \/ RetiFetch \/ Halt \/ Unknown \/ Wake
  BY <1>3 DEF Other, RetiPop, RetiFetch, Halt, Unknown, Wake, EnableIme
<1>4. CASE UNCHANGED imeVars
  BY <1>4 DEF imeVars
<1> QED BY <1>1, <1>2, <1>3, <1>4 DEF Next, Request, cpu_mcycle, Execute,
      Prefix, Stop, Sleep, Exited, vars, cpuVars, imeVars

\* IME is turned on by a cycle of another instruction than EI, and when that
\* instruction ends it is the last one.
LEMMA DelayStep ==
  ASSUME DelayInv, [Next]_vars
  PROVE  DelayInv'
<1> USE DEF DelayInv
<1>1. CASE CallBegin \/ CallSp \/ CallPushHigh \/ CallPushLow
  BY <1>1 DEF CallBegin, CallSp, CallPushHigh, CallPushLow, CallGoesOn,
       Calling, CallsNow, imeVars
<1>2. CASE CallEnd \/ CallFails
  BY <1>2 DEF CallEnd, CallFails, imeVars
<1>3. CASE Ei
  BY <1>3 DEF Ei, EiEffect, Done
<1>4. CASE Di \/ RetiFetch \/ Unknown \/ Wake
  BY <1>4 DEF Di, RetiFetch, Unknown, Wake, Done
<1>5. CASE Other \/ Prefix \/ RetiPop \/ RetiJump
  BY <1>5 DEF Other, Prefix, RetiPop, RetiJump, Done, GoOn
<1>6. CASE Halt
  BY <1>6 DEF Halt
<1>7. CASE UNCHANGED <<state, ime, last>>
  BY <1>7
<1> QED BY <1>1, <1>2, <1>3, <1>4, <1>5, <1>6, <1>7 DEF Next, Request,
      cpu_mcycle, Call, Execute, Stop, Sleep, Exited, vars, cpuVars, imeVars

\* call_interrupt is in the middle of a call, or begins one.
LEMMA CallStates ==
  ASSUME NEW n, Calling(n)
  PROVE  state = "INTERRUPTING" \/ (state = "DONE" /\ ime)
BY DEF Calling, CallsNow

\* cpu_mcycle counts the cycles of a call and clears the count at its end.
LEMMA CycleStep ==
  ASSUME CycleInv, [Next]_vars
  PROVE  CycleInv'
<1> USE DEF CycleInv
<1>1. ASSUME NEW n \in {0, 1, 2, 3}, Calling(n), CallGoesOn
      PROVE  CycleInv'
  <2>1. cycle = n /\ state' = "INTERRUPTING" /\ cycle' = cycle + 1
    BY <1>1 DEF Calling, CallGoesOn
  <2> QED BY <2>1
<1>2. CASE CallBegin \/ CallSp \/ CallPushHigh \/ CallPushLow
  BY <1>1, <1>2 DEF CallBegin, CallSp, CallPushHigh, CallPushLow
<1>3. CASE Execute
  <2>1. state' \notin {"DONE", "INTERRUPTING"} \/ (state' = "DONE" /\ cycle' = 0)
          \/ UNCHANGED <<state, cycle>>
    BY <1>3 DEF Execute, Other, Prefix, Ei, Di, RetiPop, RetiJump, RetiFetch,
         Halt, HaltCycle, Unknown, Stop, Done, GoOn
  <2> QED BY <2>1
<1>4. CASE CallEnd \/ Wake
  BY <1>4 DEF CallEnd, Wake, Done
<1>5. CASE UNCHANGED <<state, cycle>>
  BY <1>5
<1> QED BY <1>2, <1>3, <1>4, <1>5 DEF Next, Request, cpu_mcycle, Call,
      CallFails, Sleep, Exited, vars, cpuVars

\* A call begins with cycle 0.
LEMMA CallBegins ==
  ASSUME CycleInv, CallBegin
  PROVE  state = "DONE" /\ ime
<1>1. cycle = 0
  BY DEF CallBegin, Calling
<1>2. state # "INTERRUPTING"
  BY <1>1 DEF CycleInv
<1> QED BY <1>2, CallStates DEF CallBegin

\* The later steps of a call find it begun.
LEMMA CallContinues ==
  ASSUME CycleInv, CallSp \/ CallPushHigh \/ CallPushLow \/ CallFails
  PROVE  state = "INTERRUPTING"
<1>1. cycle # 0
  BY DEF CallSp, CallPushHigh, CallPushLow, CallFails, Calling
<1>2. state # "DONE"
  BY <1>1 DEF CycleInv
<1> QED BY <1>2, CallStates DEF CallSp, CallPushHigh, CallPushLow, CallFails

\* PC - 1, for the two places where it may be.
LEMMA PcBack ==
  ASSUME CallBegin
  PROVE  (ahead = 1 => ahead' = 0) /\ (ahead = 0 => ahead' = -1)
BY DEF CallBegin, ELSEWHERE

\* Only HALT, RETI and an unknown op-code leave the PC elsewhere than after
\* the instruction in IR, and RETI fetches before it ends.
LEMMA PcStep ==
  ASSUME PcInv, CycleInv, [Next]_vars
  PROVE  PcInv'
<1> USE DEF PcInv, ReturnAddress
<1>1. CASE CallBegin
  <2>1. ahead = 1 \/ (ahead = 0 /\ last = "EI HALT") \/ ir = "UNKNOWN"
    BY <1>1, CallBegins
  <2>2. state' = "INTERRUPTING" /\ UNCHANGED <<ir, last>>
    BY <1>1 DEF CallBegin, CallGoesOn
  <2> QED BY <1>1, <2>1, <2>2, PcBack
<1>2. CASE CallSp \/ CallPushHigh \/ CallPushLow
  BY <1>2, CallContinues DEF CallSp, CallPushHigh, CallPushLow, CallGoesOn
<1>3. CASE CallEnd
  BY <1>3 DEF CallEnd
<1>4. CASE Other
  <2>1. CASE Done("other") /\ FetchIr
    BY <2>1 DEF Done, FetchIr
  <2>2. CASE GoOn /\ UNCHANGED <<ir, ahead, last>>
    BY <1>4, <2>2 DEF Other, Executes, GoOn
  <2> QED BY <1>4, <2>1, <2>2 DEF Other
<1>5. CASE Prefix \/ RetiPop \/ RetiJump
  BY <1>5 DEF Prefix, RetiPop, RetiJump, GoOn, Executes
<1>6. CASE Ei \/ Di \/ RetiFetch \/ Wake
  BY <1>6 DEF Ei, Di, RetiFetch, Wake, Done, FetchIr, NopFetch
<1>7. CASE Unknown
  BY <1>7 DEF Unknown, Executes, Done
<1>8. CASE Halt
  <2>1. state = "DONE" /\ ~(ime /\ interrupts_pending)
    BY <1>8 DEF Halt, Executes, CallsNow
  <2>2. interrupts_pending => ~ime' \/ last' = "EI HALT"
    BY <1>8, <2>1 DEF Halt, EnableIme
  <2>3. state' \in {"DONE", "HALTED"} /\ (state' = "DONE" => interrupts_pending)
    BY <1>8 DEF Halt
  <2>4. ahead' = 0
    BY <1>8 DEF Halt
  <2> QED BY <2>2, <2>3, <2>4
<1>9. CASE UNCHANGED <<state, ime, ir, ahead, last>>
  BY <1>9
<1> QED BY <1>1, <1>2, <1>3, <1>4, <1>5, <1>6, <1>7, <1>8, <1>9 DEF Next,
      Request, cpu_mcycle, Call, CallFails, Execute, Stop, Sleep, Exited, vars,
      cpuVars, imeVars

\* Between the choice of the handler and the end of the call nothing but a
\* request changes IF.
LEMMA VecStep ==
  ASSUME VecInv, [Next]_vars
  PROVE  VecInv'
<1> USE DEF VecInv
<1>1. CASE CallBegin \/ CallSp \/ CallPushHigh
  <2>1. cycle' # 4
    BY <1>1 DEF CallBegin, CallSp, CallPushHigh, CallGoesOn, Calling
  <2> QED BY <2>1
<1>2. CASE CallPushLow
  BY <1>2 DEF CallPushLow, get_if
<1>3. CASE CallFails
  <2>1. CASE Calling(3)
    BY <1>3, <2>1 DEF CallFails, Calling
  <2>2. CASE UNCHANGED <<irf, ie>>
    BY <1>3, <2>2 DEF CallFails
  <2> QED BY <1>3, <2>1, <2>2 DEF CallFails
<1>4. ASSUME NEW i \in Hardware, Request(i) PROVE VecInv'
  BY <1>4 DEF Request
<1>5. CASE state' # "INTERRUPTING"
  BY <1>5
<1>6. CASE UNCHANGED <<state, cycle, vec, irf>>
  BY <1>6
<1>7. CASE Execute
  <2>1. state' # "INTERRUPTING" \/ UNCHANGED <<state, cycle, vec, irf>>
    BY <1>7 DEF Execute, Other, Prefix, Ei, Di, RetiPop, RetiJump, RetiFetch,
         Halt, Unknown, Stop, Done, GoOn
  <2> QED BY <2>1, <1>5, <1>6
<1> QED BY <1>1, <1>2, <1>3, <1>4, <1>5, <1>6, <1>7 DEF Next, cpu_mcycle, Call,
      CallEnd, Wake, Done, Sleep, Exited, vars, cpuVars

\* How cpu_mcycle moves from one state to the next and counts: a call and an
\* instruction go on from the cycle they are in, and end with cycle 0.
CountInv ==
  /\ cycle \in 0 .. MAX_CYCLES + 4
  /\ state \in {"DONE", "EXECUTING", "INTERRUPTING", "HALTED"}
  /\ state \in {"DONE", "HALTED"} <=> cycle = 0

LEMMA CountStep ==
  ASSUME CountInv, CycleInv, PcInv, [Next]_vars
  PROVE  CountInv'
<1> USE CyclesAssumption DEF CountInv
<1>1. ASSUME NEW n \in {0, 1, 2, 3}, Calling(n), CallGoesOn
      PROVE  CountInv'
  <2>1. cycle = n /\ state' = "INTERRUPTING" /\ cycle' = cycle + 1
    BY <1>1 DEF Calling, CallGoesOn
  <2> QED BY <2>1
<1>2. CASE CallBegin \/ CallSp \/ CallPushHigh \/ CallPushLow
  BY <1>1, <1>2 DEF CallBegin, CallSp, CallPushHigh, CallPushLow
<1>3. ASSUME GoOn, cycle + 1 <= MAX_CYCLES + 4
      PROVE  CountInv'
  <2>1. state' = "EXECUTING" /\ cycle' = cycle + 1
    BY <1>3 DEF GoOn
  <2> QED BY <1>3, <2>1
<1>4. ASSUME state' \in {"DONE", "HALTED"}, cycle' = 0
      PROVE  CountInv'
  BY <1>4
<1>5. CASE Other
  <2>1. (GoOn /\ cycle + 1 < MAX_CYCLES) \/ Done("other")
    BY <1>5 DEF Other
  <2>2. CASE GoOn /\ cycle + 1 < MAX_CYCLES
    BY <1>3, <2>2
  <2> QED BY <1>4, <2>1, <2>2 DEF Done
<1>6. CASE Prefix
  <2>1. state = "DONE"
    BY <1>6 DEF Prefix, Executes, PcInv
  <2>2. cycle = 0
    BY <2>1 DEF CycleInv
  <2> QED BY <1>3, <1>6, <2>2 DEF Prefix
<1>7. CASE RetiPop \/ RetiJump
  <2>1. cycle <= 2 /\ GoOn
    BY <1>7 DEF RetiPop, RetiJump
  <2> QED BY <1>3, <2>1
<1>8. CASE Ei \/ Di \/ RetiFetch \/ Halt \/ Unknown \/ CallEnd \/ Wake
  <2>1. state' \in {"DONE", "HALTED"} /\ cycle' = 0
    BY <1>8 DEF Ei, Di, RetiFetch, Halt, HaltCycle, Unknown, CallEnd, Wake, Done
  <2> QED BY <1>4, <2>1
<1>9. CASE UNCHANGED <<state, cycle>>
  BY <1>9
<1> QED BY <1>2, <1>5, <1>6, <1>7, <1>8, <1>9 DEF Next, Request, cpu_mcycle,
      Call, CallFails, Execute, Stop, Sleep, Exited, vars, cpuVars

\* The other variables, which no step relates to each other.
FieldsOK ==
  /\ ime \in BOOLEAN /\ ei_pend \in BOOLEAN
  /\ ir \in Kinds
  /\ ahead \in {-1, 0, 1, ELSEWHERE}
  /\ irf \subseteq Bits /\ ie \subseteq Bits
  /\ vec \in {-1} \cup IRQS
  /\ failed \in BOOLEAN
  /\ masked \in {"no", "yes", "leftover"}
  /\ last \in {"EI", "EI HALT", "other"}
  /\ tick \in BOOLEAN

\* The push of a call may store the PC to IF or IE, as an instruction may.
LEMMA StoredBits ==
  ASSUME irf \subseteq Bits, ie \subseteq Bits, Store
  PROVE  irf' \subseteq Bits /\ ie' \subseteq Bits
BY DEF Store

\* Only a call takes the PC back before the instruction in IR, and it fetches
\* before it ends, so that it is never taken back twice.
BackInv == ahead = -1 => state = "INTERRUPTING"

LEMMA BackStep ==
  ASSUME BackInv, CycleInv, [Next]_vars
  PROVE  BackInv'
<1> USE DEF BackInv
<1>1. CASE CallBegin \/ CallSp \/ CallPushHigh \/ CallPushLow
  BY <1>1 DEF CallBegin, CallSp, CallPushHigh, CallPushLow, CallGoesOn
<1>2. CASE Other \/ RetiPop
  BY <1>2 DEF Other, RetiPop, Executes, FetchIr
<1>3. ahead' = -1 => \/ UNCHANGED <<state, ahead>>
                   \/ /\ ~CallEnd /\ ~Wake /\ ~Prefix /\ ~Ei /\ ~Di
                      /\ ~RetiJump /\ ~RetiFetch /\ ~Halt /\ ~Unknown
  BY DEF CallEnd, Wake, NopFetch, FetchIr, Prefix, Ei, Di, RetiJump, RetiFetch,
     Halt, Unknown, ELSEWHERE
<1>4. CASE UNCHANGED <<state, ahead>>
  BY <1>4
<1> QED BY <1>1, <1>2, <1>3, <1>4 DEF Next, Request, cpu_mcycle, Call,
      CallFails, Execute, Stop, Sleep, Exited, vars, cpuVars

LEMMA FieldsStep ==
  ASSUME FieldsOK, BackInv, CycleInv, [Next]_vars
  PROVE  FieldsOK'
<1> USE DEF FieldsOK
<1>1. CASE CallBegin
  <2>1. ahead # -1
    BY <1>1, CallBegins DEF BackInv
  <2>2. ahead' \in {-1, 0, 1, ELSEWHERE}
    <3>1. ahead \in {0, 1, ELSEWHERE}
      BY <2>1
    <3>2. ahead' = IF ahead = ELSEWHERE THEN ELSEWHERE ELSE ahead - 1
      BY <1>1 DEF CallBegin
    <3> HIDE DEF FieldsOK
    <3> QED BY <3>1, <3>2 DEF ELSEWHERE
  <2> QED BY <1>1, <2>2 DEF CallBegin, CallGoesOn, Calling, McycleStarts, imeVars
<1>2. CASE CallSp
  BY <1>2 DEF CallSp, CallGoesOn, Calling, McycleStarts, imeVars
<1>3. CASE CallPushHigh
  BY <1>3, StoredBits DEF CallPushHigh, CallGoesOn, Calling, McycleStarts, imeVars
<1>4. CASE CallPushLow
  BY <1>4, StoredBits DEF CallPushLow, get_if, CallGoesOn, Calling, McycleStarts,
     imeVars
<1>5. CASE CallEnd
  BY <1>5 DEF CallEnd, Calling, McycleStarts
<1>6. CASE CallFails
  <2>1. irf' \subseteq Bits /\ ie' \subseteq Bits
    BY <1>6, StoredBits DEF CallFails
  <2> QED BY <1>6, <2>1 DEF CallFails, Calling, McycleStarts, imeVars
<1>7. CASE Other
  BY <1>7, StoredBits DEF Other, Executes, McycleStarts, EnableIme, Done, FetchIr
<1>8. CASE Prefix \/ RetiPop \/ RetiJump \/ RetiFetch
  BY <1>8 DEF Prefix, RetiPop, RetiJump, RetiFetch, Executes, McycleStarts,
     EnableIme, Done, FetchIr, imeVars, Kinds
<1>9. CASE Ei \/ Di
  BY <1>9 DEF Ei, Di, EiEffect, DiPending, Executes, McycleStarts, Done, FetchIr
<1>10. CASE Halt \/ Unknown \/ Stop
  BY <1>10 DEF Halt, Unknown, Stop, Executes, McycleStarts, EnableIme, Done, imeVars
<1>11. CASE Wake \/ Sleep
  BY <1>11 DEF Wake, Sleep, McycleStarts, EnableIme, Done, NopFetch, FetchIr, cpuVars
<1>12. ASSUME NEW i \in Hardware, Request(i) PROVE FieldsOK'
  BY <1>12, BitsAssumption DEF Request
<1>13. CASE UNCHANGED vars
  BY <1>13 DEF vars, cpuVars
<1> QED BY <1>1, <1>2, <1>3, <1>4, <1>5, <1>6, <1>7, <1>8, <1>9, <1>10, <1>11,
      <1>12, <1>13 DEF Next, cpu_mcycle, Call, Execute, Exited

-----------------------------------------------------------------------------

\* Every variable stays in its range: in particular a call and an instruction
\* count their cycles, and between them the count is 0, which is what
\* cpu_mcycle and exec_instr choose the next cycle by (cpu.c:360-408).
THEOREM TypeCorrect == Spec => []TypeOK
<1>1. Init => FieldsOK
  BY DEF Init, FieldsOK, Kinds
<1>2. Init => CountInv
  BY CyclesAssumption DEF Init, CountInv
<1>3. Init => PcInv /\ CycleInv /\ BackInv
  BY DEF Init, PcInv, CycleInv, BackInv, ReturnAddress
<1>4. CountInv /\ FieldsOK => TypeOK
  BY DEF CountInv, FieldsOK, TypeOK
<1> QED BY <1>1, <1>2, <1>3, <1>4, CountStep, BackStep, FieldsStep, PcStep, CycleStep, PTL DEF Spec

\* In a handler, and after DI, interrupts stay off until EI or RETI, but for
\* an EI that was pending when the handler was called (cpu.c:383-384, 423-426).
THEOREM HandlerMasked == Spec => []MaskedUntilEnabled
<1>1. Init => MaskInv
  BY DEF Init, MaskInv
<1>2. MaskInv => MaskedUntilEnabled
  BY DEF MaskInv, MaskedUntilEnabled
<1> QED BY <1>1, <1>2, MaskStep, PTL DEF Spec

\* No interrupt is called before the instruction after EI has ended
\* (cpu.c:421-426).
THEOREM EiTakesEffectLater == Spec => []EiDelayed
<1>1. Init => DelayInv
  BY DEF Init, DelayInv
<1>2. DelayInv => EiDelayed
  BY DEF DelayInv, EiDelayed
<1> QED BY <1>1, <1>2, DelayStep, PTL DEF Spec

\* A call pushes the address of the instruction in IR, with the two
\* exceptions that ReturnAddress names (cpu.c:366-369).
THEOREM CallReturns == Spec => []ReturnAddress
<1>1. Init => PcInv /\ CycleInv
  BY DEF Init, PcInv, CycleInv, ReturnAddress
<1>2. PcInv => ReturnAddress
  BY DEF PcInv
<1> QED BY <1>1, <1>2, PcStep, CycleStep, PTL DEF Spec

\* A call acknowledges one request, the one it serves or a more urgent one
\* (cpu.c:380, 383).
THEOREM CallAcknowledges == Spec => AckedRequest
<1> DEFINE Acked == state = "INTERRUPTING" /\ state' = "DONE"
                      => \E i \in IRQS : i <= vec /\ irf \ irf' = {i}
<1>1. Init => VecInv
  BY DEF Init, VecInv
<1>2. VecInv /\ [Next]_vars => [Acked]_vars
  <2> SUFFICES ASSUME VecInv, Next, state = "INTERRUPTING", state' = "DONE"
               PROVE  \E i \in IRQS : i <= vec /\ irf \ irf' = {i}
    OBVIOUS
  <2>1. CallEnd
    BY DEF Next, Request, cpu_mcycle, Call, CallBegin, CallSp, CallPushHigh,
         CallPushLow, CallFails, CallGoesOn, Execute, Other, Prefix, Ei, Di,
         RetiPop, RetiJump, RetiFetch, Halt, Unknown, Stop, Executes, Wake,
         Sleep, Exited, vars, cpuVars
  <2>2. vec \in irf \cap IRQS
    BY <2>1 DEF CallEnd, Calling, VecInv
  <2>3. PICK i \in get_if(irf) : irf' = irf \ {i}
    BY <2>1 DEF CallEnd
  <2>4. i \in irf \cap IRQS /\ i <= vec
    BY <2>2, <2>3 DEF get_if
  <2> QED BY <2>3, <2>4
<1> HIDE DEF Acked
<1>3. Spec => [][Acked]_vars
  BY <1>1, <1>2, VecStep, PTL DEF Spec
<1> QED BY <1>3 DEF AckedRequest, Acked
=============================================================================
