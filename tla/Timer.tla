-------------------------------- MODULE Timer --------------------------------
(***************************************************************************)
(* The counter of src/gb/gameboy.c with its DIV and TIMA registers, and    *)
(* the stores of the CPU that touch them (src/gb/cpu.c).                   *)
(*                                                                         *)
(* One M cycle of mcycle is five actions: the counter is incremented once, *)
(* the CPU runs, and the counter is incremented three times.  The program  *)
(* is arbitrary: in any M cycle it may store to a register of the timer.   *)
(***************************************************************************)
EXTENDS Integers

CONSTANTS
  COUNTER_SIZE,      \* 2^16
  DIV_UNIT,          \* 2^8: DIV is the upper byte of the counter
  TIMA_SIZE,         \* 2^8
  Freqs              \* 0 .. TAC_FREQ_MASK

ASSUME SizeAssumption ==
  /\ COUNTER_SIZE \in Nat \ {0} /\ DIV_UNIT \in Nat \ {0} /\ TIMA_SIZE \in Nat \ {0}
  /\ Freqs \subseteq 0 .. 3 /\ 0 \in Freqs                  \* TAC_FREQ_MASK
  /\ COUNTER_SIZE % DIV_UNIT = 0 /\ DIV_UNIT % 4 = 0        \* whole M cycles
  /\ \A f \in Freqs : COUNTER_SIZE % 2 ^ (2 * f + 2) = 0

VARIABLES
  counter, DIV, TIMA, TMA,
  freq, enabled,     \* TAC
  requested,         \* IF_TIMER
  tb, phase,         \* the locals tb and i of mcycle
  \* history: M cycles since DIV was stored, modulo COUNTER_SIZE; whether the CPU
  \* has stored to the timer in its last M cycle
  since, stored

vars == <<counter, DIV, TIMA, TMA, freq, enabled, requested, tb, phase, since, stored>>
timaVars == <<TIMA, TMA, freq, enabled>>

Phases == {"first", "cpu", "1", "2", "3"}

TypeOK ==
  /\ counter \in 0 .. COUNTER_SIZE - 1 /\ DIV \in Nat
  /\ TIMA \in 0 .. TIMA_SIZE - 1 /\ TMA \in 0 .. TIMA_SIZE - 1
  /\ freq \in Freqs /\ enabled \in BOOLEAN
  /\ requested \in BOOLEAN /\ tb \in BOOLEAN /\ phase \in Phases
  /\ since \in 0 .. COUNTER_SIZE - 1 /\ stored \in BOOLEAN

\* init_gameboy: DIV is set, the counter is not.  The CPU first sees it at 1, as if
\* DIV were stored in that M cycle.
Init ==
  /\ counter = 0 /\ DIV = 171 % (COUNTER_SIZE \div DIV_UNIT)     \* $AB
  /\ TIMA = 0 /\ TMA = 0 /\ freq = 0 /\ enabled = FALSE
  /\ requested = FALSE
  /\ tb = FALSE /\ phase = "first"
  /\ since = COUNTER_SIZE - 1 /\ stored = FALSE

CounterBit(c) == (c \div 2 ^ (2 * freq + 1)) % 2 = 1
tima_bit(c) == CounterBit(c) /\ enabled

FallingEdge(start, end) == start /\ ~end

\* Mutant: the counter is wider than its 16 bits.
Wider(c) == c + 1
NextCount(c) == (c + 1) % COUNTER_SIZE

\* Mutant: the loop of mcycle does not assign tb.
FirstOnly(bit) == IF phase = "first" THEN bit ELSE tb
Carried(bit) == bit

inc_counter(start) ==
  LET count == NextCount(counter)
      edge  == FallingEdge(start, tima_bit(count))
      wraps == edge /\ TIMA = TIMA_SIZE - 1
  IN /\ counter' = count
     /\ DIV' = count \div DIV_UNIT
     /\ TIMA' = IF wraps THEN TMA ELSE IF edge THEN TIMA + 1 ELSE TIMA
     /\ requested' = (requested \/ wraps)
     /\ tb' = Carried(tima_bit(count))
     /\ UNCHANGED <<TMA, freq, enabled, stored>>

\* The first increment of an M cycle reads the bit anew.
FirstBit == tima_bit(counter)

First ==
  /\ phase = "first"
  /\ phase' = "cpu"
  /\ since' = (since + 1) % COUNTER_SIZE
  /\ inc_counter(FirstBit)

Count ==
  /\ phase \in {"1", "2", "3"}
  /\ phase' = CASE phase = "1" -> "2" [] phase = "2" -> "3" [] phase = "3" -> "first"
  /\ inc_counter(tb)
  /\ UNCHANGED since

-----------------------------------------------------------------------------
(* The M cycle of the CPU, with a store or none.                           *)

Cpu(writes) == phase = "cpu" /\ phase' = "1" /\ stored' = writes /\ UNCHANGED tb

CpuOther ==
  /\ Cpu(FALSE)
  /\ UNCHANGED <<counter, DIV, timaVars, requested, since>>

\* Mutant: only the register is reset.
ResetDivOnly == DIV' = 0 /\ UNCHANGED counter
ResetCounter == DIV' = 0 /\ counter' = 0

StoreDiv ==
  /\ Cpu(TRUE)
  /\ ResetCounter
  /\ since' = 0
  /\ UNCHANGED <<timaVars, requested>>

StoreTima ==
  /\ Cpu(TRUE)
  /\ TIMA' \in 0 .. TIMA_SIZE - 1
  /\ UNCHANGED <<counter, DIV, TMA, freq, enabled, requested, since>>

StoreTma ==
  /\ Cpu(TRUE)
  /\ TMA' \in 0 .. TIMA_SIZE - 1
  /\ UNCHANGED <<counter, DIV, TIMA, freq, enabled, requested, since>>

StoreTac ==
  /\ Cpu(TRUE)
  /\ freq' \in Freqs /\ enabled' \in BOOLEAN
  /\ UNCHANGED <<counter, DIV, TIMA, TMA, requested, since>>

\* The interrupt is called, or the program stores to IF.
StoreIf ==
  /\ Cpu(FALSE)
  /\ requested' \in BOOLEAN
  /\ UNCHANGED <<counter, DIV, timaVars, since>>

Next ==
  First \/ Count \/ CpuOther \/ StoreDiv \/ StoreTima \/ StoreTma \/ StoreTac \/ StoreIf

Spec == Init /\ [][Next]_vars

-----------------------------------------------------------------------------
(* Properties.                                                             *)

\* T cycles until an enabled timer requests its interrupt, and from one request
\* to the next one.
Period == 2 ^ (2 * freq + 2)
Due == (TIMA_SIZE - TIMA) * Period - (counter % Period)
Interval == (TIMA_SIZE - TMA) * Period

\* While the program leaves an enabled timer alone, each T cycle brings its
\* interrupt nearer by one, and it is requested exactly when it is due, request
\* after request; a timer that is off does nothing.  No edge is lost or counted
\* twice inside an M cycle, from one to the next, or across the CPU's turn.  The
\* increment that follows a store may find an edge that the store has made
\* (gameboy.c:233-277).
TimerPeriod ==
  [][counter' # counter /\ phase # "cpu" /\ ~(stored /\ phase = "1") =>
       IF ~enabled THEN UNCHANGED <<TIMA, requested>>
       ELSE IF Due = 1 THEN requested' /\ Due' = Interval
       ELSE Due' = Due - 1 /\ UNCHANGED requested]_vars

\* DIV is what it would be if the counter had been counting T cycles since DIV
\* was stored last: the store takes the count back that came before it in the
\* same M cycle (gameboy.c:261-263, cpu.c:172-176).
DivCounts ==
  phase = "cpu" => DIV = ((4 * since) % COUNTER_SIZE) \div DIV_UNIT
=============================================================================
