# A TLA+ verification of BoyOhBoy

BoyOhBoy is a Game Boy emulator in C with a debugger that draws the screen and
takes button presses in windows of the acme editor, over the 9P protocol. This
directory holds TLA+ models of the parts of it that are hard to test, the TLC
configurations that check them on small instances, and proofs, checked by
TLAPS, of the properties that hold for every value of the constants. File names
and line numbers refer to `src/src/`; `PROJECT.json` maps every definition that
models code to its lines.

## The system

| Part | State | Operations | Interacts through |
|---|---|---|---|
| 9P client (`9/9p.c`, `9/io.c`, `9/thread.c`) | mutex, one condition variable, `QUEUE_SIZE` (4) request slots, `closed`, `recv_done`, sizes | `version9p` .. `clunk9p` (send), `wait9p`, `poll9p`, `close9p`, `recv_thread` | a socket; callers' buffers |
| 9P file system (`9/9fsys.c`) | 128 fids and files, root fid, `closed` | `mount9`, `unmount9`, `open9`, `close9`, `read9*`, `write9` | the client; a mutex and condition variable of its own |
| Acme client (`9/acme.c`) | windows and their five files, an event buffer of 512 bytes | `acme_get_win`, `win_release`, `acme_close`, `win_*_event*`, `win_fmt_*` | the file system |
| PPU (`gb/ppu.c`) | LCDC, STAT, LY, LYC, ticks, objects of a line, `lcd` | one T cycle: scan, draw, horizontal and vertical blank | I/O registers, OAM, IF |
| OAM DMA, timer, M cycle (`gb/gameboy.c`) | `dma_ticks_remaining`, the counter, DIV, TIMA, TAC | `mcycle` = CPU, DMA, 4 x (timer, PPU) | memory; IF |
| CPU (`gb/cpu.c`) | registers, IME, state, micro-op cycle | fetch, decode and execute one M cycle; interrupts; HALT, EI, DI | `store`/`fetch` into the memory map, IF, IE |
| Memory map (`gb/cpu.c`) | ROM bank, memory regions | `find_mem_region`, `do_*_store`, `store`, `fetch` | PPU mode, DMA |
| Debugger (`debug.c`) | breakpoints, `go`, `step`, buttons, copies for drawing | the emulation loop, an event thread, a drawing thread, SIGINT | a mutex around `mcycle`; acme |
| Error strings, text buffer, disassembler, clock | a thread's last message; nothing else | formatting | - |

What is hard here, and where: several threads share one 9P client and wake each
other through a single condition variable, while the receiver works on a slot
outside the mutex; a server may go away between the two writes of one request;
closing races with senders and waiters; the program in the cartridge may store
to a register in any M cycle, in the middle of a mode, a scan or a DMA; in the
debugger a drawing thread, an event thread and the emulation share state. The
properties that make each part correct:

* client: a slot has one owner, a reply reaches the thread that asked for it, a
  buffer is filled only while its owner waits, nobody sleeps for ever, close
  leaves nobody inside;
* file system: a fid has one file, a failed open gives its fid back, unmount
  returns;
* acme: a window is complete or not there, events come whole and in order,
  close returns;
* PPU: only rows of `lcd` are touched, modes never get stuck, a frame is whole,
  interrupts are requested once, STAT tells the truth;
* DMA and timer: a page arrives whole, no count or overflow is lost;
* CPU: an interrupt is called only when enabled and requested, EI and HALT take
  effect when they should, each instruction computes what its definition says;
* memory map: a store and a fetch of any address do what its region says, under
  the modes of the PPU and the DMA;
* debugger: a Break is not lost, a breakpoint stops the emulation, a press of a
  button is neither cut short nor left on.

`PROJECT.json` lists the hazards one by one, at the line where each bites, with
the properties that would catch it or the reason why none does.

## The modules

| Module | Models | Checked by | Proved about in |
|---|---|---|---|
| `Client9p` | the 9P client with its threads, over an external socket and server | `client_*` | `Client9pProofs` |
| `Calls9p` | abstract: what a client promises to its callers; `Client9p` implements it | `client_live` | `Client9pProofs` |
| `Fsys9` | the file system, over an external 9P client and server | `fsys`, `fsys_close` | `Fsys9Proofs` |
| `Acme` | the acme client, over files opened and closed in one step | `acme` | `AcmeProofs` |
| `Ppu` | PPU and OAM DMA under the CPU's stores | `ppu` | `PpuProofs` |
| `Interrupts` | `cpu_mcycle` around the instructions: calls, HALT, EI, DI, RETI | `interrupts`, `irq_enabled` | `InterruptsProofs` |
| `Memory` | regions, `fetch`, `store`, I/O registers | `cpu` | `CpuProofs` |
| `Cpu` (extends `Memory`) | tables, decoder, the exec functions cycle by cycle | `cpu` | `CpuProofs` |
| `Isa` (extends `Memory`) | abstract: one step per instruction; `Cpu` implements it | `cpu` | - |
| `Timer` | counter, DIV, TIMA, TAC | `timer` | `TimerProofs` |
| `Debugger` | the emulation loop, its commands, the event thread, SIGINT | `debugger` | `DebuggerProofs` |

Each module takes the ones below it as its environment: `Acme` the calls of
`Fsys9`, `Fsys9` a client that answers each request once, `Cpu` a PPU whose mode
does not change while one or two instructions run, `Interrupts` instructions that
are only lengths and stores, `Debugger` a `mcycle` that leaves any values. What each
leaves to the other is what the other's properties state.

## Client9p

A state is the fields of `struct Client9p` (`mtx`, `waitSet` for the condition
variable, `closed`, `recv_done`, `queue`, the two sizes), the place and
locals of each calling thread (`pc`, `req`, `tag`, `got`), of `recv_thread`
(`rpc`, `rmsg`, `rbuf`) and of `close9p` (`cpc`), and the external socket and
server (`c2s`, `s2c`, `pending`, `srv_out`, `eof`).

* **Atomicity.** A critical section that neither blocks nor unlocks on the way
  is one action, guarded by `mtx = NONE`. `send_with_buffer` keeps the mutex
  while it writes, so `SendTake`, `WriteMessage`, `WriteData` and `WriteFails`
  are steps with `mtx` held. `recv_thread` gives the mutex up for each read:
  `RecvHeader`, `RecvBody`, `RecvArg` (which reads `q->read_buf` without the
  mutex) and `RecvData` run beside everything else.
* **Condition variable.** `cond_wait9` puts the thread into `waitSet`,
  `cond_broadcast9` empties it, and every wait sits in a loop that tests its
  condition again. `wait9p`'s tag check is made once, before the loop.
* **Requests and replies.** A request is a record that names its thread and its
  sequence number, so a reply given to the wrong thread can be told from the
  right one. Formats are abstracted to what the receiver checks: tag, type,
  size, count, and whether it deserializes. On the wire a reply is a header, a body and,
  of a read, its data; the receiver takes the next chunk for the part it expects, so that
  what it takes for what is a matter of order (`part` is there to say so in proofs).
* **Failures.** The server may send an error, a tag that is out of range, a type
  that was not asked for, a message that is too big or does not deserialize, a
  count larger than the buffer, a flush reply, a second reply to a request; and
  it may go away at any time, also between the two writes of a write request.
* **Undefined behaviour.** When the first of these two writes fails the code
  sets `tag = -1`, tries the second, and clears `queue[-1]`: the bytes before the
  queue, which are `fd` and the end of the condition variable. `WriteFails`
  chooses between the outcomes (`fd_ok`, `deaf`). After `close9p` a thread still
  inside uses freed memory: `UseAfterFree`, a stop, as in the build with the
  address sanitizer.

The environment calls as the code's callers do: `version9p` first (9fsys and all
the tests do so), and no new call once `close9p` was called. Calls that began
before may be anywhere.

### Calls9p

`Calls9p` is the client as its callers may think of it: no slots, tags, mutex,
receiver or stream. A call is `out`, `calling`, `sending`, `waiting` or `refused`; at
most `Limit` are admitted (`sending` or `waiting`); a request joins `flight` when it is
sent, once, and leaves it as the reply of the thread that made it (`Answer`). Only
`Lose` takes a request out of `flight` without an answer, and only on a client that is,
or in that step becomes, closed or without its server. A call ends with its reply, with
"closed" on a closed client, or with "bad tag" if it was never admitted or its server
was gone. `Free` needs a closed client with nobody admitted.

`Client9p` maps to it by `StageOf` (the place of a thread and whether it holds a
slot), `ReplyOf` (the reply in its slot) and `InFlight` (the requests whose last chunk
is in the socket, those the server has, and those answered by the chunks under way or
in the hands of `recv_thread`); `Limit` is `QUEUE_SIZE`. So `SendTake` is `Admit`, the
last `WriteMessage` or `WriteData` is `Send`, `PutReply` is `Answer`, or `Lose` when the
owner has given up its slot on a closed client, `RecvExit` and a `Read` that fails are
`Lose`, and what remains (waiting, the server's moves, the first of two writes) is no
step. `RecvExit` closes the client in the step in which it drops a message, so that no
request is lost unnoticed; its mutant leaves the client open.

`Calls9p` says nothing of progress: that is `CallsReturn`.

### Runs

| Run | Instance | Shows |
|---|---|---|
| `client_safety` | 2 callers x 2 requests, 2 slots, reads and writes, one wrong reply out of seven kinds, sockets of 2 chunks; symmetry on the callers; 1.5 million states | types, `SlotOwners`, `RepliesMatch`, `BufferOwned` |
| `client_live` | 2 callers x 2 requests, *one* slot, reads, messages that fit and that do not, a message that does not deserialize, a server that may go away; 190 thousand states | `CallsReturn` under fairness; `Implements`: every step is one of `Calls9p` or none |
| `client_free` | 2 callers, one slot | violation of `WaitersGone` |

Two callers and two slots are the least for a tag to be reused while another
request is under way; one slot makes the callers wait in `send_with_buffer`;
two requests of each caller let an old reply meet a new request. With one slot
`HasRoom` can fail in `client_live`, and its fault is the one whose message is dropped
whole. More callers repeat these roles (the proofs cover any number). `SockCap = 2` matters: with a
socket that holds a single chunk TLC finds a real deadlock, since the sender
holds the mutex inside `write_full`, `recv_thread` needs the mutex to go on
reading, and the server, blocked in its own write, reads no more. Sockets hold
many messages, so the runs take the smallest capacity without it.

The safety run has no symmetry-breaking bounds but `MaxReqs`, `MaxFaults` and
`SockCap`; the liveness run uses no symmetry, which TLC does not support for
liveness. Deadlock is checked: the only states without a step are those in which
the process died or the client is closed and nobody is inside (`Terminated`).
The requests of `client_live` are reads, since a write that fails half way may leave the
client hanging (`deaf`, below); that such a write is still a step of `Calls9p` or none
is shown by the proof of `ClientImplements`.

**Fairness** (`Fairness`): each thread is scheduled when it can run (weak
fairness of its steps together; a mutex that is contended for ever is not a
matter here, since every thread holds it a finite number of times between
sleeps), and the server reads and answers what it was sent. A thread need not
call, nobody need close, and no fault need happen. A server that falls silent
would make `wait9p` and `close9p` hang: `close9p` does not interrupt the read
of `recv_thread`.

### What the runs found

* `close9p` waits until no slot is in use and the receiver is done (9p.c:107).
  A thread waiting *for* a slot has none, so the client is freed under it:
  `client_free`.

Beside this, and claimed by no comment of the code, so not findings: the write to
`queue[-1]` after a write that failed (9p.c:550) can wipe out the condition
variable's list of waiters (`deaf`), after which a `wait9p` may never return
(the requests of `client_live` are reads, which are written at once); a
closed client lets `wait9p` return while the receiver may still be filling the buffer
(`BufferOwned` is therefore stated for an open client); a server that answers a
request twice has the second reply handed to a later request of the same type
(the fault `duplicate`, left out of the passing runs, violates `RepliesMatch`); a flush reply ends the process (`RecvAbort`).

## Ppu

One M cycle is six steps, counted by `phase`: the CPU, the DMA, four T cycles of
the PPU, the order in which `mcycle` makes the calls. The CPU's part is any
single store to LCDC, STAT, LYC, OAM or DMA, an interrupt call that clears a bit
of IF, or nothing; a running DMA drops stores, and OAM stores are dropped
during scan and drawing, as `store` and `do_oam_store` do.

`SetLine` is what `store` does for LY, with the LYC bit of STAT; `Requests` gives
the LCD interrupts of `set_ppu_mode` and that store together. The order of the
code is kept: a mode is set with the old line, before the line is stored. An
action stands for each way a T cycle ends: `PpuOff`, `Tick`, `do_oam_scan`,
`do_drawing`, `do_hblank`, `VblankLine`, `NewFrame`, and `DrawingFails` where the
code calls `fail`.

Abstracted: of an object, its y coordinate; of the picture, which rows were
drawn (`drawn`, a history variable); of a DMA, objects instead of bytes. The
history variable `since` names the stores after which a property makes no claim.

### Runs

`ppu` checks all the properties on a screen of two rows, lines 0 to 3, modes of
three ticks, one object per line and two in OAM (341 thousand states). What the
bounds must keep is the remainder of the lengths by 4 (3 in the code and here:
79, 171, 203, 455), because it decides in which T cycle of an M cycle a mode
starts and so which modes the CPU's stores can meet; a row above the last one,
a last row, and at least one line of vertical blank; and more objects on a line
than the limit. The fairness is that the emulator goes on running cycles
(`WF_vars(Next)`): `BlankComes` needs no cooperation of the program, which may
keep storing to STAT.

`LinesInBounds` and `BlankComes` show that no store to STAT leads out of the array or
to a frozen screen; `WholeFrame` is the one that is stated for frames without such a
store.

Described, not claimed: `do_io_store` masks the value stored to STAT and stores it
over the whole register (cpu.c:185, under a comment that the lower bits are
read-only), so every store to STAT puts the PPU into mode 0 and clears the LYC bit;
the modes take 79, 171, 203 and 455 T cycles, since
`ticks` is counted before it is compared, and the comments of ppu.c say 80 and
172; the LYC bit is cleared by a store of LY that changes nothing, and not
updated when LYC is stored (`NoFalseMatch` states the direction that holds); the
emulator exits when a program changes the size of objects between the scan and
the drawing of a line (`DrawingFails`; `ScannedRowsExist` shows it is the only
way).

## Memory, Cpu and Isa

`Memory` holds what `fetch` and `store` use: the bytes that were written, the ROM
bank, the type of the cartridge, the buttons, whether a DMA is running; the PPU's
mode is in STAT and LCDC, as in the code. `mem_regions` is the table of the code, in
its order, and `find_mem_region` its search. A byte that nobody wrote has a
value of its own for its address and ROM bank (`Blank`), so that a byte fetched from
the wrong place can be told. The bitwise operators of C are defined bit by bit (`and`,
`or`, `xor`).

`Cpu` has the two instruction tables row by row, `find_instruction` with the masks
that the operands give, and one operator for each exec function, which takes the
state at the start of an M cycle to the one at its end. The only action is
`cpu_mcycle`, without interrupts: `cpu.w` and `cpu.z` live from one cycle to the next
and are reset when an instruction ends, the fetch of the next op-code overlaps the
last cycle. EI, DI, RETI, HALT, STOP and unknown op-codes are in the tables but not
executed: `Interrupts` has them. The `trap` flag and the messages are left out.

`Isa` is the abstract specification. An op-code is taken apart by its octal digits,
arithmetic is done on the numbers the bytes stand for, carries and borrows are
comparisons, the memory map is a handful of ranges; there are no tables, cycles or
scratch bytes. `Implements` is the refinement: `arch`, the state at the last
instruction boundary, which a history variable keeps, takes exactly the steps of `Isa`.
DAA is specified after the addition or subtraction of decimal numbers, where it has a
meaning. `SizeMatches` relates the tables to the exec functions: an instruction
that does not jump moves the PC by the size its row gives, on which the
disassembler and its window depend.

### Run

`cpu` starts from 10 thousand states with a program of one or two instructions:
every op-code of both banks, each with a small and a negative operand, with two sets
of registers (one with HL, the stack and the 16-bit sums at the ends of their
ranges), all flags clear or set; the eight operations on A, the rotations and shifts,
the additions of 16 bits on values around every carry; DAA after sums and differences
of two-digit numbers; a store and a read at both ends of every region, at I/O
registers and at the echo of each address, in each mode of the PPU and during a DMA;
the joypad; pushes and pops at stacks that wrap around or lie in ROM, echo RAM and
I/O; a PC that wraps to 0 (33 thousand states). Within two instructions the mode of the PPU and
the DMA stay what they are; `Ppu` has them change. `Isa` is deterministic, so one step
of each kind from each start settles it; longer programs repeat these steps.

Described, not claimed: `exec_ld_imm16mem_sp` stores the second byte in its fourth cycle
and falls through to the fetch (cpu.c:604-606), one cycle less than the other
instructions with the same accesses would suggest; stores to echo RAM go to working
RAM at any time.

## Interrupts

One action is one M cycle of `cpu_mcycle`, or a request by the timer or the PPU
between two M cycles (`Request`). The state is `cpu.state`, `cpu.cycle`, IME,
the pending EI, IF and IE; of the instruction in IR its kind, and of the PC only
`ahead`, its distance from that instruction, on which an interrupt call and HALT
depend. `vec` is the interrupt whose handler the call has put into the PC.

The instructions that touch this machinery have actions: `Ei`, `Di`, `Halt`, the
three phases of RETI, the 0xCB prefix (after which `instr` is NULL, so that a
pending EI waits one cycle more), `Unknown` and `Stop`. Every other instruction
is `Other`: it takes any number of cycles up to `MAX_CYCLES` and may store to IF
or IE in each. The program is arbitrary: a fetch returns any kind. The calls are
in the five cycles of `call_interrupt`; the two pushes may hit IF or IE, since SP
may be anywhere. `masked` and `last` are history variables for the properties;
`tick` alternates with each M cycle, so that a program that repeats one
instruction can be told from an emulator that has stopped.

### Runs

`interrupts` checks all the properties with two hardware interrupts, VBLANK and
the timer, and one bit above the five (38 thousand states). Two are the least for
one to be more urgent; a bit above the fourth is what IF holds at reset and what
`get_if` does not see. `MAX_CYCLES = 3` lets an instruction begin, go on and end,
each with a store; more cycles repeat the middle one. The fairness is that
`cpu_mcycle` is called again and again (`WF_vars(cpu_mcycle)`), which `mcycle`
does unconditionally; requests need never come.

`irq_enabled` refutes `OnlyEnabled`: `get_if` (cpu.c:354) picks the lowest bit of
IF without looking at IE, so that a request of an interrupt that IE disables is
called, and acknowledged, when another, enabled one is pending.

Described, not claimed: an EI executed with IME on is still pending when a call
follows at once, and turns IME on again after the first instruction of the
handler (`masked = "leftover"`, which `MaskedUntilEnabled` leaves out); a request
that is more urgent than the handler chosen and comes in the last cycle of the
call is acknowledged in place of the one served (`AckedRequest` allows for it); a
request above bit 4 with its bit of IE set ends the emulator (`CallFails`);
`exec_unknown` keeps the op-code in IR, so that it is executed for ever; after
EI and HALT with a request pending, the handler returns to HALT, as the tests
expect.

## Fsys9

The state is `struct fsys9` with its mutex, condition variable and files (`used`
is `file->fsys != NULL`; `offs`, `fmtx`), the place and locals of each thread, and
the external client and server: the fids the server knows, the requests of the
threads in `wait9p` and their replies. Client9p's atomicity rules hold here too:
each call of `wait9p` is two steps, a request that is sent and looked up by the
server, and a reply that comes back; in between anything may happen. `close9` is
three critical points: the clunk, the mutex of the file system, and the mutex of
the file that it waits for with the first one held (`CloseLocks`, `CloseEnds`).

The server may refuse any request but a clunk, reads and writes may move any number
of bytes up to what was asked, and the connection may be lost at any time, after
which each request fails. Walks, opens, reads and writes of different threads are
answered in any order.

A *session* is one successful walk of a fid, numbered by the server. A request
carries the session that the server found under its fid (`sess`) and the one its
caller meant (`meant`, the history variables `session` and `mine`), so that a
fid that is given away too early shows. `moved` counts the bytes the server has
moved since the file was opened or rewound, which `Sequential` compares with the
offsets sent.

The environment calls as the code's callers do: no use of a file after `close9`,
one `unmount9`, no `open9` after it or waiting when it is called, no `read9_tag`
left by the thread that unmounts. `BesideBlocked` allows `close9` while another
thread's read or write is blocked on the file's mutex.

### Runs

`fsys` checks all the properties with three threads that share one file and make
three calls, beside any number of `close9` (92 thousand states). One file is the
least for `open9` to wait; a waiting open, an unmount and a close, or two readers
and a close, are the roles that three threads can fill at once; three calls are an
open and two uses of the file, or two opens and a use. A transfer of 2 bytes with
`IOUNIT = 1` takes two parts, of which each may be short or fail. More files and
threads are covered by the proofs.

Fairness (`FairSpec`): a thread inside a call is scheduled, and the server answers
each request. Callers need not call. `Quiet` is a state in which nothing is left to
do, or `open9` and `unmount9` wait for callers that keep their files, as they are
meant to; every other stop is a deadlock, which TLC checks.

`fsys_close` sets `BesideBlocked` and refutes `CloseWaits`, the comment at
9fsys.c:182: `close9` takes the mutex of the file once, so when one thread reads
and a second one waits behind it for the mutex, `close9` may be the next to get it;
it destroys the mutex and frees the file under the second thread. Every other run
and theorem about files is stated without such a call.

Described, not claimed: `closed` is set and never read, so a blocked `open9` is not
told of `unmount9`; `close9` clunks the fid before it waits, so that the rest of an
active `write9` is refused and the write returns short; the count of a write's
reply is not checked against what was sent; a server with `iounit` 0 makes every
read an end-of-file; a write that the server answers with 0 bytes returns short
without an error string.

## Acme

The state is the Acme (`acme`, `closed`, `mtx`, the windows of its table), the File9s
that are open (`open`, pairs of a window and a file), of each window its two mutexes
and the event machinery of `struct win` (`event`, `tag`, `n`, `buf`; `dst` is where
the pending read puts its bytes), the place and locals of each calling thread, and
the external server: how many windows of each name it has, and how far each
event stream was sent. `open9`, `close9` and reads and writes of files other than
`event` are one step each, refused or not; `Fsys9` has their interleavings. The mutex
of the table is held across all of `acme_get_win`, with each file opened in a step.

An event stream is a sequence of events of given sizes, and its bytes are numbered, so
that a byte lost, kept or moved to the wrong place can be told. A read returns any
number of bytes that fit, an end of file or an error. `start_event_read`, `ReadDone`
and `Deserializes` are the parts of `win_poll_event` and of the loop of
`win_wait_event` between which the server moves; both hold the mutex of the events
all the time, so that a `win_poll_event`, `win_stop_events` or `win_write_event` of another thread waits
for as long as `win_wait_event` does.

The environment calls as `debug.c` does: events of a window are stopped before it is
released or the Acme closed, no call is in progress on a window that is released, and
beside `acme_close` there is at most `acme_get_win`, none of which still waits for
the mutex when the Acme is freed. A session of events begins with a whole event. The
file system has 128 files; 10 windows with six each and two more never use them up.

### Run

`acme` has two threads, two windows of one name, one file that is read or written
(the tag, the one that may be missing), events of two, one and one byte, of which the
last is malformed, on the first window, a buffer of three bytes and six calls beside
`acme_close` (181 thousand states). Two threads that ask for one name are what
`OneWindowPerName` is about; two slots leave one free beside a window that is being
made; a buffer of three bytes that holds two events but not three makes reads cut
events and find little room; six calls are getting a window, starting events,
taking two of them, stopping and releasing. Deadlock is not checked, since the calls
are bounded and all threads may be idle in the end; `CallsReturn` says that nothing
else stops.

Fairness: a thread inside a call is scheduled, and the server answers each read of
events (also with an end of file: windows are deleted). Nothing else need happen.

Described, not claimed: `acme_get_win` opens the tag and then looks at the pointer of
the body (acme.c:263), so a window without a tag may be handed out, and reading the
tag or releasing the window uses NULL (`NullFile`, which ends a behaviour;
`FilesAccounted` allows for the one missing file); an Acme that is closed makes
`acme_get_win` return NULL without an error string (acme.c:241); an index
that cannot be read counts as empty, and a second window of the name is created;
a malformed event stays in the buffer and is returned again for ever; `win_release`
does not close the event file, for which `acme_close` would then wait for ever;
`win_poll_event` blocks behind `win_wait_event`, which acme.h says it does not.

## Debugger

The emulator with `-acme`. The state is `mtx`, the static variables of debug.c (`go`,
`step`, `next_sp`, `breaks`, `button_count`), of the Gameboy the buttons and what the
debugger looks at (`at` is PC - 1, `sp`, `trap`), and the places of the emulation and the event
threads. Each command that changes anything is an action; those that print are left
out. An instruction is one call of `mcycle`, which leaves any values behind, so that
the program is arbitrary. SIGINT and events may come between any two steps.

`go` is shared without the mutex: it is read in `TestGoes`, in the loop of lines
and in `Done`, and cleared by `check_step`, `check_next`, `check_break` and
`check_cpu_trap`. These four only ever clear it, which is why no stop is lost, and
why `Checks` is one action; its mutant, an assignment, loses one. The history variables
`cmd`, `ran`, `late` hold the last command and the instructions since it and since a stop was asked for.

`memmove` (debug.c:877) moves as many bytes as it should move ints. It is modelled
byte by byte: removing a breakpoint before another one makes a value of the bytes of two.

### Run

`debugger` has two addresses that differ in both bytes, two values of SP, three
breakpoints, one button, a `BUTTON_TIME` of two and steps of 0 and 3 (1.7 million
states). Three slots for two addresses let the table fill up (with a mixed value) and a removal
move one or two others; a step of 3 leaves room for a Break in its middle; 0 is the
argument that does not count. Deadlock is not checked: the process may exit.

Described, not claimed: `step 0` runs until something stops it; a `step` or `next`
that Break ends leaves its count or SP behind, which ends a later `go` early
(`NeverRunsPast` bounds from above only); no breakpoint can be removed when the table
is full, since the check for room comes first; breakpoints behind one that was removed
are destroyed (`moved`, which `NeverRunsPast` leaves out); SIGINT at the prompt exits in
the handler, whose `atexit` functions lock mutexes that may be held.

## Timer

One M cycle of `mcycle` is five actions: `First`, the increment of the counter that
comes before the CPU; the CPU, which stores to one register of the timer or to
none; and three times `Count`. `tb`, the bit that one increment passes to the next,
is a variable, as in the code. `since` and `stored` are history variables: M cycles
since DIV was stored, and whether the CPU has just stored to the timer.

`timer` checks the properties with a counter of 6 bits, DIV in its upper two, a
TIMA of 2 bits and three of the four frequencies (256 thousand states). The bounds
keep what matters: several periods of each frequency in one round of the counter,
a TIMA and a counter that overflow, both alignments of the counter to M cycles (1
until DIV is stored, 0 after it) and every value of TMA. `TimerPeriod` is a promise
that mentions no edges: a countdown of T cycles to the next request.

Described, not claimed: with TAC's frequency 0 `tima_bit` looks at bit 1 of the
counter (`2 * 0 + 1`), the other frequencies follow in order; the increment after a
store compares the new bit with one read before the store, so an edge of the bit
that was just selected may be lost or made up (`stored /\ phase = "1"`, which
`TimerPeriod` leaves out); gameboy.h:404 says that DIV is the upper byte of the
counter, which becomes true with the first increment, as `init_gameboy` sets DIV
and not the counter.

## Proofs

All proofs are about `Spec`, without fairness, and for any values of the
constants that satisfy the named assumptions of the modules: at least one slot,
thread names and messages that are not `NONE`; lengths of modes above 0, a screen that is not
higher than the last line, pages of the right shape; a counter that is a whole number
of periods of each frequency; events that fit in the buffer; steps below the count
`RanMax` at which the debugger's history stops counting. Every safety property that a
passing run checks is the statement of a theorem, but for `Implements` of `Cpu`.

`Client9pProofs`:

* `TypeCorrect`: `Spec => []TypeOK`, one lemma per part of the type invariant.
  `StructTypeStep` needs `CHOOSE` of a least free slot to be a slot
  (`FirstFreeIsFree`, from well-foundedness of the naturals).
* `SlotOwnership`: `Spec => []SlotOwners`. `Inv == TypeOK /\ SlotOwners` is
  inductive: ownership is a one-to-one relation between slots in use and threads
  that hold a tag, and each step keeps it (`OwnersKept`), adds one pair
  (`OwnerAdded`) or removes one (`OwnerRemoved`). The types are needed to know
  that -1 is no tag.
* `FreedAfterUse`: `Spec => []FreedAfterOwners`, from `CloseInv`: `recv_done`
  is set only by a receiver that exits, and a freed client has no slot in use
  and nobody who could take one. No run checks it: `Free` of `Calls9p` has the callers'
  part of it.

In the same module, for a server that answers each request at most once, and
any of its other faults (TLC refutes `RepliesMatch`, `BufferOwned` and `Implements` on
the instances of their runs once `"duplicate"` is in `Faults`):

* `RepliesAreMatched` (`RepliesMatch`) and `BuffersAreOwned` (`BufferOwned`), from
  `RepliesInv`. Neither is inductive: what is stored depends on what is on the wire,
  and that on what has been sent. `FlightInv` says of each request on its way to the
  server, with the server, or on its way back with tag `k`, that it is `Owed`: whoever
  owns slot `k` has sent all of it and has no reply, and while the client is open
  someone owns it. A step loses this only where the answer is stored, and then nothing
  else of that request may be under way (`NoneLeft`). That needs `OnceInv`
  (a request is in one of the three places, and its answer once in the stream, whether
  the client is open or closed) and `FramesInv`: `recv_thread` takes the next chunk for
  whatever it expects, so each chunk of the stream must be what has to follow the one
  before it; a body that was taken for a header would be a second answer. `OnceInv`
  rests on `FreshInv` and `NewestInv`: what is out was numbered before what is still to
  be sent. `WriterInv` (who writes holds the mutex of an open client) and `CleanInv` (a
  slot that is being written for has no reply) make a new request owed; `KindInv`,
  `BufInv` and `NoBufInv` are what `BufferOwned` needs beside. On a closed client slots
  are given back while their answers are under way, and the part of `Owed` about the
  owner's request remains: new owners there are none.
* `ClientImplements` (`Implements`): `Client9p` implements `Calls9p`, from the same
  invariant, `SlotOwners`, and `ClosingInv` (`close9p` closes before it frees). One
  lemma per group of actions shows which step of `Calls9p` it is (`CallRefines` to
  `FreeRefines`). What needs more than the definitions: there is room when a slot
  is free, since the admitted threads map one to one into the tags but for the free one
  (`RoomLeft`); `InFlight` is `Out`, of which the invariants speak (`InFlightIsOut`); a
  request that is out stays out unless its answer leaves the hands of `recv_thread` or
  the server goes (`OutKept`), and `recv_thread` drops an answer only where the client
  is closed or the server gone (`HandDropped`, which needs `NoBufInv`, since a read
  without a buffer is given up, and `FdInv`: the descriptor is destroyed only after a
  write has failed); a request is not in flight before it is sent, nor after it is
  answered (`WriterAlone`, `NoneLeft`). `NullAssumption`, NULL is no message, is used
  here alone.
* The lemmas of the section on `Stream` say what each step does to `s2c \o srv_out`
  (kept, first chunk read, grown by an answer, cut), and `WayKinds` sums up `Next` for
  the wire, as `StepKinds` does for slots and callers, so that each invariant is shown
  for seven kinds of steps and not for thirty actions.

`PpuProofs`:

* `TypeCorrect` (`TypeOK`): the line stays within `YMAX`, rows are rows of the screen,
  the objects of a line are at places of OAM (`RowsInv`, `ObjsOK`, with `LineInv`, `DmaInv`).
* `LcdBounds` (`LinesInBounds`), from `LineInv`: a scan starts with 0 ticks and on
  a row, since `do_hblank` leaves for a scan only from a row above the last one.
* `LycBit` (`NoFalseMatch`), from itself and the type of the bit.
* `DmaCopies` (`DmaCopied`), from `DmaInv`: a DMA has copied the first
  `DMA_MCYCLES - dma_ticks` objects of a page that stays the same while it runs.
* `RowsExist` (`ScannedRowsExist`), from `CoverInv`: what the scan found covers the line
  until a store to LCDC changes the size.
* `NoRepeatedRequest` (`OneRequest`), from `OffInv`: a PPU that is off is in mode 0 when
  the CPU's turn comes, so turning it on is a change of mode.
* `WholePicture` (`WholeFrame`), from `FrameInv`: the rows drawn are those above the
  line, and from horizontal blank on the line itself.

`InterruptsProofs`:

* `TypeCorrect` (`TypeOK`), from `CountInv` (between instructions the cycle is 0, and
  within `MAX_CYCLES + 4` otherwise) and `BackInv` (only a call takes the PC back).
* `HandlerMasked` (`MaskedUntilEnabled`), from `MaskInv`: while interrupts are
  masked, IME is off and no EI is pending.
* `EiTakesEffectLater` (`EiDelayed`), from `DelayInv`: the last instruction is
  an EI that turned interrupts on only while IME is still off.
* `CallReturns` (`ReturnAddress`), from `CycleInv` (a call is in one of its five
  cycles, `DONE` and `HALTED` are cycle 0) and `PcInv`, which says where the PC
  is before and after the call has decremented it.
* `CallAcknowledges` (`AckedRequest`), from `VecInv`: in the last cycle of a
  call, `vec` is an interrupt and nothing less urgent than it can be the lowest
  bit of IF.

`TimerProofs`:

* `TypeCorrect` (`TypeOK`).
* `DivCountsFromItsStore` (`DivCounts`), from `CountInv`: in each of the five phases the
  counter is where the T cycles since the last store of DIV have brought it, or one
  further (the increment before a store is taken back).
* `PeriodIsKept` (`TimerPeriod`), from `BitInv`: the bit carried to the next increment
  is the bit of the counter, except after a store to the timer; so an edge is seen where
  a period ends and nowhere else (`2 ^ n` by cases, since a frequency has two bits).

`Fsys9Proofs`:

* `TypeCorrect`: `Spec => []TypeOK`. Offsets need that a reply of `read9` and
  `write9` is a count once errors were told apart (`Moves`).
* `NoLostWakeup` (`Woken`), from `WaitInv`: only threads in `open9` and
  `unmount9` sleep, and each step that gives a file back empties the wait set.
* `RequestsReachTheirFile` (`RightFile`), from `FileInv`: files in use, the
  threads that hold them and the fids the server knows belong together
  (`HoldInv`, `UseInv`, `OpInv`, `FidInv`). Assumes `~BesideBlocked`, without
  which the statement is false.
* `TransfersAreSequential` (`Sequential`), from `FileInv` and `SeqInv`: while the
  connection lasts, the offset of a file is behind what the server has moved by exactly the
  reply that has not been looked at yet. The same assumption.
* `UnmountIsLast` (`UnmountLast`), from `FileInv` and `UnmountInv`: a thread
  inside a call has a file in use, so none is left once `has_open_files` is
  false. The same assumption.

`AcmeProofs`, one invariant, `Inv`, for all four theorems:

* `TypeCorrect` (`TypeOK`): no read runs over the event buffer, which needs `SessionInv`.
* `FilesAreAccounted` (`FilesAccounted`), from `FileInv` (open files are those of windows
  in the table, of event sessions, and those that an `acme_get_win` on its way has opened
  or not yet closed), with who holds the table and its windows (`PlaceInv`, `TableInv`,
  `ConnectInv`, `CloseInv`, `WinInv`).
* `OneWindow` (`OneWindowPerName`), from `NameInv`: between the look into the index and
  the window's name nobody else holds the mutex.
* `EventsAreWhole` (`EventsWhole`), from `SessionInv`: the bytes returned, those in the
  buffer and those of a read that is not counted yet are consecutive.

`DebuggerProofs`:

* `TypeCorrect` (`TypeOK`): what `memmove` leaves of the breakpoints are still words.
* `StopsInTime` (`NeverRunsPast`), from `StopInv` (no check sets `go` again), `StepInv`
  (what is left of a `step` and what has run add up to it), `AskedInv` and `HitInv`, with
  `LockInv`.
* `PressEnds` (`PressesEnd`), from `KeyInv` and `LockInv`.

`CpuProofs`, for any start that `StartAssumption` allows (registers and memory of the
right width, between two instructions, `ir` fetched from before the PC) and any number
of instructions:

* `TypeCorrect` (`TypeOK`), from `InstrInv`: what is in progress is an instruction of
  its bank that this module executes (`Chosen`), or the prefix has just been taken. That
  invariant is needed because the exec functions rely on their rows: `op_a_r8` only
  makes sense of eight values of `op`, and `exec_ld_r8_r8` would write register 6, which
  is `[HL]` and no register, for the op-code of LD [HL], [HL]. That the search never
  finds it is `Found`: HALT has an earlier row (`MainRows`, `FirstRow`). The rows are
  gone through once (`LowRows`, `ARows`, `HighRows`, `CbRows`); after that only
  `MainRow` and `CbRow`, what the code relies on, are used. Each exec function has a
  lemma (`NopSteps` to `CallSteps`) which says that a cycle of it keeps the types, stays
  in time for another cycle or ends with the next op-code in `ir` (`Stepped`), and moves
  the PC over its operands at the right time (`Paced`). `find_mem_region` is a binary
  search; that it ends, with the region of the address, is unfolded over the ten
  regions.
* `SizesMatch` (`SizeMatches`), from `SizeInv`: between instructions `arch` is the
  state; after the prefix the PC is two bytes past where `arch` points to, and the
  prefix is there; in the middle of an instruction it is the one that starts there
  (`Begun`, by the memory as it was at the start, whatever has been stored meanwhile),
  and the PC is past its op-code and the operands fetched so far (`Ahead`). `Prefix`:
  no other row of the first table takes the op-code of the prefix, whose mask keeps
  every bit.

Model-checked only: `CallsReturn` (of three modules), `BlankComes` and `RequestServed`,
which hold under fairness (TLAPS does not reason about `ENABLED`); and `Implements` of
`Cpu`. Each exec function would have to be followed through all its cycles and compared
with another way to compute the same bytes (`add3_half_carries` with a sum of four-bit
numbers, a search in a table with octal digits): an argument per op-code about
arithmetic modulo 256, which TLC settles by enumeration and the SMT solver is bad at.

## Not modelled

* Error strings (`9/errstr.c`), the growing text buffer (`buf/`) and the clock: each is
  used by one thread at a time and no other part's control depends on it.
* Reading the cartridge header and the ROM file: input that is checked once, before
  anything else runs. `Cpu` takes the number of ROM banks and the type as they come.
* The disassembler: text. The size of an instruction, on which it steps, is in `Cpu`.
* Of the debugger: the commands that print, the windows of the disassembly and of video memory, the
  thread that draws the LCD, and the SDL mode.
* Of the modelled parts: message formats of 9P, the contents of files and events, the
  pixels of a row (tiles, palettes, priorities).

## Running

    tlc -workers 2 -config MCClient9pSafety.cfg MCClient9p
    tlc -workers 2 -config MCClient9pLive.cfg MCClient9p
    tlc -workers 2 -config MCPpu.cfg MCPpu
    tlc -workers 2 -config MCInterrupts.cfg MCInterrupts
    tlc -workers 2 -config MCFsys9.cfg MCFsys9
    tlc -workers 2 -config MCAcme.cfg MCAcme
    tlc -workers 2 -config MCTimer.cfg MCTimer
    tlc -workers 2 -config MCCpu.cfg MCCpu
    tlc -workers 2 -config MCDebugger.cfg MCDebugger
    tlapm Client9pProofs.tla
    tlapm CpuProofs.tla
    tlapm PpuProofs.tla
    tlapm InterruptsProofs.tla
    tlapm Fsys9Proofs.tla
    tlapm AcmeProofs.tla
    tlapm DebuggerProofs.tla
    tlapm TimerProofs.tla
