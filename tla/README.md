# MUXLEQ in TLA+

A verification project kept beside the MUXLEQ repository: TLA+ modules translated
from its source, TLC configurations that check them on small instances, and TLAPS
proofs of the results that matter for every instance. Paths below are relative to
the repository root.

## Inventory

| component | source | state | operations | hard part |
|---|---|---|---|---|
| instruction set | `muxleq-core.h` | cells, pc | fetch, classify, SUBLEQ, MUX, SHR1, GET, PUT | self-modifying operands, 32-bit wrap, masked addresses |
| interpreter | `muxleq-core.h` | cells, pc, `struct mux_state` | `mux_exec`, `exec_alu`, fused MOVE pair, suspend/resume | the fused pair must equal two separate instructions; nothing half executed across a yield |
| native host terminal | `muxleq.c` | tty mode, `raw_mode_active`, `raw_wanted`, `edit_peek_pending` | `read_host_input`, `write_host_output`, `enter_raw_mode`, `leave_raw_mode`, signal handlers | a signal between any two statements |
| image loader | `muxleq.c` | image, size, mask | `alloc_muxleq`, `grow_muxleq`, `load_muxleq` | growth at the boundary, cap, mask/size agreement |
| browser host | `wasm/muxleq-wasm.c` | input ring, output buffer, budget, `peek_pending` | `mux_push`, `wasm_getc`, `wasm_putc`, `mux_run`, `mux_out_clear`, `mux_eof` | full ring, free-running counters, output high water |
| page driver | `wasm/forth.js` | `pending`, `running`, `dead`, `pendingFrame`, `sawError`, `booting` | `send`, `flush`, `pump`, `drain`, `resume`, `stop` | re-entrancy, two queues in series, lost wake-ups, recovery text |
| page widget | `wasm/editor.js`, `wasm/stackview.js` | busy, stepping, history, DOM | key handling, file load, step mode | a late fetch or frame after a reset |
| eForth inner interpreter | `forth/20-target-vm.fth` | ip, rp, sp, tos, registers | NEXT, nest/unnest, primitives | sign tests with a blind spot at INT_MIN, self-modified operands |
| eForth words | `forth/40-core-eforth.fth`, `forth/62-optional-control.fth` | stacks, dictionary, input source | comparison, arithmetic, catch/throw, parse, number conversion, search, compile | boundary values; unwinding |
| multitasker | `forth/20-target-vm.fth` (`pause`), `forth/50-tools-blocks-io.fth` (`task-init`), `forth/60-optional-multitasking.fth` | task ring, saved registers, mailboxes, signals | `pause`, `task:`, `activate`, `wait`, `signal`, `send`, `receive`, `single`, `multi` | interleaving at every `pause`, ring surgery, one-slot mailbox |
| block buffer | `forth/50-tools-blocks-io.fth` | `blk0`, `dirty0`, `buf0`, storage | `block`, `buffer`, `update`, `save-buffers`, `flush`, `empty-buffers` | one buffer shared by tasks, `pause` inside a transfer |
| allocator | `forth/63-optional-allocation.fth` | free list in the pool | `allocate`, `free`, `resize` | coalescing, sentinel, exhaustion |
| modal editor | `forth/65-optional-editor.fth` | cursor, current block, mode | keys and `:` commands | raw mode entry/exit around `throw`, timed ESC peek |
| decompiler, glossary | `forth/50-tools-blocks-io.fth`, `forth/64-optional-glossary.fth` | none | `see`, `words` | display only |
| meta-compiler | `forth/10-meta-assembler.fth`, `forth/80-system-final.fth` | target image | assemble, emit, checksum | fixed point of self-hosting |
| rvopt front end | `rvopt.c` | graph | load, decode, blocks, constant propagation, system calls, jumps through registers, entry targets, SMC detection, folds, forwards, promotions | each analysis feeds the others; aliases, labels and edges that invalidate what is known |
| rvopt back end | `rvopt.c` | emitted cells | ALU, shift, compare, load/store, CSR, timer, mret lowering; promoted cells, safepoints, dispatch, immediates | code that patches its own operands; boundary values; passes that must agree on a layout |
| RTOS demo | `tests/rv32i/rtos` | TCBs, wait queues, timer | `scheduler_tick`, `sem_wait`, `sem_post`, `mutex_lock`, `mutex_unlock`, `task_exit`, trap entry | pre-emption at every safepoint, priority inversion |

How the parts interact. A host (native or browser) owns a `struct mux_state`, calls
`mux_exec` with it and answers its three macros, `MUX_GETC`, `MUX_PUTC` and
`MUX_OUT_OF_BUDGET`; nothing else crosses that border. The image that runs is either the
eForth image (inner interpreter, words, multitasker, blocks, editor: all of them shared
memory in one arena) or what `rvopt` emitted for an RV32I program (such as the RTOS,
whose interrupts are the safepoints rvopt puts in loops). In the browser,
`forth.js` calls the exports of `muxleq-wasm.c` between animation frames, and
`editor.js` sits on `forth.js` through callbacks (`onOutput`, `onIdle`, `onGraphics`).

Nothing in the system is multi-threaded. What is hard comes from elsewhere: code that
patches itself, returns to the host in the middle of everything, cooperative tasks that
interleave at every `pause`, JavaScript that interleaves at every frame and `await`,
and, in the RTOS, pre-emption at every safepoint.

The native host adds signals, which come between any two statements.

What makes each component correct:

- *interpreter*: the fast path (a MOVE and the instruction it patches, run as a pair) is
  indistinguishable from running one instruction at a time, and every return leaves a
  state that can be continued.
- *browser host, page driver*: bytes in arrive once each, in order, all of them; the
  output buffer never overflows; a machine with work has a frame coming; what a user's
  program prints is shown, and an error does not disable the stack viewer.
- *page widget*: input of different origin does not mix, in time or across resets.
- *multitasker*: a switch is invisible to the task that is switched; messages and
  signals are neither lost nor doubled; every task in the ring gets its turn.
- *block buffer*: to one task, a store of blocks with write-back.
- *RTOS*: mutual exclusion, no lost wake-up, bounded priority inversion.
- *rvopt*: an emitted block does to the guest what the instruction means, and the blocks of
  a program, with everything the analyses found out, do what the program means.
- *native host*: the image runs as it was loaded; the terminal is in the mode the image
  asked for while it runs and cooked when it does not; a signal is no answer to a read.

## Plan

The order is that of importance: the instruction set first, since everything runs on it,
then whatever code has the most interleavings.

1. `MuxWord`, `Muxleq`, `MuxExec`, `MuxExecProofs` (instruction set, interpreter). *Done.*
2. `WasmHost`, `ByteStream`, `ForthDriver`, `Transcript`, `EditorView` (browser). *Done.*
3. `Tasker`, `BlockDevice`, `Blocks`, `BlocksProofs` (multitasker, blocks). *Done.*
4. `Rtos`, `RtosProofs` (the largest concurrent program among the tests). *Done.*
5. `Rv32i`, `Lowering` (back end of rvopt, block by block). *Done.*
6. `RvFront`, `RvOpt`, `RvGuest`, `RvImage` (the analyses and optimised forms of rvopt, over
   small whole programs). *Done.*
7. `Terminal`, `ImageFile`, `NativeHost` (native host). *Done.*
8. `TaskerProofs` (registers, mail, ring). *Done.*
9. `HostsProofs` (the browser's two queues, the ring and its counters among them; terminal,
   answers and loader of the native host), `PageProofs` (everything else safe about the
   browser). *Done.*
10. `RvoptProofs`, `LoweringProofs`: the three counts of immediates of `RvImage` agree; the
   blocks of `Lowering` implement their instructions. *Done, for every kind.*
11. Open: that an image implements its program (`ImplementsGuest`) for every program; the
   allocator, with an abstract heap it implements; catch/throw and the arithmetic primitives of
   the inner interpreter.

Abstract specifications, each shown to be implemented by a detailed one: `Muxleq` (by
`MuxExec`), `ByteStream` (by `ForthDriver`), `BlockDevice` (by `Blocks`), `Rv32i` (by the
code `Lowering` emits), `RvGuest` (by the image `RvImage` runs).

## Modules

Names are those of the source wherever TLA+ allows. Operators called "Mutant of X" are
plausible mistakes; no specification uses them.

**MuxWord** is the word level of `muxleq-core.h`: cells are `0 .. 2^Width - 1`, the
arena is a power of two of them, and the markers (`IO_MARKER32`, `MUX_MOVE_C`,
`SHR1_MARK_ADDR`) keep their place relative to the width. `AluMem` and `AluPc` are
`exec_alu`. **Muxleq** is the machine as the instruction set defines it: one instruction
per step, over `m`, `pc` and the bytes moved.

**MuxExec** is `mux_exec`: an action per way through the loop. `Call` enters; `Halt`,
`OutOfBudget`, `GetWouldBlock`, `GetEof`, `PutFails` leave with a status; `GetByte`,
`PutByte`, `Move`, `Alu` are the iterations that go on; a `Move` that hits the next
instruction latches a `pair`, which `FusedAlu` then runs. `stpc` is `st->pc`, `pc` the
local copy. The host is any host.

**WasmHost** is `muxleq-wasm.c` around an image that may execute any instruction: the
ring with counters that wrap, the budget that wraps, the output count, the peek.
**ForthDriver** calls its exports as class
`Forth` does: `Submit` and `Frame` are `submit` and `resume`, `VmTurn` the steps of
`mux_run`, and `TurnRepairs`, `TurnRests`, `TurnContinues`, `TurnDeferred` the four ends
of an iteration of `pumpLoop`. **ByteStream** is what that should look like: one queue, the
part of it a read can reach (the ring) and the rest (`pending`). A text sent is added to its end
whole, bytes come into reach without anything lost or overtaken, a read takes the head, and only a
read asked for as a peek, with nothing in reach, is answered "none". The queue is a history of
`ForthDriver` (`unread`), written by what is submitted and what is read and not by where the
bytes are. **Transcript** is the other half of class `Forth`,
what it makes of output: framing, boot, error detection and repair, with the image and
its prelude reduced to lines that print symbols. **EditorView** is the widget; the
machine under it is what it was sent and whether it is at rest.

**Tasker** is the multitasker. A task is an arbitrary program over `pause`, `wait`,
`signal`, `send`, `receive`, `activate`, `single` and `multi`, and control changes hands
only in `Pause`, which saves and restores what the word saves and restores. **Blocks**
is the block words with the `pause` inside `(block)`, **BlockDevice** the store they
should be: a word is one step of it, except that after `block` the text of the new block is
coming (`coming`), nobody edits meanwhile, and its arrival changes nothing, so that the copy into the
buffer must leave there what the store holds. `did` is the last word and its number, so that a `block` that
does not read cannot pass for a `buffer`.

**Rtos** is the pre-emptive kernel of `tests/rv32i/rtos`. A kernel call with interrupts
off is one action (`SemWaitTakes`, `SemWaitBlocks`, `sem_post`, ...), the loop in which a
blocked task spins is a place in its code, and `Trap` is the timer interrupt: spill to the
frame `mscratch` points at, `scheduler_tick`, restore. Wait queues are the intrusive
lists of the code (`head`, `tail`, `wq_next`), not sequences.

**Rv32i** says what each guest instruction means; it is written from the RISC-V manual,
as the reference the lowering is compared with, and models no code of the repository. Its
constants are the width of a cell and of a byte, the registers, the window of RAM (a power of
two of addresses, a byte in each) and the three interrupt bits.
**Lowering** has the emitters of `rvopt.c` as operators that yield sequences of MUXLEQ
instructions, in the order the C functions emit them, and a machine that runs one block
from a guest state. Cells have names in place of addresses; patched operands are cells
of the block like the rest.

**RvFront** is what `emit_mux` finds out about a program before it emits: the edges of
`decode_graph`, then, in rounds until nothing changes, leaders, reachability, constants and
system calls, jumps through registers, entries stored in memory, the vector of `mtvec`,
and the stores that hit code. **RvOpt** is what it makes of that: folds, forwarded loads,
promoted loop words, safepoints, dispatch tables, addresses, and the three separate counts of
immediate cells; `Compile` is the plan of an image or the reason for refusing the program.
**RvImage** runs that plan: a step is one node as `emit_one32` emits it (safepoint, loads in
front of a loop, the block itself, the stores behind one), where a block means what `Lowering`
shows it does. **RvGuest** is the program on the ISA of `Rv32i`, with the interrupts taken where
`RvImage` takes them. The programs of **MCRvImage** come in families (forwarding, loops, calls,
system calls, stores into the code, indirect jumps, timers), each template filled in all ways.

**Terminal** is raw mode and the signals: `enter_raw_mode` and `leave_raw_mode` a statement at
a time on a stack of `frames`, the handlers around them, and the system's rules (what is
pending, what is blocked, what a stop and SIGCONT discard). **ImageFile** has the image's
allocation, growth and cells. **NativeHost** composes them in `main`: command line, load,
`terminal_setup`, an arbitrary image that writes the `EDIT_*` protocol and reads, and exit.

## Runs

| run | instance | what it shows |
|---|---|---|
| `mux_exec` | 5-bit cells, 8 of them, 2880 images around two instructions that patch each other, any host | fused pairs equal sequential execution (`ImplementsSequential`), forwarded operands are those in memory, every return can be retried |
| `hosts` | browser: ring of 2, two bytes, texts of 1 and 3, slices 1 to 4; native: one killing signal, three signals in all, two keys, files of up to 9 tokens in arenas of 2 to 8 cells of three bits | browser: input is a stream through two queues, no output overrun, rest is real, no lost wake-up, every byte is read; native: the image is loaded whole, the terminal follows the image, nothing is left raw, reads answer truly, kills kill |
| `page` | output: prelude of three lines that may fail, four kinds of user line, three lines in flight, turns ending anywhere; widget: three lines of 1 to 3 words, pastes of two lines, three machines | output: what the user prints is shown, all but byte 13, the reporter is repaired after an error no later line overtook, nothing is withheld, `pump` returns; widget: stepped lines do not mix with anything, a reset gets no rest of an old line, the source file is compiled once |
| `transcript_lines` (violation) | two lines in flight, one of them in error | the error is forgotten |
| `tasker` | three tasks, one cell, one message, two calls, one cut | transparent switches, own stacks, whole ring, mail, round robin |
| `blocks` | one task, 3 blocks, 3 contents, numbers from -1 to 4 | the words implement `BlockDevice`: `block` reads what was saved, what was marked is put back |
| `rtos` | three lockers (priorities 4, 2, 1), a task in the middle (3), idle, count to 2 | mutual exclusion, whole queues, no lost token or hand-over, boosts borrowed, no inversion, and its end |
| `lowering` | 8-bit cells, bytes of 2 bits, window of 8, operands {0, 1, 2, 127, 128, 129, 255}, every aliasing of three registers | each block implements its instruction and leaves the pool alone, and ends |
| `lowering_indirect` (violation) | `jalr` with two known targets | only the first can be reached |
| `rvopt_image` | some 4500 programs of up to about ten instructions, timer and indirect options on and off | the image does what the program does on the ISA, no stale code runs where the edges of `successors` lead, the counts of immediates agree |
| `rvopt_callee` (violation) | a callee that stores into its caller's code or its own, called once or twice | stale code runs after the return |
| `rvopt_start` (violation) | a program that is a promoted loop from its first instruction on | the loop's words are not loaded on the way in |

Two runs check two components each. **MCHosts** has both hosts: an image has one of them, so that
the one that takes the first step takes them all, from the same beginning as if it were alone.
**MCPage** has the two halves of the page, `Transcript` and `EditorView`: each models an image of its
own and they share no variable, so that interleaving them would only multiply the states; the
widget's steps are taken from one state of the other, booted and at rest.

Why the bounds are enough:

- *MuxExec*. The fusion test looks at two instructions and at one cell that both touch;
  eight cells hold both with room for operands in and out of the code, and five bits keep
  the markers, the sign and the address bits apart. The halt boundary and the wrap of `pc`
  are inside the arena. Two bytes of I/O (`MaxIO`) put one before and one after a pair.
- *WasmHost*. A ring of two with counters modulo four goes through full, empty and wrapped
  in every phase; the mark is below the capacity, as in the code.
- *ForthDriver*. A text longer than the ring makes `pending` and the ring both non-empty,
  and `MaxPending` lets two texts queue.
- *Transcript*. `MaxInFlight = 3`: an error, a line that overtakes it and one more behind both.
  `MaxKept = 1`: the user types ahead, in a deferred frame, only while no more than that much text
  is kept back, which can only be before boot has ended; at rest he types whatever is kept. So the text
  kept while booting is bounded, and a pump that is not at rest still has several lines in flight.
- *EditorView*. `MaxMachines = 3` lets a fetch and a stepped line be overtaken by two
  resets; `MaxFed = 3` covers the longest line whole and one line after another.
- *Tasker*. A ring of three is the first in which unlinking and relinking differ from
  swapping; `MaxCalls = 2` gives two senders to one mailbox; `MaxCuts = 1` one error or
  second activation, after which the properties about the ring claim nothing.
- *Blocks*. Three blocks: one in the buffer, one wanted, one that neither touches.
- *Rtos*. Two waiters and a thief need three lockers; a middle task is what inversion is
  about. `MaxCount = 2` bounds how far the semaphore is posted ahead.
- *Lowering*. Eight bits have the same carry and sign behaviour as 32 at the
  samples, which lie on both sides of every boundary; `BYTE = 2` makes a word four bytes,
  as in the code, and accesses wrap and mask the same way. The interrupt bits are moved
  into the eight (MIE 3, MPIE and MTI 5). Positions in a block are below `HALT` (9999), and the
  numbers above it stand for the code of other guest instructions (`Native`); `MaxKnown` (1000)
  bounds the list of known addresses of a jump, the only part of a block whose length depends on
  the program, and `MaxWidth` (100) the width, on which the length of a shift depends, so that
  every block ends below `HALT`.

- *RvImage*. The programs are templates around what each analysis looks at: stores and loads
  through equal, different and overwritten bases, labels between them, loops with one or
  two words, entered and left at different places, one behind another, calls and returns,
  system calls with known and unknown numbers, vectors, code stored to byte by byte, ahead and behind,
  by a branch's side or by a callee, and
  entries in memory. Values are chosen so that a wrong register, word or path shows. `MaxRounds`
  (6) bounds the rounds of the analysis, which the code repeats until nothing changes; three are
  enough for every one of the programs.
- *NativeHost*. Three signals are a suspension, its resumption and a third in the middle of
  either. With two different killing signals nothing changes but the time (1.4 million states).
  A file of 9 tokens overflows the largest arena, one of 3 and 5 grow it; two keys are
  one for a read and one for stdio to read ahead.

`CHECK_DEADLOCK FALSE` stands where the modelled system may stop: `MCHosts` (a stopped
or halted machine with nobody typing; a process that has exited), `Rtos` (every task has exited),
`Lowering` (the block has ended).

## Fairness

- `ForthDriver`, `Transcript`: a turn's machine steps and its JavaScript go on, and a
  requested animation frame arrives. Nobody has to type, and nobody has to stop.
- `Tasker`: `WF_vars(Runs)`. There is one processor and it goes on executing; the action is
  whatever the running task does next, so a program may loop between pauses only if
  pauses are among what it does. `EveryTaskRuns` says nothing while `single` is on.
- `Rtos`: the trap (every loop has a safepoint, so interrupts keep being taken), a task
  that is awake inside a call goes on with the call, and a task that holds the mutex and
  runs unlocks it eventually. A task in its own code may compute for ever.
- `Lowering`: the machine steps.
- `NativeHost`: the routines and handlers on the stack go on, and what is pending is delivered.
  Nobody has to send SIGCONT, and the image need not do anything.

## Proofs

TLAPS checks these for every value of the constants that satisfies the named
assumptions in the modules (`WidthAssumption` and its neighbours, `TasksAssumption`,
`KeyAssumption`, `RingAssumption`, `KillsAssumption`, `PowerAssumption`, `InsnAssumption`, ...): any
cell width and arena, any images, any number of blocks and tasks, any priorities, any ring, texts
and lines, any signals and files, any guest program and guest instruction. `InsnAssumption` asks of
an instruction what `decode_word` and the folder make of a word (`Lowerable`): a kind that
`emit_one32` lowers, operands and offsets that fit a cell, a shift of less than the width, and no more than `MaxKnown` known addresses; and of the
guest that an access that begins in the window of RAM ends in it (`Within`), which is all rvopt
folds. `GuestAssumption` asks that the window be a power of two, since a block masks with it, that
the width be one, since a shift masks its amount with the width less one (32 in the code), and that
bytes fill a word (8 in the code).

- `MuxExecProofs`. The invariant is `TypeOK /\ ForwardingIsLive /\ Retryable`, and it is
  inductive as it stands: a latched pair is created from the memory it describes, nothing
  but `FusedAlu` happens while there is one, and every return goes through `Return` at a
  loop top, where there is none. `FusedLoopImplementsMuxleq` maps the pc inside a pair
  to the instruction behind the MOVE (`SequentialPc`): the two halves of a pair are two
  steps of `Muxleq`, calls and returns are stutters. `ForwardingIsLive` is what makes the
  second half a step of `Muxleq`, which fetches from memory.
- `HostsProofs`, the part about `ForthDriver`. `Inv` adds to the properties that the counters alone say how full the
  ring is (`RingHolds`), that the output buffer is empty between turns and reaches the mark only
  with the instruction that ends the slice (`RoomForOutput`), and that what `mux_run` returned
  still holds when the turn looks at it (`ReturnsAreTrue`). The counters wrap and the slots wrap
  earlier: that a counter that has wrapped still finds its slot needs the ring to divide the
  counters (`RingAssumption`, `SlotWraps`), as `MUX_INQ` does. `DriverImplementsStream` then
  maps the ring, read off as a sequence, and `pending` behind it to the queue of
  `ByteStream`, step by step: a text sent extends the queue by exactly itself, moving bytes from
  `pending` to the ring leaves it alone, a read takes its head, and only a read that has a peek to answer and an
  empty ring is told "none". That `unread` is always that queue is the equality it rests on.
- `PageProofs`, the part about `Transcript`. The invariant is about `Drained`, what `drain` would make of the whole
  output buffer, because neither a byte printed nor a turn ended moves that from one side of
  the boot to the other: the boot is at one of the places `Boots` lists, in the order of the
  prelude, or over (`Booted`), and from then on what user lines have printed and the page has
  not got is the text drained (`UserBytesReachThePage`). `Drained` is defined by a recursive
  function; that it takes one byte at a time (`DrainMore`) and is the identity on text after the
  boot (`AfterBoot`) is proved by the least counterexample (`AllNaturals`). For
  `LastErrorRepaired` the invariant follows a report through the turns that cut it: being printed,
  half of it in the rolling tail, seen, or `+ok` under way, or a later line of the user's has been
  interpreted since. That exception is the one the code has (finding 3); there is no
  hypothesis on the lines in flight. `NothingIsWithheld` says also that after a good boot the driver
  is in no frame, which is why nothing is swallowed then; after a failed one it can be (see the limits
  below).
- `PageProofs`, the part about `EditorView`. For any lines, pastes and number of machines. `Inv` adds that the last code
  the machine was sent is the word `step` sent last, while its line is in flight (`InStep`),
  that `stepping` and the line held agree (`StepHeld`), and that a file still awaited has not
  been submitted (`NotYetFetched`). The properties speak of the feed by index, so that every step
  that feeds is one lemma about appending. `SteppedLinesAreWhole` is the action property.
- `HostsProofs`, the part about `NativeHost`. Two invariants. `TermInv` is about the terminal, and holds for any number of
  signals on a stack of handlers of any depth: who may stand above whom (`Stacked`), that a kill taken
  once is pending again or being handled (`KillsPending`), who may enter raw mode (`Wanting`),
  where the flag and the terminal may disagree (`FlagLags`), and, for each direction, that whoever
  will not look at the flag again has left the terminal cooked or has been overtaken
  (`EntersOver`, `LeftCooked`), and that a terminal that is not as the image wants it has
  something pending or on the stack that puts it right (`ResumeEnters`, `ProgramEnters`,
  `WantedIsRaw`). There is one lemma per way through an action, with one step per conjunct.
  `AnswersTrue` adds `InputHeld`, about what stdio has read ahead and an end of input that only
  a dying process reads. `Loading` is about the image: after `n` cells the arena is the
  least that `alloc_muxleq` and `grow_muxleq` can have made, filled with the first `n` and zero
  behind. Powers of two grow and double by counting subsets (`PowerDoubles`), since the provers
  know nothing of exponents. `KillsAssumption` says that the killing signals are neither
  SIGTSTP nor SIGCONT, and no names of the program's routines.
- `RvoptProofs`. `LayoutSafe`: for every program the three counts of immediate cells that
  `emit_mux` relies on are of the same set (`LayoutAgrees`), an invariant with no strengthening
  because the plan of an image is fixed when it starts; the work is in the flattened sequences
  the counts are taken from. The rest of the module is what `LoweringProofs` goes on from: the
  program logic, words and bits, arithmetic, comparisons, branches, CSRs and safepoints.
- `LoweringProofs`. `BlockImplementsISA`: at every width, from every guest state, with anything in
  the scratch cells and whichever registers coincide, a block can end only in the guest state
  that `Rv32i` gives, with the pool as it was. It is about every instruction that `emit_one32`
  lowers except a `jalr` of which the image knows several targets (`OneTarget`); that exception is
  finding 1. `ImageImplementsISA` is the invariant itself, for images without that. The blocks are
  run by a small program logic: a piece of code at a place (`Piece`, `Holds`), what a run of it
  makes of the cells (`Gets`), what it leaves alone (`Alike`), and that the pool is in place (`Good`).
  There is one lemma per emitter, in the order the emitters use one another, then one per kind
  (`MeansSet` and its neighbours). A shift copies bits one by one, and so do extraction, assembly
  and sign extension: all are one loop from lanes to lanes (`Gather`), proved once. An access
  patches the operand of the instruction behind it, so that its lemmas are about code that has
  just changed (`PatchRuns`); a wider access is an induction on its bytes, with what has been
  assembled or stored so far (`LoadInv`, `StoreInv`). Two blocks loop when they run, and there the
  invariant is what is done after so many rounds: `LoopInv` for a shift by a register, whose
  rounds add up (`ShiftAgain`), and `WriteInv` for `write`, whose bytes are out in order and wrap
  at the end of the window while its counter comes down to zero (`WriteLoops`). Words are numbers, and
  the bits of one are a set of lanes: `PowerAssumption`, doubling, determines the powers of two,
  and binary notation at every width follows by the least counterexample (`AllNaturals`), as does
  the jump through the list of known addresses, one entry after another. The machine is
  deterministic, so that the invariant of the theorem is that the run is one of the steps between
  the beginning of the block and the end computed for it (`Begun`).
- `BlocksProofs`. `TypeCorrect` is for any number of tasks. `BlocksImplementDevice` is for
  one task, and uses `AloneInv == TypeOK /\ TransferIsAlone`: a transfer in progress is
  the task's own, and what it is about to copy is what the words decided. It follows that the end of the
  copy is the arrival of the open block's text, with the text unchanged: `block k` gives what was
  saved of `k`. With two tasks that is false (see the limits below).
- `RtosProofs`. One invariant `Inv` serves all six theorems. To the properties it adds that
  the trap saves the running task in its own frame (`OneRuns`), that idle is always ready
  (`IdleIsReady`; without it `scheduler_tick` would have nothing to choose), that the
  owner is the one task inside and nobody inside is in `mutex_lock` again
  (`HolderIsInside`), that whoever queued behind the present holder has lent it his
  priority (`HolderInherits`), and that `alive` counts the living. That a queue is a list of
  its waiters is stated as an explicit sequence, so that a push appends and a pop takes
  the tail, with no induction. The maximum over the priorities exists because they are
  bytes. TLC checks `Inv` on the instance of `Rtos.cfg` as well.
- `TaskerProofs`. One invariant `Inv` again. Besides the properties it says that a full mailbox
  holds a message (`MailHasText`; the sender is looked at, the text is not), that links lead
  only to activated tasks even where the ring is cut (`LinksAreActive`; `activate` finds the
  running task in the ring), and that a waiting task linked to itself is as `activate` set
  it up (`SelfLinkedIsFresh`; without it a second activation that happens to leave the
  links alone would look like a switch that is not transparent). Steps are sorted into those
  that pause, whose whole effect on the registers is one lemma (`PauseEffect`), those in which
  the running task just goes on, `activate` and the error. `RingGrows` follows the ring
  through `InsertAt`, index by index.

Only model-checked:

- `ImplementsGuest` and `NoStaleOnPath` (`RvImage`). The first needs the soundness of every analysis
  of `RvFront` and every form of `RvOpt` together. The second is not a property of the analyses
  alone: they trust that a store whose base they do not know stays out of the code, so that it
  holds of the programs of the run, and not of every program. `RvGuest` lets a tick take any number of
  instructions, so that how many instructions a safepoint counts is not compared with the guest.
- `ImplementsISA` (`Lowering`) of a `jalr` with several known targets: it is false there
  (finding 1), and the instance of `Lowering.cfg` has one target.
- Liveness (`EveryByteRead`, `PumpReturns`, `EveryTaskRuns`, `InversionEnds`, `EveryBlockEnds`,
  `KillsEnd`), which is out of the prover's reach.

Every other property of a passing run is a theorem. What is proved by induction over data (the
bytes drained, the least arena) uses the library's `WFMin`, least elements of a well-founded
relation, on explicit sets of numbers.

## Findings

1. `lowering_indirect`: `emit_jalr_entry_dispatch32` compares the target with each entry
   in turn, and the comparison destroys its operand, because the target is in `t0`
   (`rvopt.c:2819`): only the first entry can be reached, and any other jump halts. The
   emitted code of a small program with two function pointers shows the same.
2. `rvopt_start`: `compute_promotions` counts the edges into a loop from node 1 on and misses the
   one from START (`rvopt.c:1359`): when the first instruction of the program is the header of
   a loop, a jump back to it from outside passes for the only way in, and on the first pass the
   loop reads cells that nobody has loaded. `rvopt.c:1299` speaks of "exactly ONE external
   entry edge".
3. `transcript_lines`: with two lines in flight, a turn ends inside the report of the first, and
   the second half arrives in one chunk with the prompt of the second line. `ERROR_REPORT` is anchored at
   the end of the output and does not match (`forth.js:343`): the page rests without the reporter.
   `forth.js:239` says that with several lines in flight "an error on an early one must not be
   forgotten", and `wasm/test.mjs:107` tests a case in which it is not.
4. `rvopt_callee`: `successors` gives a `ret` no successor (`rvopt.c:924`), so that
   `reaches_after` does not look past the return of the function that stores. A store to a
   constant address in the code behind a call is compiled and the old instruction runs;
   `rvopt.c:1060` says that "constant-address SMC into live code is refused here".

## Known limits of the code

Behaviour met while modelling that no run is about. Three cases contradict a comment of the
repository; they are as good as findings, and no property claims the opposite:

- A boot that fails after the start of its frame leaves `inFrame` set (`forth.js:251`), so that its
  report, and all that is printed until a byte 2, is swallowed. `forth.js:248` says "Stop swallowing
  output and show whatever it did say". `NothingWithheld` speaks of frames after a good boot only.
- `drain` drops byte 13 (`forth.js:325`). Its comment says that after boot "every byte is the user's"
  (`forth.js:308`), and `wasm/test.mjs:89` the same. `UserBytesShown` excepts that byte.
- The end of a stepped line clears `busy` (`editor.js:279`) even when its last word is a program that
  still runs; keys then go to the input line. `editor.js:294` says "A running program owns the
  keyboard". `NoInterleaving` is about the words of a stepped line, not about whose keys these are.

The rest is behaviour that the repository's comments and documents do not speak of, or declare out
of scope:

- Page. A repair whose own words are broken never returns (`PumpReturns` excludes a user who
  redefines them). A repair may land in a running program as keys (`forth.js:98` says so).
  Unticking the step box drops the rest of the line. The rest of a pasted text goes to
  the new machine after a reset. A fetched file may arrive in the middle of a stepped line.
- Multitasker. An uncaught error at the prompt reinitialises the terminal task with `task-init`,
  which closes the ring over that task alone: no other task runs again
  (`50-tools-blocks-io.fth:215`). A second `activate` of an active task cuts others out of the ring;
  `activate` passes a byte address where `task-init` takes a cell address. `single` while
  a task waits for another stops both. Of two senders to one receiver one may never get
  through. A second `signal` before the `wait` is lost.
- Blocks. `buffer` books the new block before `(block)` pauses and copies: another task may move
  the buffer in between, and the first then holds an address that `blk0` says is another
  block's, where its `update flush` goes (`50-tools-blocks-io.fth:106`). `load` of a block that itself uses blocks reads on from the buffer's new
  content. `-1 block` is taken for the empty buffer's number. Low block numbers lie over
  the image.
- RTOS. Equal priorities are not round-robin. A task that unlocks and locks again
  before the next trap keeps the mutex from the waiter it woke. A boost is lost for waiters that
  queued before a new holder (declared in `rtos.c`). Safepoints are at loop headers only.
- rvopt. A half or word access over the top of the window leaves guest RAM (excluded by
  contract, `rvopt.c:2093`). `mtime` wraps at 2^32. Loads from code read 0. With indirect jumps
  allowed, a tail call makes `ret` compare with the return sites of the tail-called function
  only, and halt at its caller's.
- Native host. A signal that kills or stops between the statement that sets the terminal and the
  one that sets the flag leaves the terminal raw. SIGCONT while a suspension is leaving raw mode
  enters it again underneath: the process stops raw, or comes back cooked with the flag set, and
  stays so. SIGCONT after exit's `leave_raw_mode` leaves it raw. SIGPIPE and SIGKILL die raw.
- Instruction set. A mask address of 6 is a MOVE whatever cell 6 holds: the code calls the cell
  hardwired, and the README's pseudo-code reads it. They agree as long as an image leaves it zero; the
  model follows the code.

## Not modelled

- *eForth inner interpreter, words, modal editor*: sequential, large, and compared by the
  repository's tests with known output at every build. What in them interleaves (`pause`, the
  blocks, the peek) is in `Tasker`, `Blocks` and `NativeHost`.
- *Allocator*: a sequential algorithm over memory. Reading it showed that a remainder of two cells
  or less is given out with the block while the size stored is the one asked for, so that
  those cells do not come back, and that a request that fits the first free block exactly
  is refused (`63-optional-allocation.fth:38`).
- *Decompiler and glossary* only print. The *meta-compiler* and the *build scripts* run once and
  are decided by the bootstrap comparison of the Makefile.
- *rvopt*: the ELF loader and the bits of `decode_word` (instructions come decoded), the dump and
  check commands and the value edges only they read, and the bytes the epilogue puts when a program
  runs off its end. A `jalr` with two or more known entries is left out of `rvopt_image`, and a
  program that begins with a promoted loop: findings 1 and 2 are about them.
- *Browser host*: `mux_eof`, which the page never calls, and the command-line `main` of its native
  build. *Page*: painting, history recall, the stack viewer's drawing.
- *Multitasker*: user variables other than those a task switch saves.
- *Native host*: SIGSTOP and SIGKILL from outside, SIGPIPE, SIGTTOU, the buffering of stdout, and a
  `tcsetattr` that fails in `leave_raw_mode` (`muxleq.c:207`), whose result the code does not look at.
