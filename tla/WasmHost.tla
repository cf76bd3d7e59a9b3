------------------------------- MODULE WasmHost -------------------------------
(***************************************************************************)
(* wasm/muxleq-wasm.c: the host that never blocks.  Its input ring, output *)
(* buffer and budget, around an image that may execute any instruction.    *)
(* What the page calls of its exports is an action or an operator here;    *)
(* who calls them, and when, is in ForthDriver.                            *)
(*                                                                         *)
(* The interpreter is MuxExec seen from the host: the instruction at pc,   *)
(* the order of mux_exec's tests, and a pc that stays put when a call      *)
(* fails.  Output is counted, not stored: its content is in Transcript.    *)
(***************************************************************************)
EXTENDS Naturals, Sequences

CONSTANTS
  Byte,             \* the bytes typed
  PeekNone,         \* EDIT_PEEK_NONE
  IN_QUEUE, OUT_BYTES, OUT_HIGH_WATER,
  CounterModulus,   \* 2^32: in_head and in_tail run free and wrap
  BudgetModulus     \* 2^32: budget wraps when tested at zero

ASSUME RingAssumption ==
  /\ IN_QUEUE \in Nat \ {0} /\ CounterModulus \in Nat \ {0}
  /\ CounterModulus % IN_QUEUE = 0
  /\ CounterModulus > IN_QUEUE
ASSUME OutAssumption ==
  /\ OUT_HIGH_WATER \in Nat \ {0} /\ OUT_BYTES \in Nat
  /\ OUT_HIGH_WATER <= OUT_BYTES
ASSUME ByteAssumption == Byte \subseteq Nat /\ PeekNone \notin Byte
ASSUME BudgetAssumption == BudgetModulus \in Nat \ {0}

VARIABLES
  in_queue, in_head, in_tail,   \* the ring
  input_ended,
  out_len,
  budget,
  peek_pending,
  insn,      \* the instruction at vm.pc, as the host can tell them apart
  key,       \* the cell the last read stored
  rc         \* "RUN" inside mux_run, else what it returned

ring == <<in_queue, in_head, in_tail>>
hostVars == <<in_queue, in_head, in_tail, input_ended, out_len, budget,
              peek_pending, insn, key, rc>>

(* compute: no host call; get, put, peek, raw: the byte, the peek request   *)
(* and the two mode switches of the EDIT_* protocol; halt: pc negative.     *)
Insns  == {"compute", "get", "put", "peek", "raw", "halt"}
Status == {"RUN", "MUX_OK", "MUX_ERR_OUTPUT", "MUX_YIELD", "MUX_NEED_INPUT"}

(* mux_reset; the budget is left alone until the first mux_run. *)
HostReset ==
  /\ in_queue = [i \in 0 .. IN_QUEUE - 1 |-> 0]
  /\ in_head = 0 /\ in_tail = 0
  /\ input_ended = FALSE /\ peek_pending = FALSE
  /\ out_len = 0
  /\ insn \in Insns \ {"halt"}
  /\ key = PeekNone

Slot(n) == n % IN_QUEUE
Queued  == (in_tail + CounterModulus - in_head) % CounterModulus
Space   == IN_QUEUE - Queued
Empty   == in_head = in_tail

(* The bytes in the ring, oldest first. *)
InRing == [i \in 1 .. Queued |-> in_queue[Slot(in_head + i - 1)]]

------------------------------------------------------------------------------
(* Mutant of Accepted: the ring is taken to be full one byte too late. *)
AcceptedOverrun(s) == IF Len(s) <= Space + 1 THEN Len(s) ELSE Space + 1

(* mux_push of each byte of s in turn, until one is refused. *)
Accepted(s) == IF Len(s) <= Space THEN Len(s) ELSE Space

PushAll(s) ==
  LET n == Accepted(s)
  IN  /\ in_queue' = [i \in 0 .. IN_QUEUE - 1 |->
                        IF \E k \in 1 .. n : Slot(in_tail + k - 1) = i
                          THEN s[CHOOSE k \in 1 .. n : Slot(in_tail + k - 1) = i]
                          ELSE in_queue[i]]
      /\ in_tail' = (in_tail + n) % CounterModulus
      /\ UNCHANGED in_head
------------------------------------------------------------------------------
(* mux_run(slice), up to its first test. *)
MuxRun(slice) == rc' = "RUN" /\ budget' = slice

AtBudgetTest == rc = "RUN"

Tick    == budget' = budget - 1
Running == AtBudgetTest /\ budget # 0

(* budget-- == 0: the slice ends, and the counter wraps. *)
Exhausted ==
  /\ AtBudgetTest /\ budget = 0
  /\ budget' = BudgetModulus - 1
  /\ rc' = "MUX_YIELD"
  /\ UNCHANGED <<ring, input_ended, out_len, peek_pending, insn, key>>

Halted ==
  /\ Running /\ insn = "halt"
  /\ Tick /\ rc' = "MUX_OK"
  /\ UNCHANGED <<ring, input_ended, out_len, peek_pending, insn, key>>

(* An instruction without a host call, or a mode switch the host drops. *)
Compute ==
  /\ Running /\ insn \in {"compute", "raw"}
  /\ Tick
  /\ insn' \in Insns
  /\ UNCHANGED <<ring, input_ended, out_len, peek_pending, key, rc>>

PutPeek ==
  /\ Running /\ insn = "peek"
  /\ Tick /\ peek_pending' = TRUE
  /\ insn' \in Insns
  /\ UNCHANGED <<ring, input_ended, out_len, key, rc>>

OutFull == out_len >= OUT_BYTES

(* Mutant of EndsSlice: the slice goes on until the buffer is over full. *)
EndsSliceLate(len) == len > OUT_BYTES
EndsSlice(len) == len >= OUT_HIGH_WATER

(* wasm_putc: a full buffer fails the instruction, which is tried again by *)
(* the next run.                                                           *)
Put ==
  /\ Running /\ insn = "put"
  /\ IF OutFull
       THEN Tick /\ rc' = "MUX_ERR_OUTPUT" /\ UNCHANGED <<out_len, insn>>
       ELSE /\ out_len' = out_len + 1
            /\ budget' = IF EndsSlice(out_len + 1) THEN 0 ELSE budget - 1
            /\ insn' \in Insns
            /\ UNCHANGED rc
  /\ UNCHANGED <<ring, input_ended, peek_pending, key>>

(* wasm_getc.  Whatever it answers, a pending peek has been used up. *)
GetByte ==
  /\ Running /\ insn = "get" /\ ~Empty
  /\ key' = in_queue[Slot(in_head)]
  /\ in_head' = (in_head + 1) % CounterModulus
  /\ Tick /\ peek_pending' = FALSE
  /\ insn' \in Insns
  /\ UNCHANGED <<in_queue, in_tail, input_ended, out_len, rc>>

(* Mutant of PeekNothing: the request outlives the read that answered it. *)
PeekNothingAgain ==
  /\ Running /\ insn = "get" /\ Empty /\ peek_pending
  /\ key' = PeekNone
  /\ Tick
  /\ insn' \in Insns
  /\ UNCHANGED <<ring, input_ended, out_len, peek_pending, rc>>

PeekNothing ==
  /\ Running /\ insn = "get" /\ Empty /\ peek_pending
  /\ key' = PeekNone
  /\ Tick /\ peek_pending' = FALSE
  /\ insn' \in Insns
  /\ UNCHANGED <<ring, input_ended, out_len, rc>>

(* An empty read ends the run or suspends it. *)
EmptyRead == IF input_ended THEN "MUX_OK" ELSE "MUX_NEED_INPUT"

GetWaits ==
  /\ Running /\ insn = "get" /\ Empty /\ ~peek_pending
  /\ Tick
  /\ rc' = EmptyRead
  /\ UNCHANGED <<ring, input_ended, out_len, peek_pending, insn, key>>

(* Every step of a turn but the one that takes a byte. *)
NoByte ==
  \/ Exhausted \/ Halted \/ Compute
  \/ PutPeek \/ Put
  \/ PeekNothing \/ GetWaits

==============================================================================
