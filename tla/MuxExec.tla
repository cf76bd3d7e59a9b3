------------------------------- MODULE MuxExec -------------------------------
(***************************************************************************)
(* mux_exec: the interpreter loop shared by the native and the browser     *)
(* host, with its fused MOVE pair, its host calls and its return statuses. *)
(*                                                                         *)
(* One iteration of the loop is one step, except that a fused pair is two: *)
(* the MOVE's store, which latches the next instruction's operands, then   *)
(* exec_alu on the latched operands.  The host is nondeterministic: any    *)
(* call of MUX_GETC, MUX_PUTC or MUX_OUT_OF_BUDGET may have any outcome     *)
(* its contract allows, so the native host (which never blocks and has no  *)
(* budget) is among the behaviours.                                        *)
(***************************************************************************)
EXTENDS MuxWord, Sequences

CONSTANTS
  Images, InputCells,   \* as in Muxleq
  MaxIO,                \* bound: bytes moved in a behaviour
  NoPair                \* no fused pair is in flight

ASSUME ImageAssumption == Images \subseteq [Addr -> Cell]
ASSUME InputAssumption == InputCells \subseteq Cell
ASSUME BoundAssumption == MaxIO \in Nat

VARIABLES
  m,        \* st->m
  pc,       \* the local pc
  stpc,     \* st->pc
  status,   \* "RUN" inside mux_exec, else what it returned
  pair,     \* operands latched by a fused MOVE, or NoPair
  io        \* bytes moved (history)

vars == <<m, pc, stpc, status, pair, io>>

Operand(k) == m[Arena(pc + k)]

Statuses == {"RUN", "MUX_OK", "MUX_ERR_OUTPUT", "MUX_YIELD", "MUX_NEED_INPUT"}
Pair     == [a : Cell, b : Cell, c : Cell, next : Cell]

ASSUME NoPairAssumption == NoPair \notin Pair

TypeOK ==
  /\ m \in [Addr -> Cell]
  /\ pc \in Cell /\ stpc \in Cell
  /\ status \in Statuses
  /\ pair \in Pair \cup {NoPair}
  /\ io \in Seq({"in", "out"} \X Cell)

Init ==
  /\ m \in Images
  /\ pc = 0 /\ stpc = 0
  /\ status = "MUX_YIELD"          \* not called yet
  /\ pair = NoPair
  /\ io = <<>>

(* The caller enters, or re-enters, mux_exec with the same state. *)
Call ==
  /\ status # "RUN"
  /\ status' = "RUN"
  /\ pc' = stpc
  /\ UNCHANGED <<m, stpc, pair, io>>

(* Mutant of Return: st->pc is not written back. *)
ReturnUncommitted(rc) ==
  /\ status' = rc
  /\ UNCHANGED <<m, pc, stpc, pair, io>>

(* Leaving the loop: st->pc = pc, return rc. *)
Return(rc) ==
  /\ status' = rc
  /\ stpc' = pc
  /\ UNCHANGED <<m, pc, pair, io>>

(* Between iterations: the only place the budget and the halt are tested. *)
AtLoopTop == status = "RUN" /\ pair = NoPair
AtInsn    == AtLoopTop /\ ~Negative(pc)

OutOfBudget == AtLoopTop /\ Return("MUX_YIELD")

Halt == AtLoopTop /\ Negative(pc) /\ Return("MUX_OK")

AtGet == AtInsn /\ Operand(0) = IO_MARKER32
AtPut == AtInsn /\ Operand(0) # IO_MARKER32 /\ Operand(1) = IO_MARKER32
AtAlu == AtInsn /\ Operand(0) # IO_MARKER32 /\ Operand(1) # IO_MARKER32

GetWouldBlock == AtGet /\ Return("MUX_NEED_INPUT")
GetEof        == AtGet /\ Return("MUX_OK")

GetByte ==
  /\ AtGet
  /\ Len(io) < MaxIO
  /\ \E v \in InputCells :
       /\ m'  = [m EXCEPT ![Arena(Operand(1))] = v]
       /\ io' = Append(io, <<"in", v>>)
  /\ pc' = Wrap(pc + INSN_SIZE)
  /\ UNCHANGED <<stpc, status, pair>>

PutFails == AtPut /\ Return("MUX_ERR_OUTPUT")

PutByte ==
  /\ AtPut
  /\ Len(io) < MaxIO
  /\ io' = Append(io, <<"out", m[Arena(Operand(0))]>>)
  /\ pc' = Wrap(pc + INSN_SIZE)
  /\ UNCHANGED <<m, stpc, status, pair>>

(***************************************************************************)
(* A MOVE.  If its store landed on an operand field of the next            *)
(* instruction, and that is neither I/O nor past the halt boundary, the    *)
(* pair is fused: the operands are latched, the written one forwarded.     *)
(***************************************************************************)
Hits(d, np) == Arena(d - np) < INSN_SIZE

(* Mutant of Forward: the operand as it was before the MOVE's store. *)
ForwardStale(d, va, at) == m[at]

Forward(d, va, at) == IF d = at THEN va ELSE m[at]

Latch(d, va, nextPc) ==
  LET np == Arena(nextPc)
  IN  [a |-> Forward(d, va, np),
       b |-> Forward(d, va, Arena(np + 1)),
       c |-> Forward(d, va, Arena(np + 2)),
       next |-> nextPc]

(* Mutant of Fuses: a pair is fused across the halt boundary. *)
FusesPastHalt(d, va, nextPc) ==
  /\ Hits(d, Arena(nextPc))
  /\ Latch(d, va, nextPc).a # IO_MARKER32
  /\ Latch(d, va, nextPc).b # IO_MARKER32

Fuses(d, va, nextPc) ==
  /\ ~Negative(nextPc)
  /\ Hits(d, Arena(nextPc))
  /\ Latch(d, va, nextPc).a # IO_MARKER32
  /\ Latch(d, va, nextPc).b # IO_MARKER32

Move ==
  /\ AtAlu /\ IsMove(Operand(2))
  /\ LET d      == Arena(Operand(1))
         va     == m[Arena(Operand(0))]
         nextPc == Wrap(pc + INSN_SIZE)
     IN  /\ m' = [m EXCEPT ![d] = va]
         /\ IF Fuses(d, va, nextPc)
              THEN pair' = Latch(d, va, nextPc) /\ pc' = pc
              ELSE pair' = NoPair /\ pc' = nextPc
  /\ UNCHANGED <<stpc, status, io>>

FusedAlu ==
  /\ status = "RUN" /\ pair # NoPair
  /\ m'  = AluMem(m, pair.a, pair.b, pair.c)
  /\ pc' = AluPc(m, pair.a, pair.b, pair.c, pair.next)
  /\ pair' = NoPair
  /\ UNCHANGED <<stpc, status, io>>

Alu ==
  /\ AtAlu /\ ~IsMove(Operand(2))
  /\ m'  = AluMem(m, Operand(0), Operand(1), Operand(2))
  /\ pc' = AluPc(m, Operand(0), Operand(1), Operand(2), pc)
  /\ UNCHANGED <<stpc, status, pair, io>>

Next ==
  \/ Call
  \/ OutOfBudget \/ Halt
  \/ GetWouldBlock \/ GetEof \/ GetByte
  \/ PutFails \/ PutByte
  \/ Move \/ FusedAlu \/ Alu

Spec == Init /\ [][Next]_vars

------------------------------------------------------------------------------
(***************************************************************************)
(* The pc of the sequential machine: inside a fused pair the MOVE is over. *)
(***************************************************************************)
SequentialPc == IF pair = NoPair THEN pc ELSE pair.next

Core == INSTANCE Muxleq WITH pc <- SequentialPc

(* Running the fused pair leaves "state byte-identical to running the two  *)
(* instructions in sequence" (muxleq-core.h, MOVE branch of mux_exec): the *)
(* interpreter, slices and failed host calls included, implements Muxleq.  *)
ImplementsSequential == Core!Spec

(* Operand forwarding: what a fused pair is about to execute is exactly    *)
(* what a reload from memory would give, and never an I/O instruction or   *)
(* one past the halt boundary.                                             *)
ForwardingIsLive ==
  pair # NoPair =>
    /\ status = "RUN"
    /\ ~Negative(pair.next)
    /\ pair.a = m[Arena(pair.next)]
    /\ pair.b = m[Arena(pair.next + 1)]
    /\ pair.c = m[Arena(pair.next + 2)]
    /\ pair.a # IO_MARKER32 /\ pair.b # IO_MARKER32

(* Whenever mux_exec has returned, st->pc and memory still say why: a halt *)
(* is a negative pc or a read at end of input, a wait sits on its GET and  *)
(* a failed write on its PUT, so calling again retries the same thing; and *)
(* no pair is half executed.                                               *)
Retryable ==
  status # "RUN" =>
    /\ pair = NoPair
    /\ stpc = pc
    /\ LET a == m[Arena(stpc)]
           b == m[Arena(stpc + 1)]
       IN  /\ status = "MUX_OK" => Negative(stpc) \/ a = IO_MARKER32
           /\ status = "MUX_NEED_INPUT" => ~Negative(stpc) /\ a = IO_MARKER32
           /\ status = "MUX_ERR_OUTPUT" =>
                ~Negative(stpc) /\ a # IO_MARKER32 /\ b = IO_MARKER32
==============================================================================
