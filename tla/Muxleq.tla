-------------------------------- MODULE Muxleq --------------------------------
(***************************************************************************)
(* The machine MUXLEQ promises: one instruction at a time, operands read   *)
(* live from memory, no fusion, no slices.  mux_exec (module MuxExec) is   *)
(* shown to implement it.  Translated from exec_alu and from the order in  *)
(* which mux_exec classifies an instruction.                               *)
(***************************************************************************)
EXTENDS MuxWord, Sequences

CONSTANTS
  Images,      \* the initial memories considered
  InputCells   \* what MUX_GETC can deliver: bytes and EDIT_PEEK_NONE

VARIABLES
  m,     \* the arena
  pc,    \* bit 31 set: halted
  io     \* every byte moved so far, in order (history)

core == <<m, pc, io>>

Operand(k) == m[Arena(pc + k)]

Init == m \in Images /\ pc = 0 /\ io = <<>>

(* a = -1: a byte arrives at [b]. *)
Input ==
  /\ ~Negative(pc)
  /\ Operand(0) = IO_MARKER32
  /\ \E v \in InputCells :
       /\ m'  = [m EXCEPT ![Arena(Operand(1))] = v]
       /\ io' = Append(io, <<"in", v>>)
  /\ pc' = Wrap(pc + INSN_SIZE)

(* b = -1: the cell at [a] goes to the host. *)
Output ==
  /\ ~Negative(pc)
  /\ Operand(0) # IO_MARKER32
  /\ Operand(1) = IO_MARKER32
  /\ io' = Append(io, <<"out", m[Arena(Operand(0))]>>)
  /\ pc' = Wrap(pc + INSN_SIZE)
  /\ UNCHANGED m

Compute ==
  /\ ~Negative(pc)
  /\ Operand(0) # IO_MARKER32
  /\ Operand(1) # IO_MARKER32
  /\ m'  = AluMem(m, Operand(0), Operand(1), Operand(2))
  /\ pc' = AluPc(m, Operand(0), Operand(1), Operand(2), pc)
  /\ UNCHANGED io

Next == Input \/ Output \/ Compute

Spec == Init /\ [][Next]_core
===============================================================================
