------------------------------ MODULE MCMuxExec ------------------------------
(***************************************************************************)
(* Instances of MuxExec for TLC: five-bit cells, an arena of eight.        *)
(* IO_MARKER32 is 31, the sign bit 16, a MOVE's c is 22, SHR1's is 30 and  *)
(* 23 is a MUX that masks with cell 7.                                     *)
(***************************************************************************)
EXTENDS MuxExec

CONSTANT Operands     \* Operands[i]: the contents tried for cell i - 1

MCImages == {[i \in Addr |-> t[i + 1]] : t \in
               Operands[1] \X Operands[2] \X Operands[3] \X Operands[4]
               \X Operands[5] \X Operands[6] \X Operands[7] \X Operands[8]}

(* The first instruction is every kind in turn and writes every field of   *)
(* the second; the second too, and it wraps round into the first.          *)
FusionOperands ==
  << {3, 7, 31}, {3, 4, 5, 22, 31}, {22, 30, 23, 0},
     {7, 31}, {1, 6}, {22, 23, 31}, {15, 0}, {22, 31} >>
==============================================================================
