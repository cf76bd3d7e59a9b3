------------------------------- MODULE MCBlocks -------------------------------
(***************************************************************************)
(* Two valid blocks, the mark of an empty buffer and both sides of the     *)
(* range valid? accepts.                                                   *)
(***************************************************************************)
EXTENDS Blocks

Keys == -1 .. MaxBlock + 1
==============================================================================
