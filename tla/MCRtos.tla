------------------------------- MODULE MCRtos -------------------------------
(***************************************************************************)
(* The tasks of test-rtos.c, and another in the middle that shares the     *)
(* mutex, so that two may wait for it and a third may steal it.            *)
(***************************************************************************)
EXTENDS Rtos

MCBasePrio == <<4, 3, 2, 1, 0>>
==============================================================================
