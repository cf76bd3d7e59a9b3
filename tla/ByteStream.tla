------------------------------ MODULE ByteStream ------------------------------
(***************************************************************************)
(* What an input path promises the image: every text sent is read byte by  *)
(* byte, each byte once and in order, whatever part of it a read can reach *)
(* at a time.  Only a read that was asked for as a peek may be answered    *)
(* "none waiting", and only when nothing is within reach; the request is   *)
(* used up by the next read, whatever that is answered.                    *)
(***************************************************************************)
EXTENDS Sequences, SequencesExt, Naturals

CONSTANTS
  None,     \* EDIT_PEEK_NONE
  Texts     \* what may be sent at one go

VARIABLES
  q,        \* sent and not yet read
  near,     \* what of it a read can reach
  far,      \* what of it a read cannot reach yet
  asked,    \* the next read is a peek
  got       \* the cell the last read stored

Init ==
  /\ q = <<>> /\ near = <<>> /\ far = <<>>
  /\ asked = FALSE
  /\ got = None

(* Bytes move into reach; none is lost, repeated or overtaken. *)
Moved == q' = near' \o far' /\ IsPrefix(near, near')

Send(text) == q' = q \o text /\ Moved /\ UNCHANGED <<asked, got>>
Refill     == UNCHANGED <<q, asked, got>> /\ Moved

Ask == asked' = TRUE /\ UNCHANGED <<q, near, far, got>>

Read ==
  /\ near # <<>>
  /\ got' = Head(q)
  /\ q' = Tail(q) /\ near' = Tail(near)
  /\ asked' = FALSE
  /\ UNCHANGED far

PeekNothing ==
  /\ asked /\ near = <<>>
  /\ got' = None
  /\ asked' = FALSE
  /\ UNCHANGED <<q, near, far>>

Next == (\E text \in Texts : Send(text)) \/ Refill \/ Ask \/ Read \/ PeekNothing

Spec == Init /\ [][Next]_<<q, near, far, asked, got>>
===============================================================================
