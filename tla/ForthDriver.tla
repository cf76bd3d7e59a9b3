----------------------------- MODULE ForthDriver -----------------------------
(***************************************************************************)
(* wasm/forth.js: class Forth, the page's driver of one WasmHost, as far   *)
(* as input and scheduling go: send, flush, submit, pump, pumpLoop,        *)
(* resume, stop, retune.  What it does with output is in Transcript.       *)
(*                                                                         *)
(* JavaScript is single-threaded: from pump() until pumpLoop returns       *)
(* nothing else runs (js = "turn"), and the handlers that editor.js        *)
(* installs call nothing back.  A turn is mux_run's steps, then TurnEnds.  *)
(* Time is nondeterministic: any turn may be the one past the deadline.    *)
(***************************************************************************)
EXTENDS WasmHost

CONSTANTS
  PRELUDE,           \* what the constructor sends
  Texts,             \* what may be submitted or typed at one go
  Recovery,          \* "+ok\n"
  Slice0, SliceMin, SliceMax,
  MaxPending         \* bound: nothing is submitted beyond this many bytes

ASSUME SliceAssumption ==
  /\ Slice0 \in Nat \ {0} /\ SliceMin \in Nat \ {0} /\ SliceMax \in Nat
  /\ Slice0 < BudgetModulus /\ 2 * SliceMax <= BudgetModulus
ASSUME TextAssumption ==
  PRELUDE \in Seq(Byte) /\ Texts \subseteq Seq(Byte) /\ Recovery \in Seq(Byte)

VARIABLES
  pending,        \* this.pending
  js,             \* "new", then "turn" while pumpLoop runs (this.running), else "idle"
  pendingFrame,   \* a frame is scheduled
  dead,
  slice,
  rested,         \* the last pump returned true: onIdle was called
  unread          \* history: what send() was given and no read has returned yet

driverVars == <<pending, js, pendingFrame, dead, slice, rested>>
vars == <<hostVars, driverVars, unread>>

(* Mutant of SendFlush: a second send replaces what the first left over. *)
SendReplacing(text) ==
  LET all == IF text = <<>> THEN pending ELSE text
  IN  /\ PushAll(all)
      /\ pending' = SubSeq(all, Accepted(all) + 1, Len(all))

(* send and flush: append, then move what the ring will take. *)
SendFlush(text) ==
  LET all == pending \o text
  IN  /\ PushAll(all)
      /\ pending' = SubSeq(all, Accepted(all) + 1, Len(all))

(* pump(): refused when stopped or already running. *)
Pump ==
  IF dead \/ js = "turn"
    THEN UNCHANGED <<js, budget, rc, rested>>
    ELSE js' = "turn" /\ rested' = FALSE /\ MuxRun(slice)

(* The constructor: mux_reset, then send the prelude and pump. *)
Init ==
  /\ HostReset
  /\ budget = 0 /\ rc = "MUX_YIELD"
  /\ pending = <<>> /\ unread = <<>> /\ js = "new"
  /\ pendingFrame = FALSE /\ dead = FALSE /\ rested = FALSE
  /\ slice = Slice0

Construct ==
  /\ js = "new"
  /\ SendFlush(PRELUDE) /\ unread' = unread \o PRELUDE
  /\ Pump
  /\ UNCHANGED <<input_ended, out_len, peek_pending, insn, key,
                 pendingFrame, dead, slice>>

(* submit(), or onKey's send() then pump(). *)
Submit ==
  /\ js = "idle"
  /\ \E text \in Texts :
       /\ Len(pending) + Len(text) <= MaxPending
       /\ SendFlush(text) /\ unread' = unread \o text
  /\ Pump
  /\ UNCHANGED <<input_ended, out_len, peek_pending, insn, key,
                 pendingFrame, dead, slice>>

(* The callback resume() scheduled. *)
Frame ==
  /\ js = "idle" /\ pendingFrame
  /\ pendingFrame' = FALSE
  /\ Pump
  /\ UNCHANGED <<ring, input_ended, out_len, peek_pending, insn, key,
                 pending, unread, dead, slice>>

Stop ==
  /\ js = "idle"
  /\ dead' = TRUE /\ pendingFrame' = FALSE
  /\ UNCHANGED <<hostVars, pending, unread, js, slice, rested>>

(* A step of the image; a byte it reads is unread no more. *)
VmTurn ==
  /\ js = "turn" /\ UNCHANGED driverVars
  /\ \/ NoByte /\ UNCHANGED unread
     \/ GetByte /\ unread' = Tail(unread)

(* Mutant of Retuned: the slice may be halved to nothing. *)
RetunedToZero(n) ==
  {n} \cup (IF n < SliceMax THEN {2 * n} ELSE {}) \cup {n \div 2}

(* retune(): the turn was fast, slow or neither. *)
Retuned(n) ==
  {n} \cup (IF n < SliceMax THEN {2 * n} ELSE {})
      \cup (IF n > SliceMin THEN {n \div 2} ELSE {})

(* A turn cut short for input or for the output buffer is not a measure. *)
NewSlices ==
  IF rc = "MUX_YIELD" /\ out_len < OUT_HIGH_WATER THEN Retuned(slice) ELSE {slice}

(* Mutant of CameToRest: decided after flush() has emptied pending. *)
CameToRestAfterFlush == rc = "MUX_NEED_INPUT" /\ pending' = <<>>
CameToRest == rc = "MUX_NEED_INPUT" /\ pending = <<>>

Resume == pendingFrame' = (pendingFrame \/ ~dead)

NextTurn == MuxRun(slice') /\ UNCHANGED <<js, pendingFrame, rested>>

ReturnAtRest ==
  /\ js' = "idle" /\ rested' = TRUE
  /\ UNCHANGED <<budget, rc, pendingFrame>>

(* pumpLoop after mux_run: retune, drain, decide, flush, act. *)
TurnStart == js = "turn" /\ rc # "RUN"
Drained ==
  /\ slice' \in NewSlices
  /\ out_len' = 0
  /\ UNCHANGED <<input_ended, peek_pending, insn, key, dead>>

(* At rest with an error seen: the repair goes in, and the loop continues. *)
TurnRepairs ==
  /\ TurnStart /\ Drained
  /\ SendFlush(Recovery) /\ unread' = unread \o Recovery
  /\ CameToRest
  /\ NextTurn

TurnRests ==
  /\ TurnStart /\ Drained
  /\ SendFlush(<<>>) /\ UNCHANGED unread
  /\ CameToRest \/ rc = "MUX_OK"
  /\ ReturnAtRest

(* Neither at rest nor halted: the deadline decides. *)
TurnContinues ==
  /\ TurnStart /\ Drained
  /\ SendFlush(<<>>) /\ UNCHANGED unread
  /\ ~CameToRest /\ rc # "MUX_OK"
  /\ NextTurn

TurnDeferred ==
  /\ TurnStart /\ Drained
  /\ SendFlush(<<>>) /\ UNCHANGED unread
  /\ ~CameToRest /\ rc # "MUX_OK"
  /\ js' = "idle"
  /\ Resume
  /\ UNCHANGED <<budget, rc, rested>>

TurnEnds == TurnRepairs \/ TurnRests \/ TurnContinues \/ TurnDeferred

Next ==
  \/ Construct
  \/ Submit \/ Frame \/ Stop
  \/ VmTurn
  \/ TurnRepairs \/ TurnRests \/ TurnContinues \/ TurnDeferred

Spec == Init /\ [][Next]_vars

(* The processor runs, a turn's JavaScript runs to its end, and the        *)
(* browser delivers a requested frame.  Nobody has to type or to stop.     *)
FairSpec == Spec /\ WF_vars(VmTurn) /\ WF_vars(TurnEnds)
                 /\ WF_vars(Frame) /\ WF_vars(Construct)

------------------------------------------------------------------------------
(* Two queues in series, pending and the ring, with counters that wrap,    *)
(* are one: of every text given to send(), however much of it the ring had *)
(* room for and whenever turns end ("Appending rather than replacing       *)
(* matters", send in forth.js), the image reads each byte once and in      *)
(* order.  wasm_getc answers "none waiting" only to a peek, only from an   *)
(* empty ring, and to one read for each request.                           *)
Sendable == Texts \cup {PRELUDE, Recovery}

Stream == INSTANCE ByteStream WITH
  q <- unread, near <- InRing, far <- pending, asked <- peek_pending,
  got <- key, None <- PeekNone, Texts <- Sendable

InputIsAStream == Stream!Spec

(* wasm_putc's "Unreachable while the caller honors the contract": with    *)
(* this caller the buffer never fills past the mark and no write fails.    *)
OutputFits == out_len <= OUT_HIGH_WATER /\ rc # "MUX_ERR_OUTPUT"

(* pump: "Returns true only when the image actually came to rest": the     *)
(* image is halted, or is at a read with nothing left anywhere to give it. *)
AtRest == \/ insn = "halt"
          \/ insn = "get" /\ Empty /\ pending = <<>> /\ ~peek_pending

(* No lost wake-up either: a live machine left idle with no frame coming is *)
(* one that pump could have reported at rest.                              *)
RestIsReal ==
  /\ rested /\ ~dead => AtRest
  /\ js = "idle" /\ ~dead /\ ~pendingFrame => AtRest

(* Every byte submitted is read, if the image keeps reading and nobody     *)
(* stops it: the queues are empty, or a byte is read, again and again.     *)
EveryByteRead ==
  (<>[]~dead /\ []<>(insn = "get"))
    => []<>(Queued = 0 /\ pending = <<>>) \/ []<><<GetByte>>_vars
==============================================================================
