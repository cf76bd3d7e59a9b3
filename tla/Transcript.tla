------------------------------ MODULE Transcript ------------------------------
(***************************************************************************)
(* wasm/forth.js: what class Forth makes of the image's output: drain,     *)
(* emit, readAddresses and the part of pumpLoop that ends boot and repairs *)
(* the reporter after an error.  Byte queues and slices are in             *)
(* ForthDriver; here input is a queue of whole lines, and a turn may end   *)
(* between any two symbols of output.                                      *)
(*                                                                         *)
(* Output symbols: "x" any ordinary byte, "cr" the byte 13, "ok" the stock *)
(* prompt, "start" and "end" the two framing bytes, "G" a frame's tagged   *)
(* body, "err1" and "err2" the two halves of a throw report.               *)
(***************************************************************************)
EXTENDS Naturals, SequencesExt

CONSTANTS
  PreludeMayFail,     \* may a definition of the prelude throw?
  UserLines,          \* the kinds of line the user types
  MaxInFlight,        \* bound: lines submitted and not yet interpreted
  MaxKept             \* bound: the user types ahead while no more text is kept back

ASSUME ParameterAssumption ==
  /\ PreludeMayFail \in BOOLEAN
  /\ UserLines \subseteq {"quiet", "raw", "bad", "hide"}
  /\ MaxInFlight \in Nat \ {0} /\ MaxKept \in Nat

ERROR_TAIL_KEEP == 2

VARIABLES
  (* the image *)
  lines,         \* input not yet interpreted
  current,       \* the line being interpreted
  todo,          \* what it has still to print
  broken,        \* the prelude's words are missing
  reporter,      \* the reporter is installed in <ok>
  out,           \* out_buf
  (* class Forth *)
  booting, inFrame, frame, text, tail, sawError, gotGraphics,
  js,            \* "turn": in pumpLoop; "frame": deferred; "rest": returned true
  owed           \* printed by user lines after a good boot, but for byte 13, and
                 \* not yet handed to the page (history)

image  == <<lines, current, todo, broken, reporter>>
driver == <<booting, inFrame, frame, text, tail, sawError, gotGraphics>>
vars   == <<image, out, driver, js, owed>>

Symbols   == {"x", "cr", "ok", "start", "end", "G", "err1", "err2"}
PRELUDE   == <<"def", "install", "announce">>
RECOVERY  == "+ok"
REPORT    == <<"err1", "err2">>
AllLines  == UserLines \cup Range(PRELUDE) \cup {RECOVERY}

Init ==
  /\ lines = PRELUDE /\ current = "def" /\ todo = <<>>
  /\ broken = FALSE /\ reporter = FALSE
  /\ out = <<>>
  /\ booting = TRUE /\ inFrame = FALSE /\ frame = ""
  /\ text = <<>> /\ tail = <<>>
  /\ sawError = FALSE /\ gotGraphics = FALSE
  /\ js = "turn"
  /\ owed = <<>>

------------------------------------------------------------------------------
(* The image interprets one line (quit: query, eval, then <ok>).  A throw  *)
(* goes to (error), which prints the report and whose ini puts the stock   *)
(* prompt back.                                                            *)
Quietly(rep) ==
  todo' = (IF rep THEN <<>> ELSE <<"ok">>) /\ reporter' = rep
Throws(before) ==
  todo' = before \o REPORT /\ reporter' = FALSE

Interpret(line) ==
  \/ line \in {"def", "quiet"} /\ Quietly(reporter) /\ UNCHANGED broken
  \/ line = "def" /\ PreludeMayFail /\ Throws(<<>>) /\ broken' = TRUE
  \/ line \in {"install", RECOVERY} /\ UNCHANGED broken
     /\ IF broken THEN Throws(<<>>) ELSE Quietly(TRUE)
  \/ line = "announce" /\ UNCHANGED broken
     /\ IF broken
          THEN Throws(<<"start", "G">>)
          ELSE todo' = <<"start", "G", "end">> /\ UNCHANGED reporter
  \/ line = "raw" /\ UNCHANGED <<broken, reporter>>
     /\ \E b \in {"x", "cr", "start", "end"} :
          todo' = IF reporter THEN <<b>> ELSE <<b, "ok">>
  \/ line = "bad" /\ Throws(<<>>) /\ UNCHANGED broken
  \/ line = "hide" /\ Quietly(reporter) /\ broken' = TRUE

ImageReads ==
  /\ js = "turn" /\ todo = <<>> /\ lines # <<>>
  /\ current' = Head(lines)
  /\ lines' = Tail(lines)
  /\ Interpret(Head(lines))
  /\ UNCHANGED <<out, driver, js, owed>>

ImagePrints ==
  /\ js = "turn" /\ todo # <<>>
  /\ out' = Append(out, Head(todo))
  /\ todo' = Tail(todo)
  /\ owed' = IF current \in UserLines /\ ~broken /\ Head(todo) # "cr"
               THEN Append(owed, Head(todo)) ELSE owed
  /\ UNCHANGED <<lines, current, broken, reporter, driver, js>>

Waiting == lines = <<>> /\ todo = <<>>       \* MUX_NEED_INPUT, nothing pending

------------------------------------------------------------------------------
(* The frame so far: empty, the tagged body "G", the tag and then something *)
(* that is not two addresses, or no tag at all.                            *)
InFrame(f, b) ==
  IF f = "" /\ b = "G" THEN "G" ELSE IF f \in {"G", "garbled"} THEN "garbled" ELSE "other"

ReadAddresses(s) ==
  IF s.frame \in {"G", "garbled"}
    THEN [s EXCEPT !.booting = FALSE, !.text = <<>>, !.gotGraphics = (s.frame = "G")]
    ELSE s

(* Mutant of DrainByte: framing is honored at any time. *)
DrainByteAlways(s, b) ==
  IF b = "start" THEN [s EXCEPT !.inFrame = TRUE, !.frame = ""]
  ELSE IF s.inFrame /\ b = "end"
    THEN ReadAddresses([s EXCEPT !.inFrame = FALSE])
  ELSE IF s.inFrame
    THEN [s EXCEPT !.frame = InFrame(s.frame, b)]
  ELSE IF b # "cr"
    THEN [s EXCEPT !.text = Append(s.text, b)]
  ELSE s

(* drain(): one byte of output.  s holds booting, inFrame, frame, text,   *)
(* gotGraphics.  Framing is honored while booting, or inside a frame, and  *)
(* outside one byte 13 is dropped.                                         *)
DrainByte(s, b) ==
  IF s.booting /\ b = "start"
    THEN [s EXCEPT !.inFrame = TRUE, !.frame = ""]
  ELSE IF s.inFrame /\ b = "end"
    THEN ReadAddresses([s EXCEPT !.inFrame = FALSE])
  ELSE IF s.inFrame
    THEN [s EXCEPT !.frame = InFrame(s.frame, b)]
  ELSE IF b # "cr"
    THEN [s EXCEPT !.text = Append(s.text, b)]
  ELSE s

(* The bytes of out in turn (the CHOOSE has TLC evaluate each step once). *)
Drained ==
  LET d[i \in 0 .. Len(out)] ==
        IF i = 0
          THEN [booting |-> booting, inFrame |-> inFrame, frame |-> frame,
                text |-> text, gotGraphics |-> gotGraphics]
          ELSE CHOOSE r \in {DrainByte(s, out[i]) : s \in {d[i - 1]}} : TRUE
  IN  d[Len(out)]

(* emit(): ERROR_REPORT is anchored at the end of the rolling tail. *)
LastFew(s) ==
  SubSeq(s, 1 + (IF Len(s) > ERROR_TAIL_KEEP THEN Len(s) - ERROR_TAIL_KEEP ELSE 0), Len(s))

(* Mutant of Rolled: the report is looked for in this chunk alone. *)
RolledChunk(t) == LastFew(t)
Rolled(t) == LastFew(tail \o t)

Emits(b, t) == t # <<>> /\ ~b

Emit(b, t) ==
  IF Emits(b, t)
    THEN LET error == IsSuffix(REPORT, Rolled(t))
         IN  /\ tail' = IF error THEN <<>> ELSE Rolled(t)
             /\ sawError' = (sawError \/ error)
             /\ text' = <<>>
             /\ owed' = SubSeq(owed, Len(t) + 1, Len(owed))
    ELSE text' = t /\ UNCHANGED <<tail, sawError, owed>>

(* mux_run has returned; drain() and, with output, emit(). *)
DrainTurn ==
  /\ js = "turn"
  /\ out' = <<>>
  /\ inFrame' = Drained.inFrame /\ frame' = Drained.frame
  /\ gotGraphics' = Drained.gotGraphics

SawErrorNow == sawError \/ (Emits(Drained.booting, Drained.text)
                              /\ IsSuffix(REPORT, Rolled(Drained.text)))

(* The slice ran out, at any instruction: the next turn follows at once, or *)
(* at the next frame.                                                       *)
TurnYields ==
  /\ DrainTurn
  /\ booting' = Drained.booting
  /\ Emit(Drained.booting, Drained.text)
  /\ js' \in {"turn", "frame"}
  /\ UNCHANGED image

(* Mutant of RepairTaken: the flag survives the repair. *)
RepairKept  == sawError' = SawErrorNow
RepairTaken == sawError' = FALSE

(* At rest after an error: send "+ok" and go round without looking at the  *)
(* deadline.                                                               *)
TurnRepairs ==
  /\ DrainTurn /\ Waiting /\ SawErrorNow
  /\ booting' = Drained.booting
  /\ LET t == Drained.text
     IN  IF Emits(Drained.booting, t)
           THEN /\ tail' = IF IsSuffix(REPORT, Rolled(t)) THEN <<>> ELSE Rolled(t)
                /\ text' = <<>>
                /\ owed' = SubSeq(owed, Len(t) + 1, Len(owed))
           ELSE text' = t /\ UNCHANGED <<tail, owed>>
  /\ RepairTaken
  /\ lines' = <<RECOVERY>>
  /\ UNCHANGED <<current, todo, broken, reporter, js>>

(* Mutant of BootEnded: a failed boot goes on booting. *)
BootGoesOn == Drained.booting
BootEnded  == FALSE

(* At rest: boot, if it is still on, has failed; show what it said. *)
TurnRests ==
  /\ DrainTurn /\ Waiting /\ ~SawErrorNow
  /\ booting' = BootEnded
  /\ Emit(BootEnded, Drained.text)
  /\ js' = "rest"
  /\ UNCHANGED image

Frame ==
  /\ js = "frame" /\ js' = "turn"
  /\ UNCHANGED <<image, out, driver, owed>>

(* submit(): one more line; a pump starts unless one is under way. *)
Submit ==
  /\ js # "turn"
  /\ js = "rest" \/ (Len(lines) < MaxInFlight - 1 /\ Len(text) <= MaxKept)
  /\ \E l \in UserLines : lines' = Append(lines, l)
  /\ js' = "turn"
  /\ UNCHANGED <<current, todo, broken, reporter, out, driver, owed>>

Next ==
  \/ ImageReads \/ ImagePrints
  \/ TurnYields \/ TurnRepairs \/ TurnRests
  \/ Frame \/ Submit

Spec == Init /\ [][Next]_vars

(* The image runs, a waiting image ends its turn, a frame arrives. *)
ImageRuns == ImageReads \/ ImagePrints
TurnEnds  == TurnRepairs \/ TurnRests

FairSpec == Spec /\ WF_vars(ImageRuns) /\ WF_vars(TurnEnds) /\ WF_vars(Frame)

------------------------------------------------------------------------------
(* s without byte 13. *)
Legible(s) ==
  LET f[i \in 0 .. Len(s)] ==
        IF i = 0 THEN <<>>
        ELSE IF s[i] = "cr" THEN f[i - 1]
        ELSE Append(f[i - 1], s[i])
  IN  f[Len(s)]

(* After a good boot what user lines printed, bytes 1 and 2 included and   *)
(* byte 13 excepted, is on its way to the page: each once and in order.    *)
UserBytesShown == gotGraphics /\ ~broken => owed = text \o Legible(out)

(* The last line interpreted was the user's and did not throw. *)
Overtaken == current \in UserLines \ {"bad"}

(* "the reporter would never be reinstalled, and the stack viewer would    *)
(* stay dead for the rest of the session": whatever is in flight and       *)
(* wherever turns cut the report, an error that nothing was interpreted    *)
(* after is repaired before the page is told of rest.                      *)
RepairedAtRest == js = "rest" /\ gotGraphics /\ ~broken => reporter \/ Overtaken

(* pumpLoop's comment says more: "several lines can be in flight at once   *)
(* ..., and an error on an early one must not be forgotten".  The prompt   *)
(* of the next line can follow the report in the same chunk, where the     *)
(* pattern anchored at the end misses it: this does not hold.              *)
NoErrorForgotten == js = "rest" /\ gotGraphics /\ ~broken => reporter

(* At rest no text and no output is kept, after a failed boot too, and     *)
(* after a good one nothing printed later can be taken for a frame.  A     *)
(* boot that fails after the start of its frame does rest inside it: what  *)
(* it printed stays there, in spite of pumpLoop's "show whatever it did    *)
(* say".                                                                   *)
NothingWithheld ==
  js = "rest" => text = <<>> /\ out = <<>> /\ (gotGraphics => ~inFrame)

(* pump() gives the page back: every pump comes to rest or defers.  Once   *)
(* the user has broken +ok, a repair itself ends in an error, and pumpLoop *)
(* repairs for ever without a look at the deadline.                        *)
PumpReturns == js = "turn" ~> js # "turn" \/ broken
==============================================================================
