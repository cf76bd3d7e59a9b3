------------------------------ MODULE Terminal ------------------------------
(***************************************************************************)
(* The terminal of muxleq.c: raw mode, and the signals that come in the    *)
(* middle of it.  enter_raw_mode and leave_raw_mode are steps of a         *)
(* statement each, run by the program, by exit or by a signal handler;     *)
(* `frames' is what is on the stack, the running one last, and empty when  *)
(* the program itself runs.                                                *)
(*                                                                         *)
(* The signals are the system's: one of a kind is pending at most, a       *)
(* handler blocks its own signal and no other, a stop signal and SIGCONT   *)
(* discard each other.  What is pending and not blocked is handled before  *)
(* the process takes another step.                                         *)
(***************************************************************************)
EXTENDS Naturals, Sequences, SequencesExt

CONSTANTS
  Kills,        \* SIGINT, SIGTERM, SIGQUIT, SIGHUP, SIGSEGV
  MaxSignals    \* bound: signals sent to the process

ASSUME KillsAssumption ==
  Kills \cap {"TSTP", "CONT", "enter", "leave"} = {} /\ MaxSignals \in Nat

VARIABLES
  tty,                  \* "cooked" or "raw"
  tty_interactive,      \* and handlers installed
  raw_mode_active,
  raw_wanted,
  frames,               \* <<[fn |-> routine or signal, at |-> statement], ...>>
  raised,
  default,              \* signals whose handler SA_RESETHAND has taken away
  proc,                 \* "running", "stopped" or "dead"
  signals,              \* sent so far
  overtaken,            \* a handler entered raw mode over one that leaves (history)
  refused               \* tcsetattr failed (history)

ttyVars    == <<tty, raw_mode_active>>
signalVars == <<raised, default, proc, signals>>
termVars   == <<ttyVars, tty_interactive, raw_wanted, frames, signalVars,
                overtaken, refused>>

Signals == Kills \cup {"TSTP", "CONT"}
Places  == [fn : {"enter"}, at : {"test", "set", "mark"}]
             \cup [fn : {"leave"}, at : {"test", "clear", "restore"}]
             \cup [fn : Signals, at : {"start", "raise", "return"}]

TermTypeOK ==
  /\ tty \in {"cooked", "raw"} /\ tty_interactive \in BOOLEAN
  /\ raw_mode_active \in BOOLEAN /\ raw_wanted \in BOOLEAN
  /\ frames \in Seq(Places)
  /\ raised \subseteq Signals /\ default \subseteq Kills
  /\ proc \in {"running", "stopped", "dead"}
  /\ signals \in 0 .. MaxSignals /\ overtaken \in BOOLEAN /\ refused \in BOOLEAN

TermInit ==
  /\ tty = "cooked" /\ tty_interactive = FALSE
  /\ raw_mode_active = FALSE /\ raw_wanted = FALSE
  /\ frames = <<>>
  /\ raised = {} /\ default = {} /\ proc = "running" /\ signals = 0
  /\ overtaken = FALSE /\ refused = FALSE
------------------------------------------------------------------------------
Blocked(s) == \E i \in DOMAIN frames : frames[i].fn = s
Due        == {s \in raised : ~Blocked(s)}

(* User code runs: nothing has to be delivered first. *)
Runs == proc = "running" /\ Due = {}

(* The program itself, with no handler and no raw-mode routine on its stack *)
Program == Runs /\ frames = <<>>

At(fn, at) == Runs /\ frames # <<>> /\ Last(frames) = [fn |-> fn, at |-> at]

Goto(at)  == frames' = [frames EXCEPT ![Len(frames)].at = at]
Return    == frames' = Front(frames)
Call(fn)  == frames' = Append(frames, [fn |-> fn, at |-> "test"])

(* A handler goes on at its next statement when the routine returns. *)
CallFrom(at, fn) ==
  frames' = Append([frames EXCEPT ![Len(frames)].at = at], [fn |-> fn, at |-> "test"])

Elsewhere == UNCHANGED <<tty_interactive, raw_wanted, signalVars, overtaken>>
------------------------------------------------------------------------------
EnterTest ==
  /\ At("enter", "test")
  /\ IF ~tty_interactive \/ raw_mode_active THEN Return ELSE Goto("set")
  /\ UNCHANGED <<ttyVars, refused>> /\ Elsewhere

EnterSet ==
  /\ At("enter", "set")
  /\ \/ tty' = "raw" /\ Goto("mark") /\ UNCHANGED refused
     \/ refused' = TRUE /\ Return /\ UNCHANGED tty
  /\ UNCHANGED raw_mode_active /\ Elsewhere

EnterMark ==
  /\ At("enter", "mark")
  /\ raw_mode_active' = TRUE /\ Return
  /\ UNCHANGED <<tty, refused>> /\ Elsewhere

LeaveTest ==
  /\ At("leave", "test")
  /\ IF raw_mode_active THEN Goto("clear") ELSE Return
  /\ UNCHANGED <<ttyVars, refused>> /\ Elsewhere

LeaveClear ==
  /\ At("leave", "clear")
  /\ raw_mode_active' = FALSE /\ Goto("restore")
  /\ UNCHANGED <<tty, refused>> /\ Elsewhere

LeaveRestore ==
  /\ At("leave", "restore")
  /\ tty' = "cooked" /\ Return
  /\ UNCHANGED <<raw_mode_active, refused>> /\ Elsewhere

Routine == EnterTest \/ EnterSet \/ EnterMark \/ LeaveTest \/ LeaveClear \/ LeaveRestore
------------------------------------------------------------------------------
(* Mutant of Resets: the handlers of the kills stay installed. *)
ResetsNot(s) == default
(* SA_RESETHAND, for the kills: the second one is not caught. *)
Resets(s)    == default \cup ({s} \cap Kills)

Handled(s) == tty_interactive /\ s \notin default

Deliver(s) ==
  /\ proc = "running" /\ s \in Due
  /\ raised' = raised \ {s}
  /\ \/ /\ Handled(s)
        /\ frames' = Append(frames, [fn |-> s, at |-> "start"])
        /\ default' = Resets(s)
        /\ UNCHANGED proc
     \/ /\ ~Handled(s)
        /\ proc' = IF s \in Kills THEN "dead" ELSE IF s = "TSTP" THEN "stopped" ELSE proc
        /\ UNCHANGED <<frames, default>>
  /\ UNCHANGED <<ttyVars, tty_interactive, raw_wanted, signals, overtaken, refused>>

(* Mutant of LeaveFirst: the signal is raised again with the terminal raw. *)
RaiseFirst(at) == Goto(at)
LeaveFirst(at) == CallFrom(at, "leave")

(* restore_and_reraise: the raised signal is pending until the return. *)
KillStart(k) ==
  /\ At(k, "start")
  /\ LeaveFirst("raise")
  /\ UNCHANGED <<ttyVars, refused>> /\ Elsewhere

KillRaise(k) ==
  /\ At(k, "raise")
  /\ raised' = raised \cup {k} /\ Goto("return")
  /\ UNCHANGED <<ttyVars, tty_interactive, raw_wanted, default, proc, signals,
                 overtaken, refused>>

HandlerReturn ==
  /\ \E s \in Signals : At(s, "return")
  /\ Return
  /\ UNCHANGED <<ttyVars, refused>> /\ Elsewhere

(* suspend_handler: SIGSTOP cannot be blocked, and discards SIGCONT. *)
SuspendStart ==
  /\ At("TSTP", "start")
  /\ LeaveFirst("raise")
  /\ UNCHANGED <<ttyVars, refused>> /\ Elsewhere

SuspendRaise ==
  /\ At("TSTP", "raise")
  /\ proc' = "stopped" /\ raised' = raised \ {"CONT"} /\ Goto("return")
  /\ UNCHANGED <<ttyVars, tty_interactive, raw_wanted, default, signals,
                 overtaken, refused>>

(* Something under the handler that has decided to leave raw mode, and     *)
(* will not look again: leave_raw_mode past its test, a handler past       *)
(* leave_raw_mode, or exit past its atexit call.                           *)
Leaving(exited) ==
  \/ exited
  \/ \E i \in DOMAIN frames :
       \/ frames[i].fn = "leave" /\ frames[i].at # "test"
       \/ frames[i].fn \in Kills /\ frames[i].at = "return"
       \/ /\ frames[i].fn \in Kills \cup {"TSTP"} /\ frames[i].at = "raise"
          /\ frames[i + 1].fn # "leave"

(* Mutant of Wanted: raw mode is entered whatever the program asked for. *)
WantedAlways == TRUE
Wanted       == raw_wanted

(* resume_handler *)
ResumeStart(exited) ==
  /\ At("CONT", "start")
  /\ IF Wanted THEN CallFrom("return", "enter") ELSE Return
  /\ overtaken' = (overtaken \/ (Wanted /\ Leaving(exited)))
  /\ UNCHANGED <<ttyVars, tty_interactive, raw_wanted, signalVars, refused>>
------------------------------------------------------------------------------
(* What others send. *)
Send(s) ==
  /\ proc # "dead" /\ signals < MaxSignals /\ s \notin raised
  /\ signals' = signals + 1
  /\ raised' = CASE s = "TSTP" -> (raised \ {"CONT"}) \cup {s}
                  [] s = "CONT" -> (raised \ {"TSTP"}) \cup {s}
                  [] OTHER      -> raised \cup {s}
  /\ proc' = IF s = "CONT" THEN "running" ELSE proc
  /\ UNCHANGED <<ttyVars, tty_interactive, raw_wanted, frames, default, overtaken,
                 refused>>

Handlers(exited) ==
  \/ \E s \in Signals : Deliver(s)
  \/ \E k \in Kills : KillStart(k) \/ KillRaise(k)
  \/ SuspendStart \/ SuspendRaise \/ ResumeStart(exited) \/ HandlerReturn
==============================================================================
