----------------------------- MODULE NativeHost -----------------------------
(***************************************************************************)
(* muxleq.c, the native host: main loads an image, takes the terminal over *)
(* if there is one, runs mux_exec and exits.  The image that runs may read *)
(* and write what it likes, the EDIT_* protocol included; what it computes *)
(* is MuxExec.  Keys, signals and the end of input come at any time.       *)
(***************************************************************************)
EXTENDS Terminal, ImageFile

CONSTANTS
  Argvs,         \* what is on the command line: an option or a file name each
  Files,         \* what is in a file: sequences of tokens
  DefaultImage,  \* default_image, a sequence of cells
  MaxKeys        \* bound: keys typed and not read

ASSUME FilesAssumption ==
  /\ Files \subseteq Seq([number : BOOLEAN, value : Int])
  /\ DefaultImage \in Seq(0 .. 2 ^ Width - 1) \ {<<>>}
  /\ MaxKeys \in Nat

VARIABLES
  stage,               \* of main
  file, n, img,        \* the tokens of the file and how many are in img
  failed,              \* the system refused memory or a file (history)
  edit_peek_pending,
  reading,             \* where read_host_input is
  keys, stdio, closed  \* typed; read ahead by stdio; input has ended

loadVars  == <<file, n, img, failed>>
inputVars == <<edit_peek_pending, reading, keys, stdio, closed>>
nativeVars == <<termVars, stage, loadVars, inputVars>>

NativeInit ==
  /\ TermInit
  /\ stage = "args"
  /\ file = <<>> /\ n = 0 /\ img = NoImage /\ failed = FALSE
  /\ edit_peek_pending = FALSE /\ reading = "no"
  /\ keys = 0 /\ stdio = 0 /\ closed = FALSE

Stage(s) == Program /\ stage = s

(* Past the atexit call of leave_raw_mode. *)
Exited == stage = "exit" /\ (frames = <<>> \/ frames[1].fn # "leave")

(* exit(): main returns, or die() calls it. *)
Exit ==
  /\ stage' = "exit"
  /\ frames' = IF tty_interactive THEN <<[fn |-> "leave", at |-> "test"]>> ELSE <<>>
  /\ UNCHANGED <<ttyVars, tty_interactive, raw_wanted, signalVars, overtaken, refused>>

Ended ==
  /\ Stage("exit")
  /\ proc' = "dead"
  /\ UNCHANGED <<ttyVars, tty_interactive, raw_wanted, frames, raised, default,
                 signals, overtaken, refused, stage, loadVars, inputVars>>
------------------------------------------------------------------------------
(* "--" ends the options: what follows it is a file, whatever its name. *)
IsOption(arg) == arg \in {"--", "-x"}
UsageError(argv) ==
  IF argv # <<>> /\ argv[1] = "--" THEN Len(argv) > 2
  ELSE Len(argv) > 1 \/ (Len(argv) = 1 /\ IsOption(argv[1]))
NamesFile(argv) == Len(argv) = IF argv # <<>> /\ argv[1] = "--" THEN 2 ELSE 1

Main ==
  /\ Stage("args")
  /\ \E argv \in Argvs :
       \/ UsageError(argv) /\ Exit /\ UNCHANGED loadVars
       \/ /\ ~UsageError(argv) /\ ~NamesFile(argv)
          /\ stage' = "setup" /\ UNCHANGED <<termVars, loadVars>>
       \/ /\ ~UsageError(argv) /\ NamesFile(argv)
          /\ \/ Exit /\ failed' = TRUE /\ UNCHANGED <<file, n, img>>
             \/ /\ file' \in Files
                /\ img' = alloc_muxleq(1) /\ n' = 0
                /\ stage' = "load" /\ UNCHANGED <<termVars, failed>>
  /\ UNCHANGED inputVars

(* One turn of load_muxleq's loop; die() on the first thing that is wrong. *)
LoadCell ==
  /\ Stage("load") /\ n < Len(file)
  /\ LET tok == file[n + 1]
     IN  \/ /\ ~GoodCell(tok) \/ (Full(img, n) /\ CannotGrow(img))
            /\ Exit /\ UNCHANGED loadVars
         \/ /\ GoodCell(tok) /\ Full(img, n) /\ ~CannotGrow(img)
            /\ failed' = TRUE
            /\ Exit /\ UNCHANGED <<file, n, img>>
         \/ /\ GoodCell(tok) /\ (Full(img, n) => ~CannotGrow(img))
            /\ img' = Stored(Roomy(img, n), n, tok)
            /\ n' = n + 1
            /\ UNCHANGED <<file, failed, termVars, stage>>
  /\ UNCHANGED inputVars

LoadEnds ==
  /\ Stage("load") /\ n = Len(file)
  /\ \/ failed' = TRUE /\ Exit
     \/ n = 0 /\ Exit /\ UNCHANGED failed
     \/ n > 0 /\ stage' = "setup" /\ UNCHANGED <<termVars, failed>>
  /\ UNCHANGED <<file, n, img, inputVars>>

(* terminal_setup: a terminal or not.  Until raw mode is wanted, a handler *)
(* does what the default does, so that the seven sigactions are one step.  *)
SetUp ==
  /\ Stage("setup")
  /\ tty_interactive' \in BOOLEAN
  /\ stage' = IF img = NoImage THEN "baked" ELSE "ready"
  /\ UNCHANGED <<ttyVars, raw_wanted, frames, signalVars, overtaken, refused,
                 loadVars, inputVars>>

(* load_default *)
LoadDefault ==
  /\ Stage("baked")
  /\ \/ /\ ~TooLong(Len(DefaultImage))
        /\ img' = Copied(alloc_muxleq(Len(DefaultImage)), DefaultImage)
        /\ stage' = "ready" /\ UNCHANGED <<termVars, failed>>
     \/ TooLong(Len(DefaultImage)) /\ Exit /\ UNCHANGED <<img, failed>>
     \/ failed' = TRUE /\ Exit /\ UNCHANGED img
  /\ UNCHANGED <<file, n, inputVars>>

(* The image goes to mux_exec. *)
Start ==
  /\ Stage("ready")
  /\ stage' = "run"
  /\ file' = <<>> /\ n' = 0 /\ img' = NoImage
  /\ UNCHANGED <<termVars, failed, inputVars>>
------------------------------------------------------------------------------
Executes == Stage("run") /\ reading = "no"

(* write_host_output *)
RawOn ==
  /\ Executes
  /\ raw_wanted' = TRUE /\ Call("enter")
  /\ UNCHANGED <<ttyVars, tty_interactive, signalVars, overtaken, refused, stage,
                 loadVars, inputVars>>

RawOff ==
  /\ Executes
  /\ raw_wanted' = FALSE /\ Call("leave")
  /\ UNCHANGED <<ttyVars, tty_interactive, signalVars, overtaken, refused, stage,
                 loadVars, inputVars>>

Peek ==
  /\ Executes
  /\ edit_peek_pending' = TRUE
  /\ UNCHANGED <<termVars, stage, loadVars, reading, keys, stdio, closed>>

(* The image halts, or a write fails. *)
Halt ==
  /\ Executes
  /\ Exit
  /\ UNCHANGED <<loadVars, inputVars>>

(* read_host_input: a peek is used up by the read behind it. *)
Read ==
  /\ Executes
  /\ edit_peek_pending' = FALSE
  /\ reading' = IF edit_peek_pending /\ raw_mode_active THEN "poll" ELSE "getchar"
  /\ UNCHANGED <<termVars, stage, loadVars, keys, stdio, closed>>

(* poll: interrupted, it is called again.  It sees what was typed, not     *)
(* what stdio has read ahead.                                              *)
PollReady ==
  /\ Stage("run") /\ reading = "poll"
  /\ keys > 0 \/ closed
  /\ reading' = "getchar"
  /\ UNCHANGED <<termVars, stage, loadVars, edit_peek_pending, keys, stdio, closed>>

(* EDIT_PEEK_NONE: the time is over, or the line hung up. *)
PollNone ==
  /\ Stage("run") /\ reading = "poll"
  /\ keys = 0
  /\ reading' = "no"
  /\ UNCHANGED <<termVars, stage, loadVars, edit_peek_pending, keys, stdio, closed>>

(* setvbuf(stdin, NULL, _IONBF, 0) *)
Unbuffered == tty_interactive

GetKey ==
  /\ Stage("run") /\ reading = "getchar"
  /\ \/ stdio > 0 /\ stdio' = stdio - 1 /\ UNCHANGED keys
     \/ /\ stdio = 0 /\ keys > 0
        /\ IF Unbuffered THEN keys' = keys - 1 /\ UNCHANGED stdio
                         ELSE keys' = 0 /\ stdio' = keys - 1
  /\ reading' = "no"
  /\ UNCHANGED <<termVars, stage, loadVars, edit_peek_pending, closed>>

GetNothing ==
  /\ Stage("run") /\ reading = "getchar"
  /\ keys = 0 /\ stdio = 0 /\ closed
  /\ reading' = "eof"
  /\ UNCHANGED <<termVars, stage, loadVars, edit_peek_pending, keys, stdio, closed>>

(* MUX_EOF ends mux_exec, and main returns. *)
EndOfInput ==
  /\ Stage("run") /\ reading = "eof"
  /\ Exit
  /\ UNCHANGED <<loadVars, inputVars>>

(* Mutant of Restarts: no handler is installed with SA_RESTART. *)
RestartsNever(s) == FALSE
Restarts(s)      == s \in {"TSTP", "CONT"}

(* A handler that interrupted getchar and returns makes it fail, unless    *)
(* the signal restarts it.                                                 *)
Interrupts ==
  /\ stage = "run" /\ reading = "getchar"
  /\ Len(frames) = 1 /\ frames' = <<>> /\ frames[1].fn \in Signals
  /\ ~Restarts(frames[1].fn)
------------------------------------------------------------------------------
(* The routines of the terminal and the handlers, whoever called them. *)
TerminalStep ==
  /\ Routine \/ Handlers(Exited)
  /\ reading' = IF Interrupts THEN "eof" ELSE reading
  /\ UNCHANGED <<stage, loadVars, edit_peek_pending, keys, stdio, closed>>

(* What is typed matters when it is read: a key typed earlier is as good   *)
(* as one typed now.                                                       *)
Reading == Stage("run") /\ reading \in {"poll", "getchar"}

Type ==
  /\ Reading /\ ~closed /\ keys + stdio < MaxKeys
  /\ keys' = keys + 1
  /\ UNCHANGED <<termVars, stage, loadVars, edit_peek_pending, reading, stdio, closed>>

Close ==
  /\ Reading /\ ~closed
  /\ closed' = TRUE
  /\ UNCHANGED <<termVars, stage, loadVars, edit_peek_pending, reading, keys, stdio>>

Sent ==
  /\ \E s \in Signals : Send(s)
  /\ UNCHANGED <<stage, loadVars, inputVars>>

NativeNext ==
  \/ Main \/ LoadCell \/ LoadEnds \/ SetUp \/ LoadDefault \/ Start
  \/ RawOn \/ RawOff \/ Peek \/ Halt \/ Ended
  \/ Read \/ PollReady \/ PollNone \/ GetKey \/ GetNothing \/ EndOfInput
  \/ TerminalStep
  \/ Type \/ Close \/ Sent

NativeSpec == NativeInit /\ [][NativeNext]_nativeVars

(* A process that is not stopped executes. *)
FairNativeSpec == NativeSpec /\ WF_nativeVars(TerminalStep)
------------------------------------------------------------------------------
(* grow_muxleq keeps "img->mask" with "img->size", and mux_exec masks      *)
(* every address with it: the image that runs is the file, cell by cell,   *)
(* or the baked one, then zeros, in an arena of a power of two; and        *)
(* nothing is refused but what must be.                                    *)
Source == IF file = <<>> THEN DefaultImage ELSE [i \in DOMAIN file |-> Cell(file[i].value)]
Loadable == /\ file # <<>> /\ Len(file) <= MaxCells
            /\ \A i \in DOMAIN file : GoodCell(file[i])

LoadsWhole ==
  /\ stage = "ready" =>
       /\ img.size \in PowersOfTwo /\ img.mask = img.size - 1
       /\ img.size \in MinCells .. MaxCells
       /\ Len(Source) <= img.size
       /\ img.m = [i \in 0 .. img.size - 1 |-> IF i < Len(Source) THEN Source[i + 1] ELSE 0]
  /\ stage = "exit" /\ ~failed => ~Loadable

(* suspend_handler, resume_handler: whatever signals came in the middle of *)
(* whatever, when the image executes again the terminal is in the mode     *)
(* raw_mode_active says, and that is the one the image asked for.          *)
Settled == ~overtaken /\ ~refused /\ proc = "running" /\ stage = "run" /\ frames = <<>> /\ raised = {}

RawWhenWanted ==
  Settled =>
    /\ raw_mode_active = (tty = "raw")
    /\ raw_mode_active = (raw_wanted /\ tty_interactive)

(* leave_raw_mode in the handlers and in atexit: a process that stops,     *)
(* dies by a signal or exits leaves the terminal cooked, unless it was hit *)
(* between the two statements that set the terminal and the flag, or       *)
(* resumed while it was leaving.                                           *)
InBetween == \E i \in DOMAIN frames : frames[i].at \in {"mark", "restore"}

RestoresTerminal ==
  proc # "running" /\ tty = "raw" => InBetween \/ overtaken

(* poll and getchar under signals and under stdio's buffer: "no key" means *)
(* that no key is waiting anywhere, and the end of input that it ended.    *)
AnswersAreTrue ==
  [][/\ reading = "poll" /\ reading' = "no" => keys = 0 /\ stdio = 0
     /\ reading = "eof" /\ stage' = "exit" => closed]_nativeVars

(* restore_and_reraise: a signal that kills, kills, unless the process is  *)
(* stopped first; the handler is not entered for its own signal again.     *)
KillsEnd == \A k \in Kills : k \in raised ~> proc # "running"
==============================================================================
