------------------------------ MODULE EditorView ------------------------------
(***************************************************************************)
(* wasm/editor.js: class EditorView, the widget around one Forth at a time: *)
(* start (reset), load, setBusy, run, step, onKey.                         *)
(*                                                                         *)
(* The machine is abstract (ForthDriver has the rest): what it was sent,    *)
(* and whether it is at rest.  Handlers run to their end, except at the    *)
(* await in step: handler says which code is running, and events arrive    *)
(* only when it is "idle".                                                 *)
(***************************************************************************)
EXTENDS Naturals, Sequences

CONSTANTS
  Lines, Words,    \* the lines typed, and how many words each has
  Steppable,       \* those that steppable() accepts
  Pastes,          \* what may stand in the input box: sequences of lines
  Key, Source,     \* a key passed to the program; the data-src file
  MaxMachines, MaxFed    \* bounds

ASSUME LineAssumption ==
  /\ Words \in [Lines -> Nat \ {0}] /\ Steppable \subseteq Lines
  /\ Pastes \subseteq Seq(Lines)
  /\ Key \notin Lines /\ Source \notin Lines /\ Key # Source
ASSUME BoundAssumption == MaxMachines \in Nat \ {0} /\ MaxFed \in Nat

VARIABLES
  machine,            \* which Forth this.forth is: 1, 2, ...
  forthBooting, running,    \* booting (it reads its prelude) and running of this.forth
  fed,                \* what this.forth was sent, in order
  fetching,           \* the machines whose data-src is still being fetched
  busy, stepping, stepBox,
  handler,            \* "idle", or the loop that is running: "run", "step"
  script,             \* lines run() has still to take
  step                \* the line being stepped, its machine, the word just sent

forthVars == <<machine, forthBooting, running, fed>>
editorVars == <<forthVars, fetching, busy, stepping, stepBox, handler, script, step>>

NoStep == [line |-> Key, on |-> 0, word |-> 0]
(* start(): the constructor pumps for a while, and may finish booting.     *)
EditorInit ==
  /\ machine = 1 /\ fetching = {1}
  /\ forthBooting \in BOOLEAN /\ running = forthBooting /\ busy = forthBooting
  /\ fed = <<>>
  /\ stepping = FALSE /\ stepBox = FALSE
  /\ handler = "idle" /\ script = <<>> /\ step = NoStep

------------------------------------------------------------------------------
(* submit, or send and pump: the machine comes to rest before pump returns *)
(* (onIdle clears busy), or goes on in later frames.                       *)
AtRest == forthBooting' = FALSE /\ running' = FALSE /\ busy' = FALSE
Send(line, word, busyBefore) ==
  /\ fed' = Append(fed, [line |-> line, word |-> word])
  /\ UNCHANGED machine
  /\ \/ AtRest
     \/ running' = TRUE /\ forthBooting' \in {forthBooting, FALSE} /\ busy' = busyBefore

StartBusy == busy' = forthBooting'

Reset ==
  /\ handler = "idle" /\ machine < MaxMachines
  /\ machine' = machine + 1
  /\ fetching' = fetching \cup {machine'}
  /\ fed' = <<>>
  /\ forthBooting' \in BOOLEAN /\ running' = forthBooting'
  /\ StartBusy
  /\ UNCHANGED <<stepping, stepBox, handler, script, step>>

(* onIdle, from a frame. *)
Idle ==
  /\ handler = "idle" /\ running
  /\ AtRest
  /\ UNCHANGED <<machine, fed, fetching, stepping, stepBox, handler, script, step>>

(* Mutant of Mine: a late callback is taken by whoever is there. *)
MineAlways(m) == m \in fetching
Mine(m)       == m = machine

(* The fetch of start() ends; load() submits the file line by line. *)
Fetched ==
  /\ handler = "idle"
  /\ \E m \in fetching :
       /\ fetching' = fetching \ {m}
       /\ IF Mine(m)
            THEN Send(Source, 0, TRUE)
            ELSE UNCHANGED <<forthVars, busy>>
  /\ UNCHANGED <<stepping, stepBox, handler, script, step>>

FetchFails ==
  /\ handler = "idle"
  /\ \E m \in fetching : fetching' = fetching \ {m}
  /\ UNCHANGED <<forthVars, busy, stepping, stepBox, handler, script, step>>

Tick ==
  /\ handler = "idle"
  /\ stepBox' = ~stepBox
  /\ UNCHANGED <<forthVars, fetching, busy, stepping, handler, script, step>>
------------------------------------------------------------------------------
(* Mutant of Owned: a line in flight does not hold the keyboard. *)
OwnedWhileBusy == busy
(* onKey: the keyboard belongs to the program, or to the stepped line. *)
Owned          == busy \/ stepping

KeyToProgram ==
  /\ handler = "idle" /\ ~forthBooting /\ Owned
  /\ Len(fed) < MaxFed
  /\ Send(Key, 0, busy)
  /\ UNCHANGED <<fetching, stepping, stepBox, handler, script, step>>

Enter ==
  /\ handler = "idle" /\ ~forthBooting /\ ~Owned
  /\ Len(fed) < MaxFed
  /\ script' \in Pastes
  /\ handler' = "run"
  /\ UNCHANGED <<forthVars, fetching, busy, stepping, stepBox, step>>

ByStep(line) == stepBox /\ line \in Steppable

SetBusy == TRUE

RunWhole ==
  /\ handler = "run" /\ script # <<>> /\ ~ByStep(Head(script))
  /\ script' = Tail(script)
  /\ Send(Head(script), 0, SetBusy)
  /\ UNCHANGED <<fetching, stepping, stepBox, handler, step>>

RunStep ==
  /\ handler = "run" /\ script # <<>> /\ ByStep(Head(script))
  /\ script' = Tail(script)
  /\ step' = [line |-> Head(script), on |-> machine, word |-> 0]
  /\ stepping' = TRUE /\ busy' = TRUE
  /\ handler' = "step"
  /\ UNCHANGED <<forthVars, fetching, stepBox>>

RunDone ==
  /\ handler = "run" /\ script = <<>>
  /\ handler' = "idle"
  /\ UNCHANGED <<forthVars, fetching, busy, stepping, stepBox, script, step>>

(* Mutant of Replaced: the successor is taken for the line's machine. *)
ReplacedNever == step.on > machine
Replaced      == step.on # machine

(* finally, and the last line of step(). *)
StepLeaves ==
  /\ stepping' = FALSE /\ step' = NoStep
  /\ handler' = "run"
  /\ busy' = (busy /\ Replaced)
  /\ UNCHANGED <<forthVars, fetching, stepBox, script>>

(* The next word goes in, and step() awaits the pause. *)
StepWord ==
  /\ handler = "step" /\ ~Replaced
  /\ step' = [step EXCEPT !.word = @ + 1]
  /\ Send(step.line, step.word + 1, busy)
  /\ handler' = "idle"
  /\ UNCHANGED <<fetching, stepping, stepBox, script>>

StepReplaced == handler = "step" /\ Replaced /\ StepLeaves

(* The pause is over. *)
Paused == handler = "idle" /\ step # NoStep

(* Mutant of MoreWords: the for loop ends one word too early. *)
MoreWordsShort == step.word + 1 < Words[step.line]
MoreWords      == step.word < Words[step.line]

PauseEnds ==
  /\ Paused /\ stepBox /\ MoreWords
  /\ handler' = "step"
  /\ UNCHANGED <<forthVars, fetching, busy, stepping, stepBox, script, step>>

StepUnticked == Paused /\ ~stepBox /\ StepLeaves
StepDone     == Paused /\ stepBox /\ ~MoreWords /\ StepLeaves

EditorNext ==
  \/ Reset \/ Idle \/ Fetched \/ FetchFails \/ Tick
  \/ KeyToProgram \/ Enter
  \/ RunWhole \/ RunStep \/ RunDone
  \/ StepWord \/ StepReplaced \/ PauseEnds \/ StepUnticked \/ StepDone

EditorSpec == EditorInit /\ [][EditorNext]_editorVars

------------------------------------------------------------------------------
IsCode(i)     == fed[i].line \in Lines
LastCode(j)   == IsCode(j) /\ \A k \in DOMAIN fed : k > j => ~IsCode(k)
Follows(i, j) == \* j and i are code, and only keys and files lie between
  j < i /\ IsCode(j) /\ IsCode(i) /\ \A k \in DOMAIN fed : j < k /\ k < i => ~IsCode(k)
FirstCode(i)  == IsCode(i) /\ \A k \in DOMAIN fed : k < i => ~IsCode(k)

(* run: "without awaiting it, several stepped lines from one paste would   *)
(* interleave their words into a single input queue": nothing typed or     *)
(* pasted comes between a word of a stepped line and the next.             *)
NoInterleaving ==
  \A i, j \in DOMAIN fed :
    Follows(i, j) /\ fed[i].word > 1 => fed[j] = [fed[i] EXCEPT !.word = @ - 1]

(* step: "Hold the machine this line belongs to and stop if it is replaced, *)
(* rather than feeding the rest of the line to its successor."             *)
SuccessorClean == \A i \in DOMAIN fed : FirstCode(i) => fed[i].word \in {0, 1}

(* start: the file is compiled into the machine it was fetched for, once.  *)
SourceOnce ==
  \A i, j \in DOMAIN fed : fed[i].line = Source /\ fed[j].line = Source => i = j

(* A stepped line is fed to its last word, and nothing is typed after it,   *)
(* unless its machine is replaced or the box is unticked.                  *)
SteppedLinesFinish ==
  [][stepping /\ ~stepping' /\ stepBox /\ ~Replaced =>
       \E j \in DOMAIN fed :
         LastCode(j) /\ fed[j] = [line |-> step.line, word |-> Words[step.line]]]_editorVars
==============================================================================
