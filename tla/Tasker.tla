-------------------------------- MODULE Tasker --------------------------------
(***************************************************************************)
(* The cooperative multitasker of eForth: pause (forth/20-target-vm.fth),  *)
(* task-init (forth/50-tools-blocks-io.fth), activate, wait, signal, send, *)
(* receive, single and multi (forth/60-optional-multitasking.fth).         *)
(*                                                                         *)
(* Control changes hands only inside pause, so everything between two      *)
(* pauses of a task is one step.  A task is an arbitrary program over the  *)
(* words; a word that waits is the loop "begin pause ... until", and its   *)
(* saved ip is in that loop.                                               *)
(*                                                                         *)
(* activate calls task-init with a byte address where task-init, like      *)
(* task:, works on a cell address: what it initialises lies outside every  *)
(* task's area, and the task keeps what task: gave it.                     *)
(***************************************************************************)
EXTENDS Naturals, SequencesExt, FiniteSetsExt

CONSTANTS
  Task, main,
  Addr,              \* cells used with wait and signal
  Msg,
  None,              \* a zero cell
  MaxCalls,          \* bound: sends and signals, in all
  MaxCuts            \* bound on cuts

ASSUME TaskAssumption == main \in Task /\ None \notin Task
ASSUME NameAssumption == None \notin Msg /\ Addr # {}
ASSUME BoundAssumption == {MaxCalls, MaxCuts} \subseteq Nat

VARIABLES
  up,                \* {up}: the running task
  regs, base,        \* ip, tos, {rp}, {sp}; {rp0} and {sp0}
  single,            \* {single}
  next,              \* [{next-task}] of every task
  saved,             \* its {ip-save} .. {sp-save}
  sender, message,   \* its mailbox
  cell,              \* what wait and signal work on
  order,             \* the ring, from main on (history)
  sent, got,         \* to and by every task: <<sender, message>> (history)
  cuts,              \* what may have cut tasks out of the ring (history)
  signals            \* given, per cell (history)

mailVars   == <<sender, message, sent, got>>
signalVars == <<cell, signals>>
ringVars   == <<order, cuts>>
vars == <<up, regs, base, single, next, saved, mailVars, signalVars, ringVars>>

(* Where a program is: in its own words ("run"), about to halt ("bye"), or *)
(* in the loop of a waiting word, with its operands.                       *)
Ip == [op : {"run", "bye", "receive"}, on : {None}, msg : {None}]
        \cup [op : {"wait"}, on : Addr, msg : {None}]
        \cup [op : {"send"}, on : Task, msg : Msg]
At(o)  == [op |-> o, on |-> None, msg |-> None]

(* Stacks are named after the task they belong to. *)
Regs == [ip : Ip, tos : Msg \cup {None}, rp : Task, sp : Task]

(* task-init, by ini or by task: a ring of one, set to say bye. *)
TaskInit(t) == [ip |-> At("bye"), tos |-> None, rp |-> t, sp |-> t]

Init ==
  /\ up = main /\ base = main
  /\ regs = [TaskInit(main) EXCEPT !.ip = At("run")]
  /\ single = TRUE
  /\ next = [t \in Task |-> t]
  /\ saved = [t \in Task |-> TaskInit(t)]
  /\ sender = [t \in Task |-> None] /\ message = [t \in Task |-> None]
  /\ cell = [a \in Addr |-> None]
  /\ order = <<main>> /\ cuts = [activate |-> 0, error |-> 0]
  /\ sent = [t \in Task |-> <<>>] /\ got = [t \in Task |-> <<>>]
  /\ signals = [a \in Addr |-> 0]

------------------------------------------------------------------------------
(* Mutant of Saved: tos is not among the registers saved. *)
SavedNoTos(r) == [r EXCEPT !.tos = saved[up].tos]
Saved(r) == r

(* Mutant of BaseOf: {rp0} is left where the task before had it. *)
BaseStale(t) == up
BaseOf(t) == t

(* pause, with the registers the program has reached.  The area of the     *)
(* running task is dead, pause writes all of it before anybody reads it:   *)
(* the model has task-init's values there.                                 *)
Pause(r) ==
  IF single
    THEN regs' = r /\ UNCHANGED <<up, base, saved>>
    ELSE LET areas == [saved EXCEPT ![up] = Saved(r)]
         IN /\ up' = next[up]
            /\ regs' = areas[up']
            /\ saved' = [areas EXCEPT ![up'] = TaskInit(up')]
            /\ base' = BaseOf(up')

GoOn == regs' = [regs EXCEPT !.ip = At("run")]

Program == regs.ip.op = "run"
In(o)   == regs.ip.op = o

(* pause by itself. *)
Pausing ==
  /\ Program
  /\ Pause(regs)
  /\ UNCHANGED <<single, next, mailVars, signalVars, ringVars>>

Single ==
  /\ Program
  /\ single' \in BOOLEAN /\ single' # single
  /\ UNCHANGED <<up, regs, base, next, saved, mailVars, signalVars, ringVars>>
------------------------------------------------------------------------------
(* Mutant of Linked: the new task points back at the one that started it. *)
LinkedBack(t) == [next EXCEPT ![up] = t, ![t] = up]
(* "link in task", after the running one. *)
Linked(t) == [next EXCEPT ![up] = t, ![t] = next[up]]

Active == ToSet(order)
Cuts == cuts.activate + cuts.error

(* activate of any task: nothing checks that it is not in the ring yet.    *)
Activate ==
  /\ Program
  /\ \E t \in Task :
       /\ saved' = IF t = up THEN saved ELSE [saved EXCEPT ![t].ip = At("run")]
       /\ next' = Linked(t)
       /\ cuts' = IF t \in Active THEN [cuts EXCEPT !.activate = @ + 1] ELSE cuts
       /\ Cuts' <= MaxCuts
       /\ order' = IF t \in Active THEN order
                   ELSE InsertAt(order, 1 + CHOOSE i \in 1 .. Len(order) : order[i] = up, t)
  /\ UNCHANGED <<up, regs, base, single, mailVars, signalVars>>

(* An error nobody caught, in main's quit loop: ini is task-init of the    *)
(* running task, so its ring is a ring of one again.                       *)
Error ==
  /\ Program /\ up = main /\ Len(order) > 1
  /\ Cuts < MaxCuts /\ cuts' = [cuts EXCEPT !.error = @ + 1]
  /\ next' = [next EXCEPT ![up] = up]
  /\ UNCHANGED <<up, regs, base, single, saved, mailVars, signalVars, order>>
------------------------------------------------------------------------------
(* What a task has: live if it runs, else as it was saved. *)
StateOf(t) == IF t = up THEN regs ELSE saved[t]

(* The sends begun and the signals given so far, bounded by MaxCalls. *)
Calls == Cardinality({t \in Task : StateOf(t).ip.op = "send"})
           + FoldSet(LAMBDA t, n : n + Len(sent[t]), 0, Task)
           + FoldSet(LAMBDA a, n : n + signals[a], 0, Addr)

(* wait ( addr -- ): begin pause @+ until #0 swap ! *)
Wait ==
  /\ Program
  /\ \E a \in Addr : Pause([regs EXCEPT !.ip = [At("wait") EXCEPT !.on = a]])
  /\ UNCHANGED <<single, next, mailVars, signalVars, ringVars>>

WaitAgain ==
  /\ In("wait") /\ cell[regs.ip.on] = None
  /\ Pause(regs)
  /\ UNCHANGED <<single, next, mailVars, signalVars, ringVars>>

WaitOver ==
  /\ In("wait") /\ cell[regs.ip.on] # None
  /\ cell' = [cell EXCEPT ![regs.ip.on] = None]
  /\ GoOn
  /\ UNCHANGED <<up, base, single, next, saved, mailVars, signals, ringVars>>

(* signal ( addr -- ): this swap !  A second one before the wait is lost. *)
Signal ==
  /\ Program
  /\ Calls < MaxCalls
  /\ \E a \in Addr :
       /\ cell' = [cell EXCEPT ![a] = up]
       /\ signals' = [signals EXCEPT ![a] = @ + 1]
  /\ UNCHANGED <<up, regs, base, single, next, saved, mailVars, ringVars>>
------------------------------------------------------------------------------
(* send ( msg task-addr -- ): begin pause @+ 0= until, then the sender and *)
(* the message go into the mailbox.                                        *)
Send ==
  /\ Program
  /\ Calls < MaxCalls
  /\ \E t \in Task, n \in Msg :
       Pause([regs EXCEPT !.ip = [op |-> "send", on |-> t, msg |-> n]])
  /\ UNCHANGED <<single, next, mailVars, signalVars, ringVars>>

(* Mutant of Vacant: the mailbox is not looked at. *)
VacantAlways(t) == TRUE
Vacant(t) == sender[t] = None

SendAgain ==
  /\ In("send") /\ ~Vacant(regs.ip.on)
  /\ Pause(regs)
  /\ UNCHANGED <<single, next, mailVars, signalVars, ringVars>>

SendOver ==
  /\ In("send") /\ Vacant(regs.ip.on)
  /\ LET t == regs.ip.on  n == regs.ip.msg
     IN  /\ sender' = [sender EXCEPT ![t] = up]
         /\ message' = [message EXCEPT ![t] = n]
         /\ sent' = [sent EXCEPT ![t] = Append(@, <<up, n>>)]
  /\ GoOn
  /\ UNCHANGED <<up, base, single, next, saved, got, signalVars, ringVars>>

(* receive ( -- msg task-addr ): begin pause [ {sender} ] up @ until ... *)
Receive ==
  /\ Program
  /\ Pause([regs EXCEPT !.ip = At("receive")])
  /\ UNCHANGED <<single, next, mailVars, signalVars, ringVars>>

Mail(t) == sender[t] # None

ReceiveAgain ==
  /\ In("receive") /\ ~Mail(up)
  /\ Pause(regs)
  /\ UNCHANGED <<single, next, mailVars, signalVars, ringVars>>

ReceiveOver ==
  /\ In("receive") /\ Mail(up)
  /\ regs' = [regs EXCEPT !.ip = At("run"), !.tos = message[up]]
  /\ got' = [got EXCEPT ![up] = Append(@, <<sender[up], message[up]>>)]
  /\ sender' = [sender EXCEPT ![up] = None]
  /\ UNCHANGED <<up, base, single, next, saved, message, sent, signalVars, ringVars>>

Next ==
  \/ Pausing \/ Single \/ Activate \/ Error
  \/ Wait \/ WaitAgain \/ WaitOver \/ Signal
  \/ Send \/ SendAgain \/ SendOver
  \/ Receive \/ ReceiveAgain \/ ReceiveOver

Spec == Init /\ [][Next]_vars

(* The machine goes on executing; programs go on to their next pause. *)
Runs == \/ Pausing \/ Wait \/ WaitAgain \/ WaitOver
        \/ Send \/ SendAgain \/ SendOver
        \/ Receive \/ ReceiveAgain \/ ReceiveOver
FairSpec == Spec /\ WF_vars(Runs)

------------------------------------------------------------------------------
(* The running task has its own stacks, and they are the ones depth and    *)
(* throw measure from: pause computes {rp0} and {sp0} again, and restores  *)
(* {rp} and {sp} from the task's area.                                     *)
OwnStacks ==
  /\ regs.rp = up /\ regs.sp = up /\ base = up
  /\ \A t \in Task : saved[t].rp = t /\ saved[t].sp = t

(* A switch is transparent: no task can tell by its registers that others  *)
(* ran.  A task leaves with the stacks and tos it had, nobody else's step  *)
(* touches what it has, and only activate may start it somewhere else.     *)
SwitchIsTransparent ==
  [][\A t \in Task :
       \/ t = up /\ (up' # up => \E i \in Ip : StateOf(t)' = [regs EXCEPT !.ip = i])
       \/ t # up /\ UNCHANGED StateOf(t)
       \/ t \in Active' /\ (t \notin Active \/ next # next')]_vars

(* The links of the active tasks are one ring, each task once, in the      *)
(* order of activation after the activating task, and only they run.       *)
RingIsWhole == (Cuts = 0) =>
  /\ IsInjective(order) /\ up \in Active
  /\ \A i \in 1 .. Len(order) :
       next[order[i]] = order[IF i = Len(order) THEN 1 ELSE i + 1]

(* "block until message", "pause until zero": every message sent is        *)
(* received once, by the task it was sent to, with its sender, in order;   *)
(* at most one is under way to each task.                                  *)
MailIsDelivered ==
  \A t \in Task :
    sent[t] = got[t] \o (IF sender[t] = None THEN <<>> ELSE <<<<sender[t], message[t]>>>>)

(* "tasks run round-robin": with multi on for good, and programs that keep *)
(* pausing, every active task runs again and again.                        *)
EveryTaskRuns ==
  <>[]~single /\ [](Cuts = 0) => \A t \in Task : [](t \in Active => <>(up = t))
==============================================================================
