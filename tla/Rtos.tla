-------------------------------- MODULE Rtos --------------------------------
(***************************************************************************)
(* The preemptive RTOS of tests/rv32i/rtos (rtos.c, ktrap.S): a priority   *)
(* scheduler run by the timer trap, a counting semaphore and a             *)
(* priority-inheritance mutex.  Tasks run arbitrary programs over those    *)
(* calls.  A call runs with interrupts off from irq_off to irq_on, or to   *)
(* the loop in which a blocked task spins, and is one action; the timer    *)
(* may fire anywhere else.                                                 *)
(***************************************************************************)
EXTENDS Integers, FiniteSets

CONSTANTS ntasks,      \* the tasks are 1..ntasks in the order of tasks[]
          BasePrio,    \* base_prio of each task
          Lockers,     \* the tasks whose programs use the mutex
          MaxCount     \* bound: programs post only below this count

Task == 1 .. ntasks
Idle == ntasks
NULL == 0
Prio == 0 .. 255      \* uint8_t

ASSUME TasksAssumption ==
  /\ ntasks \in Nat \ {0}
  /\ BasePrio \in [Task -> Prio]
  /\ \A t \in Task \ {Idle} : BasePrio[t] > BasePrio[Idle]
  /\ Lockers \subseteq Task \ {Idle}
  /\ MaxCount \in Nat

VARIABLES current_tcb,   \* the C variable
          mscratch,      \* the CSR: whose frame the next trap fills
          pc,            \* the context of the task on the processor
          frame,         \* the contexts saved in the TCBs
          state, prio, wq_next,    \* the other fields of the TCBs
          count, sem_wq,           \* the semaphore
          owner, mtx_wq,           \* the mutex
          alive,         \* tasks that have not exited
          inside,        \* the tasks that mutex_lock let in (history)
          heard          \* the waiters the present holder inherited from (history)

tcbs == <<state, prio, wq_next>>
vars == <<current_tcb, mscratch, pc, frame, tcbs, count, sem_wq, owner, mtx_wq,
          alive, inside, heard>>

\* A context is the place in the code it is at: in the task's own code, in
\* the loop of block_current, in the loop of task_exit.
Places == {"task", "sem_wait", "mutex_lock", "dead", "exit"}
States == {"READY", "RUNNING", "BLOCKED", "DEAD"}
Queue  == [head : Task \cup {NULL}, tail : Task \cup {NULL}]

-----------------------------------------------------------------------------
\* Mutant of Beats: a boost does not count.
BeatsUnboosted(s, k, j) ==
  /\ s[k] = "READY"
  /\ s[j] = "READY" => BasePrio[k] > BasePrio[j]
                       \/ (BasePrio[k] = BasePrio[j] /\ k <= j)

\* The highest priority wins, the first in tasks[] among equals.
Beats(s, k, j) ==
  /\ s[k] = "READY"
  /\ s[j] = "READY" => prio[k] > prio[j] \/ (prio[k] = prio[j] /\ k <= j)

scheduler_tick(s) == CHOOSE k \in Task : \A j \in Task : Beats(s, k, j)

Yielded == IF state[current_tcb] = "RUNNING"
           THEN [state EXCEPT ![current_tcb] = "READY"]
           ELSE state

\* The timer trap: spill into the frame mscratch points at, schedule, restore
\* the frame of the task chosen.
Trap ==
  LET saved == [frame EXCEPT ![mscratch] = pc]
      best  == scheduler_tick(Yielded)
  IN  /\ pc # "exit"
      /\ frame' = saved
      /\ state' = [Yielded EXCEPT ![best] = "RUNNING"]
      /\ current_tcb' = best
      /\ pc' = saved[best]
      /\ mscratch' = best
      /\ UNCHANGED <<prio, wq_next, count, sem_wq, owner, mtx_wq, alive, inside,
                     heard>>

-----------------------------------------------------------------------------
\* A task makes calls from its own code; idle makes none.
Calls == pc = "task" /\ current_tcb # Idle

\* A parked task leaves its loop once somebody has made it READY (and the
\* scheduler RUNNING).
Resumes(place) == pc = place /\ state[current_tcb] # "BLOCKED"

Pushed(q, t) == [head |-> IF q.tail = NULL THEN t ELSE q.head, tail |-> t]

\* Where wq_push writes the link: the new task's own, and the old tail's.
Linked(q, t) ==
  [k \in Task |-> IF k = t THEN NULL ELSE IF k = q.tail THEN t ELSE wq_next[k]]

\* Mutant of Popped: the tail outlives the last task.
PoppedTailKept(q) ==
  IF q.head = NULL THEN q ELSE [q EXCEPT !.head = wq_next[q.head]]

Popped(q) ==
  IF q.head = NULL THEN q
  ELSE [head |-> wq_next[q.head],
        tail |-> IF wq_next[q.head] = NULL THEN NULL ELSE q.tail]

\* Mutant of Woken: off the queue, but still parked.
WokenNot(q) == state

Woken(q) == [t \in Task |-> IF t = q.head THEN "READY" ELSE state[t]]

\* block_current, as far as its loop.
Parks(q, place) ==
  /\ state' = [state EXCEPT ![current_tcb] = "BLOCKED"]
  /\ wq_next' = Linked(q, current_tcb)
  /\ pc' = place

-----------------------------------------------------------------------------
AtSem == Calls \/ Resumes("sem_wait")

\* Mutant of Token: "if" for "while", so a woken waiter does not look again.
TokenOnce == count # 0 \/ pc = "sem_wait"

Token == count # 0

SemWaitTakes ==
  /\ AtSem
  /\ Token
  /\ count' = count - 1
  /\ pc' = "task"
  /\ UNCHANGED <<current_tcb, mscratch, frame, tcbs, sem_wq, owner, mtx_wq,
                 alive, inside, heard>>

SemWaitBlocks ==
  /\ AtSem
  /\ ~Token
  /\ Parks(sem_wq, "sem_wait")
  /\ sem_wq' = Pushed(sem_wq, current_tcb)
  /\ UNCHANGED <<current_tcb, mscratch, frame, prio, count, owner, mtx_wq,
                 alive, inside, heard>>

sem_post ==
  /\ Calls
  /\ count < MaxCount
  /\ count' = count + 1
  /\ sem_wq' = Popped(sem_wq)
  /\ state' = Woken(sem_wq)
  /\ UNCHANGED <<current_tcb, mscratch, pc, frame, prio, wq_next, owner, mtx_wq,
                 alive, inside, heard>>

-----------------------------------------------------------------------------
\* Programs lock only what they do not hold.
AtLock == \/ Calls /\ current_tcb \in Lockers \ inside
          \/ Resumes("mutex_lock")

Free == owner \in {NULL, current_tcb}

MutexLockTakes ==
  /\ AtLock
  /\ Free
  /\ owner' = current_tcb
  /\ inside' = inside \cup {current_tcb}
  /\ heard' = {}
  /\ pc' = "task"
  /\ UNCHANGED <<current_tcb, mscratch, frame, tcbs, count, sem_wq, mtx_wq, alive>>

\* Mutant of Inherited: no priority inheritance.
InheritedNot == prio

Inherited ==
  [prio EXCEPT ![owner] = IF prio[current_tcb] > @ THEN prio[current_tcb] ELSE @]

MutexLockBlocks ==
  /\ AtLock
  /\ ~Free
  /\ prio' = Inherited
  /\ Parks(mtx_wq, "mutex_lock")
  /\ mtx_wq' = Pushed(mtx_wq, current_tcb)
  /\ heard' = heard \cup {current_tcb}
  /\ UNCHANGED <<current_tcb, mscratch, frame, count, sem_wq, owner, alive, inside>>

\* Mutant of MayUnlock: anybody's unlock counts.
MayUnlockAll == TRUE

\* A call by a task that does not hold the mutex is ignored.
MayUnlock == owner = current_tcb

\* Mutant of Restored: the boost stays.
RestoredNot == prio

Restored == [prio EXCEPT ![current_tcb] = BasePrio[current_tcb]]

mutex_unlock ==
  /\ Calls
  /\ MayUnlock
  /\ prio' = Restored
  /\ owner' = NULL
  /\ mtx_wq' = Popped(mtx_wq)
  /\ state' = Woken(mtx_wq)
  /\ inside' = inside \ {current_tcb}
  /\ heard' = {}
  /\ UNCHANGED <<current_tcb, mscratch, pc, frame, wq_next, count, sem_wq, alive>>

\* Programs give the mutex back before they exit.
task_exit ==
  /\ Calls
  /\ current_tcb \notin inside
  /\ state' = [state EXCEPT ![current_tcb] = "DEAD"]
  /\ alive' = alive - 1
  /\ pc' = IF alive = 1 THEN "exit" ELSE "dead"
  /\ UNCHANGED <<current_tcb, mscratch, frame, prio, wq_next, count, sem_wq,
                 owner, mtx_wq, inside, heard>>

-----------------------------------------------------------------------------
\* kmain and _start: any task may be the first to run.
Init ==
  /\ current_tcb \in Task
  /\ mscratch = current_tcb
  /\ pc = "task"
  /\ frame = [t \in Task |-> "task"]
  /\ state = [t \in Task |-> IF t = current_tcb THEN "RUNNING" ELSE "READY"]
  /\ prio = BasePrio
  /\ wq_next = [t \in Task |-> NULL]
  /\ count = 0
  /\ sem_wq = [head |-> NULL, tail |-> NULL]
  /\ owner = NULL
  /\ mtx_wq = [head |-> NULL, tail |-> NULL]
  /\ alive = ntasks - 1
  /\ inside = {}
  /\ heard = {}

Next ==
  \/ Trap
  \/ SemWaitTakes \/ SemWaitBlocks \/ sem_post
  \/ MutexLockTakes \/ MutexLockBlocks \/ mutex_unlock
  \/ task_exit

Spec == Init /\ [][Next]_vars

(***************************************************************************)
(* Every loop is a safepoint, so the timer keeps firing; a task that is    *)
(* awake in a call goes on with it; a task holding the mutex and running   *)
(* gets to its unlock.  Nothing else a program does is promised.           *)
(***************************************************************************)
GoesOn == pc # "task" /\ (SemWaitTakes \/ SemWaitBlocks
                          \/ MutexLockTakes \/ MutexLockBlocks)

Fairness == WF_vars(Trap) /\ WF_vars(GoesOn) /\ WF_vars(mutex_unlock)

FairSpec == Spec /\ Fairness

-----------------------------------------------------------------------------
TypeOK ==
  /\ current_tcb \in Task /\ mscratch \in Task
  /\ pc \in Places /\ frame \in [Task -> Places]
  /\ state \in [Task -> States]
  /\ prio \in [Task -> Prio]
  /\ wq_next \in [Task -> Task \cup {NULL}]
  /\ count \in 0 .. MaxCount
  /\ sem_wq \in Queue /\ mtx_wq \in Queue
  /\ owner \in Task \cup {NULL}
  /\ alive \in 0 .. ntasks - 1
  /\ inside \subseteq Lockers /\ heard \subseteq Lockers

\* Where a task is in its code, on the processor or not.
Place(t) == IF t = current_tcb THEN pc ELSE frame[t]

Waiting(place) == {t \in Task : Place(t) = place /\ state[t] = "BLOCKED"}
Awake(place)   == {t \in Task : Place(t) = place /\ state[t] # "BLOCKED"}

(* mutex_lock lets one task in at a time, whatever preempts what, whoever  *)
(* steals the mutex from a woken waiter and whoever unlocks by mistake.    *)
MutualExclusion ==
  \A t \in inside : owner = t

\* s lists W, each task once, as next links it from q.head to q.tail.
Links(s, n, q, next, W) ==
  /\ \A t \in W : \E i \in 1 .. n : s[i] = t
  /\ \A i, j \in 1 .. n : s[i] = s[j] => i = j
  /\ \A i \in 1 .. n : next[s[i]] = IF i = n THEN NULL ELSE s[i + 1]
  /\ q.head = IF n = 0 THEN NULL ELSE s[1]
  /\ q.tail = IF n = 0 THEN NULL ELSE s[n]

Listed(q, next, W) ==
  \E s \in [1 .. Cardinality(W) -> W] : Links(s, Cardinality(W), q, next, W)

(* The intrusive lists: each queue ends at its tail and holds exactly the  *)
(* tasks parked on it, so nobody is parked where no post or unlock can     *)
(* find him (block_current, wq_push, wq_pop).                              *)
ParkedAreQueued ==
  /\ Listed(sem_wq, wq_next, Waiting("sem_wait"))
  /\ Listed(mtx_wq, wq_next, Waiting("mutex_lock"))

(* "No token is ever lost" (rtos.c, above sem_wait): while somebody waits, *)
(* there is a woken waiter on his way for every token, although anybody    *)
(* may take tokens in between; and a free mutex with waiters has one on    *)
(* his way.                                                                *)
WakeupsAreKept ==
  /\ sem_wq.head # NULL => count <= Cardinality(Awake("sem_wait"))
  /\ mtx_wq.head # NULL /\ owner = NULL => Awake("mutex_lock") # {}

(* A boost is borrowed from a waiter, by the holder, and given back.       *)
BoostsAreBorrowed ==
  \A t \in Task : prio[t] # BasePrio[t] =>
    /\ owner = t
    /\ \E w \in heard \cap Waiting("mutex_lock") : prio[t] = prio[w]

(* Priority inheritance: while a task is blocked on the holder, the        *)
(* scheduler turns to nobody whom that task outranks, as long as the       *)
(* holder could run instead ("a medium-priority task cannot preempt the    *)
(* holder").  A waiter who was queued before the present holder took the   *)
(* mutex lends it nothing, which rtos.c declares out of its scope.         *)
NoInversion ==
  [][ \A w \in heard :
        current_tcb' # current_tcb /\ state'[owner] \in {"READY", "RUNNING"}
          => current_tcb' = owner \/ prio'[current_tcb'] >= prio'[w] ]_vars

(* ... and so, when the waiter is the task of highest priority, the        *)
(* critical section ends and his wait with it, although a task in the      *)
(* middle may compute for ever; unless the holder itself waits for a       *)
(* semaphore.                                                              *)
InversionEnds ==
  \A w \in {t \in Lockers : \A k \in Task \ {t} : BasePrio[k] < BasePrio[t]} :
    w \in heard ~> (w \notin heard \/ state[owner] = "BLOCKED")
==============================================================================
