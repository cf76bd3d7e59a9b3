----------------------------- MODULE RtosProofs -----------------------------
(***************************************************************************)
(* For any number of tasks, any priorities and any programs: the mutex     *)
(* excludes, no wake-up is lost, boosts are borrowed and given back, and   *)
(* the scheduler inverts no priorities.                                    *)
(***************************************************************************)
EXTENDS Rtos, FiniteSetTheorems, WellFoundedInduction, TLAPS

USE TasksAssumption

-----------------------------------------------------------------------------
(* The inductive invariant. *)

(* The trap saves the task it interrupts, in that task's own frame. *)
OneRuns == /\ mscratch = current_tcb
           /\ \A t \in Task : state[t] = "RUNNING" => t = current_tcb

IdleIsReady == state[Idle] \in {"READY", "RUNNING"} /\ Place(Idle) = "task"

(* The owner is the one task that mutex_lock let in, and is not in it again. *)
HolderIsInside ==
  /\ MutualExclusion
  /\ owner # NULL => owner \in inside
  /\ \A t \in Task : Place(t) = "mutex_lock" => t \in Lockers \ inside

(* Whoever queued behind the present holder has lent it his priority. *)
HolderInherits ==
  \A w \in heard : owner \in Task \ {w} /\ prio[owner] >= prio[w]

Gone == {"dead", "exit"}
Living == {t \in Task \ {Idle} : Place(t) \notin Gone}

AliveIsCounted == IsFiniteSet(Living) /\ alive = Cardinality(Living)

Inv == /\ TypeOK /\ OneRuns /\ IdleIsReady /\ HolderIsInside
       /\ ParkedAreQueued /\ WakeupsAreKept /\ BoostsAreBorrowed /\ HolderInherits
       /\ AliveIsCounted

-----------------------------------------------------------------------------
(* The scheduler. *)
LEMMA TaskFacts == Idle \in Task /\ NULL \notin Task /\ IsFiniteSet(Task)
BY FS_Interval DEF Idle, Task, NULL

LEMMA LeastNatural ==
  ASSUME NEW S \in SUBSET Nat, S # {}
  PROVE  \E x \in S : \A y \in S : x <= y
<1>1. PICK x \in S : \A y \in S : ~(<<y, x>> \in OpToRel(<, Nat))
  BY WFMin, NatLessThanWellFounded
<1>2. ASSUME NEW y \in S PROVE x <= y
  <2>1. ~(y < x)
    BY <1>1 DEF OpToRel
  <2> QED BY <2>1
<1> QED BY <1>2

LEMMA SchedulerChooses ==
  ASSUME TypeOK, NEW s \in [Task -> States], s[Idle] = "READY"
  PROVE  /\ scheduler_tick(s) \in Task
         /\ \A j \in Task : Beats(s, scheduler_tick(s), j)
<1> DEFINE Ready == {t \in Task : s[t] = "READY"}
           Gaps  == {255 - prio[t] : t \in Ready}
<1>1. PICK gap \in Gaps : \A g \in Gaps : gap <= g
  <2>1. Gaps \in SUBSET Nat
    BY DEF TypeOK, Prio
  <2>2. Gaps # {}
    BY TaskFacts
  <2> HIDE DEF Gaps
  <2> QED BY <2>1, <2>2, LeastNatural
<1> DEFINE Best == {t \in Ready : 255 - prio[t] = gap}
<1>2. PICK k \in Best : \A j \in Best : k <= j
  <2>1. Best \in SUBSET Nat /\ Best # {}
    BY DEF Task
  <2> HIDE DEF Best
  <2> QED BY <2>1, LeastNatural
<1>3. ASSUME NEW j \in Task PROVE Beats(s, k, j)
  <2>1. CASE s[j] = "READY"
    <3>1. 255 - prio[k] <= 255 - prio[j] /\ (prio[j] = prio[k] => k <= j)
      BY <1>1, <1>2, <2>1
    <3>2. prio[k] \in Int /\ prio[j] \in Int
      BY <1>2 DEF TypeOK, Prio
    <3> QED BY <1>2, <3>1, <3>2 DEF Beats
  <2> QED BY <1>2, <2>1 DEF Beats
<1>4. \E i \in Task : \A j \in Task : Beats(s, i, j)
  BY <1>2, <1>3
<1> QED BY <1>4 DEF scheduler_tick

(* A trap moves nobody: it changes who runs, and nothing else. *)
LEMMA TrapEffect ==
  ASSUME TypeOK, OneRuns, IdleIsReady, Trap
  PROVE  /\ current_tcb' \in Task /\ mscratch' = current_tcb'
         /\ pc' \in Places /\ frame' \in [Task -> Places]
         /\ state' \in [Task -> States]
         /\ \A j \in Task : Beats(Yielded, current_tcb', j)
         /\ \A t \in Task : Place(t)' = Place(t)
         /\ \A t \in Task : state'[t] = "BLOCKED" <=> state[t] = "BLOCKED"
         /\ \A t \in Task : state'[t] = IF t = current_tcb' THEN "RUNNING" ELSE Yielded[t]
         /\ \A t \in Task : Yielded[t] \in {"READY", "BLOCKED", "DEAD"}
<1>1. Yielded \in [Task -> States] /\ Yielded[Idle] = "READY"
  BY TaskFacts DEF Yielded, TypeOK, States, OneRuns, IdleIsReady
<1>2. /\ current_tcb' = scheduler_tick(Yielded) /\ current_tcb' \in Task
      /\ \A j \in Task : Beats(Yielded, current_tcb', j)
  BY <1>1, SchedulerChooses DEF Trap
<1>3. Yielded[current_tcb'] = "READY"
  BY <1>2, TaskFacts DEF Beats
<1>4. \A t \in Task : Yielded[t] = "BLOCKED" <=> state[t] = "BLOCKED"
  BY DEF Yielded, TypeOK
<1>5. /\ frame' = [frame EXCEPT ![current_tcb] = pc]
      /\ pc' = frame'[current_tcb'] /\ mscratch' = current_tcb'
      /\ state' = [Yielded EXCEPT ![current_tcb'] = "RUNNING"]
  BY DEF Trap, OneRuns
<1>6. frame' \in [Task -> Places] /\ pc' \in Places
  BY <1>2, <1>5 DEF TypeOK
<1>7. \A t \in Task : Place(t)' = Place(t)
  BY <1>2, <1>5 DEF Place, TypeOK
<1>8. \A t \in Task : Yielded[t] \in {"READY", "BLOCKED", "DEAD"}
  BY DEF Yielded, TypeOK, States, OneRuns
<1> QED BY <1>1, <1>2, <1>3, <1>4, <1>5, <1>6, <1>7, <1>8 DEF States

(* A call moves only the task that makes it, which is not idle. *)
Call == SemWaitTakes \/ SemWaitBlocks \/ sem_post
        \/ MutexLockTakes \/ MutexLockBlocks \/ mutex_unlock \/ task_exit

LEMMA CallEffect ==
  ASSUME TypeOK, IdleIsReady, Call
  PROVE  /\ current_tcb' = current_tcb /\ mscratch' = mscratch /\ frame' = frame
         /\ current_tcb \in Task \ {Idle}
         /\ \A t \in Task : Place(t)' = IF t = current_tcb THEN pc' ELSE Place(t)
         /\ pc' \in Places
<1>1. current_tcb' = current_tcb /\ mscratch' = mscratch /\ frame' = frame
  BY DEF Call, SemWaitTakes, SemWaitBlocks, sem_post, MutexLockTakes,
         MutexLockBlocks, mutex_unlock, task_exit
<1>2. current_tcb # Idle
  BY DEF Call, SemWaitTakes, SemWaitBlocks, sem_post, MutexLockTakes,
         MutexLockBlocks, mutex_unlock, task_exit, AtSem, AtLock, Calls,
         Resumes, IdleIsReady, Place
<1>3. pc' \in Places
  BY DEF Call, SemWaitTakes, SemWaitBlocks, sem_post, MutexLockTakes,
         MutexLockBlocks, mutex_unlock, task_exit, Parks, Places, TypeOK
<1> QED BY <1>1, <1>2, <1>3 DEF TypeOK, Place

-----------------------------------------------------------------------------
(* Types, and who runs. *)
LEMMA QueueTypes ==
  ASSUME TypeOK, NEW q \in Queue
  PROVE  /\ Popped(q) \in Queue
         /\ Woken(q) \in [Task -> States]
         /\ \A t \in Task : Pushed(q, t) \in Queue
                            /\ Linked(q, t) \in [Task -> Task \cup {NULL}]
BY DEF TypeOK, Queue, Popped, Woken, Pushed, Linked, States

LEMMA CallTypes ==
  ASSUME Inv, Call
  PROVE  TypeOK'
<1> USE DEF Inv
<1>0. /\ current_tcb' = current_tcb /\ mscratch' = mscratch /\ frame' = frame
      /\ current_tcb \in Task \ {Idle} /\ pc' \in Places
  BY CallEffect
<1>1. CASE SemWaitTakes
  BY <1>0, <1>1 DEF SemWaitTakes, Token, TypeOK, tcbs
<1>2. CASE SemWaitBlocks
  BY <1>0, <1>2, QueueTypes DEF SemWaitBlocks, Parks, TypeOK, States
<1>3. CASE sem_post
  BY <1>0, <1>3, QueueTypes DEF sem_post, TypeOK
<1>4. CASE MutexLockTakes
  <2>1. current_tcb \in Lockers
    BY <1>4 DEF MutexLockTakes, AtLock, Resumes, HolderIsInside, Place, TypeOK
  <2> QED BY <1>0, <1>4, <2>1 DEF MutexLockTakes, TypeOK, tcbs
<1>5. CASE MutexLockBlocks
  <2>1. current_tcb \in Lockers
    BY <1>5 DEF MutexLockBlocks, AtLock, Resumes, HolderIsInside, Place, TypeOK
  <2>2. prio' \in [Task -> Prio]
    BY <1>5 DEF MutexLockBlocks, Inherited, TypeOK
  <2> QED BY <1>0, <1>5, <2>1, <2>2, QueueTypes DEF MutexLockBlocks, Parks, TypeOK, States
<1>6. CASE mutex_unlock
  <2>1. prio' \in [Task -> Prio]
    BY <1>6 DEF mutex_unlock, Restored, TypeOK
  <2> QED BY <1>0, <1>6, <2>1, QueueTypes DEF mutex_unlock, TypeOK
<1>7. CASE task_exit
  <2>1. current_tcb \in Living
    BY <1>0, <1>7 DEF task_exit, Calls, Living, Place, Gone
  <2>2. alive \in Nat /\ alive # 0
    BY <2>1, FS_EmptySet, FS_CardinalityType DEF AliveIsCounted
  <2>3. alive - 1 \in 0 .. ntasks - 1
    BY <2>2 DEF TypeOK
  <2> QED BY <1>0, <1>7, <2>3 DEF task_exit, TypeOK, States
<1> QED BY <1>1, <1>2, <1>3, <1>4, <1>5, <1>6, <1>7 DEF Call

LEMMA TypeStep == Inv /\ [Next]_vars => TypeOK'
<1> SUFFICES ASSUME Inv, [Next]_vars PROVE TypeOK'
  OBVIOUS
<1>1. CASE Trap
  BY <1>1, TrapEffect DEF Inv, Trap, TypeOK
<1>2. CASE Call
  BY <1>2, CallTypes
<1>3. CASE UNCHANGED vars
  BY <1>3 DEF Inv, TypeOK, vars, tcbs
<1> QED BY <1>1, <1>2, <1>3 DEF Next, Call

LEMMA SchedStep == Inv /\ [Next]_vars => OneRuns' /\ IdleIsReady'
<1> SUFFICES ASSUME Inv, [Next]_vars PROVE OneRuns' /\ IdleIsReady'
  OBVIOUS
<1> USE DEF Inv
<1>1. CASE Trap
  BY <1>1, TrapEffect, TaskFacts DEF OneRuns, IdleIsReady, Yielded, TypeOK
<1>2. CASE Call
  <2>1. /\ current_tcb' = current_tcb /\ mscratch' = mscratch
        /\ current_tcb # Idle /\ Place(Idle)' = Place(Idle)
    BY <1>2, CallEffect, TaskFacts
  <2>2. /\ \A t \in Task : state'[t] = "RUNNING" => state[t] = "RUNNING"
        /\ state'[Idle] \in {state[Idle], "READY"}
    BY <1>2, <2>1, TaskFacts
    DEF Call, SemWaitTakes, SemWaitBlocks, sem_post, MutexLockTakes,
        MutexLockBlocks, mutex_unlock, task_exit, Parks, Woken, TypeOK, tcbs
  <2> QED BY <2>1, <2>2 DEF OneRuns, IdleIsReady
<1>3. CASE UNCHANGED vars
  BY <1>3 DEF OneRuns, IdleIsReady, Place, vars, tcbs
<1> QED BY <1>1, <1>2, <1>3 DEF Next, Call

(* The last task of a program's own to exit is counted down to zero. *)
LEMMA AliveStep == Inv /\ [Next]_vars => AliveIsCounted'
<1> SUFFICES ASSUME Inv, [Next]_vars PROVE AliveIsCounted'
  OBVIOUS
<1> USE DEF Inv
<1>1. CASE Trap
  <2>1. Living' = Living /\ alive' = alive
    BY <1>1, TrapEffect DEF Living, Trap
  <2> QED BY <2>1 DEF AliveIsCounted
<1>2. CASE task_exit
  <2>1. Living' = Living \ {current_tcb} /\ current_tcb \in Living
    BY <1>2, CallEffect DEF Call, Living, task_exit, Calls, Place, Gone
  <2> QED BY <1>2, <2>1, FS_RemoveElement DEF AliveIsCounted, task_exit
<1>3. CASE Call /\ ~task_exit
  <2>1. pc \notin Gone /\ pc' \notin Gone /\ alive' = alive
    BY <1>3 DEF Call, SemWaitTakes, SemWaitBlocks, sem_post, MutexLockTakes,
        MutexLockBlocks, mutex_unlock, Parks, AtSem, AtLock, Calls, Resumes, Gone
  <2>2. Living' = Living
    BY <1>3, <2>1, CallEffect DEF Living, Place
  <2> QED BY <2>1, <2>2 DEF AliveIsCounted
<1>4. CASE UNCHANGED vars
  <2>1. Living' = Living /\ alive' = alive
    BY <1>4 DEF Living, Place, vars
  <2> QED BY <2>1 DEF AliveIsCounted
<1> QED BY <1>1, <1>2, <1>3, <1>4 DEF Next, Call

-----------------------------------------------------------------------------
(* The mutex. *)
LEMMA HolderStep == Inv /\ [Next]_vars => HolderIsInside'
<1> SUFFICES ASSUME Inv, [Next]_vars PROVE HolderIsInside'
  OBVIOUS
<1> USE DEF Inv, HolderIsInside, MutualExclusion
<1>1. CASE Trap
  BY <1>1, TrapEffect DEF Trap
<1>2. CASE MutexLockTakes
  BY <1>2, CallEffect, TaskFacts DEF Call, MutexLockTakes, Free, TypeOK
<1>3. CASE MutexLockBlocks
  <2>1. current_tcb \in Lockers \ inside
    BY <1>3 DEF MutexLockBlocks, AtLock, Resumes, Place, TypeOK
  <2> QED BY <1>3, <2>1, CallEffect DEF Call, MutexLockBlocks, Parks
<1>4. CASE mutex_unlock
  <2>1. inside' = {} /\ owner' = NULL /\ pc' = pc
    BY <1>4 DEF mutex_unlock, MayUnlock, TypeOK
  <2> QED BY <1>4, <2>1, CallEffect DEF Call, mutex_unlock, Calls
<1>5. CASE SemWaitTakes \/ SemWaitBlocks \/ sem_post \/ task_exit
  BY <1>5, CallEffect DEF Call, SemWaitTakes, SemWaitBlocks, sem_post, task_exit,
     Parks, Calls
<1>6. CASE UNCHANGED vars
  BY <1>6 DEF Place, vars
<1> QED BY <1>1, <1>2, <1>3, <1>4, <1>5, <1>6 DEF Next

-----------------------------------------------------------------------------
(* The queues. *)
LEMMA FiniteWaiters ==
  ASSUME NEW W \in SUBSET Task
  PROVE  IsFiniteSet(W) /\ Cardinality(W) \in Nat
BY TaskFacts, FS_Subset, FS_CardinalityType

LEMMA ListedHead ==
  ASSUME NEW q, NEW next, NEW W \in SUBSET Task, Listed(q, next, W), q.head # NULL
  PROVE  q.head \in W
BY FiniteWaiters DEF Listed, Links

LEMMA ListedElsewhere ==
  ASSUME NEW q, NEW W, NEW next, NEW later, Listed(q, next, W),
         \A t \in W : later[t] = next[t]
  PROVE  Listed(q, later, W)
<1> DEFINE n == Cardinality(W)
<1>1. PICK s \in [1 .. n -> W] : Links(s, n, q, next, W)
  BY DEF Listed
<1> HIDE DEF n
<1>2. Links(s, n, q, later, W)
  BY <1>1 DEF Links
<1> QED BY <1>2 DEF Listed, n

LEMMA PushKeepsList ==
  ASSUME TypeOK, NEW q \in Queue, NEW W \in SUBSET Task,
         NEW t \in Task \ W, Listed(q, wq_next, W)
  PROVE  Listed(Pushed(q, t), Linked(q, t), W \cup {t})
<1> DEFINE n    == Cardinality(W)
           next == Linked(q, t)
           p    == Pushed(q, t)
<1>1. n \in Nat /\ Cardinality(W \cup {t}) = n + 1
  BY FiniteWaiters, FS_AddElement
<1>2. PICK s \in [1 .. n -> W] : Links(s, n, q, wq_next, W)
  BY DEF Listed
<1> DEFINE r == [i \in 1 .. n + 1 |-> IF i = n + 1 THEN t ELSE s[i]]
<1> HIDE DEF n
<1>3. r \in [1 .. n + 1 -> W \cup {t}]
  BY <1>1
<1>4. \A k \in W \cup {t} : \E i \in 1 .. n + 1 : r[i] = k
  <2>1. r[n + 1] = t /\ n + 1 \in 1 .. n + 1
    BY <1>1
  <2>2. ASSUME NEW k \in W PROVE \E i \in 1 .. n + 1 : r[i] = k
    BY <1>1, <1>2 DEF Links
  <2> QED BY <2>1, <2>2
<1>5. \A i, j \in 1 .. n + 1 : r[i] = r[j] => i = j
  BY <1>1, <1>2 DEF Links
<1>6. /\ p.head = (IF q.tail = NULL THEN t ELSE q.head) /\ p.tail = t
      /\ next[t] = NULL
      /\ \A k \in W : next[k] = IF k = q.tail THEN t ELSE wq_next[k]
  BY DEF Pushed, Linked
<1>7. \A i \in 1 .. n + 1 : next[r[i]] = IF i = n + 1 THEN NULL ELSE r[i + 1]
  <2> SUFFICES ASSUME NEW i \in 1 .. n + 1
               PROVE  next[r[i]] = IF i = n + 1 THEN NULL ELSE r[i + 1]
    OBVIOUS
  <2>1. CASE i = n + 1
    BY <1>6, <2>1
  <2>2. CASE i = n
    BY <1>1, <1>2, <1>6, <2>2 DEF Links
  <2>3. CASE i < n
    BY <1>1, <1>2, <1>6, <2>3 DEF Links
  <2> QED BY <1>1, <2>1, <2>2, <2>3
<1>8. p.head = r[1] /\ p.tail = r[n + 1]
  BY <1>1, <1>2, <1>6, TaskFacts DEF Links
<1> HIDE DEF r, next, p
<1>9. Listed(p, next, W \cup {t})
  <2>1. n + 1 # 0
    BY <1>1
  <2>2. Links(r, n + 1, p, next, W \cup {t})
    BY <1>4, <1>5, <1>7, <1>8, <2>1 DEF Links
  <2> QED BY <1>1, <1>3, <2>2 DEF Listed
<1> QED BY <1>9 DEF next, p

LEMMA PopKeepsList ==
  ASSUME TypeOK, NEW q \in Queue, NEW W \in SUBSET Task, Listed(q, wq_next, W)
  PROVE  Listed(Popped(q), wq_next, W \ {q.head})
<1>1. CASE q.head = NULL
  <2>1. Popped(q) = q /\ W \ {q.head} = W
    BY <1>1, TaskFacts DEF Popped
  <2> QED BY <2>1
<1>2. CASE q.head # NULL
  <2> DEFINE n == Cardinality(W)
             p == Popped(q)
             rest == W \ {q.head}
  <2>1. PICK s \in [1 .. n -> W] : Links(s, n, q, wq_next, W)
    BY DEF Listed
  <2>2. /\ q.head \in W /\ n \in Nat /\ n # 0 /\ q.head = s[1]
        /\ Cardinality(rest) = n - 1
    BY <1>2, <2>1, ListedHead, FiniteWaiters, FS_RemoveElement DEF Links
  <2> DEFINE r == [i \in 1 .. n - 1 |-> s[i + 1]]
  <2> HIDE DEF n
  <2>3. \A i \in 1 .. n - 1 : r[i] = s[i + 1] /\ i + 1 \in 1 .. n /\ s[i + 1] \in rest
    BY <2>1, <2>2 DEF Links
  <2>4. r \in [1 .. n - 1 -> rest]
    BY <2>3
  <2>5. ASSUME NEW k \in rest PROVE \E i \in 1 .. n - 1 : r[i] = k
    <3>1. PICK i \in 1 .. n : s[i] = k
      BY <2>1, <2>5 DEF Links
    <3>2. i # 1
      BY <2>2, <2>5, <3>1
    <3>3. i - 1 \in 1 .. n - 1 /\ r[i - 1] = k
      BY <2>2, <2>3, <3>1, <3>2
    <3> QED BY <3>3
  <2>6. \A i, j \in 1 .. n - 1 : r[i] = r[j] => i = j
    <3> SUFFICES ASSUME NEW i \in 1 .. n - 1, NEW j \in 1 .. n - 1, r[i] = r[j]
                 PROVE  i = j
      OBVIOUS
    <3>1. i + 1 = j + 1
      BY <2>1, <2>3 DEF Links
    <3> QED BY <3>1
  <2>7. \A i \in 1 .. n - 1 : wq_next[r[i]] = IF i = n - 1 THEN NULL ELSE r[i + 1]
    BY <2>1, <2>2, <2>3 DEF Links
  <2>8. /\ p.head = wq_next[q.head]
        /\ p.tail = IF wq_next[q.head] = NULL THEN NULL ELSE q.tail
    BY <1>2 DEF Popped
  <2>9. /\ p.head = IF n - 1 = 0 THEN NULL ELSE r[1]
        /\ p.tail = IF n - 1 = 0 THEN NULL ELSE r[n - 1]
    <3>1. CASE n = 1
      BY <2>1, <2>2, <2>8, <3>1 DEF Links
    <3>2. CASE n # 1
      <4>1. wq_next[q.head] = s[2] /\ s[2] # NULL /\ r[1] = s[2] /\ r[n - 1] = s[n]
        BY <2>1, <2>2, <3>2, TaskFacts DEF Links
      <4> QED BY <2>1, <2>2, <2>8, <3>2, <4>1 DEF Links
    <3> QED BY <3>1, <3>2
  <2>10. n - 1 = Cardinality(rest)
    BY <2>2
  <2> HIDE DEF r, p, rest
  <2>11. Listed(p, wq_next, rest)
    <3>1. Links(r, n - 1, p, wq_next, rest)
      BY <2>5, <2>6, <2>7, <2>9 DEF Links
    <3> QED BY <2>4, <2>10, <3>1 DEF Listed
  <2> QED BY <2>11 DEF p, rest
<1> QED BY <1>1, <1>2

-----------------------------------------------------------------------------
(* Who waits. *)
SameWaiters(place) == Waiting(place)' = Waiting(place)
SameAwake(place)   == Awake(place)' = Awake(place)

LEMMA TrapWaiters ==
  ASSUME Inv, Trap
  PROVE  \A place \in Places : SameWaiters(place) /\ SameAwake(place)
BY TrapEffect DEF Inv, SameWaiters, SameAwake, Waiting, Awake

LEMMA SemWaitTakesWaiters ==
  ASSUME Inv, SemWaitTakes
  PROVE  /\ SameWaiters("sem_wait") /\ SameWaiters("mutex_lock")
         /\ Awake("sem_wait")' = Awake("sem_wait") \ {current_tcb}
         /\ SameAwake("mutex_lock")
BY CallEffect DEF Call, Inv, SemWaitTakes, AtSem, Calls, Resumes, tcbs,
   SameWaiters, SameAwake, Waiting, Awake, Place

LEMMA SemWaitBlocksWaiters ==
  ASSUME Inv, SemWaitBlocks
  PROVE  /\ current_tcb \in Task \ (Waiting("sem_wait") \cup Waiting("mutex_lock"))
         /\ Waiting("sem_wait")' = Waiting("sem_wait") \cup {current_tcb}
         /\ SameWaiters("mutex_lock") /\ SameAwake("mutex_lock")
<1>1. state' = [state EXCEPT ![current_tcb] = "BLOCKED"] /\ pc' = "sem_wait"
  BY DEF SemWaitBlocks, Parks
<1>2. pc = "task" \/ (pc = "sem_wait" /\ state[current_tcb] # "BLOCKED")
  BY DEF SemWaitBlocks, AtSem, Calls, Resumes
<1> QED BY <1>1, <1>2, CallEffect DEF Call, Inv, TypeOK,
   SameWaiters, SameAwake, Waiting, Awake, Place

LEMMA SemPostWaiters ==
  ASSUME Inv, sem_post
  PROVE  /\ Waiting("sem_wait")' = Waiting("sem_wait") \ {sem_wq.head}
         /\ SameWaiters("mutex_lock")
         /\ Awake("sem_wait")' = IF sem_wq.head = NULL THEN Awake("sem_wait")
                                 ELSE Awake("sem_wait") \cup {sem_wq.head}
         /\ SameAwake("mutex_lock")
<1>1. pc' = pc /\ \A t \in Task : Place(t)' = Place(t)
  BY CallEffect DEF Call, Inv, sem_post, Place
<1>2. \A t \in Task : state'[t] = IF t = sem_wq.head THEN "READY" ELSE state[t]
  BY DEF sem_post, Woken
<1>3. sem_wq.head # NULL => sem_wq.head \in Waiting("sem_wait")
  <2>1. Waiting("sem_wait") \in SUBSET Task
    BY DEF Waiting
  <2> QED BY <2>1, ListedHead DEF Inv, ParkedAreQueued
<1> QED BY <1>1, <1>2, <1>3, TaskFacts DEF SameWaiters, SameAwake, Waiting, Awake

LEMMA MutexLockTakesWaiters ==
  ASSUME Inv, MutexLockTakes
  PROVE  /\ SameWaiters("sem_wait") /\ SameWaiters("mutex_lock")
         /\ SameAwake("sem_wait")
BY CallEffect DEF Call, Inv, MutexLockTakes, AtLock, Calls, Resumes, tcbs,
   SameWaiters, SameAwake, Waiting, Awake, Place

LEMMA MutexLockBlocksWaiters ==
  ASSUME Inv, MutexLockBlocks
  PROVE  /\ current_tcb \in Task \ (Waiting("sem_wait") \cup Waiting("mutex_lock"))
         /\ Waiting("mutex_lock")' = Waiting("mutex_lock") \cup {current_tcb}
         /\ SameWaiters("sem_wait") /\ SameAwake("sem_wait")
<1>1. state' = [state EXCEPT ![current_tcb] = "BLOCKED"] /\ pc' = "mutex_lock"
  BY DEF MutexLockBlocks, Parks
<1>2. pc = "task" \/ (pc = "mutex_lock" /\ state[current_tcb] # "BLOCKED")
  BY DEF MutexLockBlocks, AtLock, Calls, Resumes
<1> QED BY <1>1, <1>2, CallEffect DEF Call, Inv, TypeOK,
   SameWaiters, SameAwake, Waiting, Awake, Place

LEMMA MutexUnlockWaiters ==
  ASSUME Inv, mutex_unlock
  PROVE  /\ Waiting("mutex_lock")' = Waiting("mutex_lock") \ {mtx_wq.head}
         /\ SameWaiters("sem_wait") /\ SameAwake("sem_wait")
         /\ mtx_wq.head # NULL => mtx_wq.head \in Awake("mutex_lock")'
<1>1. pc' = pc /\ \A t \in Task : Place(t)' = Place(t)
  BY CallEffect DEF Call, Inv, mutex_unlock, Place
<1>2. \A t \in Task : state'[t] = IF t = mtx_wq.head THEN "READY" ELSE state[t]
  BY DEF mutex_unlock, Woken
<1>3. mtx_wq.head # NULL => mtx_wq.head \in Waiting("mutex_lock")
  <2>1. Waiting("mutex_lock") \in SUBSET Task
    BY DEF Waiting
  <2> QED BY <2>1, ListedHead DEF Inv, ParkedAreQueued
<1> QED BY <1>1, <1>2, <1>3, TaskFacts DEF SameWaiters, SameAwake, Waiting, Awake

LEMMA TaskExitWaiters ==
  ASSUME Inv, task_exit
  PROVE  /\ SameWaiters("sem_wait") /\ SameWaiters("mutex_lock")
         /\ SameAwake("sem_wait") /\ SameAwake("mutex_lock")
<1>1. pc = "task" /\ pc' \in {"dead", "exit"}
      /\ \A t \in Task \ {current_tcb} : state'[t] = state[t]
  BY DEF Inv, TypeOK, task_exit, Calls
<1> QED BY <1>1, CallEffect DEF Call, Inv, SameWaiters, SameAwake, Waiting, Awake, Place

-----------------------------------------------------------------------------
(* Each queue is a list of its waiters, step by step. *)
LEMMA WaitersAreTasks ==
  /\ Waiting("sem_wait") \in SUBSET Task /\ Waiting("mutex_lock") \in SUBSET Task
  /\ Waiting("sem_wait") \cap Waiting("mutex_lock") = {}
BY DEF Waiting

LEMMA PushSparesOthers ==
  ASSUME TypeOK, NEW q \in Queue, NEW W \in SUBSET Task, NEW V \in SUBSET Task,
         NEW t \in Task \ (W \cup V), W \cap V = {}, Listed(q, wq_next, W),
         NEW other, Listed(other, wq_next, V)
  PROVE  Listed(other, Linked(q, t), V)
<1>1. q.tail \notin V
  BY FiniteWaiters, TaskFacts DEF Listed, Links
<1>2. \A k \in V : Linked(q, t)[k] = wq_next[k]
  BY <1>1 DEF Linked
<1> QED BY <1>2, ListedElsewhere

LEMMA QueueStep == Inv /\ [Next]_vars => ParkedAreQueued'
<1> SUFFICES ASSUME Inv, [Next]_vars PROVE ParkedAreQueued'
  OBVIOUS
<1> DEFINE S == Waiting("sem_wait")
           M == Waiting("mutex_lock")
<1>0. /\ sem_wq \in Queue /\ mtx_wq \in Queue /\ TypeOK
      /\ S \in SUBSET Task /\ M \in SUBSET Task /\ S \cap M = {}
      /\ Listed(sem_wq, wq_next, S) /\ Listed(mtx_wq, wq_next, M)
  BY WaitersAreTasks DEF Inv, TypeOK, ParkedAreQueued
<1>1. ASSUME S' = S, M' = M, UNCHANGED <<sem_wq, mtx_wq, wq_next>>
      PROVE  ParkedAreQueued'
  BY <1>0, <1>1 DEF ParkedAreQueued
<1>2. CASE Trap
  <2>1. S' = S /\ M' = M
    BY <1>2, TrapWaiters DEF SameWaiters, Places
  <2> QED BY <1>1, <1>2, <2>1 DEF Trap
<1>3. CASE SemWaitTakes
  <2>1. S' = S /\ M' = M
    BY <1>3, SemWaitTakesWaiters DEF SameWaiters
  <2> QED BY <1>1, <1>3, <2>1 DEF SemWaitTakes, tcbs
<1>4. CASE SemWaitBlocks
  <2>1. /\ current_tcb \in Task \ (S \cup M)
        /\ S' = S \cup {current_tcb} /\ M' = M
    BY <1>4, SemWaitBlocksWaiters DEF SameWaiters
  <2>2. /\ sem_wq' = Pushed(sem_wq, current_tcb) /\ mtx_wq' = mtx_wq
        /\ wq_next' = Linked(sem_wq, current_tcb)
    BY <1>4 DEF SemWaitBlocks, Parks
  <2>3. Listed(Pushed(sem_wq, current_tcb), Linked(sem_wq, current_tcb), S \cup {current_tcb})
    BY <1>0, <2>1, PushKeepsList
  <2>4. Listed(mtx_wq, Linked(sem_wq, current_tcb), M)
    BY <1>0, <2>1, PushSparesOthers
  <2> QED BY <2>1, <2>2, <2>3, <2>4 DEF ParkedAreQueued
<1>5. CASE sem_post
  <2>1. S' = S \ {sem_wq.head} /\ M' = M
    BY <1>5, SemPostWaiters DEF SameWaiters
  <2>2. sem_wq' = Popped(sem_wq) /\ mtx_wq' = mtx_wq /\ wq_next' = wq_next
    BY <1>5 DEF sem_post
  <2>3. Listed(Popped(sem_wq), wq_next, S \ {sem_wq.head})
    BY <1>0, PopKeepsList
  <2> QED BY <1>0, <2>1, <2>2, <2>3 DEF ParkedAreQueued
<1>6. CASE MutexLockTakes
  <2>1. S' = S /\ M' = M
    BY <1>6, MutexLockTakesWaiters DEF SameWaiters
  <2> QED BY <1>1, <1>6, <2>1 DEF MutexLockTakes, tcbs
<1>7. CASE MutexLockBlocks
  <2>1. /\ current_tcb \in Task \ (S \cup M)
        /\ M' = M \cup {current_tcb} /\ S' = S
    BY <1>7, MutexLockBlocksWaiters DEF SameWaiters
  <2>2. /\ mtx_wq' = Pushed(mtx_wq, current_tcb) /\ sem_wq' = sem_wq
        /\ wq_next' = Linked(mtx_wq, current_tcb)
    BY <1>7 DEF MutexLockBlocks, Parks
  <2>3. Listed(Pushed(mtx_wq, current_tcb), Linked(mtx_wq, current_tcb), M \cup {current_tcb})
    BY <1>0, <2>1, PushKeepsList
  <2>4. Listed(sem_wq, Linked(mtx_wq, current_tcb), S)
    BY <1>0, <2>1, PushSparesOthers
  <2> QED BY <2>1, <2>2, <2>3, <2>4 DEF ParkedAreQueued
<1>8. CASE mutex_unlock
  <2>1. M' = M \ {mtx_wq.head} /\ S' = S
    BY <1>8, MutexUnlockWaiters DEF SameWaiters
  <2>2. mtx_wq' = Popped(mtx_wq) /\ sem_wq' = sem_wq /\ wq_next' = wq_next
    BY <1>8 DEF mutex_unlock
  <2>3. Listed(Popped(mtx_wq), wq_next, M \ {mtx_wq.head})
    BY <1>0, PopKeepsList
  <2> QED BY <1>0, <2>1, <2>2, <2>3 DEF ParkedAreQueued
<1>9. CASE task_exit
  <2>1. S' = S /\ M' = M
    BY <1>9, TaskExitWaiters DEF SameWaiters
  <2> QED BY <1>1, <1>9, <2>1 DEF task_exit
<1>10. CASE UNCHANGED vars
  <2>1. S' = S /\ M' = M
    BY <1>10 DEF Waiting, Place, vars, tcbs
  <2> QED BY <1>1, <1>10, <2>1 DEF vars, tcbs
<1> QED BY <1>2, <1>3, <1>4, <1>5, <1>6, <1>7, <1>8, <1>9, <1>10 DEF Next

-----------------------------------------------------------------------------
(* Wake-ups. *)
LEMMA FiniteAwake ==
  \A place : IsFiniteSet(Awake(place)) /\ Cardinality(Awake(place)) \in Nat
<1>1. \A place : Awake(place) \in SUBSET Task
  BY DEF Awake
<1> QED BY <1>1, FiniteWaiters

LEMMA FiniteAwakeNext == \A place : Cardinality(Awake(place)') \in Nat
<1>1. \A place : Awake(place)' \in SUBSET Task
  BY DEF Awake
<1> QED BY <1>1, FiniteWaiters

LEMMA OneFewer ==
  ASSUME NEW A, IsFiniteSet(A), NEW x
  PROVE  Cardinality(A \ {x}) \in Nat /\ Cardinality(A \ {x}) >= Cardinality(A) - 1
<1>1. Cardinality(A) \in Nat /\ Cardinality(A \ {x}) \in Nat
  BY FS_CardinalityType, FS_RemoveElement
<1>2. Cardinality(A \ {x}) = IF x \in A THEN Cardinality(A) - 1 ELSE Cardinality(A)
  BY FS_RemoveElement
<1> QED BY <1>1, <1>2

LEMMA WakeupStep == Inv /\ [Next]_vars => WakeupsAreKept'
<1> SUFFICES ASSUME Inv, [Next]_vars PROVE WakeupsAreKept'
  OBVIOUS
<1> DEFINE A == Awake("sem_wait")
           B == Awake("mutex_lock")
<1>0. /\ count \in Nat /\ Cardinality(A) \in Nat /\ IsFiniteSet(A)
      /\ sem_wq.head # NULL => count <= Cardinality(A)
      /\ mtx_wq.head # NULL /\ owner = NULL => B # {}
  BY FiniteAwake DEF Inv, TypeOK, WakeupsAreKept
<1>1. ASSUME A' = A, B' = B, UNCHANGED <<sem_wq, mtx_wq, count, owner>>
      PROVE  WakeupsAreKept'
  BY <1>0, <1>1 DEF WakeupsAreKept
<1>2. CASE Trap
  <2>1. A' = A /\ B' = B
    BY <1>2, TrapWaiters DEF SameAwake, Places
  <2> QED BY <1>1, <1>2, <2>1 DEF Trap
<1>3. CASE SemWaitTakes
  <2>1. A' = A \ {current_tcb} /\ B' = B
    BY <1>3, SemWaitTakesWaiters DEF SameAwake
  <2>2. /\ Cardinality(A \ {current_tcb}) \in Nat
        /\ Cardinality(A \ {current_tcb}) >= Cardinality(A) - 1
    BY <1>0, OneFewer
  <2>3. count' = count - 1 /\ UNCHANGED <<sem_wq, mtx_wq, owner>>
    BY <1>3 DEF SemWaitTakes
  <2>4. Cardinality(A') \in Nat /\ Cardinality(A') >= Cardinality(A) - 1
    BY <2>1, <2>2
  <2>5. sem_wq'.head # NULL => count' <= Cardinality(A')
    BY <1>0, <2>3, <2>4
  <2> QED BY <1>0, <2>1, <2>3, <2>5 DEF WakeupsAreKept
<1>4. CASE SemWaitBlocks
  <2>1. B' = B /\ Cardinality(A') \in Nat
    BY <1>4, SemWaitBlocksWaiters, FiniteAwakeNext DEF SameAwake
  <2>2. count' = 0 /\ UNCHANGED <<mtx_wq, owner>>
    BY <1>4 DEF SemWaitBlocks, Token
  <2> QED BY <1>0, <2>1, <2>2 DEF WakeupsAreKept
<1>5. CASE sem_post
  <2>1. B' = B /\ A' = IF sem_wq.head = NULL THEN A ELSE A \cup {sem_wq.head}
    BY <1>5, SemPostWaiters DEF SameAwake
  <2>2. count' = count + 1 /\ sem_wq' = Popped(sem_wq) /\ UNCHANGED <<mtx_wq, owner>>
    BY <1>5 DEF sem_post
  <2>3. CASE sem_wq.head = NULL
    <3>1. sem_wq'.head = NULL
      BY <2>2, <2>3 DEF Popped
    <3> QED BY <1>0, <2>1, <2>2, <3>1 DEF WakeupsAreKept
  <2>4. CASE sem_wq.head # NULL
    <3>1. sem_wq.head \in Waiting("sem_wait")
      BY <2>4, WaitersAreTasks, ListedHead DEF Inv, ParkedAreQueued
    <3>2. sem_wq.head \notin A
      BY <3>1 DEF Waiting, Awake
    <3>3. Cardinality(A \cup {sem_wq.head}) = Cardinality(A) + 1
      BY <1>0, <3>2, FS_AddElement
    <3>4. Cardinality(A') = Cardinality(A) + 1
      BY <2>1, <2>4, <3>3
    <3>5. count' <= Cardinality(A')
      BY <1>0, <2>2, <2>4, <3>4
    <3> QED BY <1>0, <2>1, <2>2, <3>5 DEF WakeupsAreKept
  <2> QED BY <2>3, <2>4
<1>6. CASE MutexLockTakes
  <2>1. A' = A
    BY <1>6, MutexLockTakesWaiters DEF SameAwake
  <2>2. owner' # NULL /\ UNCHANGED <<sem_wq, mtx_wq, count>>
    BY <1>6, TaskFacts DEF MutexLockTakes, Inv, TypeOK
  <2> QED BY <1>0, <2>1, <2>2 DEF WakeupsAreKept
<1>7. CASE MutexLockBlocks
  <2>1. A' = A
    BY <1>7, MutexLockBlocksWaiters DEF SameAwake
  <2>2. owner' # NULL /\ UNCHANGED <<sem_wq, count>>
    BY <1>7 DEF MutexLockBlocks, Free
  <2> QED BY <1>0, <2>1, <2>2 DEF WakeupsAreKept
<1>8. CASE mutex_unlock
  <2>1. A' = A /\ (mtx_wq.head # NULL => B' # {})
    BY <1>8, MutexUnlockWaiters DEF SameAwake
  <2>2. mtx_wq' = Popped(mtx_wq) /\ UNCHANGED <<sem_wq, count>>
    BY <1>8 DEF mutex_unlock
  <2>3. mtx_wq'.head # NULL => mtx_wq.head # NULL
    BY <2>2 DEF Popped
  <2> QED BY <1>0, <2>1, <2>2, <2>3 DEF WakeupsAreKept
<1>9. CASE task_exit
  <2>1. A' = A /\ B' = B
    BY <1>9, TaskExitWaiters DEF SameAwake
  <2> QED BY <1>1, <1>9, <2>1 DEF task_exit
<1>10. CASE UNCHANGED vars
  <2>1. A' = A /\ B' = B
    BY <1>10 DEF Awake, Place, vars, tcbs
  <2> QED BY <1>1, <1>10, <2>1 DEF vars
<1> QED BY <1>2, <1>3, <1>4, <1>5, <1>6, <1>7, <1>8, <1>9, <1>10 DEF Next

-----------------------------------------------------------------------------
(* Priorities. *)
LEMMA BoostStep == Inv /\ [Next]_vars => BoostsAreBorrowed' /\ HolderInherits'
<1> SUFFICES ASSUME Inv, [Next]_vars PROVE BoostsAreBorrowed' /\ HolderInherits'
  OBVIOUS
<1> DEFINE M == Waiting("mutex_lock")
<1>0. BoostsAreBorrowed /\ HolderInherits /\ TypeOK /\ HolderIsInside
  BY DEF Inv
<1>1. ASSUME M' = M, UNCHANGED <<prio, owner, heard>>
      PROVE  BoostsAreBorrowed' /\ HolderInherits'
  BY <1>0, <1>1 DEF BoostsAreBorrowed, HolderInherits
<1>2. CASE Trap
  <2>1. M' = M
    BY <1>2, TrapWaiters DEF SameWaiters, Places
  <2> QED BY <1>1, <1>2, <2>1 DEF Trap
<1>3. CASE SemWaitTakes \/ SemWaitBlocks \/ sem_post \/ task_exit
  <2>1. M' = M
    BY <1>3, SemWaitTakesWaiters, SemWaitBlocksWaiters, SemPostWaiters, TaskExitWaiters
       DEF SameWaiters
  <2> QED BY <1>1, <1>3, <2>1 DEF SemWaitTakes, SemWaitBlocks, sem_post, task_exit, tcbs
<1>4. CASE MutexLockTakes
  <2>1. current_tcb \notin inside /\ owner \in {NULL, current_tcb}
    BY <1>0, <1>4 DEF MutexLockTakes, AtLock, Resumes, HolderIsInside, Place, TypeOK, Free
  <2>2. owner = NULL
    BY <1>0, <2>1 DEF HolderIsInside
  <2>3. \A t \in Task : prio[t] = BasePrio[t]
    BY <1>0, <2>2, TaskFacts DEF BoostsAreBorrowed
  <2>4. prio' = prio /\ heard' = {}
    BY <1>4 DEF MutexLockTakes, tcbs
  <2> QED BY <2>3, <2>4 DEF BoostsAreBorrowed, HolderInherits
<1>5. CASE MutexLockBlocks
  <2>1. /\ current_tcb \in Task /\ M' = M \cup {current_tcb}
    BY <1>5, MutexLockBlocksWaiters
  <2>2. /\ owner' = owner /\ owner \in Task /\ owner # current_tcb
        /\ heard' = heard \cup {current_tcb}
    BY <1>0, <1>5 DEF MutexLockBlocks, Free, TypeOK
  <2>3. \A t \in Task : prio'[t] = IF t = owner /\ prio[current_tcb] > prio[t]
                                  THEN prio[current_tcb] ELSE prio[t]
    BY <1>0, <1>5 DEF MutexLockBlocks, Inherited, TypeOK
  <2>4. \A t \in Task : prio[t] \in Int
    BY <1>0 DEF TypeOK, Prio
  <2>5. HolderInherits'
    <3> SUFFICES ASSUME NEW w \in heard'
                 PROVE  owner \in Task \ {w} /\ prio'[owner] >= prio'[w]
      BY <2>2 DEF HolderInherits
    <3>1. w \in Task
      BY <1>0, <2>1, <2>2 DEF TypeOK
    <3>2. CASE w = current_tcb
      BY <2>1, <2>2, <2>3, <2>4, <3>2
    <3>3. CASE w \in heard
      <4>1. owner # w /\ prio[owner] >= prio[w]
        BY <1>0, <3>3 DEF HolderInherits
      <4> QED BY <2>1, <2>2, <2>3, <2>4, <3>1, <4>1
    <3> QED BY <2>2, <3>2, <3>3
  <2>6. BoostsAreBorrowed'
    <3> SUFFICES ASSUME NEW t \in Task, prio'[t] # BasePrio[t]
                 PROVE  owner' = t /\ \E w \in heard' \cap M' : prio'[t] = prio'[w]
      BY DEF BoostsAreBorrowed
    <3>1. CASE t = owner /\ prio[current_tcb] > prio[t]
      <4>1. prio'[t] = prio'[current_tcb]
        BY <2>1, <2>2, <2>3, <3>1
      <4> QED BY <2>1, <2>2, <3>1, <4>1
    <3>2. CASE ~(t = owner /\ prio[current_tcb] > prio[t])
      <4>1. prio'[t] = prio[t]
        BY <2>3, <3>2
      <4>2. PICK w \in heard \cap M : prio[t] = prio[w]
        BY <1>0, <4>1 DEF BoostsAreBorrowed
      <4>3. owner = t /\ w \in Task /\ w # owner
        BY <1>0, <4>1, <4>2 DEF BoostsAreBorrowed, HolderInherits, TypeOK
      <4> QED BY <2>1, <2>2, <2>3, <4>1, <4>2, <4>3
    <3> QED BY <3>1, <3>2
  <2> QED BY <2>5, <2>6
<1>6. CASE mutex_unlock
  <2>1. owner = current_tcb /\ heard' = {} /\ prio' = [prio EXCEPT ![current_tcb] = BasePrio[current_tcb]]
    BY <1>6 DEF mutex_unlock, MayUnlock, Restored
  <2>2. \A t \in Task : prio'[t] = BasePrio[t]
    BY <1>0, <2>1 DEF BoostsAreBorrowed, TypeOK
  <2> QED BY <2>1, <2>2 DEF BoostsAreBorrowed, HolderInherits
<1>7. CASE UNCHANGED vars
  <2>1. M' = M
    BY <1>7 DEF Waiting, Place, vars, tcbs
  <2> QED BY <1>1, <1>7, <2>1 DEF vars, tcbs
<1> QED BY <1>2, <1>3, <1>4, <1>5, <1>6, <1>7 DEF Next

-----------------------------------------------------------------------------
(* The theorems. *)
LEMMA InitInv == Init => Inv
<1> SUFFICES ASSUME Init PROVE Inv
  OBVIOUS
<1> USE TaskFacts
<1>1. TypeOK
  BY DEF Init, TypeOK, Places, States, Queue, Prio, NULL
<1>2. \A t \in Task : Place(t) = "task"
  BY DEF Init, Place
<1>3. OneRuns /\ IdleIsReady /\ HolderIsInside /\ BoostsAreBorrowed /\ HolderInherits
  BY <1>2 DEF Init, OneRuns, IdleIsReady, HolderIsInside, MutualExclusion,
     BoostsAreBorrowed, HolderInherits
<1>4. Waiting("sem_wait") = {} /\ Waiting("mutex_lock") = {}
  BY <1>2 DEF Waiting
<1>5. ParkedAreQueued
  <2>1. ASSUME NEW q, q.head = NULL, q.tail = NULL
        PROVE  Listed(q, wq_next, {})
    <3>1. [i \in 1 .. 0 |-> 0] \in [1 .. 0 -> {}]
      OBVIOUS
    <3>2. Links([i \in 1 .. 0 |-> 0], 0, q, wq_next, {})
      BY <2>1 DEF Links
    <3> QED BY <3>1, <3>2, FS_EmptySet DEF Listed
  <2> QED BY <1>4, <2>1 DEF Init, ParkedAreQueued
<1>6. WakeupsAreKept
  BY DEF Init, WakeupsAreKept
<1>7. AliveIsCounted
  <2>1. Living = Task \ {Idle}
    BY <1>2 DEF Living, Gone
  <2>2. Cardinality(Task) = ntasks
    BY FS_Interval DEF Task
  <2> QED BY <2>1, <2>2, FS_RemoveElement DEF Init, AliveIsCounted
<1> QED BY <1>1, <1>3, <1>5, <1>6, <1>7 DEF Inv

LEMMA StepInv == Inv /\ [Next]_vars => Inv'
BY TypeStep, SchedStep, HolderStep, QueueStep, WakeupStep, BoostStep, AliveStep DEF Inv

LEMMA Invariance == Spec => []Inv
BY InitInv, StepInv, PTL DEF Spec

(* Every variable keeps its type; so the scheduler always finds a task,    *)
(* and neither the semaphore nor the count of living tasks goes below zero *)
(* (scheduler_tick, sem_wait, task_exit).                                  *)
THEOREM TypeCorrect == Spec => []TypeOK
<1>1. Inv => TypeOK
  BY DEF Inv
<1> QED BY <1>1, Invariance, PTL

(* mutex_lock lets one task in at a time, for any number of tasks.         *)
THEOREM MutexExcludes == Spec => []MutualExclusion
<1>1. Inv => MutualExclusion
  BY DEF Inv, HolderIsInside
<1> QED BY <1>1, Invariance, PTL

(* Both wait queues are lists of exactly the tasks parked on them          *)
(* (wq_push, wq_pop, block_current).                                       *)
THEOREM QueuesHoldTheParked == Spec => []ParkedAreQueued
<1>1. Inv => ParkedAreQueued
  BY DEF Inv
<1> QED BY <1>1, Invariance, PTL

(* "No token is ever lost", nor the hand-over of the mutex (sem_post,      *)
(* mutex_unlock).                                                          *)
THEOREM NoWakeupIsLost == Spec => []WakeupsAreKept
<1>1. Inv => WakeupsAreKept
  BY DEF Inv
<1> QED BY <1>1, Invariance, PTL

(* Priorities above the base are the holder's and borrowed from a task     *)
(* that waits (mutex_lock, mutex_unlock).                                  *)
THEOREM BoostsAreGivenBack == Spec => []BoostsAreBorrowed
<1>1. Inv => BoostsAreBorrowed
  BY DEF Inv
<1> QED BY <1>1, Invariance, PTL

(* The scheduler turns to nobody whom a task blocked on a runnable holder  *)
(* outranks (scheduler_tick, mutex_lock).                                  *)
THEOREM PrioritiesAreNotInverted == Spec => NoInversion
<1> DEFINE Uninverted ==
      \A w \in heard :
        current_tcb' # current_tcb /\ state'[owner] \in {"READY", "RUNNING"}
          => current_tcb' = owner \/ prio'[current_tcb'] >= prio'[w]
<1>1. Inv /\ [Next]_vars => [Uninverted]_vars
  <2> SUFFICES ASSUME Inv, Next PROVE Uninverted
    BY DEF vars, tcbs
  <2>1. CASE Trap
    <3> SUFFICES ASSUME NEW w \in heard, state'[owner] \in {"READY", "RUNNING"},
                        current_tcb' # owner
                 PROVE  prio'[current_tcb'] >= prio'[w]
      OBVIOUS
    <3>1. owner \in Task /\ prio[owner] >= prio[w] /\ w \in Task
      BY DEF Inv, HolderInherits, TypeOK
    <3>2. /\ Beats(Yielded, current_tcb', owner) /\ current_tcb' \in Task
          /\ Yielded[owner] = "READY"
      BY <2>1, <3>1, TrapEffect DEF Inv
    <3>3. prio[current_tcb'] >= prio[owner]
      <4>1. \A t \in Task : prio[t] \in Int
        BY DEF Inv, TypeOK, Prio
      <4> QED BY <3>1, <3>2, <4>1 DEF Beats
    <3>4. \A t \in Task : prio[t] \in Int
      BY DEF Inv, TypeOK, Prio
    <3> QED BY <2>1, <3>1, <3>2, <3>3, <3>4 DEF Trap
  <2>2. CASE Call
    BY <2>2, CallEffect DEF Inv
  <2> QED BY <2>1, <2>2 DEF Next, Call
<1>2. Spec => [][Uninverted]_vars
  BY <1>1, Invariance, PTL DEF Spec
<1> QED BY <1>2 DEF NoInversion
==============================================================================
