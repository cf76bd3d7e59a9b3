---------------------------- MODULE TaskerProofs ----------------------------
(***************************************************************************)
(* For any number of tasks, programs, messages and cuts: a switch is       *)
(* transparent, every task keeps its stacks, every message arrives once,   *)
(* and the ring is whole as long as nothing cuts it.                       *)
(***************************************************************************)
EXTENDS Tasker, SequenceTheorems, TLAPS

USE TaskAssumption, NameAssumption, BoundAssumption

-----------------------------------------------------------------------------
(* The inductive invariant. *)

Letters == Seq(Task \X Msg)

TypeOK ==
  /\ up \in Task /\ base \in Task /\ regs \in Regs
  /\ single \in BOOLEAN
  /\ next \in [Task -> Task]
  /\ saved \in [Task -> Regs]
  /\ sender \in [Task -> Task \cup {None}]
  /\ message \in [Task -> Msg \cup {None}]
  /\ cell \in [Addr -> Task \cup {None}]
  /\ order \in Seq(Task) /\ cuts \in [activate : Nat, error : Nat]
  /\ sent \in [Task -> Letters] /\ got \in [Task -> Letters]

(* A full mailbox holds a message. *)
MailHasText == \A t \in Task : sender[t] # None => message[t] \in Msg

(* A task linked to itself that waits to run is one that activate has just *)
(* set up: to link it in again where it is changes nothing.                *)
SelfLinkedIsFresh ==
  \A t \in Task : t \in Active /\ t # up /\ next[t] = t => saved[t].ip = At("run")

(* Everybody who runs, or may come to run, has been activated. *)
LinksAreActive == up \in Active /\ \A t \in Active : next[t] \in Active

Inv == /\ TypeOK /\ OwnStacks /\ MailHasText /\ MailIsDelivered
       /\ LinksAreActive /\ SelfLinkedIsFresh /\ RingIsWhole

-----------------------------------------------------------------------------
(* Places a program can be at. *)

LEMMA IpRun == At("run") \in Ip /\ At("bye") \in Ip /\ At("receive") \in Ip
BY DEF At, Ip

LEMMA IpWait == ASSUME NEW a \in Addr PROVE [At("wait") EXCEPT !.on = a] \in Ip
BY DEF At, Ip

LEMMA IpSend ==
  ASSUME NEW t \in Task, NEW n \in Msg
  PROVE  [op |-> "send", on |-> t, msg |-> n] \in Ip
BY DEF Ip

LEMMA InitialRegs ==
  ASSUME NEW t \in Task
  PROVE  TaskInit(t) \in Regs /\ TaskInit(t).rp = t /\ TaskInit(t).sp = t
BY IpRun DEF TaskInit, Regs

-----------------------------------------------------------------------------
(* pause. *)

(* What a switch does to the registers: the task that leaves is saved as   *)
(* it was, the one that comes gets what it had, the others are left alone. *)
LEMMA PauseEffect ==
  ASSUME TypeOK, OwnStacks, NEW i \in Ip, Pause([regs EXCEPT !.ip = i])
  PROVE  /\ up' \in Task /\ base' \in Task /\ regs' \in Regs
         /\ saved' \in [Task -> Regs]
         /\ OwnStacks'
         /\ up' = up \/ up' = next[up]
         /\ \A t \in Task \ {up} : StateOf(t)' = StateOf(t)
         /\ \A t \in Task : t = up /\ up' # up => StateOf(t)' = [regs EXCEPT !.ip = i]
         /\ \A t \in Task \ {up, up'} : saved'[t] = saved[t]
<1> DEFINE r == [regs EXCEPT !.ip = i]
<1>1. r \in Regs /\ r.rp = up /\ r.sp = up
  BY DEF TypeOK, OwnStacks, Regs
<1>2. CASE single
  <2>1. regs' = r /\ UNCHANGED <<up, base, saved>>
    BY <1>2 DEF Pause
  <2> QED BY <1>1, <2>1 DEF TypeOK, OwnStacks, StateOf
<1>3. CASE ~single
  <2> DEFINE areas == [saved EXCEPT ![up] = r]
  <2>1. /\ up' = next[up] /\ regs' = areas[up']
        /\ saved' = [areas EXCEPT ![up'] = TaskInit(up')]
        /\ base' = up'
    BY <1>3 DEF Pause, Saved, BaseOf
  <2>2. up' \in Task
    BY <2>1 DEF TypeOK
  <2>3. areas \in [Task -> Regs] /\ \A t \in Task : areas[t].rp = t /\ areas[t].sp = t
    BY <1>1 DEF TypeOK, OwnStacks
  <2>4. TaskInit(up') \in Regs /\ TaskInit(up').rp = up' /\ TaskInit(up').sp = up'
    BY <2>2, InitialRegs
  <2>5. /\ regs' \in Regs /\ saved' \in [Task -> Regs]
        /\ \A t \in Task : saved'[t] = IF t = up' THEN TaskInit(up') ELSE areas[t]
    BY <2>1, <2>2, <2>3, <2>4
  <2>6. OwnStacks'
    BY <2>1, <2>2, <2>3, <2>4, <2>5 DEF OwnStacks
  <2>7. \A t \in Task \ {up} : areas[t] = saved[t]
    BY DEF TypeOK
  <2>8. up' # up => areas[up] = r
    BY DEF TypeOK
  <2> HIDE DEF areas
  <2>9. \A t \in Task \ {up, up'} : saved'[t] = saved[t]
    BY <2>5, <2>7
  <2>10. \A t \in Task \ {up} : StateOf(t)' = StateOf(t)
    <3> SUFFICES ASSUME NEW t \in Task \ {up} PROVE StateOf(t)' = StateOf(t)
      OBVIOUS
    <3>1. StateOf(t) = saved[t]
      BY DEF StateOf
    <3>2. CASE t = up'
      BY <2>1, <2>7, <3>1, <3>2 DEF StateOf
    <3>3. CASE t # up'
      BY <2>9, <3>1, <3>3 DEF StateOf
    <3> QED BY <3>2, <3>3
  <2>11. ASSUME NEW t \in Task, t = up, up' # up PROVE StateOf(t)' = r
    <3>1. saved'[t] = r
      BY <2>5, <2>8, <2>11
    <3> QED BY <2>11, <3>1 DEF StateOf
  <2> QED BY <2>1, <2>2, <2>5, <2>6, <2>9, <2>10, <2>11
<1> QED BY <1>2, <1>3

LEMMA PausesWithOwnIp ==
  ASSUME TypeOK, Pause(regs)
  PROVE  regs.ip \in Ip /\ Pause([regs EXCEPT !.ip = regs.ip])
<1>1. regs.ip \in Ip /\ regs = [regs EXCEPT !.ip = regs.ip]
  BY DEF TypeOK, Regs
<1> QED BY <1>1

(* The steps that pause, and where they leave the program. *)
PauseStep == Pausing \/ Wait \/ WaitAgain \/ Send \/ SendAgain \/ Receive \/ ReceiveAgain

LEMMA PauseStepPauses ==
  ASSUME TypeOK, PauseStep
  PROVE  /\ \E i \in Ip : Pause([regs EXCEPT !.ip = i])
         /\ UNCHANGED <<single, next, mailVars, signalVars, ringVars>>
<1>1. CASE Pausing \/ WaitAgain \/ SendAgain \/ ReceiveAgain
  BY <1>1, PausesWithOwnIp DEF Pausing, WaitAgain, SendAgain, ReceiveAgain
<1>2. CASE Wait
  BY <1>2, IpWait DEF Wait
<1>3. CASE Send
  BY <1>3, IpSend DEF Send
<1>4. CASE Receive
  BY <1>4, IpRun DEF Receive
<1> QED BY <1>1, <1>2, <1>3, <1>4 DEF PauseStep

(* The steps in which the running task goes on and touches no register of  *)
(* anybody's, or its own ip and tos.                                       *)
LocalStep == Single \/ WaitOver \/ Signal \/ SendOver \/ ReceiveOver

LEMMA LocalStepIsLocal ==
  ASSUME TypeOK, MailHasText, LocalStep
  PROVE  /\ regs' \in Regs /\ regs'.rp = regs.rp /\ regs'.sp = regs.sp
         /\ UNCHANGED <<up, base, next, saved, ringVars>>
<1>1. CASE Single \/ Signal
  BY <1>1 DEF Single, Signal, TypeOK
<1>2. CASE WaitOver \/ SendOver
  BY <1>2, IpRun DEF WaitOver, SendOver, GoOn, TypeOK, Regs
<1>3. CASE ReceiveOver
  BY <1>3, IpRun DEF ReceiveOver, TypeOK, Regs
<1> QED BY <1>1, <1>2, <1>3 DEF LocalStep

LEMMA NextSplits ==
  ASSUME Next PROVE PauseStep \/ LocalStep \/ Activate \/ Error
BY DEF Next, PauseStep, LocalStep

-----------------------------------------------------------------------------
(* Mail. *)

(* A letter sent is the one on its way; a letter received was. *)
LEMMA MailPreserved ==
  ASSUME TypeOK, MailHasText, MailIsDelivered, [Next]_vars
  PROVE  /\ sender' \in [Task -> Task \cup {None}]
         /\ message' \in [Task -> Msg \cup {None}]
         /\ sent' \in [Task -> Letters] /\ got' \in [Task -> Letters]
         /\ MailHasText' /\ MailIsDelivered'
<1>1. CASE UNCHANGED mailVars
  BY <1>1 DEF mailVars, TypeOK, MailHasText, MailIsDelivered
<1>2. CASE SendOver
  <2> DEFINE t == regs.ip.on
  <2> DEFINE n == regs.ip.msg
  <2>1. t \in Task /\ n \in Msg /\ sender[t] = None
    BY <1>2 DEF SendOver, In, Vacant, TypeOK, Regs, Ip
  <2>2. /\ sender' = [sender EXCEPT ![t] = up]
        /\ message' = [message EXCEPT ![t] = n]
        /\ sent' = [sent EXCEPT ![t] = Append(sent[t], <<up, n>>)]
        /\ got' = got
    BY <1>2 DEF SendOver
  <2> HIDE DEF t, n
  <2>3. up \in Task /\ <<up, n>> \in Task \X Msg
    BY <2>1 DEF TypeOK
  <2>4. Append(sent[t], <<up, n>>) \in Letters
    BY <2>1, <2>3 DEF TypeOK, Letters
  <2>5. /\ sender' \in [Task -> Task \cup {None}] /\ message' \in [Task -> Msg \cup {None}]
        /\ sent' \in [Task -> Letters] /\ got' \in [Task -> Letters]
    BY <2>1, <2>2, <2>3, <2>4 DEF TypeOK
  <2>6. MailHasText'
    BY <2>1, <2>2, <2>3 DEF MailHasText, TypeOK
  <2>7. ASSUME NEW u \in Task
        PROVE  sent'[u] = got'[u] \o (IF sender'[u] = None THEN <<>>
                                      ELSE <<<<sender'[u], message'[u]>>>>)
    <3>1. CASE u = t
      <4>1. sent[t] = got[t] \o <<>>
        BY <2>1 DEF MailIsDelivered
      <4>2. got[t] \in Letters
        BY <2>1 DEF TypeOK
      <4>3. sent[t] = got[t]
        BY <4>1, <4>2 DEF Letters
      <4>4. Append(got[t], <<up, n>>) = got[t] \o << <<up, n>> >>
        BY <4>2, <2>3, AppendIsConcat DEF Letters
      <4>5. sender'[t] = up /\ message'[t] = n /\ sent'[t] = Append(got[t], <<up, n>>)
        BY <2>1, <2>2, <4>3 DEF TypeOK
      <4>6. up # None
        BY <2>3
      <4> QED BY <3>1, <2>2, <4>4, <4>5, <4>6
    <3>2. CASE u # t
      BY <3>2, <2>2 DEF TypeOK, MailIsDelivered
    <3> QED BY <3>1, <3>2
  <2> QED BY <2>5, <2>6, <2>7 DEF MailIsDelivered
<1>3. CASE ReceiveOver
  <2>1. /\ sender[up] # None /\ up \in Task
        /\ got' = [got EXCEPT ![up] = Append(got[up], <<sender[up], message[up]>>)]
        /\ sender' = [sender EXCEPT ![up] = None]
        /\ UNCHANGED <<message, sent>>
    BY <1>3 DEF ReceiveOver, Mail, TypeOK
  <2>2. sender[up] \in Task /\ message[up] \in Msg
    BY <2>1 DEF TypeOK, MailHasText
  <2>3. Append(got[up], <<sender[up], message[up]>>) \in Letters
    BY <2>1, <2>2 DEF TypeOK, Letters
  <2>4. /\ sender' \in [Task -> Task \cup {None}] /\ message' \in [Task -> Msg \cup {None}]
        /\ sent' \in [Task -> Letters] /\ got' \in [Task -> Letters]
    BY <2>1, <2>3 DEF TypeOK
  <2>5. MailHasText'
    BY <2>1 DEF MailHasText, TypeOK
  <2>6. ASSUME NEW u \in Task
        PROVE  sent'[u] = got'[u] \o (IF sender'[u] = None THEN <<>>
                                      ELSE <<<<sender'[u], message'[u]>>>>)
    <3>1. CASE u = up
      <4>1. sent[up] = got[up] \o << <<sender[up], message[up]>> >>
        BY <2>1 DEF MailIsDelivered
      <4>2. got[up] \in Letters
        BY <2>1 DEF TypeOK
      <4>3. Append(got[up], <<sender[up], message[up]>>) = sent[up]
        <5>1. <<sender[up], message[up]>> \in Task \X Msg
          BY <2>2
        <5> QED BY <4>1, <4>2, <5>1, AppendIsConcat DEF Letters
      <4>4. got'[up] = sent[up] /\ sender'[up] = None /\ sent'[up] = sent[up]
        BY <2>1, <4>3 DEF TypeOK
      <4>5. sent[up] \o <<>> = sent[up]
        BY <2>1 DEF TypeOK, Letters
      <4> QED BY <3>1, <4>4, <4>5
    <3>2. CASE u # up
      BY <3>2, <2>1 DEF TypeOK, MailIsDelivered
    <3> QED BY <3>1, <3>2
  <2> QED BY <2>4, <2>5, <2>6 DEF MailIsDelivered
<1>4. [Next]_vars => UNCHANGED mailVars \/ SendOver \/ ReceiveOver
  BY DEF Next, vars, Pausing, Single, Activate, Error, Wait, WaitAgain, WaitOver, Signal,
         Send, SendAgain, Receive, ReceiveAgain
<1> QED BY <1>1, <1>2, <1>3, <1>4

-----------------------------------------------------------------------------
(* The ring. *)

(* o is s with e behind its k-th element. *)
IsInserted(o, s, k, e, S) ==
  /\ o \in Seq(S) /\ Len(o) = Len(s) + 1
  /\ \A i \in 1 .. k : o[i] = s[i]
  /\ o[k + 1] = e
  /\ \A i \in k + 2 .. Len(s) + 1 : o[i] = s[i - 1]
  /\ ToSet(o) = ToSet(s) \cup {e}

LEMMA InsertAfter ==
  ASSUME NEW S, NEW s \in Seq(S), NEW k \in 1 .. Len(s), NEW e \in S
  PROVE  IsInserted(InsertAt(s, 1 + k, e), s, k, e, S)
<1> DEFINE o == InsertAt(s, 1 + k, e)
<1> DEFINE a == SubSeq(s, 1, k)
<1> DEFINE b == SubSeq(s, 1 + k, Len(s))
<1> DEFINE c == a \o <<e>>
<1>1. /\ a \in Seq(S) /\ Len(a) = k
      /\ \A i \in 1 .. k : a[i] = s[i]
  OBVIOUS
<1>2. /\ b \in Seq(S) /\ Len(b) = Len(s) - k
      /\ \A i \in 1 .. Len(s) - k : b[i] = s[k + i]
  OBVIOUS
<1>3. o = c \o b
  <2>1. (1 + k) - 1 = k
    OBVIOUS
  <2> QED BY <2>1 DEF InsertAt
<1> HIDE DEF a, b
<1>4. /\ c \in Seq(S) /\ Len(c) = k + 1 /\ c[k + 1] = e
      /\ \A i \in 1 .. k : c[i] = s[i]
  BY <1>1
<1> HIDE DEF c, o
<1>5. /\ o \in Seq(S) /\ Len(o) = Len(s) + 1
      /\ \A i \in 1 .. k + 1 : o[i] = c[i]
      /\ \A i \in k + 2 .. Len(s) + 1 : o[i] = b[i - (k + 1)]
  <2>1. /\ o \in Seq(S) /\ Len(o) = Len(c) + Len(b)
        /\ \A i \in 1 .. Len(c) + Len(b) :
              o[i] = IF i <= Len(c) THEN c[i] ELSE b[i - Len(c)]
    <3>1. c \in Seq(S) /\ b \in Seq(S)
      BY <1>2, <1>4
    <3>2. /\ c \o b \in Seq(S) /\ Len(c \o b) = Len(c) + Len(b)
          /\ \A i \in 1 .. Len(c) + Len(b) :
                (c \o b)[i] = IF i <= Len(c) THEN c[i] ELSE b[i - Len(c)]
      BY <3>1, ConcatProperties, Zenon
    <3> QED BY <1>3, <3>2, Zenon
  <2>2. Len(c) = k + 1 /\ Len(c) + Len(b) = Len(s) + 1
    BY <1>2, <1>4
  <2>3. \A i \in 1 .. k + 1 : i \in 1 .. Len(s) + 1 /\ i <= k + 1
    OBVIOUS
  <2>4. \A i \in k + 2 .. Len(s) + 1 : i \in 1 .. Len(s) + 1 /\ ~(i <= k + 1)
    OBVIOUS
  <2> QED BY <2>1, <2>2, <2>3, <2>4
<1>7. /\ \A i \in 1 .. k : o[i] = s[i]
      /\ o[k + 1] = e
  BY <1>4, <1>5
<1>8. \A i \in k + 2 .. Len(s) + 1 : o[i] = s[i - 1]
  <2> SUFFICES ASSUME NEW i \in k + 2 .. Len(s) + 1 PROVE o[i] = s[i - 1]
    OBVIOUS
  <2>1. i - (k + 1) \in 1 .. Len(s) - k /\ k + (i - (k + 1)) = i - 1
    OBVIOUS
  <2>2. b[i - (k + 1)] = s[i - 1]
    BY <1>2, <2>1
  <2> QED BY <1>5, <2>2
<1>9. ToSet(o) = ToSet(s) \cup {e}
  <2>1. ASSUME NEW i \in DOMAIN o PROVE o[i] \in ToSet(s) \cup {e}
    <3>1. i \in 1 .. k \/ i = k + 1 \/ i \in k + 2 .. Len(s) + 1
      BY <1>5
    <3>2. CASE i \in 1 .. k
      BY <3>2, <1>7 DEF ToSet
    <3>3. CASE i \in k + 2 .. Len(s) + 1
      <4>1. i - 1 \in DOMAIN s
        BY <3>3
      <4> QED BY <3>3, <4>1, <1>8 DEF ToSet
    <3> QED BY <3>1, <3>2, <3>3, <1>7
  <2>2. ASSUME NEW i \in DOMAIN s PROVE s[i] \in ToSet(o)
    <3>1. CASE i \in 1 .. k
      BY <3>1, <1>5, <1>7 DEF ToSet
    <3>2. CASE i \notin 1 .. k
      <4>1. i + 1 \in k + 2 .. Len(s) + 1 /\ (i + 1) - 1 = i
        BY <3>2
      <4>2. o[i + 1] = s[i]
        BY <4>1, <1>8
      <4> QED BY <4>1, <4>2, <1>5 DEF ToSet
    <3> QED BY <3>1, <3>2
  <2>3. e \in ToSet(o)
    BY <1>5, <1>7 DEF ToSet
  <2> QED BY <2>1, <2>2, <2>3 DEF ToSet
<1>10. IsInserted(o, s, k, e, S)
  BY <1>5, <1>7, <1>8, <1>9 DEF IsInserted
<1> QED BY <1>10 DEF o

(* activate of a task that is not in the ring puts it behind the running.  *)
LEMMA ActivateInserts ==
  ASSUME TypeOK, LinksAreActive, NEW t \in Task, t \notin Active,
         order' = InsertAt(order, 1 + CHOOSE i \in 1 .. Len(order) : order[i] = up, t)
  PROVE  \E k \in 1 .. Len(order) :
           /\ order[k] = up
           /\ order' \in Seq(Task) /\ Len(order') = Len(order) + 1
           /\ \A i \in 1 .. k : order'[i] = order[i]
           /\ order'[k + 1] = t
           /\ \A i \in k + 2 .. Len(order) + 1 : order'[i] = order[i - 1]
           /\ Active' = Active \cup {t}
<1>1. order \in Seq(Task)
  BY DEF TypeOK
<1>2. \E i \in 1 .. Len(order) : order[i] = up
  BY <1>1 DEF LinksAreActive, Active, ToSet
<1> DEFINE k == CHOOSE i \in 1 .. Len(order) : order[i] = up
<1>3. k \in 1 .. Len(order) /\ order[k] = up
  BY <1>2
<1>4. order' = InsertAt(order, 1 + k, t)
  OBVIOUS
<1> HIDE DEF k
<1>5. Active' = ToSet(order') /\ Active = ToSet(order)
  BY DEF Active
<1>6. /\ order' \in Seq(Task) /\ Len(order') = Len(order) + 1
      /\ \A i \in 1 .. k : order'[i] = order[i]
      /\ order'[k + 1] = t
      /\ \A i \in k + 2 .. Len(order) + 1 : order'[i] = order[i - 1]
      /\ ToSet(order') = ToSet(order) \cup {t}
  <2>1. IsInserted(InsertAt(order, 1 + k, t), order, k, t, Task)
    BY <1>1, <1>3, InsertAfter
  <2>2. IsInserted(order', order, k, t, Task)
    BY <1>4, <2>1
  <2> QED BY <2>2 DEF IsInserted
<1> QED BY <1>3, <1>5, <1>6

LEMMA LinksStayActive ==
  ASSUME TypeOK, LinksAreActive, Activate
  PROVE  LinksAreActive' /\ order' \in Seq(Task) /\ Active \subseteq Active'
<1> PICK t \in Task :
      /\ next' = Linked(t)
      /\ order' = IF t \in Active THEN order
                  ELSE InsertAt(order, 1 + CHOOSE i \in 1 .. Len(order) : order[i] = up, t)
      /\ up' = up
  BY DEF Activate
<1>1. Active' = Active \cup {t} /\ order' \in Seq(Task)
  <2>1. CASE t \in Active
    BY <2>1 DEF Active, TypeOK
  <2>2. CASE t \notin Active
    BY <2>2, ActivateInserts
  <2> QED BY <2>1, <2>2
<1>2. Active \subseteq Task
  BY DEF Active, ToSet, TypeOK
<1>3. \A u \in Task : next'[u] = IF u = t THEN next[up] ELSE IF u = up THEN t ELSE next[u]
  BY DEF Linked, TypeOK
<1> QED BY <1>1, <1>2, <1>3 DEF LinksAreActive, TypeOK

LEMMA RingKept ==
  ASSUME TypeOK, LinksAreActive, RingIsWhole,
         up' \in {up, next[up]}, UNCHANGED <<next, ringVars>>
  PROVE  LinksAreActive' /\ RingIsWhole'
<1>1. /\ Active' = Active /\ Cuts' = Cuts /\ next' = next /\ order' = order
      /\ up' \in Active
  BY DEF ringVars, Active, Cuts, LinksAreActive
<1> QED BY <1>1 DEF LinksAreActive, RingIsWhole

LEMMA CutsType == ASSUME TypeOK PROVE cuts.activate \in Nat /\ cuts.error \in Nat
BY DEF TypeOK

(* A task put in behind the running one takes over its link. *)
LEMMA RingGrows ==
  ASSUME TypeOK, LinksAreActive, RingIsWhole, Activate
  PROVE  RingIsWhole'
<1> PICK t \in Task :
      /\ next' = Linked(t)
      /\ cuts' = (IF t \in Active THEN [cuts EXCEPT !.activate = @ + 1] ELSE cuts)
      /\ order' = IF t \in Active THEN order
                  ELSE InsertAt(order, 1 + CHOOSE i \in 1 .. Len(order) : order[i] = up, t)
      /\ up' = up
  BY DEF Activate
<1>1. CASE t \in Active
  <2>1. cuts'.activate = cuts.activate + 1 /\ cuts'.error = cuts.error
    BY <1>1 DEF TypeOK
  <2>2. Cuts' # 0
    BY <2>1, CutsType DEF Cuts
  <2> QED BY <2>2 DEF RingIsWhole
<1>2. CASE t \notin Active
  <2> SUFFICES ASSUME Cuts = 0
               PROVE  /\ IsInjective(order') /\ up \in Active'
                      /\ \A i \in 1 .. Len(order') :
                           next'[order'[i]] = order'[IF i = Len(order') THEN 1 ELSE i + 1]
    BY <1>2 DEF RingIsWhole, Cuts
  <2> DEFINE n == Len(order)
  <2>1. PICK k \in 1 .. n :
           /\ order[k] = up
           /\ order' \in Seq(Task) /\ Len(order') = n + 1
           /\ \A i \in 1 .. k : order'[i] = order[i]
           /\ order'[k + 1] = t
           /\ \A i \in k + 2 .. n + 1 : order'[i] = order[i - 1]
           /\ Active' = Active \cup {t}
    BY <1>2, ActivateInserts
  <2>2. n \in Nat /\ order \in [1 .. n -> Task] /\ DOMAIN order' = 1 .. n + 1
    BY <2>1 DEF TypeOK
  <2>3. /\ \A i \in 1 .. n, j \in 1 .. n : order[i] = order[j] => i = j
        /\ \A i \in 1 .. n : next[order[i]] = order[IF i = n THEN 1 ELSE i + 1]
    BY <2>2 DEF RingIsWhole, IsInjective
  <2>4. \A i \in 1 .. n : order[i] # t /\ order[i] \in Task
    BY <1>2, <2>2 DEF Active, ToSet
  <2>5. up # t /\ up \in Active
    BY <1>2 DEF LinksAreActive
  <2>6. /\ next'[up] = t /\ next'[t] = next[up]
        /\ \A u \in Task \ {up, t} : next'[u] = next[u]
    BY <2>5 DEF Linked, TypeOK
  <2> HIDE DEF n
  <2>7. IsInjective(order')
    <3>1. \A i \in 1 .. n + 1 : i # k + 1 =>
            \E m \in 1 .. n : order'[i] = order[m] /\ i = IF m <= k THEN m ELSE m + 1
      <4> SUFFICES ASSUME NEW i \in 1 .. n + 1, i # k + 1
                   PROVE  \E m \in 1 .. n :
                            order'[i] = order[m] /\ i = IF m <= k THEN m ELSE m + 1
        OBVIOUS
      <4>1. CASE i <= k
        <5>1. i \in 1 .. k /\ i \in 1 .. n
          BY <4>1, <2>2
        <5> QED BY <4>1, <5>1, <2>1
      <4>2. CASE ~(i <= k)
        <5>1. i \in k + 2 .. n + 1 /\ i - 1 \in 1 .. n /\ ~(i - 1 <= k) /\ i = (i - 1) + 1
          BY <4>2, <2>2
        <5>2. order'[i] = order[i - 1]
          BY <5>1, <2>1
        <5> QED BY <5>1, <5>2
      <4> QED BY <4>1, <4>2
    <3> SUFFICES ASSUME NEW i \in 1 .. n + 1, NEW j \in 1 .. n + 1, order'[i] = order'[j]
                 PROVE  i = j
      BY <2>2 DEF IsInjective
    <3>2. CASE i # k + 1 /\ j # k + 1
      <4>1. PICK a \in 1 .. n : order'[i] = order[a] /\ i = IF a <= k THEN a ELSE a + 1
        BY <3>1, <3>2
      <4>2. PICK b \in 1 .. n : order'[j] = order[b] /\ j = IF b <= k THEN b ELSE b + 1
        BY <3>1, <3>2
      <4>3. order[a] = order[b]
        BY <4>1, <4>2
      <4>4. a = b
        BY <4>3, <2>3
      <4> QED BY <4>1, <4>2, <4>4
    <3>3. CASE i = k + 1 /\ j # k + 1
      <4>1. PICK b \in 1 .. n : order'[j] = order[b]
        BY <3>1, <3>3
      <4>2. order'[i] = t /\ order[b] # t
        BY <3>3, <2>1, <2>4
      <4> QED BY <4>1, <4>2
    <3>4. CASE i # k + 1 /\ j = k + 1
      <4>1. PICK a \in 1 .. n : order'[i] = order[a]
        BY <3>1, <3>4
      <4>2. order'[j] = t /\ order[a] # t
        BY <3>4, <2>1, <2>4
      <4> QED BY <4>1, <4>2
    <3> QED BY <3>2, <3>3, <3>4
  <2>8. ASSUME NEW i \in 1 .. n + 1
        PROVE  next'[order'[i]] = order'[IF i = n + 1 THEN 1 ELSE i + 1]
    <3>1. CASE i \in 1 .. k - 1
      <4>1. i \in 1 .. n /\ i \in 1 .. k /\ i + 1 \in 1 .. k /\ i # k /\ i # n /\ i # n + 1
        BY <3>1, <2>2
      <4>2. order'[i] = order[i] /\ order'[i + 1] = order[i + 1]
        BY <4>1, <2>1
      <4>3. order[i] \in Task \ {up, t}
        BY <4>1, <2>1, <2>3, <2>4
      <4>4. next[order[i]] = order[i + 1]
        BY <4>1, <2>3
      <4> QED BY <4>1, <4>2, <4>3, <4>4, <2>6
    <3>2. CASE i = k
      <4>1. i # n + 1 /\ k \in 1 .. k
        BY <3>2, <2>2
      <4>2. order'[k] = up
        BY <4>1, <2>1
      <4>3. next'[order'[k]] = order'[k + 1]
        BY <4>2, <2>1, <2>6
      <4> QED BY <3>2, <4>1, <4>3
    <3>3. CASE i = k + 1 /\ k = n
      <4>1. 1 \in 1 .. k /\ next[up] = order[1]
        BY <3>3, <2>1, <2>3
      <4>2. order'[1] = order[1] /\ next'[order'[k + 1]] = next[up]
        BY <4>1, <2>1, <2>6
      <4> QED BY <3>3, <4>1, <4>2
    <3>4. CASE i = k + 1 /\ k # n
      <4>1. /\ k + 2 \in k + 2 .. n + 1 /\ i # n + 1
            /\ (k + 1) + 1 = k + 2 /\ (k + 2) - 1 = k + 1
        BY <3>4, <2>2
      <4>2. next[up] = order[k + 1]
        BY <3>4, <2>1, <2>3
      <4>3. order'[k + 2] = order[k + 1]
        BY <4>1, <2>1
      <4> QED BY <3>4, <4>1, <4>2, <4>3, <2>1, <2>6
    <3>5. CASE i \in k + 2 .. n + 1
      <4>1. i - 1 \in 1 .. n /\ i - 1 # k /\ 1 \in 1 .. k
        BY <3>5, <2>2
      <4>2. order'[i] = order[i - 1] /\ order'[1] = order[1]
        BY <3>5, <4>1, <2>1
      <4>3. order[i - 1] \in Task \ {up, t}
        BY <4>1, <2>1, <2>3, <2>4
      <4>4. CASE i = n + 1
        <5>1. i - 1 = n
          BY <4>4, <2>2
        <5>2. next[order[i - 1]] = order[1]
          BY <4>1, <5>1, <2>3
        <5> QED BY <4>2, <4>3, <4>4, <5>2, <2>6
      <4>5. CASE i # n + 1
        <5>1. i - 1 # n /\ (i - 1) + 1 = i /\ i + 1 \in k + 2 .. n + 1 /\ (i + 1) - 1 = i
          BY <3>5, <4>5, <2>2
        <5>2. next[order[i - 1]] = order[i]
          BY <4>1, <5>1, <2>3
        <5>3. order'[i + 1] = order[i]
          BY <5>1, <2>1
        <5> QED BY <4>2, <4>3, <4>5, <5>2, <5>3, <2>6
      <4> QED BY <4>4, <4>5
    <3>6. i \in 1 .. k - 1 \/ i = k \/ i = k + 1 \/ i \in k + 2 .. n + 1
      BY <2>2
    <3> QED BY <3>1, <3>2, <3>3, <3>4, <3>5, <3>6
  <2>9. Len(order') = n + 1 /\ up \in Active'
    BY <2>1, <2>5
  <2> QED BY <2>7, <2>8, <2>9
<1> QED BY <1>1, <1>2

-----------------------------------------------------------------------------
(* The invariant is inductive. *)

LEMMA InitInv == Init => Inv
<1> SUFFICES ASSUME Init PROVE Inv
  OBVIOUS
<1>1. /\ regs \in Regs /\ regs.rp = main /\ regs.sp = main
      /\ saved \in [Task -> Regs] /\ \A t \in Task : saved[t].rp = t /\ saved[t].sp = t
  BY InitialRegs, IpRun DEF Init, Regs
<1>2. <<>> \in Letters
  BY DEF Letters
<1>3. order \in Seq(Task) /\ Len(order) = 1 /\ order[1] = main
  BY DEF Init
<1>4. TypeOK
  BY <1>1, <1>2, <1>3 DEF Init, TypeOK
<1>5. OwnStacks
  BY <1>1 DEF Init, OwnStacks
<1>6. MailHasText /\ MailIsDelivered
  BY <1>2 DEF Init, MailHasText, MailIsDelivered, Letters
<1>7. Active = {main}
  BY <1>3 DEF Active, ToSet
<1>8. up = main /\ next[main] = main
  BY DEF Init
<1>9. LinksAreActive /\ SelfLinkedIsFresh
  BY <1>7, <1>8 DEF LinksAreActive, SelfLinkedIsFresh
<1>10. RingIsWhole
  BY <1>3, <1>7, <1>8 DEF RingIsWhole, IsInjective
<1> QED BY <1>4, <1>5, <1>6, <1>9, <1>10 DEF Inv

LEMMA PauseKeeps ==
  ASSUME Inv, PauseStep
  PROVE  /\ TypeOK' /\ OwnStacks' /\ LinksAreActive' /\ SelfLinkedIsFresh' /\ RingIsWhole'
<1> USE DEF Inv
<1>1. /\ up' \in Task /\ base' \in Task /\ regs' \in Regs
      /\ saved' \in [Task -> Regs]
      /\ OwnStacks'
      /\ up' \in {up, next[up]}
      /\ \A t \in Task \ {up, up'} : saved'[t] = saved[t]
      /\ UNCHANGED <<single, next, mailVars, signalVars, ringVars>>
  <2> PICK i \in Ip : Pause([regs EXCEPT !.ip = i])
    BY PauseStepPauses
  <2> QED BY PauseEffect, PauseStepPauses
<1>2. TypeOK'
  BY <1>1 DEF TypeOK, mailVars, signalVars, ringVars
<1>3. LinksAreActive' /\ RingIsWhole'
  BY <1>1, RingKept
<1>4. SelfLinkedIsFresh'
  <2>1. Active' = Active /\ next' = next /\ Active \subseteq Task
    BY <1>1 DEF ringVars, Active, ToSet, TypeOK
  <2> SUFFICES ASSUME NEW t \in Task, t \in Active, t # up', next[t] = t
               PROVE  saved'[t].ip = At("run")
    BY <2>1 DEF SelfLinkedIsFresh
  <2>2. t # up
    BY <1>1
  <2> QED BY <1>1, <2>2 DEF SelfLinkedIsFresh
<1> QED BY <1>1, <1>2, <1>3, <1>4

LEMMA LocalKeeps ==
  ASSUME Inv, LocalStep
  PROVE  /\ TypeOK' /\ OwnStacks' /\ LinksAreActive' /\ SelfLinkedIsFresh' /\ RingIsWhole'
<1> USE DEF Inv
<1>1. /\ regs' \in Regs /\ regs'.rp = regs.rp /\ regs'.sp = regs.sp
      /\ UNCHANGED <<up, base, next, saved, ringVars>>
  BY LocalStepIsLocal
<1>2. single' \in BOOLEAN /\ cell' \in [Addr -> Task \cup {None}]
  BY DEF LocalStep, Single, WaitOver, Signal, SendOver, ReceiveOver, TypeOK, signalVars
<1>3. [Next]_vars
  BY DEF LocalStep, Next
<1>4. TypeOK'
  BY <1>1, <1>2, <1>3, MailPreserved DEF TypeOK, ringVars
<1>5. OwnStacks'
  BY <1>1 DEF OwnStacks
<1>6. LinksAreActive' /\ RingIsWhole'
  BY <1>1, RingKept
<1>7. SelfLinkedIsFresh'
  <2>1. Active' = Active
    BY <1>1 DEF ringVars, Active
  <2> QED BY <1>1, <2>1 DEF SelfLinkedIsFresh
<1> QED BY <1>4, <1>5, <1>6, <1>7

LEMMA ActivateKeeps ==
  ASSUME Inv, Activate
  PROVE  /\ TypeOK' /\ OwnStacks' /\ LinksAreActive' /\ SelfLinkedIsFresh' /\ RingIsWhole'
<1> USE DEF Inv
<1> PICK t \in Task :
      /\ saved' = IF t = up THEN saved ELSE [saved EXCEPT ![t].ip = At("run")]
      /\ next' = Linked(t)
      /\ cuts' = (IF t \in Active THEN [cuts EXCEPT !.activate = @ + 1] ELSE cuts)
      /\ order' = IF t \in Active THEN order
                  ELSE InsertAt(order, 1 + CHOOSE i \in 1 .. Len(order) : order[i] = up, t)
  BY DEF Activate
<1>1. UNCHANGED <<up, regs, base, single, mailVars, signalVars>>
  BY DEF Activate
<1>2. LinksAreActive' /\ order' \in Seq(Task)
  BY LinksStayActive
<1>3. RingIsWhole'
  BY RingGrows
<1>4. /\ saved' \in [Task -> Regs]
      /\ \A u \in Task : saved'[u].rp = u /\ saved'[u].sp = u
      /\ t # up => saved'[t].ip = At("run")
      /\ \A u \in Task \ {t} : saved'[u] = saved[u]
  BY IpRun DEF TypeOK, OwnStacks, Regs
<1>5. next' \in [Task -> Task] /\ \A u \in Task \ {t, up} : next'[u] = next[u]
  BY DEF Linked, TypeOK
<1>6. cuts' \in [activate : Nat, error : Nat]
  BY DEF TypeOK
<1>7. TypeOK'
  BY <1>1, <1>2, <1>4, <1>5, <1>6 DEF TypeOK, mailVars, signalVars
<1>8. OwnStacks'
  BY <1>1, <1>4 DEF OwnStacks
<1>9. SelfLinkedIsFresh'
  <2>1. Active' \subseteq Active \cup {t}
    <3>1. CASE t \in Active
      BY <3>1 DEF Active
    <3>2. CASE t \notin Active
      BY <3>2, ActivateInserts
    <3> QED BY <3>1, <3>2
  <2> SUFFICES ASSUME NEW u \in Task, u \in Active', u # up, next'[u] = u
               PROVE  saved'[u].ip = At("run")
    BY <1>1 DEF SelfLinkedIsFresh
  <2>2. CASE u = t
    BY <2>2, <1>4
  <2>3. CASE u # t
    BY <2>1, <2>3, <1>4, <1>5 DEF SelfLinkedIsFresh
  <2> QED BY <2>2, <2>3
<1> QED BY <1>2, <1>3, <1>7, <1>8, <1>9

LEMMA ErrorKeeps ==
  ASSUME Inv, Error
  PROVE  /\ TypeOK' /\ OwnStacks' /\ LinksAreActive' /\ SelfLinkedIsFresh' /\ RingIsWhole'
<1> USE DEF Inv
<1>1. /\ cuts' = [cuts EXCEPT !.error = @ + 1]
      /\ next' = [next EXCEPT ![up] = up]
      /\ UNCHANGED <<up, regs, base, single, saved, mailVars, signalVars, order>>
  BY DEF Error
<1>2. TypeOK'
  BY <1>1 DEF TypeOK, mailVars, signalVars
<1>3. OwnStacks'
  BY <1>1 DEF OwnStacks
<1>4. Active' = Active /\ up' = up /\ \A t \in Task : next'[t] = IF t = up THEN up ELSE next[t]
  BY <1>1 DEF Active, TypeOK
<1>5. Active \subseteq Task
  BY DEF Active, ToSet, TypeOK
<1>6. LinksAreActive'
  BY <1>4, <1>5 DEF LinksAreActive
<1>7. SelfLinkedIsFresh'
  BY <1>1, <1>4 DEF SelfLinkedIsFresh
<1>8. RingIsWhole'
  <2>1. cuts'.activate = cuts.activate /\ cuts'.error = cuts.error + 1
    BY <1>1 DEF TypeOK
  <2>2. Cuts' # 0
    BY <2>1, CutsType DEF Cuts
  <2> QED BY <2>2 DEF RingIsWhole
<1> QED BY <1>2, <1>3, <1>6, <1>7, <1>8

LEMMA InvStep == Inv /\ [Next]_vars => Inv'
<1> SUFFICES ASSUME Inv, [Next]_vars PROVE Inv'
  OBVIOUS
<1>1. CASE UNCHANGED vars
  <2>1. Active' = Active /\ Cuts' = Cuts
    BY <1>1 DEF vars, ringVars, Active, Cuts
  <2> QED BY <1>1, <2>1 DEF vars, mailVars, signalVars, ringVars, Inv, TypeOK, OwnStacks,
             MailHasText, MailIsDelivered, LinksAreActive, SelfLinkedIsFresh, RingIsWhole
<1>2. CASE Next
  <2>1. MailHasText' /\ MailIsDelivered'
    BY MailPreserved DEF Inv
  <2>2. TypeOK' /\ OwnStacks' /\ LinksAreActive' /\ SelfLinkedIsFresh' /\ RingIsWhole'
    BY <1>2, NextSplits, PauseKeeps, LocalKeeps, ActivateKeeps, ErrorKeeps
  <2> QED BY <2>1, <2>2 DEF Inv
<1> QED BY <1>1, <1>2

-----------------------------------------------------------------------------
(* Inv is an invariant: control changes hands only in pause, activate only *)
(* writes an area nobody runs on, so no step of a task disturbs another.   *)
THEOREM Invariance == Spec => []Inv
<1> QED BY InitInv, InvStep, PTL DEF Spec

(* Whatever the tasks do, and whoever is cut out of the ring, a task runs  *)
(* on its own stacks and depth and throw measure from their bases (pause). *)
THEOREM StacksAreOwn == Spec => []OwnStacks
<1>1. Inv => OwnStacks
  BY DEF Inv
<1> QED BY <1>1, Invariance, PTL

(* send and receive lose, repeat, reorder and misattribute no message,     *)
(* with any number of senders waiting on one mailbox.                      *)
THEOREM EveryLetterArrives == Spec => []MailIsDelivered
<1>1. Inv => MailIsDelivered
  BY DEF Inv
<1> QED BY <1>1, Invariance, PTL

(* As long as nobody activates a task that is in the ring and no error     *)
(* reaches main's quit loop, the links are one ring of the active tasks in *)
(* their order: activate puts a task behind the one that runs.             *)
THEOREM RingStaysWhole == Spec => []RingIsWhole
<1>1. Inv => RingIsWhole
  BY DEF Inv
<1> QED BY <1>1, Invariance, PTL

(* pause gives a task back what it left with, and no step of another task  *)
(* but activate changes what it has.                                       *)
THEOREM SwitchesAreTransparent == Spec => SwitchIsTransparent
<1> DEFINE Transparent(t) ==
      \/ t = up /\ (up' # up => \E i \in Ip : StateOf(t)' = [regs EXCEPT !.ip = i])
      \/ t # up /\ UNCHANGED StateOf(t)
      \/ t \in Active' /\ (t \notin Active \/ next # next')
<1>1. ASSUME Inv, PauseStep, NEW t \in Task PROVE Transparent(t)
  <2> PICK i \in Ip : Pause([regs EXCEPT !.ip = i])
    BY <1>1, PauseStepPauses DEF Inv
  <2>1. /\ t # up => StateOf(t)' = StateOf(t)
        /\ t = up /\ up' # up => StateOf(t)' = [regs EXCEPT !.ip = i]
    BY <1>1, PauseEffect DEF Inv
  <2> QED BY <2>1
<1>2. ASSUME UNCHANGED <<up, saved>>, NEW t \in Task PROVE Transparent(t)
  BY <1>2 DEF StateOf
<1>3. ASSUME Inv, Activate, NEW t \in Task PROVE Transparent(t)
  <2> PICK u \in Task :
        /\ saved' = IF u = up THEN saved ELSE [saved EXCEPT ![u].ip = At("run")]
        /\ next' = Linked(u) /\ up' = up
        /\ order' = IF u \in Active THEN order
                    ELSE InsertAt(order, 1 + CHOOSE i \in 1 .. Len(order) : order[i] = up, u)
    BY <1>3 DEF Activate
  <2>1. CASE t = up
    BY <2>1
  <2>2. CASE t # up /\ t # u
    BY <2>2, <1>3 DEF StateOf, Inv, TypeOK
  <2>3. CASE t # up /\ t = u
    <3>1. CASE u \notin Active
      BY <1>3, <2>3, <3>1, ActivateInserts DEF Inv
    <3>2. CASE u \in Active /\ next' # next
      BY <2>3, <3>2 DEF Active
    <3>3. CASE u \in Active /\ next' = next
      <4>1. next'[up] = u /\ next'[u] = next[up]
        BY <1>3, <2>3 DEF Linked, Inv, TypeOK
      <4>2. next[u] = u
        BY <3>3, <4>1
      <4>3. saved[u].ip = At("run")
        BY <1>3, <2>3, <3>3, <4>2 DEF Inv, SelfLinkedIsFresh
      <4>4. saved'[u] = saved[u]
        BY <1>3, <2>3, <4>3 DEF Inv, TypeOK, Regs
      <4> QED BY <2>3, <4>4 DEF StateOf
    <3> QED BY <3>1, <3>2, <3>3
  <2> QED BY <2>1, <2>2, <2>3
<1>4. ASSUME Inv, [Next]_vars PROVE \A t \in Task : Transparent(t)
  <2>1. CASE PauseStep
    BY <1>4, <1>1, <2>1
  <2>2. CASE Activate
    BY <1>4, <1>3, <2>2
  <2>3. CASE LocalStep \/ Error \/ UNCHANGED vars
    <3>1. UNCHANGED <<up, saved>>
      BY <1>4, <2>3, LocalStepIsLocal DEF Inv, Error, vars
    <3> QED BY <1>2, <3>1
  <2> QED BY <1>4, <2>1, <2>2, <2>3, NextSplits
<1>5. Inv /\ [Next]_vars => [\A t \in Task : Transparent(t)]_vars
  BY <1>4
<1> QED BY <1>5, Invariance, PTL DEF Spec, SwitchIsTransparent
=============================================================================
