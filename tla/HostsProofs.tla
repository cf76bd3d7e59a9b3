----------------------------- MODULE HostsProofs -----------------------------
(***************************************************************************)
(* The two hosts of the machine.  The browser: for any sizes of ring,      *)
(* buffer and slices, any texts and any image, the two queues between the  *)
(* page and the image are one stream, the output buffer never fails, and   *)
(* the page is told of rest only when it is true.  The native host: for    *)
(* any signals, keys and files, it leaves the terminal as it found it, has *)
(* it raw when the image wants it, answers the image truly, and runs the   *)
(* image that the file holds.                                              *)
(***************************************************************************)
EXTENDS ForthDriver, NativeHost, Integers, FiniteSets, FiniteSetTheorems,
        SequenceTheorems, WellFoundedInduction, TLAPS

-----------------------------------------------------------------------------
(* Arithmetic modulo the ring and the width of its counters. *)

LEMMA DivMod ==
  ASSUME NEW m \in Nat \ {0}, NEW x \in Nat
  PROVE  x \div m \in Nat /\ x = m * (x \div m) + (x % m) /\ x % m \in 0 .. m - 1
BY Z3

LEMMA ModUnique ==
  ASSUME NEW m \in Nat \ {0}, NEW k \in Int, NEW r \in 0 .. m - 1
  PROVE  (m * k + r) % m = r
BY Z3

(* Two numbers less than m apart do not share a remainder. *)
LEMMA ModInjective ==
  ASSUME NEW m \in Nat \ {0}, NEW x \in Nat, NEW y \in x .. x + m - 1, x % m = y % m
  PROVE  x = y
<1> DEFINE a == x \div m
<1> DEFINE b == y \div m
<1> DEFINE r == x % m
<1>1. y \in Nat /\ x <= y /\ y < x + m
  OBVIOUS
<1>2. a \in Nat /\ b \in Nat /\ x = m * a + r /\ y = m * b + r /\ r \in 0 .. m - 1
  BY <1>1, DivMod
<1> HIDE DEF a, b, r
<1>3. m * b - m * a < m /\ m * b >= m * a
  BY <1>1, <1>2
<1>4. m * b - m * a = m * (b - a)
  BY <1>2, Z3
<1>5. b - a = 0
  BY <1>2, <1>3, <1>4, Z3
<1> QED BY <1>2, <1>5

(* Multiples of m do not matter modulo m. *)
LEMMA ModShift ==
  ASSUME NEW m \in Nat \ {0}, NEW k \in Nat, NEW x \in Nat
  PROVE  (m * k + x) % m = x % m
<1> DEFINE a == x \div m
<1> DEFINE r == x % m
<1>1. a \in Nat /\ x = m * a + r /\ r \in 0 .. m - 1
  BY DivMod
<1> HIDE DEF a, r
<1>2. m * k + x = m * (k + a) + r
  <2>1. m * (k + a) = m * k + m * a
    BY <1>1, Z3
  <2> QED BY <1>1, <2>1, Z3
<1>3. (m * (k + a) + r) % m = r
  BY <1>1, ModUnique
<1> QED BY <1>2, <1>3 DEF r

LEMMA ModAdd ==
  ASSUME NEW m \in Nat \ {0}, NEW x \in Nat, NEW y \in Nat
  PROVE  ((x % m) + y) % m = (x + y) % m
<1> DEFINE a == x \div m
<1> DEFINE r == x % m
<1>1. a \in Nat /\ x = m * a + r /\ r \in Nat
  BY DivMod
<1> HIDE DEF a, r
<1>2. x + y = m * a + (r + y) /\ r + y \in Nat
  BY <1>1, Z3
<1>3. (m * a + (r + y)) % m = (r + y) % m
  BY <1>1, <1>2, ModShift
<1> QED BY <1>2, <1>3 DEF r

(* The slot of a counter does not change when the counter wraps. *)
LEMMA SlotWraps ==
  ASSUME NEW x \in Nat
  PROVE  Slot(x % CounterModulus) = Slot(x)
<1> DEFINE M == CounterModulus
<1> DEFINE Q == IN_QUEUE
<1> DEFINE a == x \div M
<1> DEFINE r == x % M
<1> DEFINE k == M \div Q
<1>1. M \in Nat \ {0} /\ Q \in Nat \ {0} /\ M % Q = 0
  BY RingAssumption
<1>2. a \in Nat /\ x = M * a + r /\ r \in Nat
  BY <1>1, DivMod
<1>3. k \in Nat /\ M = Q * k
  BY <1>1, DivMod
<1> HIDE DEF M, Q, a, r, k
<1>4. M * a = Q * (k * a) /\ k * a \in Nat
  <2>1. M * a = (Q * k) * a
    BY <1>3
  <2>2. (Q * k) * a = Q * (k * a) /\ k * a \in Nat
    BY <1>1, <1>2, <1>3, Z3
  <2> QED BY <2>1, <2>2
<1>5. (Q * (k * a) + r) % Q = r % Q
  BY <1>1, <1>2, <1>4, ModShift
<1>6. x % Q = r % Q
  BY <1>2, <1>4, <1>5
<1> QED BY <1>6 DEF Slot, M, Q, r

LEMMA SlotShift ==
  ASSUME NEW x \in Nat
  PROVE  Slot(CounterModulus + x) = Slot(x)
<1>1. CounterModulus \in Nat \ {0} /\ CounterModulus + x \in Nat
  BY RingAssumption
<1>2. (CounterModulus * 1 + x) % CounterModulus = x % CounterModulus
  BY <1>1, ModShift
<1>3. (CounterModulus + x) % CounterModulus = x % CounterModulus
  BY <1>1, <1>2
<1> QED BY <1>1, <1>3, SlotWraps

LEMMA Wrapped ==
  ASSUME NEW x \in Nat, x < 2 * CounterModulus
  PROVE  x % CounterModulus = IF x < CounterModulus THEN x ELSE x - CounterModulus
<1>1. CounterModulus \in Nat \ {0}
  BY RingAssumption
<1>2. CASE x < CounterModulus
  <2>1. (CounterModulus * 0 + x) % CounterModulus = x
    BY <1>1, <1>2, ModUnique
  <2> QED BY <1>1, <1>2, <2>1
<1>3. CASE x >= CounterModulus
  <2>1. (CounterModulus * 1 + (x - CounterModulus)) % CounterModulus = x - CounterModulus
    BY <1>1, <1>3, ModUnique
  <2> QED BY <1>1, <1>3, <2>1
<1> QED BY <1>1, <1>2, <1>3

-----------------------------------------------------------------------------
(* The ring, as a function of its array and its two counters. *)

Counters == 0 .. CounterModulus - 1
Slots    == 0 .. IN_QUEUE - 1

Count(h, t)    == (t + CounterModulus - h) % CounterModulus
Ring(qu, h, t) == [i \in 1 .. Count(h, t) |-> qu[Slot(h + i - 1)]]

LEMMA RingIs == Queued = Count(in_head, in_tail) /\ InRing = Ring(in_queue, in_head, in_tail)
BY DEF Queued, Count, InRing, Ring

LEMMA CountCases ==
  ASSUME NEW h \in Counters, NEW t \in Counters
  PROVE  /\ Count(h, t) = IF t >= h THEN t - h ELSE t + CounterModulus - h
         /\ Count(h, t) \in Counters
<1>1. CounterModulus \in Nat \ {0} /\ h \in Nat /\ t \in Nat
        /\ h < CounterModulus /\ t < CounterModulus
  BY RingAssumption DEF Counters
<1>2. t + CounterModulus - h \in Nat /\ t + CounterModulus - h < 2 * CounterModulus
  BY <1>1
<1>3. Count(h, t) = IF t + CounterModulus - h < CounterModulus THEN t + CounterModulus - h
                    ELSE (t + CounterModulus - h) - CounterModulus
  BY <1>2, Wrapped DEF Count
<1> QED BY <1>1, <1>3 DEF Counters

LEMMA CountGrows ==
  ASSUME NEW h \in Counters, NEW t \in Counters, NEW nb \in Nat,
         Count(h, t) + nb < CounterModulus
  PROVE  /\ (t + nb) % CounterModulus \in Counters
         /\ Count(h, (t + nb) % CounterModulus) = Count(h, t) + nb
<1>1. CounterModulus \in Nat \ {0} /\ h \in Nat /\ t \in Nat
        /\ h < CounterModulus /\ t < CounterModulus
  BY RingAssumption DEF Counters
<1>2. Count(h, t) = (IF t >= h THEN t - h ELSE t + CounterModulus - h) /\ Count(h, t) \in Nat
  BY CountCases DEF Counters
<1>3. nb < CounterModulus /\ t + nb \in Nat /\ t + nb < 2 * CounterModulus
  BY <1>1, <1>2
<1> DEFINE u == (t + nb) % CounterModulus
<1>4. u = IF t + nb < CounterModulus THEN t + nb ELSE (t + nb) - CounterModulus
  BY <1>3, Wrapped, Zenon
<1> HIDE DEF u
<1>5. u \in Counters
  BY <1>1, <1>3, <1>4 DEF Counters
<1>6. Count(h, u) = IF u >= h THEN u - h ELSE u + CounterModulus - h
  BY <1>5, CountCases
<1>7. Count(h, u) = Count(h, t) + nb
  BY <1>1, <1>2, <1>3, <1>4, <1>6
<1> QED BY <1>5, <1>7 DEF u

LEMMA CountShrinks ==
  ASSUME NEW h \in Counters, NEW t \in Counters, h # t
  PROVE  /\ (h + 1) % CounterModulus \in Counters
         /\ Count(h, t) \in Nat \ {0}
         /\ Count((h + 1) % CounterModulus, t) = Count(h, t) - 1
<1>1. CounterModulus \in Nat \ {0} /\ h \in Nat /\ t \in Nat
        /\ h < CounterModulus /\ t < CounterModulus
  BY RingAssumption DEF Counters
<1>2. Count(h, t) = (IF t >= h THEN t - h ELSE t + CounterModulus - h) /\ Count(h, t) \in Nat
  BY CountCases DEF Counters
<1> DEFINE g == (h + 1) % CounterModulus
<1>3. g = IF h + 1 < CounterModulus THEN h + 1 ELSE h + 1 - CounterModulus
  BY <1>1, Wrapped
<1> HIDE DEF g
<1>4. g \in Counters
  BY <1>1, <1>3 DEF Counters
<1>5. Count(g, t) = IF t >= g THEN t - g ELSE t + CounterModulus - g
  BY <1>4, CountCases
<1>6. Count(h, t) # 0 /\ Count(g, t) = Count(h, t) - 1
  BY <1>1, <1>2, <1>3, <1>5
<1> QED BY <1>2, <1>4, <1>6 DEF g

(* The slots behind the newest byte are those from in_tail on. *)
LEMMA TailSlot ==
  ASSUME NEW h \in Counters, NEW t \in Counters, NEW k \in Nat
  PROVE  Slot(h + Count(h, t) + k) = Slot(t + k)
<1>1. CounterModulus \in Nat \ {0} /\ h \in Nat /\ t \in Nat
  BY RingAssumption DEF Counters
<1>2. Count(h, t) = IF t >= h THEN t - h ELSE t + CounterModulus - h
  BY CountCases
<1>3. CASE t >= h
  <2>1. h + Count(h, t) + k = t + k
    BY <1>1, <1>2, <1>3
  <2> QED BY <2>1
<1>4. CASE ~(t >= h)
  <2>1. h + Count(h, t) + k = CounterModulus + (t + k) /\ t + k \in Nat
    BY <1>1, <1>2, <1>4
  <2> QED BY <2>1, SlotShift
<1> QED BY <1>3, <1>4

(* Places less than a ring apart have slots of their own. *)
LEMMA SlotsDiffer ==
  ASSUME NEW x \in Nat, NEW y \in Nat, x < y + IN_QUEUE, y < x + IN_QUEUE, Slot(x) = Slot(y)
  PROVE  x = y
<1>1. IN_QUEUE \in Nat \ {0} /\ x % IN_QUEUE = y % IN_QUEUE
  BY RingAssumption DEF Slot
<1>2. CASE x <= y
  <2>1. y \in x .. x + IN_QUEUE - 1
    BY <1>1, <1>2
  <2> QED BY <1>1, <2>1, ModInjective
<1>3. CASE y <= x
  <2>1. x \in y .. y + IN_QUEUE - 1
    BY <1>1, <1>3
  <2> QED BY <1>1, <2>1, ModInjective
<1> QED BY <1>2, <1>3

LEMMA SlotType == ASSUME NEW x \in Nat PROVE Slot(x) \in Slots
BY RingAssumption, DivMod DEF Slot, Slots

(* mux_push puts the nb bytes behind those that are there. *)
Inserted(qu, t, s, nb) ==
  [i \in 0 .. IN_QUEUE - 1 |->
     IF \E k \in 1 .. nb : Slot(t + k - 1) = i
       THEN s[CHOOSE k \in 1 .. nb : Slot(t + k - 1) = i] ELSE qu[i]]

LEMMA PushedSlots ==
  ASSUME NEW qu \in [Slots -> Nat], NEW t \in Counters, NEW s \in Seq(Nat),
         NEW nb \in 0 .. Len(s), nb <= IN_QUEUE
  PROVE  /\ Inserted(qu, t, s, nb) \in [Slots -> Nat]
         /\ \A k \in 1 .. nb : Inserted(qu, t, s, nb)[Slot(t + k - 1)] = s[k]
         /\ \A i \in Slots : (\A k \in 1 .. nb : Slot(t + k - 1) # i)
                             => Inserted(qu, t, s, nb)[i] = qu[i]
<1> DEFINE Which(i) == CHOOSE k \in 1 .. nb : Slot(t + k - 1) = i
<1>1. t \in Nat /\ nb \in Nat /\ IN_QUEUE \in Nat
  BY RingAssumption DEF Counters
<1>2. \A k \in 1 .. nb : t + k - 1 \in Nat /\ s[k] \in Nat
  BY <1>1
<1>3. \A i \in Slots : (\E k \in 1 .. nb : Slot(t + k - 1) = i)
                       => Which(i) \in 1 .. nb /\ Slot(t + Which(i) - 1) = i
  OBVIOUS
<1>4. \A k \in 1 .. nb : Slot(t + k - 1) \in Slots /\ Which(Slot(t + k - 1)) = k
  <2> SUFFICES ASSUME NEW k \in 1 .. nb
               PROVE  Slot(t + k - 1) \in Slots /\ Which(Slot(t + k - 1)) = k
    OBVIOUS
  <2>1. Slot(t + k - 1) \in Slots
    BY <1>2, SlotType
  <2> DEFINE j == Which(Slot(t + k - 1))
  <2>2. j \in 1 .. nb /\ Slot(t + j - 1) = Slot(t + k - 1)
    BY <1>3, <2>1
  <2> HIDE DEF j
  <2> DEFINE x == t + j - 1
  <2> DEFINE y == t + k - 1
  <2>3. x \in Nat /\ y \in Nat /\ x < y + IN_QUEUE /\ y < x + IN_QUEUE
    BY <1>1, <2>2
  <2>4. Slot(x) = Slot(y)
    BY <2>2
  <2> HIDE DEF x, y
  <2>5. x = y
    BY <2>3, <2>4, SlotsDiffer
  <2>6. j = k
    BY <1>1, <2>2, <2>5 DEF x, y
  <2> QED BY <2>1, <2>6 DEF j
<1> HIDE DEF Which
<1>5. Inserted(qu, t, s, nb) =
        [i \in Slots |-> IF \E k \in 1 .. nb : Slot(t + k - 1) = i THEN s[Which(i)] ELSE qu[i]]
  BY DEF Inserted, Slots, Which
<1>6. Inserted(qu, t, s, nb) \in [Slots -> Nat]
  BY <1>2, <1>3, <1>5
<1>7. \A k \in 1 .. nb : Inserted(qu, t, s, nb)[Slot(t + k - 1)] = s[k]
  BY <1>4, <1>5
<1> QED BY <1>5, <1>6, <1>7

LEMMA RingType ==
  ASSUME NEW qu \in [Slots -> Nat], NEW h \in Counters, NEW t \in Counters
  PROVE  /\ Ring(qu, h, t) \in Seq(Nat) /\ Len(Ring(qu, h, t)) = Count(h, t)
         /\ \A i \in 1 .. Count(h, t) :
              h + i - 1 \in Nat /\ Ring(qu, h, t)[i] = qu[Slot(h + i - 1)]
<1>1. h \in Nat /\ Count(h, t) \in Nat
  BY CountCases, RingAssumption DEF Counters
<1>2. \A i \in 1 .. Count(h, t) : h + i - 1 \in Nat /\ qu[Slot(h + i - 1)] \in Nat
  <2> SUFFICES ASSUME NEW i \in 1 .. Count(h, t)
               PROVE  h + i - 1 \in Nat /\ qu[Slot(h + i - 1)] \in Nat
    OBVIOUS
  <2>1. h + i - 1 \in Nat
    BY <1>1
  <2> QED BY <2>1, SlotType
<1> QED BY <1>1, <1>2 DEF Ring

LEMMA RingPush ==
  ASSUME NEW qu \in [Slots -> Nat], NEW h \in Counters, NEW t \in Counters,
         NEW s \in Seq(Nat), NEW nb \in 0 .. Len(s), Count(h, t) + nb <= IN_QUEUE
  PROVE  /\ (t + nb) % CounterModulus \in Counters
         /\ Count(h, (t + nb) % CounterModulus) = Count(h, t) + nb
         /\ Inserted(qu, t, s, nb) \in [Slots -> Nat]
         /\ Ring(Inserted(qu, t, s, nb), h, (t + nb) % CounterModulus)
              = Ring(qu, h, t) \o SubSeq(s, 1, nb)
<1> DEFINE c == Count(h, t)
<1> DEFINE u == (t + nb) % CounterModulus
<1> DEFINE pu == Inserted(qu, t, s, nb)
<1> DEFINE a == Ring(qu, h, t)
<1> DEFINE b == SubSeq(s, 1, nb)
<1> DEFINE r == Ring(pu, h, u)
<1>1. h \in Nat /\ t \in Nat /\ c \in Nat /\ nb \in Nat /\ nb <= IN_QUEUE
        /\ IN_QUEUE \in Nat /\ c + nb <= IN_QUEUE /\ c + nb < CounterModulus
  <2>1. c \in Counters
    BY CountCases
  <2> HIDE DEF c
  <2>2. c + nb <= IN_QUEUE
    BY DEF c
  <2> QED BY <2>1, <2>2, RingAssumption DEF Counters
<1>2. u \in Counters /\ Count(h, u) = c + nb
  BY <1>1, CountGrows
<1>3. /\ pu \in [Slots -> Nat]
      /\ \A k \in 1 .. nb : pu[Slot(t + k - 1)] = s[k]
      /\ \A i \in Slots : (\A k \in 1 .. nb : Slot(t + k - 1) # i) => pu[i] = qu[i]
  BY <1>1, PushedSlots
<1>4. /\ a \in Seq(Nat) /\ Len(a) = c
      /\ \A i \in 1 .. c : h + i - 1 \in Nat /\ a[i] = qu[Slot(h + i - 1)]
  BY RingType
<1>5. b \in Seq(Nat) /\ Len(b) = nb /\ \A i \in 1 .. nb : b[i] = s[i]
  OBVIOUS
<1>tail. \A k \in Nat : Slot(h + c + k) = Slot(t + k)
  BY TailSlot
<1> HIDE DEF u, pu, a, b, c
<1>6. /\ r \in Seq(Nat) /\ Len(r) = c + nb
      /\ \A i \in 1 .. c + nb : h + i - 1 \in Nat /\ r[i] = pu[Slot(h + i - 1)]
  <2>1. /\ r \in Seq(Nat) /\ Len(r) = Count(h, u)
        /\ \A i \in 1 .. Count(h, u) : h + i - 1 \in Nat /\ r[i] = pu[Slot(h + i - 1)]
    BY <1>2, <1>3, RingType
  <2> QED BY <1>2, <2>1
<1> HIDE DEF r
<1>7. /\ a \o b \in Seq(Nat) /\ Len(a \o b) = c + nb
      /\ \A i \in 1 .. c + nb : (a \o b)[i] = IF i <= c THEN a[i] ELSE b[i - c]
  BY <1>4, <1>5, ConcatProperties
<1>8. ASSUME NEW i \in 1 .. c + nb PROVE r[i] = (a \o b)[i]
  <2>1. CASE i <= c
    <3>1. i \in 1 .. c /\ h + i - 1 \in Nat
      BY <1>1, <2>1
    <3>2. ASSUME NEW k \in 1 .. nb PROVE Slot(t + k - 1) # Slot(h + i - 1)
      <4> DEFINE x == h + c + (k - 1)
      <4> DEFINE y == h + i - 1
      <4>1. x \in Nat /\ y \in Nat /\ x < y + IN_QUEUE /\ y < x + IN_QUEUE /\ x # y
        BY <1>1, <2>1, <3>1
      <4>2. Slot(x) = Slot(t + k - 1)
        <5>1. k - 1 \in Nat /\ t + (k - 1) = t + k - 1
          BY <1>1
        <5> QED BY <5>1, <1>tail
      <4> HIDE DEF x
      <4>3. Slot(x) # Slot(y)
        <5> HIDE DEF y
        <5> QED BY <4>1, SlotsDiffer
      <4> QED BY <4>2, <4>3
    <3>3. Slot(h + i - 1) \in Slots
      BY <3>1, SlotType
    <3>4. pu[Slot(h + i - 1)] = qu[Slot(h + i - 1)]
      BY <1>3, <3>2, <3>3
    <3> QED BY <1>4, <1>6, <1>7, <2>1, <3>1, <3>4
  <2>2. CASE ~(i <= c)
    <3> DEFINE k == i - c
    <3>1. k \in 1 .. nb /\ k - 1 \in Nat /\ h + i - 1 = h + c + (k - 1)
            /\ t + (k - 1) = t + k - 1
      BY <1>1, <2>2
    <3> HIDE DEF k
    <3>2. Slot(h + i - 1) = Slot(t + k - 1)
      BY <3>1, <1>tail
    <3>3. r[i] = s[k]
      BY <1>3, <1>6, <3>1, <3>2
    <3>4. (a \o b)[i] = b[k]
      BY <1>7, <2>2 DEF k
    <3> QED BY <1>5, <3>1, <3>3, <3>4
  <2> QED BY <2>1, <2>2
<1>9. r = a \o b
  BY <1>6, <1>7, <1>8, SeqEqual
<1> QED BY <1>2, <1>3, <1>9 DEF u, pu, a, b, c, r

LEMMA RingGet ==
  ASSUME NEW qu \in [Slots -> Nat], NEW h \in Counters, NEW t \in Counters, h # t
  PROVE  /\ Ring(qu, h, t) # <<>>
         /\ Head(Ring(qu, h, t)) = qu[Slot(h)]
         /\ Ring(qu, (h + 1) % CounterModulus, t) = Tail(Ring(qu, h, t))
<1> DEFINE g == (h + 1) % CounterModulus
<1> DEFINE c == Count(h, t)
<1> DEFINE a == Ring(qu, h, t)
<1> DEFINE r == Ring(qu, g, t)
<1>1. g \in Counters /\ c \in Nat \ {0} /\ Count(g, t) = c - 1
  BY CountShrinks
<1>2. /\ a \in Seq(Nat) /\ Len(a) = c
      /\ \A i \in 1 .. c : h + i - 1 \in Nat /\ a[i] = qu[Slot(h + i - 1)]
  BY RingType
<1>3. h \in Nat
  BY RingAssumption DEF Counters
<1>4. \A x \in Nat : Slot(g + x) = Slot(h + 1 + x)
  <2> SUFFICES ASSUME NEW x \in Nat PROVE Slot(g + x) = Slot(h + 1 + x)
    OBVIOUS
  <2>1. CounterModulus \in Nat \ {0} /\ g \in Nat /\ h + 1 \in Nat
    BY <1>1, <1>3, RingAssumption DEF Counters
  <2>2. (g + x) % CounterModulus = (h + 1 + x) % CounterModulus
    BY <2>1, ModAdd
  <2>3. g + x \in Nat /\ h + 1 + x \in Nat
    BY <2>1
  <2> QED BY <2>2, <2>3, SlotWraps
<1>5. /\ r \in Seq(Nat) /\ Len(r) = c - 1
      /\ \A i \in 1 .. c - 1 : r[i] = qu[Slot(g + i - 1)]
  BY <1>1, RingType
<1> HIDE DEF a, c, r
<1>6. a # <<>> /\ Head(a) = a[1] /\ a[1] = qu[Slot(h)]
  <2>1. 1 \in 1 .. c /\ h + 1 - 1 = h
    BY <1>1, <1>3
  <2>2. a[1] = qu[Slot(h)]
    BY <1>2, <2>1
  <2> QED BY <1>1, <1>2, <2>2
<1>7. /\ Tail(a) \in Seq(Nat) /\ Len(Tail(a)) = c - 1
      /\ \A i \in 1 .. c - 1 : Tail(a)[i] = a[i + 1]
  BY <1>1, <1>2, <1>6, HeadTailProperties
<1>8. ASSUME NEW i \in 1 .. c - 1 PROVE r[i] = Tail(a)[i]
  <2>1. g \in Nat
    BY <1>1, RingAssumption DEF Counters
  <2> HIDE DEF g
  <2>2. /\ i - 1 \in Nat /\ g + i - 1 = g + (i - 1)
        /\ h + 1 + (i - 1) = h + (i + 1) - 1 /\ i + 1 \in 1 .. c
    BY <1>1, <1>3, <2>1
  <2>3. Slot(g + i - 1) = Slot(h + (i + 1) - 1)
    BY <1>4, <2>2
  <2> QED BY <1>2, <1>5, <1>7, <2>2, <2>3
<1>9. r = Tail(a)
  BY <1>5, <1>7, <1>8, SeqEqual
<1> QED BY <1>6, <1>9 DEF a, r

-----------------------------------------------------------------------------
(* The inductive invariant. *)

TypeOK ==
  /\ in_queue \in [Slots -> Nat] /\ in_head \in Counters /\ in_tail \in Counters
  /\ input_ended = FALSE /\ peek_pending \in BOOLEAN
  /\ out_len \in Nat /\ budget \in Nat
  /\ insn \in Insns /\ rc \in Status
  /\ pending \in Seq(Nat) /\ js \in {"new", "turn", "idle"}
  /\ pendingFrame \in BOOLEAN /\ dead \in BOOLEAN /\ rested \in BOOLEAN
  /\ slice \in 1 .. BudgetModulus - 1

(* in_tail never laps in_head: the counters alone say how full the ring is *)
RingHolds == Count(in_head, in_tail) <= IN_QUEUE

(* The buffer is empty between turns, and in a turn it fills to the mark   *)
(* only with the instruction that ends the slice.                          *)
RoomForOutput ==
  /\ rc # "MUX_ERR_OUTPUT" /\ out_len <= OUT_HIGH_WATER
  /\ js # "turn" => out_len = 0
  /\ rc = "RUN" /\ out_len = OUT_HIGH_WATER => budget = 0

(* mux_run runs inside a turn only, and what it returned is still true.    *)
ReturnsAreTrue ==
  /\ rc = "RUN" => js = "turn"
  /\ js = "turn" /\ rc = "MUX_NEED_INPUT" => insn = "get" /\ Empty /\ ~peek_pending
  /\ js = "turn" /\ rc = "MUX_OK" => insn = "halt"

(* rested is said between turns; a stopped page starts none.               *)
RestIsBetweenTurns == js # "idle" => ~rested /\ ~dead

(* What has been sent and not yet read is what the two queues hold.        *)
UnreadIsQueued == unread = InRing \o pending

Inv == /\ TypeOK /\ RingHolds /\ RoomForOutput /\ ReturnsAreTrue /\ RestIsBetweenTurns
       /\ RestIsReal /\ UnreadIsQueued

-----------------------------------------------------------------------------
(* send and flush. *)

LEMMA NatAssociative ==
  \A a, b, c \in Seq(Nat) : (a \o b) \o c = a \o (b \o c)
BY ConcatAssociative

LEMMA NatPush ==
  \A qu \in [Slots -> Nat] : \A h, t \in Counters : \A s \in Seq(Nat) : \A nb \in 0 .. Len(s) :
    Count(h, t) + nb <= IN_QUEUE =>
      /\ (t + nb) % CounterModulus \in Counters
      /\ Count(h, (t + nb) % CounterModulus) = Count(h, t) + nb
      /\ Inserted(qu, t, s, nb) \in [Slots -> Nat]
      /\ Ring(Inserted(qu, t, s, nb), h, (t + nb) % CounterModulus)
             = Ring(qu, h, t) \o SubSeq(s, 1, nb)
BY RingPush

LEMMA TextsAreNumbers ==
  PRELUDE \in Seq(Nat) /\ Recovery \in Seq(Nat) /\ <<>> \in Seq(Nat)
    /\ \A text \in Texts : text \in Seq(Nat)
<1>1. Byte \subseteq Nat
  BY ByteAssumption
<1>2. \A s \in Seq(Byte) : s \in Seq(Nat)
  BY <1>1, SeqMonotonic, Zenon
<1> QED BY <1>2, TextAssumption

LEMMA PrefixOfConcat ==
  ASSUME NEW p \in Seq(Nat), NEW text \in Seq(Nat)
  PROVE  IsPrefix(p, p \o text)
<1>1. /\ p \o text \in Seq(Nat) /\ Len(p \o text) = Len(p) + Len(text)
      /\ \A i \in 1 .. Len(p) + Len(text) :
           (p \o text)[i] = IF i <= Len(p) THEN p[i] ELSE text[i - Len(p)]
  BY ConcatProperties
<1>2. Len(p) \in Nat /\ Len(text) \in Nat
  OBVIOUS
<1> DEFINE w == p \o text
<1> HIDE DEF w
<1>3. w \in Seq(Nat) /\ Len(w) >= Len(p) /\ \A i \in 1 .. Len(p) : w[i] = p[i]
  BY <1>1, <1>2 DEF w
<1>4. /\ SubSeq(w, 1, Len(p)) \in Seq(Nat) /\ Len(SubSeq(w, 1, Len(p))) = Len(p)
      /\ \A i \in 1 .. Len(p) : SubSeq(w, 1, Len(p))[i] = w[i]
  BY <1>2, <1>3
<1>5. SubSeq(w, 1, Len(p)) = p
  BY <1>3, <1>4, SeqEqual
<1>6. SubSeq(p, 1, Len(p)) = p
  BY SubSeqFull
<1> QED BY <1>3, <1>5, <1>6 DEF w, IsPrefix

(* The two queues are one: what flush moves stays where it was in line.    *)
LEMMA SendAppends ==
  ASSUME TypeOK, RingHolds, NEW text \in Seq(Nat), SendFlush(text)
  PROVE  /\ in_queue' \in [Slots -> Nat] /\ in_head' = in_head /\ in_tail' \in Counters
         /\ pending' \in Seq(Nat)
         /\ RingHolds'
         /\ InRing' \o pending' = (InRing \o pending) \o text
         /\ IsPrefix(InRing, InRing')
<1> DEFINE all == pending \o text
<1> DEFINE nb == Accepted(all)
<1>1. all \in Seq(Nat) /\ pending \in Seq(Nat)
  BY DEF TypeOK
<1> HIDE DEF all
<1>2. nb \in 0 .. Len(all) /\ Count(in_head, in_tail) + nb <= IN_QUEUE
  <2>1. Count(in_head, in_tail) \in Nat /\ Count(in_head, in_tail) <= IN_QUEUE
    BY CountCases, RingAssumption DEF TypeOK, RingHolds, Counters
  <2>2. nb = IF Len(all) <= IN_QUEUE - Count(in_head, in_tail) THEN Len(all)
            ELSE IN_QUEUE - Count(in_head, in_tail)
    BY RingIs DEF Accepted, Space
  <2>3. Len(all) \in Nat /\ IN_QUEUE \in Nat
    BY <1>1, RingAssumption
  <2> HIDE DEF nb
  <2> QED BY <2>1, <2>2, <2>3
<1>3. /\ in_queue' = Inserted(in_queue, in_tail, all, nb)
      /\ in_tail' = (in_tail + nb) % CounterModulus
      /\ in_head' = in_head
      /\ pending' = SubSeq(all, nb + 1, Len(all))
  BY DEF SendFlush, PushAll, Inserted, all
<1> HIDE DEF nb
<1>4. /\ in_tail' \in Counters
      /\ Count(in_head, in_tail') = Count(in_head, in_tail) + nb
      /\ in_queue' \in [Slots -> Nat]
      /\ Ring(in_queue', in_head, in_tail') = Ring(in_queue, in_head, in_tail) \o SubSeq(all, 1, nb)
  <2>1. in_queue \in [Slots -> Nat] /\ in_head \in Counters /\ in_tail \in Counters
    BY DEF TypeOK
  <2>2. \A k \in 0 .. Len(all) : Count(in_head, in_tail) + k <= IN_QUEUE =>
          /\ (in_tail + k) % CounterModulus \in Counters
          /\ Count(in_head, (in_tail + k) % CounterModulus) = Count(in_head, in_tail) + k
          /\ Inserted(in_queue, in_tail, all, k) \in [Slots -> Nat]
          /\ Ring(Inserted(in_queue, in_tail, all, k), in_head, (in_tail + k) % CounterModulus)
                = Ring(in_queue, in_head, in_tail) \o SubSeq(all, 1, k)
    BY <1>1, <2>1, NatPush, Zenon
  <2> QED BY <1>2, <1>3, <2>2
<1>5. InRing' = InRing \o SubSeq(all, 1, nb)
  BY <1>3, <1>4, RingIs DEF InRing, Ring, Queued, Count
<1>6. InRing \in Seq(Nat)
  BY RingIs, RingType DEF TypeOK
<1>7. /\ SubSeq(all, 1, nb) \in Seq(Nat) /\ pending' \in Seq(Nat)
      /\ SubSeq(all, 1, nb) \o SubSeq(all, nb + 1, Len(all)) = all
  <2>1. 1 \in 1 .. Len(all) + 1 /\ nb \in 1 - 1 .. Len(all) /\ Len(all) \in nb .. Len(all)
    BY <1>1, <1>2
  <2>2. SubSeq(all, 1, nb) \o SubSeq(all, nb + 1, Len(all)) = SubSeq(all, 1, Len(all))
    BY <1>1, <2>1, ConcatAdjacentSubSeq
  <2>3. SubSeq(all, 1, Len(all)) = all
    BY <1>1, SubSeqFull
  <2>4. SubSeq(all, 1, nb) \in Seq(Nat) /\ SubSeq(all, nb + 1, Len(all)) \in Seq(Nat)
    BY <1>1, <1>2
  <2> QED BY <1>3, <2>2, <2>3, <2>4
<1>8. InRing' \o pending' = InRing \o all
  <2>1. (InRing \o SubSeq(all, 1, nb)) \o pending' = InRing \o (SubSeq(all, 1, nb) \o pending')
    BY <1>6, <1>7, NatAssociative
  <2> QED BY <1>3, <1>5, <1>7, <2>1
<1>9. (InRing \o pending) \o text = InRing \o (pending \o text)
  BY <1>1, <1>6, ConcatAssociative
<1>10. RingHolds'
  BY <1>2, <1>3, <1>4 DEF RingHolds
<1>11. IsPrefix(InRing, InRing')
  BY <1>5, <1>6, <1>7, PrefixOfConcat
<1> QED BY <1>3, <1>4, <1>7, <1>8, <1>9, <1>10, <1>11 DEF all

(* flush() with nothing pending moves nothing. *)
LEMMA FlushOfNothing ==
  ASSUME TypeOK, RingHolds, pending = <<>>, SendFlush(<<>>)
  PROVE  in_head' = in_head /\ in_tail' = in_tail /\ pending' = <<>>
<1>1. pending \o <<>> = <<>> /\ Len(<<>>) = 0
  OBVIOUS
<1>2. Count(in_head, in_tail) \in Nat /\ Count(in_head, in_tail) <= IN_QUEUE /\ IN_QUEUE \in Nat
  BY CountCases, RingAssumption DEF TypeOK, RingHolds, Counters
<1>3. Accepted(<<>>) = 0
  BY <1>1, <1>2, RingIs DEF Accepted, Space
<1>4. /\ in_tail' = (in_tail + 0) % CounterModulus /\ in_head' = in_head
      /\ pending' = SubSeq(<<>>, 0 + 1, 0)
  BY <1>1, <1>3 DEF SendFlush, PushAll
<1>5. in_tail' = in_tail
  <2>1. in_tail \in Nat /\ in_tail + 0 = in_tail /\ in_tail < CounterModulus
          /\ CounterModulus \in Nat \ {0}
    BY RingAssumption DEF TypeOK, Counters
  <2> QED BY <1>4, <2>1, Wrapped
<1> QED BY <1>4, <1>5

-----------------------------------------------------------------------------
(* The invariant is inductive, and every step is one of the stream's. *)

StreamStep == [Stream!Next]_<<unread, InRing, pending, peek_pending, key>>

LEMMA RingStays ==
  ASSUME UNCHANGED ring
  PROVE  InRing' = InRing /\ (RingHolds => RingHolds') /\ (Empty => Empty')
BY DEF ring, InRing, Queued, RingHolds, Count, Empty

LEMMA StreamStays ==
  ASSUME UNCHANGED <<ring, pending, peek_pending, key, unread>>
  PROVE  StreamStep /\ (UnreadIsQueued => UnreadIsQueued')
BY RingStays DEF StreamStep, UnreadIsQueued

(* Whatever flush finds room for, a text sent is at the end of the stream. *)
LEMMA SendIsStreams ==
  ASSUME TypeOK, RingHolds, UnreadIsQueued, NEW text \in Seq(Nat), SendFlush(text),
         text \in Sendable \/ text = <<>>,
         unread' = unread \o text, UNCHANGED <<key, peek_pending>>
  PROVE  StreamStep /\ UnreadIsQueued'
<1>1. unread' = InRing' \o pending' /\ IsPrefix(InRing, InRing')
  BY SendAppends DEF UnreadIsQueued
<1>2. Stream!Moved
  BY <1>1 DEF Stream!Moved, Stream!IsPrefix, IsPrefix
<1>3. CASE text \in Sendable
  <2>1. Stream!Send(text)
    BY <1>2 DEF Stream!Send
  <2>2. Stream!Next
    BY <1>3, <2>1 DEF Stream!Next
  <2> QED BY <1>1, <2>2 DEF StreamStep, UnreadIsQueued
<1>4. CASE text = <<>>
  <2>1. InRing \in Seq(Nat) /\ pending \in Seq(Nat)
    BY RingIs, RingType DEF TypeOK
  <2>2. unread \in Seq(Nat)
    BY <2>1 DEF UnreadIsQueued
  <2>3. unread' = unread
    BY <1>4, <2>2
  <2>4. Stream!Refill
    BY <1>2, <2>3 DEF Stream!Refill
  <2> QED BY <1>1, <2>4 DEF StreamStep, UnreadIsQueued, Stream!Next
<1> QED BY <1>3, <1>4

LEMMA EmptyRing == ASSUME TypeOK, Empty PROVE InRing = <<>>
<1>1. Count(in_head, in_tail) = 0
  BY CountCases, RingAssumption DEF TypeOK, Empty, Counters
<1>2. InRing \in Seq(Nat) /\ Len(InRing) = 0
  BY <1>1, RingIs, RingType DEF TypeOK
<1> QED BY <1>2

LEMMA VmKeeps ==
  ASSUME Inv, VmTurn
  PROVE  Inv' /\ StreamStep
<1> USE DEF Inv
<1>1. /\ js = "turn" /\ js' = "turn" /\ UNCHANGED driverVars
      /\ \/ NoByte /\ UNCHANGED unread
         \/ GetByte /\ unread' = Tail(unread)
  BY DEF VmTurn, driverVars
<1>2. rc = "RUN"
  BY <1>1 DEF NoByte, Exhausted, Halted, Compute, PutPeek, Put, GetByte, PeekNothing, GetWaits,
              Running, AtBudgetTest
<1>3. BudgetModulus \in Nat \ {0} /\ OUT_HIGH_WATER \in Nat \ {0} /\ OUT_BYTES \in Nat
        /\ OUT_HIGH_WATER <= OUT_BYTES
  BY BudgetAssumption, OutAssumption
<1>4. budget # 0 => budget - 1 \in Nat /\ out_len < OUT_HIGH_WATER
  BY <1>2, <1>3 DEF TypeOK, RoomForOutput
<1>5. RestIsBetweenTurns' /\ RestIsReal'
  BY <1>1 DEF RestIsBetweenTurns, RestIsReal, driverVars
<1>6. CASE Exhausted /\ UNCHANGED unread
  BY <1>1, <1>2, <1>3, <1>5, <1>6, RingStays, StreamStays
     DEF Exhausted, TypeOK, RoomForOutput, ReturnsAreTrue, Status, driverVars, ring
<1>7. CASE Halted /\ UNCHANGED unread
  BY <1>1, <1>2, <1>4, <1>5, <1>7, RingStays, StreamStays
     DEF Halted, Running, Tick, TypeOK, RoomForOutput, ReturnsAreTrue, Status, driverVars, ring
<1>8. CASE Compute /\ UNCHANGED unread
  BY <1>1, <1>2, <1>4, <1>5, <1>8, RingStays, StreamStays
     DEF Compute, Running, Tick, TypeOK, RoomForOutput, ReturnsAreTrue, driverVars, ring
<1>13. CASE PutPeek /\ UNCHANGED unread
  <2>1. /\ budget # 0 /\ budget' = budget - 1 /\ peek_pending' = TRUE /\ insn' \in Insns
        /\ UNCHANGED <<ring, input_ended, out_len, key, rc, unread>>
    BY <1>13 DEF PutPeek, Running, Tick
  <2>2. InRing' = InRing /\ pending' = pending /\ (RingHolds => RingHolds')
    BY <1>1, <2>1, RingStays DEF driverVars
  <2>3. Stream!Ask
    BY <2>1, <2>2 DEF Stream!Ask
  <2>4. StreamStep /\ UnreadIsQueued'
    BY <2>1, <2>2, <2>3 DEF StreamStep, Stream!Next, UnreadIsQueued
  <2>5. TypeOK' /\ RoomForOutput' /\ ReturnsAreTrue'
    BY <1>1, <1>2, <1>4, <2>1 DEF TypeOK, RoomForOutput, ReturnsAreTrue, driverVars, ring
  <2> QED BY <1>5, <2>2, <2>4, <2>5
<1>9. CASE Put /\ UNCHANGED unread
  <2>1. ~OutFull /\ budget # 0
    BY <1>3, <1>4, <1>9 DEF Put, Running, OutFull, TypeOK
  <2>2. /\ out_len' = out_len + 1 /\ insn' \in Insns
        /\ budget' = IF EndsSlice(out_len + 1) THEN 0 ELSE budget - 1
        /\ UNCHANGED <<rc, ring, input_ended, peek_pending, key>>
    BY <1>9, <2>1 DEF Put
  <2>3. TypeOK'
    BY <1>1, <1>4, <2>1, <2>2 DEF TypeOK, ring, driverVars
  <2>4. RoomForOutput'
    BY <1>1, <1>3, <1>4, <2>1, <2>2 DEF RoomForOutput, EndsSlice, TypeOK, driverVars
  <2>5. ReturnsAreTrue'
    BY <1>1, <1>2, <2>2 DEF ReturnsAreTrue
  <2> QED BY <1>1, <1>5, <1>9, <2>2, <2>3, <2>4, <2>5, RingStays, StreamStays DEF driverVars
<1>10. CASE GetByte /\ unread' = Tail(unread)
  <2>1. /\ in_head # in_tail /\ budget # 0 /\ budget' = budget - 1
        /\ key' = in_queue[Slot(in_head)]
        /\ in_head' = (in_head + 1) % CounterModulus
        /\ peek_pending' = FALSE /\ insn' \in Insns
        /\ UNCHANGED <<in_queue, in_tail, input_ended, out_len, rc>>
    BY <1>10 DEF GetByte, Running, Empty, Tick
  <2>2. in_queue \in [Slots -> Nat] /\ in_head \in Counters /\ in_tail \in Counters
    BY DEF TypeOK
  <2>3. /\ InRing # <<>> /\ Head(InRing) = key' /\ InRing' = Tail(InRing)
    <3>1. InRing' = Ring(in_queue', in_head', in_tail')
      BY DEF InRing, Ring, Queued, Count
    <3> QED BY <2>1, <2>2, <3>1, RingGet, RingIs
  <2>4. InRing \in Seq(Nat) /\ pending \in Seq(Nat) /\ pending' = pending
    BY <1>1, <2>2, RingIs, RingType DEF TypeOK, driverVars
  <2>5. /\ InRing \o pending # <<>> /\ Head(InRing \o pending) = Head(InRing)
        /\ Tail(InRing \o pending) = Tail(InRing) \o pending
    BY <2>3, <2>4
  <2>6. Stream!Read /\ UnreadIsQueued'
    BY <1>10, <2>1, <2>3, <2>4, <2>5 DEF Stream!Read, UnreadIsQueued
  <2>7. in_head' \in Counters /\ Count(in_head', in_tail) = Count(in_head, in_tail) - 1
    BY <2>1, <2>2, CountShrinks
  <2>8. RingHolds'
    <3>1. Count(in_head, in_tail) \in Nat \ {0} /\ IN_QUEUE \in Nat
      BY <2>1, <2>2, CountShrinks, RingAssumption
    <3>2. Count(in_head', in_tail') = Count(in_head, in_tail) - 1
      BY <2>1, <2>7
    <3> QED BY <3>1, <3>2 DEF RingHolds
  <2>9. TypeOK'
    BY <1>1, <1>4, <2>1, <2>7 DEF TypeOK, driverVars
  <2>10. RoomForOutput' /\ ReturnsAreTrue'
    BY <1>1, <1>2, <1>4, <2>1 DEF RoomForOutput, ReturnsAreTrue, driverVars, TypeOK
  <2> QED BY <1>5, <2>6, <2>8, <2>9, <2>10 DEF StreamStep, Stream!Next
<1>11. CASE PeekNothing /\ UNCHANGED unread
  <2>1. /\ budget # 0 /\ budget' = budget - 1 /\ key' = PeekNone
        /\ peek_pending' = FALSE /\ insn' \in Insns
        /\ UNCHANGED <<ring, input_ended, out_len, rc, pending, unread>>
        /\ peek_pending /\ Empty
    BY <1>1, <1>11 DEF PeekNothing, Running, Tick, driverVars
  <2>4. InRing' = InRing /\ InRing = <<>>
    BY <2>1, RingStays, EmptyRing
  <2>5. Stream!PeekNothing
    BY <2>1, <2>4 DEF Stream!PeekNothing
  <2>2. StreamStep /\ UnreadIsQueued'
    BY <2>1, <2>4, <2>5 DEF StreamStep, Stream!Next, UnreadIsQueued
  <2>3. TypeOK' /\ RoomForOutput' /\ ReturnsAreTrue'
    BY <1>1, <1>2, <1>4, <2>1 DEF TypeOK, RoomForOutput, ReturnsAreTrue, driverVars, ring
  <2> QED BY <1>5, <2>1, <2>2, <2>3, RingStays
<1>12. CASE GetWaits /\ UNCHANGED unread
  BY <1>1, <1>2, <1>4, <1>5, <1>12, RingStays, StreamStays
     DEF GetWaits, EmptyRead, Running, Tick, TypeOK, RoomForOutput, ReturnsAreTrue, Status,
         driverVars, ring
<1> QED BY <1>1, <1>6, <1>7, <1>8, <1>9, <1>10, <1>11, <1>12, <1>13 DEF NoByte

(* pump() between turns: it starts one, or the page has been stopped.      *)
LEMMA PumpKeeps ==
  ASSUME TypeOK, js # "turn", Pump
  PROVE  \/ /\ ~dead /\ js' = "turn" /\ rested' = FALSE /\ rc' = "RUN" /\ budget' = slice
         \/ dead /\ UNCHANGED <<js, budget, rc, rested>>
BY DEF Pump, MuxRun

LEMMA SubmitKeeps ==
  ASSUME Inv, Construct \/ Submit
  PROVE  Inv' /\ StreamStep
<1> USE DEF Inv
<1>1. PICK text \in Seq(Nat) : /\ SendFlush(text) /\ unread' = unread \o text
                               /\ text \in Sendable
  BY TextsAreNumbers DEF Construct, Submit, Sendable
<1>2. /\ js # "turn" /\ (js = "new" => ~dead) /\ Pump
      /\ UNCHANGED <<input_ended, out_len, peek_pending, insn, key, pendingFrame, dead, slice>>
  BY DEF Construct, Submit, RestIsBetweenTurns
<1>3. /\ in_queue' \in [Slots -> Nat] /\ in_head' = in_head /\ in_tail' \in Counters
      /\ pending' \in Seq(Nat) /\ RingHolds'
  BY <1>1, SendAppends
<1>4. StreamStep /\ UnreadIsQueued'
  BY <1>1, <1>2, SendIsStreams
<1>5. OUT_HIGH_WATER \in Nat \ {0} /\ slice # 0 /\ slice \in Nat
  BY OutAssumption, BudgetAssumption DEF TypeOK
<1>6. CASE ~dead /\ js' = "turn" /\ rested' = FALSE /\ rc' = "RUN" /\ budget' = slice
  <2>1. TypeOK'
    BY <1>2, <1>3, <1>5, <1>6 DEF TypeOK, Status
  <2>2. RoomForOutput' /\ ReturnsAreTrue' /\ RestIsBetweenTurns' /\ RestIsReal'
    BY <1>2, <1>5, <1>6 DEF RoomForOutput, ReturnsAreTrue, RestIsBetweenTurns, RestIsReal
  <2> QED BY <1>3, <1>4, <2>1, <2>2
<1>7. CASE dead /\ UNCHANGED <<js, budget, rc, rested>>
  <2>1. TypeOK'
    BY <1>2, <1>3, <1>7 DEF TypeOK
  <2>2. RoomForOutput' /\ ReturnsAreTrue' /\ RestIsBetweenTurns' /\ RestIsReal'
    BY <1>2, <1>7 DEF RoomForOutput, ReturnsAreTrue, RestIsBetweenTurns, RestIsReal
  <2> QED BY <1>3, <1>4, <2>1, <2>2
<1> QED BY <1>2, <1>6, <1>7, PumpKeeps

LEMMA FrameAndStopKeep ==
  ASSUME Inv, Frame \/ Stop
  PROVE  Inv' /\ StreamStep
<1> USE DEF Inv
<1>1. CASE Frame
  <2>1. /\ js = "idle" /\ Pump /\ pendingFrame' = FALSE
        /\ UNCHANGED <<ring, input_ended, out_len, peek_pending, insn, key, pending, unread, dead, slice>>
    BY <1>1 DEF Frame
  <2>2. StreamStep /\ RingHolds' /\ UnreadIsQueued'
    BY <2>1, StreamStays, RingStays
  <2>3. OUT_HIGH_WATER \in Nat \ {0} /\ slice # 0 /\ slice \in Nat
    BY OutAssumption, BudgetAssumption DEF TypeOK
  <2>4. CASE ~dead /\ js' = "turn" /\ rested' = FALSE /\ rc' = "RUN" /\ budget' = slice
    BY <2>1, <2>2, <2>3, <2>4
       DEF TypeOK, Status, ring, RoomForOutput, ReturnsAreTrue, RestIsBetweenTurns, RestIsReal
  <2>5. CASE dead /\ UNCHANGED <<js, budget, rc, rested>>
    BY <2>1, <2>2, <2>5
       DEF TypeOK, ring, RoomForOutput, ReturnsAreTrue, RestIsBetweenTurns, RestIsReal
  <2> QED BY <2>1, <2>4, <2>5, PumpKeeps
<1>2. CASE Stop
  <2>1. /\ js = "idle" /\ dead' = TRUE /\ pendingFrame' = FALSE
        /\ UNCHANGED <<ring, in_queue, in_head, in_tail, input_ended, out_len, budget,
                       peek_pending, insn, key, rc, pending, unread, js, slice, rested>>
    BY <1>2 DEF Stop, hostVars, ring
  <2>2. StreamStep /\ RingHolds' /\ UnreadIsQueued'
    BY <2>1, StreamStays, RingStays
  <2> QED BY <2>1, <2>2
         DEF TypeOK, RoomForOutput, ReturnsAreTrue, RestIsBetweenTurns, RestIsReal
<1> QED BY <1>1, <1>2

(* retune() leaves a slice that is not zero and fits its 32 bits.          *)
LEMMA SliceStays ==
  ASSUME TypeOK, slice' \in NewSlices
  PROVE  slice' \in 1 .. BudgetModulus - 1
<1>1. /\ slice \in Nat /\ slice >= 1 /\ slice <= BudgetModulus - 1 /\ BudgetModulus \in Nat \ {0}
      /\ SliceMin \in Nat \ {0} /\ SliceMax \in Nat /\ 2 * SliceMax <= BudgetModulus
  BY SliceAssumption, BudgetAssumption DEF TypeOK
<1>2. \/ slice' = slice
      \/ slice < SliceMax /\ slice' = 2 * slice
      \/ slice > SliceMin /\ slice' = slice \div 2
  BY DEF NewSlices, Retuned
<1>3. slice >= 2 => slice \div 2 \in 1 .. slice
  BY <1>1, Z3
<1> QED BY <1>1, <1>2, <1>3

LEMMA TurnKeeps ==
  ASSUME Inv, TurnEnds
  PROVE  Inv' /\ StreamStep
<1> USE DEF Inv
<1>1. /\ js = "turn" /\ rc # "RUN" /\ slice' \in NewSlices /\ out_len' = 0
      /\ UNCHANGED <<input_ended, peek_pending, insn, key, dead>>
  BY DEF TurnEnds, TurnRepairs, TurnRests, TurnContinues, TurnDeferred, TurnStart, Drained
<1>11. unread \in Seq(Nat)
  <2>1. InRing \in Seq(Nat) /\ pending \in Seq(Nat)
    BY RingIs, RingType DEF TypeOK
  <2> QED BY <2>1 DEF UnreadIsQueued
<1>12. TurnRepairs \/ TurnRests \/ TurnContinues \/ TurnDeferred
  BY DEF TurnEnds
<1>2. PICK text \in Seq(Nat) : /\ SendFlush(text) /\ unread' = unread \o text
                               /\ text \in Sendable \/ text = <<>>
  <2>1. CASE TurnRepairs
    BY <2>1, TextsAreNumbers DEF TurnRepairs, Sendable
  <2>2. CASE TurnRests \/ TurnContinues \/ TurnDeferred
    <3>1. SendFlush(<<>>) /\ unread' = unread /\ <<>> \in Seq(Nat)
      BY <2>2, TextsAreNumbers DEF TurnRests, TurnContinues, TurnDeferred
    <3>2. unread' = unread \o <<>>
      BY <1>11, <3>1
    <3> QED BY <3>1, <3>2
  <2> QED BY <1>12, <2>1, <2>2
<1>3. /\ in_queue' \in [Slots -> Nat] /\ in_head' = in_head /\ in_tail' \in Counters
      /\ pending' \in Seq(Nat) /\ RingHolds'
  BY <1>2, SendAppends
<1>4. StreamStep /\ UnreadIsQueued'
  BY <1>1, <1>2, SendIsStreams
<1>5. slice' \in 1 .. BudgetModulus - 1 /\ slice' \in Nat
  BY <1>1, SliceStays, BudgetAssumption
<1>6. ~dead /\ ~dead' /\ ~rested
  BY <1>1 DEF RestIsBetweenTurns
<1>7. OUT_HIGH_WATER \in Nat \ {0}
  BY OutAssumption
<1>8. CASE NextTurn
  <2>1. /\ rc' = "RUN" /\ budget' = slice' /\ UNCHANGED <<js, pendingFrame, rested>>
    BY <1>8 DEF NextTurn, MuxRun
  <2>2. TypeOK'
    BY <1>1, <1>3, <1>5, <2>1 DEF TypeOK, Status
  <2>3. RoomForOutput' /\ ReturnsAreTrue' /\ RestIsBetweenTurns' /\ RestIsReal'
    BY <1>1, <1>6, <1>7, <2>1
       DEF RoomForOutput, ReturnsAreTrue, RestIsBetweenTurns, RestIsReal
  <2> QED BY <1>3, <1>4, <2>2, <2>3
<1>9. CASE TurnRests
  <2>1. /\ js' = "idle" /\ rested' = TRUE /\ UNCHANGED <<budget, rc, pendingFrame>>
        /\ SendFlush(<<>>) /\ (CameToRest \/ rc = "MUX_OK")
    BY <1>9 DEF TurnRests, ReturnAtRest
  <2>2. AtRest'
    <3>1. CASE CameToRest
      <4>1. /\ insn = "get" /\ in_head = in_tail /\ ~peek_pending /\ pending = <<>>
        BY <1>1, <3>1 DEF CameToRest, ReturnsAreTrue, Empty
      <4>2. in_head' = in_head /\ in_tail' = in_tail /\ pending' = <<>>
        BY <2>1, <4>1, FlushOfNothing
      <4> QED BY <1>1, <4>1, <4>2 DEF AtRest, Empty
    <3>2. CASE rc = "MUX_OK"
      BY <1>1, <3>2 DEF AtRest, ReturnsAreTrue
    <3> QED BY <2>1, <3>1, <3>2
  <2>3. TypeOK'
    BY <1>1, <1>3, <1>5, <2>1 DEF TypeOK
  <2>4. RoomForOutput' /\ ReturnsAreTrue' /\ RestIsBetweenTurns' /\ RestIsReal'
    BY <1>1, <1>6, <1>7, <2>1, <2>2
       DEF RoomForOutput, ReturnsAreTrue, RestIsBetweenTurns, RestIsReal
  <2> QED BY <1>3, <1>4, <2>3, <2>4
<1>10. CASE TurnDeferred
  <2>1. /\ js' = "idle" /\ pendingFrame' = (pendingFrame \/ ~dead)
        /\ UNCHANGED <<budget, rc, rested>>
    BY <1>10 DEF TurnDeferred, Resume
  <2>2. pendingFrame' = TRUE
    BY <1>6, <2>1
  <2>3. TypeOK'
    BY <1>1, <1>3, <1>5, <2>1, <2>2 DEF TypeOK
  <2>4. RoomForOutput' /\ ReturnsAreTrue' /\ RestIsBetweenTurns' /\ RestIsReal'
    BY <1>1, <1>6, <1>7, <2>1, <2>2
       DEF RoomForOutput, ReturnsAreTrue, RestIsBetweenTurns, RestIsReal
  <2> QED BY <1>3, <1>4, <2>3, <2>4
<1> QED BY <1>8, <1>9, <1>10 DEF TurnEnds, TurnRepairs, TurnContinues

LEMMA InvStep == Inv /\ [Next]_vars => Inv' /\ StreamStep
<1> SUFFICES ASSUME Inv, [Next]_vars PROVE Inv' /\ StreamStep
  OBVIOUS
<1>1. CASE UNCHANGED vars
  <2>1. UNCHANGED <<ring, pending, peek_pending, key, unread>>
    BY <1>1 DEF vars, hostVars, driverVars, ring
  <2>2. StreamStep /\ (UnreadIsQueued => UnreadIsQueued') /\ (RingHolds => RingHolds') /\ (Empty => Empty')
    BY <2>1, StreamStays, RingStays
  <2> QED BY <1>1, <2>2
         DEF vars, hostVars, driverVars, Inv, TypeOK, RoomForOutput, ReturnsAreTrue,
             RestIsBetweenTurns, RestIsReal, AtRest, Empty
<1>2. CASE Next
  BY <1>2, VmKeeps, SubmitKeeps, FrameAndStopKeep, TurnKeeps DEF Next, TurnEnds
<1> QED BY <1>1, <1>2

LEMMA InitInv == Init => Inv /\ Stream!Init
<1> SUFFICES ASSUME Init PROVE Inv /\ Stream!Init
  OBVIOUS
<1>1. CounterModulus \in Nat \ {0} /\ IN_QUEUE \in Nat \ {0} /\ 0 \in Counters
  BY RingAssumption DEF Counters
<1>2. Count(0, 0) = 0
  BY <1>1, CountCases
<1>3. TypeOK
  <2>1. in_queue \in [Slots -> Nat]
    BY DEF Init, HostReset, Slots
  <2>2. slice \in 1 .. BudgetModulus - 1
    BY SliceAssumption, BudgetAssumption DEF Init
  <2>3. insn \in Insns /\ rc \in Status /\ pending \in Seq(Nat)
    BY TextsAreNumbers DEF Init, HostReset, Insns, Status
  <2> QED BY <1>1, <2>1, <2>2, <2>3 DEF Init, HostReset, TypeOK
<1>4. RingHolds
  BY <1>1, <1>2 DEF RingHolds, Init, HostReset
<1>5. RoomForOutput /\ ReturnsAreTrue /\ RestIsBetweenTurns /\ RestIsReal
  BY OutAssumption
     DEF Init, HostReset, RoomForOutput, ReturnsAreTrue, RestIsBetweenTurns, RestIsReal
<1>6. Stream!Init
  <2>1. InRing = <<>>
    BY <1>3, EmptyRing DEF Init, HostReset, Empty
  <2> QED BY <2>1 DEF Stream!Init, Init, HostReset
<1>7. UnreadIsQueued
  BY <1>6 DEF Stream!Init, UnreadIsQueued
<1> QED BY <1>3, <1>4, <1>5, <1>6, <1>7 DEF Inv

-----------------------------------------------------------------------------
(* Inv is an invariant: the ring's counters, the budget and what mux_run   *)
(* answered agree with each other whenever a turn starts or ends.          *)
THEOREM Invariance == Spec => []Inv
<1> QED BY InitInv, InvStep, PTL DEF Spec

(* wasm_putc never fails, and its buffer never fills past the mark: a turn *)
(* that reaches the mark ends, and the page empties the buffer in between. *)
THEOREM OutputAlwaysFits == Spec => []OutputFits
<1>1. Inv => OutputFits
  BY DEF Inv, RoomForOutput, OutputFits
<1> QED BY <1>1, Invariance, PTL

(* When pump returns true, or leaves no frame to come, the image really is *)
(* halted or at a read with nothing left to give it.                       *)
THEOREM RestIsNeverFalse == Spec => []RestIsReal
<1>1. Inv => RestIsReal
  BY DEF Inv
<1> QED BY <1>1, Invariance, PTL

(* pending and the ring are one queue: of every text given to send() the   *)
(* image reads each byte once and in order, however the counters wrap and  *)
(* turns end, and only a peek of an empty ring is answered "none waiting". *)
THEOREM DriverImplementsStream == Spec => InputIsAStream
<1>1. Inv /\ [Next]_vars => [Stream!Next]_<<unread, InRing, pending, peek_pending, key>>
  BY InvStep DEF StreamStep
<1>2. Init => Stream!Init
  BY InitInv
<1> QED BY <1>1, <1>2, Invariance, PTL DEF Spec, InputIsAStream, Stream!Spec

-----------------------------------------------------------------------------
(* The native host.  Index is of the stack of routines and handlers.       *)
Index == DOMAIN frames
Catching == {"TSTP", "CONT"}

Calls(f, fn) ==
  \/ fn = "leave" /\ f.at = "raise" /\ f.fn # "CONT"
  \/ fn = "enter" /\ f = [fn |-> "CONT", at |-> "return"]

(* Above a frame is what it has called, or a handler; and a handler is     *)
(* entered once.                                                           *)
Stacked ==
  /\ \A i \in Index : i + 1 \in Index =>
       frames[i + 1].fn \in Signals \/ Calls(frames[i], frames[i + 1].fn)
  /\ \A i, j \in Index : frames[i].fn = frames[j].fn /\ frames[i].fn \in Signals => i = j

(* A signal that has lost its handler and is not being handled kills the   *)
(* process before anything else happens.                                   *)
Dying == \E k \in default : ~Blocked(k)

KillsPending ==
  /\ \A i \in Index : frames[i].fn \in Kills => frames[i].fn \in default
  /\ proc # "dead" =>
       /\ \A k \in default : ~Blocked(k) => k \in raised
       /\ \A i \in Index : frames[i].fn \in Kills /\ frames[i].at = "return" => frames[i].fn \in raised

(* Raw mode is entered on a terminal only, and only when it is wanted.     *)
Wanting ==
  /\ stage \in {"args", "load", "setup"} => ~tty_interactive
  /\ stage \notin {"run", "exit"} => ~raw_wanted /\ ~raw_mode_active
  /\ ~tty_interactive => tty = "cooked" /\ ~raw_mode_active
  /\ \A i \in Index : frames[i].fn = "enter" =>
       raw_wanted /\ (frames[i].at # "test" => tty_interactive)
  /\ 1 \in Index /\ frames[1].fn = "enter" => stage = "run"
  /\ 1 \in Index /\ frames[1].fn = "leave" /\ stage = "run" => ~raw_wanted

(* The flag is down and the terminal raw only between two statements.      *)
FlagLags == tty = "raw" /\ ~raw_mode_active => InBetween

(* Frame i will not look at the flag again before the process stops or     *)
(* dies.                                                                   *)
PastLeaving(i) ==
  \/ frames[i].fn \in Kills /\ frames[i].at = "return"
  \/ /\ frames[i].fn \in Kills \cup {"TSTP"} /\ frames[i].at = "raise"
     /\ i + 1 \in Index => frames[i + 1].fn # "leave"

(* Raw mode is entered above a frame that leaves it only by overtaking.    *)
EntersOver ==
  \A i \in Index : frames[i].fn = "enter" =>
    /\ Exited => overtaken
    /\ \A j \in Index :
         j < i /\ (PastLeaving(j) \/ (frames[j].fn = "leave" /\ frames[j].at # "test")) => overtaken

(* What has left raw mode for good has left the terminal cooked.           *)
Left == Exited \/ Dying \/ proc # "running" \/ \E i \in Index : PastLeaving(i)
LeftCooked == Left /\ tty = "raw" => InBetween \/ overtaken
------------------------------------------------------------------------------
Undisturbed == ~overtaken /\ ~refused

(* Something above frame i, pending or past will put raw mode right before  *)
(* frame i goes on.                                                        *)
Mends(f) == f.fn \in Kills \cup {"enter"} \/ f = [fn |-> "CONT", at |-> "start"]
              \/ (f.fn = "TSTP" /\ f.at # "return")
Mended(i) ==
  \/ raised \cap Catching # {} \/ proc # "running" \/ Dying
  \/ \E j \in Index : j > i /\ Mends(frames[j])

(* A resume handler enters raw mode with the flag down until it is raised; *)
(* nothing that leaves is above it past its own test.                      *)
ResumeEnters ==
  Undisturbed => \A i \in Index : i > 1 /\ frames[i].fn = "enter" /\ frames[i].at # "test" =>
    /\ ~raw_mode_active
    /\ frames[i].at = "mark" => tty = "raw"
    /\ \A j \in Index : j > i /\ frames[j].fn = "leave" => frames[j].at = "test"

(* The program's own enter_raw_mode finds the terminal as it set it.       *)
ProgramEnters ==
  Undisturbed /\ 1 \in Index /\ frames[1] = [fn |-> "enter", at |-> "mark"] =>
    tty = "raw" \/ Mended(1)

RestoresDown ==
  Undisturbed => /\ raw_mode_active => tty = "raw"
                 /\ \A i \in Index : frames[i] = [fn |-> "leave", at |-> "restore"] => ~raw_mode_active

WantedIsRaw ==
  Undisturbed /\ stage = "run" /\ raw_wanted /\ tty_interactive =>
    (tty = "raw" /\ raw_mode_active) \/ Mended(0)

UnwantedIsDown ==
  stage = "run" /\ ~raw_wanted /\ raw_mode_active =>
    1 \in Index /\ frames[1].fn = "leave" /\ frames[1].at # "restore"
------------------------------------------------------------------------------
(* stdio reads ahead only from what is not a terminal, and the end of      *)
(* input that a handler's return makes of an interrupted read is only seen *)
(* by a process that dies before it looks.                                 *)
InputHeld ==
  /\ tty_interactive \/ stage \notin {"run", "exit"} => stdio = 0
  /\ reading # "no" => stage \in {"run", "exit"}
  /\ reading = "poll" => tty_interactive
  /\ reading = "eof" => closed \/ (Dying /\ stage = "run")
------------------------------------------------------------------------------
TermInv ==
  /\ TermTypeOK
  /\ Stacked /\ KillsPending /\ Wanting
  /\ FlagLags /\ EntersOver /\ LeftCooked
  /\ ResumeEnters /\ ProgramEnters /\ RestoresDown /\ WantedIsRaw /\ UnwantedIsDown

------------------------------------------------------------------------------
(* What the steps do to the stack, index by index.                         *)
top == Len(frames)

MovedTo(at) ==
  /\ top \in Index /\ Index = 1 .. top /\ DOMAIN frames' = 1 .. top
  /\ frames'[top] = [fn |-> frames[top].fn, at |-> at]
  /\ \A i \in Index : i # top => frames'[i] = frames[i]
  /\ \A i \in Index : frames'[i].fn = frames[i].fn

Popped ==
  /\ top \in Index /\ Index = 1 .. top /\ DOMAIN frames' = 1 .. top - 1
  /\ \A i \in 1 .. top - 1 : frames'[i] = frames[i]

Pushed(f) ==
  /\ top \in Nat /\ Index = 1 .. top /\ DOMAIN frames' = 1 .. top + 1
  /\ frames'[top + 1] = f
  /\ \A i \in Index : frames'[i] = frames[i]

CalledFrom(at, fn) ==
  /\ top \in Index /\ Index = 1 .. top /\ DOMAIN frames' = 1 .. top + 1
  /\ frames'[top + 1] = [fn |-> fn, at |-> "test"]
  /\ frames'[top] = [fn |-> frames[top].fn, at |-> at]
  /\ \A i \in Index : i # top => frames'[i] = frames[i]
  /\ \A i \in Index : frames'[i].fn = frames[i].fn

(* The names of signals and routines are apart. *)
LEMMA Names == "enter" \notin Signals /\ "leave" \notin Signals /\ "CONT" \in Signals /\ "TSTP" \in Signals
               /\ "CONT" \notin Kills /\ "TSTP" \notin Kills /\ Kills \subseteq Signals
BY KillsAssumption DEF Signals

(* The stack is indexed from 1 to its top. *)
LEMMA StackIndex ==
  ASSUME TermTypeOK
  PROVE  top \in Nat /\ Index = 1 .. top /\ (\A i \in Index : frames[i] \in Places)
         /\ (frames # <<>> <=> top \in Index)
BY DEF TermTypeOK, top, Index

(* goto moves the top frame only. *)
LEMMA GotoMoves ==
  ASSUME TermTypeOK, frames # <<>>, NEW at, Goto(at), [fn |-> frames[top].fn, at |-> at] \in Places
  PROVE  MovedTo(at) /\ frames' \in Seq(Places) /\ frames' # <<>>
<1>1. top \in Nat \ {0} /\ Index = 1 .. top /\ frames[top] \in Places
  BY DEF TermTypeOK, top, Index
<1>2. [frames[top] EXCEPT !.at = at] = [fn |-> frames[top].fn, at |-> at]
  BY <1>1 DEF Places
<1>3. MovedTo(at)
  BY <1>1, <1>2 DEF MovedTo, Goto, top, Index
<1>4. frames' \in Seq(Places) /\ frames' # <<>>
  BY <1>1, <1>2 DEF Goto, top, TermTypeOK, Index
<1> QED BY <1>3, <1>4

(* A return pops it. *)
LEMMA ReturnPops ==
  ASSUME TermTypeOK, frames # <<>>, Return
  PROVE  Popped /\ frames' \in Seq(Places) /\ (frames' = <<>> <=> top = 1)
<1>1. top \in Nat \ {0} /\ Index = 1 .. top /\ frames' = SubSeq(frames, 1, top - 1)
  BY DEF TermTypeOK, top, Index, Return, Front
<1>2. Popped /\ frames' \in Seq(Places) /\ Len(frames') = top - 1
  BY <1>1 DEF TermTypeOK, Popped, top, Index
<1> QED BY <1>1, <1>2

(* A call or a handler pushes one. *)
LEMMA CallPushes ==
  ASSUME TermTypeOK, NEW f \in Places, frames' = Append(frames, f)
  PROVE  Pushed(f) /\ frames' \in Seq(Places) /\ frames' # <<>>
BY DEF TermTypeOK, Pushed, top, Index

(* A call from inside a routine moves the caller to where it goes on, and pushes. *)
LEMMA CallFromPushes ==
  ASSUME TermTypeOK, frames # <<>>, NEW at, NEW fn, CallFrom(at, fn),
         [fn |-> frames[top].fn, at |-> at] \in Places, [fn |-> fn, at |-> "test"] \in Places
  PROVE  CalledFrom(at, fn) /\ frames' \in Seq(Places) /\ frames' # <<>>
<1>1. top \in Nat \ {0} /\ Index = 1 .. top /\ frames[top] \in Places
  BY DEF TermTypeOK, top, Index
<1>2. [frames[top] EXCEPT !.at = at] = [fn |-> frames[top].fn, at |-> at]
  BY <1>1 DEF Places
<1>3. top = Len([frames EXCEPT ![top].at = at]) /\ DOMAIN [frames EXCEPT ![top].at = at] = 1 .. top
  BY <1>1 DEF top, Index
<1> DEFINE g == [frames EXCEPT ![top].at = at]
<1>4. g \in Seq(Places)
  BY <1>1, <1>2, <1>3 DEF TermTypeOK, top, Index
<1>5. frames' = Append(g, [fn |-> fn, at |-> "test"])
  BY DEF CallFrom, top
<1>6. /\ DOMAIN frames' = 1 .. top + 1 /\ frames'[top + 1] = [fn |-> fn, at |-> "test"]
      /\ \A i \in 1 .. top : frames'[i] = g[i]
      /\ frames' \in Seq(Places) /\ frames' # <<>>
  BY <1>1, <1>3, <1>4, <1>5
<1> QED BY <1>1, <1>2, <1>6 DEF CalledFrom, Index

------------------------------------------------------------------------------
(* What follows for the parts of the invariant that look at the stack.     *)
LEMMA MovedFacts ==
  ASSUME Stacked, NEW at, MovedTo(at)
  PROVE  /\ Stacked'
         /\ \A s : Blocked(s)' <=> Blocked(s)
         /\ \A i \in 1 .. top - 1 : PastLeaving(i)' <=> PastLeaving(i)
         /\ \A i \in Index : frames[top].fn \notin Signals => ~(i = top /\ PastLeaving(i)')
<1> USE DEF MovedTo, Index
<1>1. Stacked'
  BY DEF Stacked, Calls
<1>2. \A s : Blocked(s)' <=> Blocked(s)
  BY DEF Blocked
<1>3. \A i \in 1 .. top - 1 : PastLeaving(i)' <=> PastLeaving(i)
  BY DEF PastLeaving
<1>4. \A i \in Index : frames[top].fn \notin Signals => ~(i = top /\ PastLeaving(i)')
  BY Names DEF PastLeaving
<1> QED BY <1>1, <1>2, <1>3, <1>4

(* After a return the signal of a handler is not blocked any more; who calls a routine
   that leaves raw mode is past leaving when it returns. *)
LEMMA PoppedFacts ==
  ASSUME Stacked, Popped
  PROVE  /\ Stacked'
         /\ \A s : s # frames[top].fn => (Blocked(s)' <=> Blocked(s))
         /\ \A s \in Signals : s = frames[top].fn => ~Blocked(s)'
         /\ \A i \in 1 .. top - 1 : PastLeaving(i)' =>
              PastLeaving(i) \/ (i = top - 1 /\ frames[top].fn = "leave")
<1> USE DEF Popped, Index
<1>1. Stacked'
  BY DEF Stacked
<1>2. \A s : s # frames[top].fn => (Blocked(s)' <=> Blocked(s))
  BY DEF Blocked
<1>3. \A s \in Signals : s = frames[top].fn => ~Blocked(s)'
  BY DEF Stacked, Blocked
<1>4. \A i \in 1 .. top - 1 : PastLeaving(i)' =>
        PastLeaving(i) \/ (i = top - 1 /\ frames[top].fn = "leave")
  BY DEF PastLeaving
<1> QED BY <1>1, <1>2, <1>3, <1>4

(* A handler blocks its own signal. *)
LEMMA PushedFacts ==
  ASSUME Stacked, NEW f \in Places, Pushed(f),
         \/ f.fn \in Signals /\ ~Blocked(f.fn)
         \/ f.fn \notin Signals /\ top = 0
  PROVE  /\ Stacked'
         /\ \A s : Blocked(s)' <=> Blocked(s) \/ s = f.fn
         /\ \A i \in 1 .. top : PastLeaving(i)' => PastLeaving(i)
<1> USE DEF Pushed, Index
<1>1. Stacked'
  BY DEF Stacked, Blocked
<1>2. \A s : Blocked(s)' <=> Blocked(s) \/ s = f.fn
  BY DEF Blocked
<1>3. \A i \in 1 .. top : PastLeaving(i)' => PastLeaving(i)
  BY DEF PastLeaving
<1> QED BY <1>1, <1>2, <1>3

(* A call blocks and unblocks nothing. *)
LEMMA CalledFacts ==
  ASSUME Stacked, NEW at, NEW fn, CalledFrom(at, fn), fn \notin Signals,
         Calls([fn |-> frames[top].fn, at |-> at], fn)
  PROVE  /\ Stacked'
         /\ \A s \in Signals : Blocked(s)' <=> Blocked(s)
         /\ \A i \in 1 .. top - 1 : PastLeaving(i)' <=> PastLeaving(i)
<1> USE DEF CalledFrom, Index
<1>1. Stacked'
  BY DEF Stacked, Calls
<1>2. \A s \in Signals : Blocked(s)' <=> Blocked(s)
  BY DEF Blocked
<1>3. \A i \in 1 .. top - 1 : PastLeaving(i)' <=> PastLeaving(i)
  BY DEF PastLeaving
<1> QED BY <1>1, <1>2, <1>3

(* Raw mode is entered again by one handler at a time; a handler that leaves it stands
   under its leave_raw_mode. *)
LEMMA OneResume ==
  ASSUME TermTypeOK, Stacked
  PROVE  /\ \A i, j \in Index : i > 1 /\ j > 1 /\ frames[i].fn = "enter" /\ frames[j].fn = "enter" => i = j
         /\ \A i \in Index : i > 1 /\ frames[i].fn = "leave" =>
              i - 1 \in Index /\ frames[i - 1].fn \in Signals /\ Mends(frames[i - 1])
<1> USE StackIndex, Names
<1>1. \A i \in Index : i > 1 /\ frames[i].fn = "enter" => i - 1 \in Index /\ frames[i - 1].fn = "CONT"
  BY DEF Stacked, Calls
<1>2. \A i \in Index : i > 1 /\ frames[i].fn = "leave" =>
        i - 1 \in Index /\ frames[i - 1].at = "raise" /\ frames[i - 1].fn # "CONT"
  BY DEF Stacked, Calls
<1>3. \A f \in Places : f.at = "raise" => f.fn \in Kills \cup {"TSTP", "CONT"}
  BY DEF Places, Signals
<1>4. \A i, j \in Index : i > 1 /\ j > 1 /\ frames[i].fn = "enter" /\ frames[j].fn = "enter" => i = j
  <2> SUFFICES ASSUME NEW i \in Index, NEW j \in Index, i > 1, j > 1,
                      frames[i].fn = "enter", frames[j].fn = "enter"
               PROVE  i - 1 = j - 1
    OBVIOUS
  <2>1. i - 1 \in Index /\ j - 1 \in Index /\ frames[i - 1].fn = "CONT" /\ frames[j - 1].fn = "CONT"
    BY <1>1
  <2> QED BY <2>1 DEF Stacked
<1>5. \A i \in Index : i > 1 /\ frames[i].fn = "leave" =>
              i - 1 \in Index /\ frames[i - 1].fn \in Signals /\ Mends(frames[i - 1])
  BY <1>2, <1>3 DEF Mends, Signals
<1> QED BY <1>4, <1>5

(* The program and its handlers go on only when nothing is due. *)
LEMMA RunsNow ==
  ASSUME TermInv, Runs
  PROVE  ~Dying /\ proc = "running" /\ \A s \in raised : Blocked(s)
<1>1. proc = "running" /\ \A s \in raised : Blocked(s)
  BY DEF Runs, Due
<1>2. ~Dying
  BY <1>1 DEF Dying, TermInv, KillsPending
<1> QED BY <1>1, <1>2

-------------------------------------------------------------------------------
(* The terminal's invariant survives every way through every action: one  *)
(* step per conjunct.                                                      *)

(* enter_raw_mode returns at its test. *)
LEMMA EnterTestReturnsKeeps ==
  ASSUME TermInv, EnterTest, stage' = stage, (~tty_interactive \/ raw_mode_active)
  PROVE  TermInv'
<1> USE DEF TermInv
<1>1. Runs /\ frames # <<>> /\ frames[top] = [fn |-> "enter", at |-> "test"]
  BY DEF EnterTest, At, Last, top
<1>2. /\ tty' = tty /\ raw_mode_active' = raw_mode_active /\ refused' = refused
      /\ tty_interactive' = tty_interactive /\ raw_wanted' = raw_wanted /\ raised' = raised
      /\ default' = default /\ proc' = proc /\ signals' = signals /\ overtaken' = overtaken /\ stage' = stage
  BY DEF EnterTest, ttyVars, Elsewhere, signalVars
<1>3. Popped /\ frames' \in Seq(Places) /\ (frames' = <<>> <=> top = 1)
  BY <1>1, ReturnPops DEF EnterTest
<1>4. /\ ~Dying /\ proc = "running" /\ (\A s \in raised : Blocked(s))
      /\ top \in Nat /\ Index = 1 .. top /\ top \in Index
      /\ default \subseteq Kills /\ (top = 1 => 1 \in Index)
  BY <1>1, RunsNow, StackIndex DEF TermTypeOK
<1>5. /\ Stacked'
      /\ \A s \in Signals : Blocked(s)' <=> Blocked(s)
      /\ \A i \in 1 .. top - 1 : PastLeaving(i)' => PastLeaving(i)
  BY <1>1, <1>3, PoppedFacts, Names
<1>6. TermTypeOK'
  BY <1>2, <1>3 DEF TermTypeOK
<1>7. KillsPending' /\ ~Dying'
  BY <1>2, <1>3, <1>4, <1>5, Names DEF KillsPending, Dying, Popped, Index
<1>8. Wanting'
  BY <1>2, <1>3 DEF Wanting, Index, Popped
<1>9. FlagLags'
  BY <1>1, <1>2, <1>3 DEF FlagLags, InBetween, Index, Popped
<1>10. EntersOver'
  BY <1>2, <1>3, <1>5 DEF EntersOver, Exited, Index, Popped
<1>11. LeftCooked'
  BY <1>1, <1>2, <1>3, <1>5, <1>7 DEF LeftCooked, Left, Exited, InBetween, Index, Popped
<1>12. ResumeEnters'
  BY <1>2, <1>3 DEF Undisturbed, ResumeEnters, Index, Popped
<1>13. ProgramEnters'
  BY <1>2, <1>3 DEF Undisturbed, ProgramEnters, RestoresDown, Wanting, Index, Popped
<1>14. RestoresDown'
  BY <1>2, <1>3 DEF Undisturbed, RestoresDown, Index, Popped
<1>15. WantedIsRaw'
  BY <1>2 DEF Undisturbed, WantedIsRaw, RestoresDown
<1>16. UnwantedIsDown'
  BY <1>1, <1>2, <1>4 DEF UnwantedIsDown, Wanting
<1> QED BY <1>5, <1>6, <1>7, <1>8, <1>9, <1>10, <1>11, <1>12, <1>13, <1>14, <1>15, <1>16

(* enter_raw_mode passes its test: off a terminal, or twice, it does not. *)
LEMMA EnterTestGoesKeeps ==
  ASSUME TermInv, EnterTest, stage' = stage, tty_interactive, ~raw_mode_active
  PROVE  TermInv'
<1> USE DEF TermInv
<1>1. Runs /\ frames # <<>> /\ frames[top] = [fn |-> "enter", at |-> "test"]
  BY DEF EnterTest, At, Last, top
<1>2. /\ tty' = tty /\ raw_mode_active' = raw_mode_active /\ refused' = refused
      /\ tty_interactive' = tty_interactive /\ raw_wanted' = raw_wanted /\ raised' = raised
      /\ default' = default /\ proc' = proc /\ signals' = signals /\ overtaken' = overtaken /\ stage' = stage
  BY DEF EnterTest, ttyVars, Elsewhere, signalVars
<1>3. [fn |-> frames[top].fn, at |-> "set"] \in Places
  BY <1>1 DEF Places
<1>4. MovedTo("set") /\ frames' \in Seq(Places) /\ frames' # <<>>
  BY <1>1, <1>3, GotoMoves DEF EnterTest
<1>5. /\ ~Dying /\ proc = "running" /\ (\A s \in raised : Blocked(s))
      /\ top \in Nat /\ Index = 1 .. top /\ top \in Index
      /\ default \subseteq Kills /\ (top = 1 => 1 \in Index)
  BY <1>1, RunsNow, StackIndex DEF TermTypeOK
<1>6. /\ Stacked'
      /\ \A s \in Signals : Blocked(s)' <=> Blocked(s)
      /\ \A i \in 1 .. top - 1 : PastLeaving(i)' => PastLeaving(i)
      /\ \A i \in Index : ~(i = top /\ PastLeaving(i)')
  BY <1>1, <1>4, MovedFacts, Names
<1>7. TermTypeOK'
  BY <1>2, <1>4 DEF TermTypeOK
<1>8. KillsPending' /\ ~Dying'
  BY <1>2, <1>4, <1>5, <1>6, Names DEF KillsPending, Dying, MovedTo, Index
<1>9. Wanting'
  BY <1>2, <1>4 DEF Wanting, Index, MovedTo
<1>10. FlagLags'
  BY <1>1, <1>2, <1>4 DEF FlagLags, InBetween, Index, MovedTo
<1>11. EntersOver'
  BY <1>2, <1>4, <1>6 DEF EntersOver, Exited, Index, MovedTo
<1>12. LeftCooked'
  BY <1>1, <1>2, <1>4 DEF LeftCooked, FlagLags, InBetween, Index, MovedTo
<1>13. ResumeEnters'
  BY <1>1, <1>2, <1>3, <1>4 DEF Undisturbed, ResumeEnters, Index, MovedTo
<1>14. ProgramEnters'
  BY <1>1, <1>4 DEF ProgramEnters, Mended, Mends, Index, MovedTo
<1>15. RestoresDown'
  BY <1>2 DEF RestoresDown
<1>16. WantedIsRaw'
  BY <1>1, <1>4 DEF WantedIsRaw, Mended, Mends, Index, MovedTo
<1>17. UnwantedIsDown'
  BY <1>2 DEF UnwantedIsDown
<1> QED BY <1>6, <1>7, <1>8, <1>9, <1>10, <1>11, <1>12, <1>13, <1>14, <1>15, <1>16, <1>17

(* tcsetattr fails: from then on nothing is claimed but the way out. *)
LEMMA EnterSetRefusedKeeps ==
  ASSUME TermInv, EnterSet, stage' = stage, refused' = TRUE, Return, tty' = tty
  PROVE  TermInv'
<1> USE DEF TermInv
<1>1. Runs /\ frames # <<>> /\ frames[top] = [fn |-> "enter", at |-> "set"]
  BY DEF EnterSet, At, Last, top
<1>2. /\ tty' = tty /\ raw_mode_active' = raw_mode_active /\ refused' = TRUE
      /\ tty_interactive' = tty_interactive /\ raw_wanted' = raw_wanted /\ raised' = raised
      /\ default' = default /\ proc' = proc /\ signals' = signals /\ overtaken' = overtaken /\ stage' = stage
  BY DEF EnterSet, Elsewhere, signalVars
<1>3. Popped /\ frames' \in Seq(Places) /\ (frames' = <<>> <=> top = 1)
  BY <1>1, ReturnPops
<1>4. /\ ~Dying /\ proc = "running" /\ (\A s \in raised : Blocked(s))
      /\ top \in Nat /\ Index = 1 .. top /\ top \in Index
      /\ default \subseteq Kills /\ (top = 1 => 1 \in Index)
  BY <1>1, RunsNow, StackIndex DEF TermTypeOK
<1>5. /\ Stacked'
      /\ \A s \in Signals : Blocked(s)' <=> Blocked(s)
      /\ \A i \in 1 .. top - 1 : PastLeaving(i)' => PastLeaving(i)
  BY <1>1, <1>3, PoppedFacts, Names
<1>6. TermTypeOK'
  BY <1>2, <1>3 DEF TermTypeOK
<1>7. KillsPending' /\ ~Dying'
  BY <1>2, <1>3, <1>4, <1>5, Names DEF KillsPending, Dying, Popped, Index
<1>8. Wanting'
  BY <1>2, <1>3 DEF Wanting, Index, Popped
<1>9. FlagLags'
  BY <1>1, <1>2, <1>3 DEF FlagLags, InBetween, Index, Popped
<1>10. EntersOver'
  BY <1>2, <1>3, <1>5 DEF EntersOver, Exited, Index, Popped
<1>11. LeftCooked'
  BY <1>1, <1>2, <1>3, <1>5, <1>7 DEF LeftCooked, Left, Exited, InBetween, Index, Popped
<1>12. ResumeEnters'
  BY DEF Undisturbed, ResumeEnters
<1>13. ProgramEnters'
  BY DEF Undisturbed, ProgramEnters
<1>14. RestoresDown'
  BY DEF Undisturbed, RestoresDown
<1>15. WantedIsRaw'
  BY DEF Undisturbed, WantedIsRaw
<1>16. UnwantedIsDown'
  BY <1>1, <1>2, <1>4 DEF UnwantedIsDown, Wanting
<1> QED BY <1>5, <1>6, <1>7, <1>8, <1>9, <1>10, <1>11, <1>12, <1>13, <1>14, <1>15, <1>16

(* tcsetattr sets the terminal raw. *)
LEMMA EnterSetGoesKeeps ==
  ASSUME TermInv, EnterSet, stage' = stage, tty' = "raw", Goto("mark"), refused' = refused
  PROVE  TermInv'
<1> USE DEF TermInv
<1>1. Runs /\ frames # <<>> /\ frames[top] = [fn |-> "enter", at |-> "set"]
  BY DEF EnterSet, At, Last, top
<1>2. /\ tty' = "raw" /\ raw_mode_active' = raw_mode_active /\ refused' = refused
      /\ tty_interactive' = tty_interactive /\ raw_wanted' = raw_wanted /\ raised' = raised
      /\ default' = default /\ proc' = proc /\ signals' = signals /\ overtaken' = overtaken /\ stage' = stage
  BY DEF EnterSet, Elsewhere, signalVars
<1>3. [fn |-> frames[top].fn, at |-> "mark"] \in Places
  BY <1>1 DEF Places
<1>4. MovedTo("mark") /\ frames' \in Seq(Places) /\ frames' # <<>>
  BY <1>1, <1>3, GotoMoves
<1>5. /\ ~Dying /\ proc = "running" /\ (\A s \in raised : Blocked(s))
      /\ top \in Nat /\ Index = 1 .. top /\ top \in Index
      /\ default \subseteq Kills /\ (top = 1 => 1 \in Index)
  BY <1>1, RunsNow, StackIndex DEF TermTypeOK
<1>6. /\ Stacked'
      /\ \A s \in Signals : Blocked(s)' <=> Blocked(s)
      /\ \A i \in 1 .. top - 1 : PastLeaving(i)' => PastLeaving(i)
      /\ \A i \in Index : ~(i = top /\ PastLeaving(i)')
  BY <1>1, <1>4, MovedFacts, Names
<1>7. TermTypeOK'
  BY <1>2, <1>4 DEF TermTypeOK
<1>8. KillsPending' /\ ~Dying'
  BY <1>2, <1>4, <1>5, <1>6, Names DEF KillsPending, Dying, MovedTo, Index
<1>9. Wanting'
  BY <1>1, <1>2, <1>4 DEF Wanting, MovedTo
<1>10. FlagLags'
  BY <1>4 DEF FlagLags, InBetween, MovedTo
<1>11. EntersOver'
  BY <1>2, <1>4, <1>6 DEF EntersOver, Exited, Index, MovedTo
<1>12. LeftCooked'
  BY <1>4 DEF LeftCooked, InBetween, MovedTo
<1>13. ResumeEnters'
  BY <1>1, <1>2, <1>4 DEF Undisturbed, ResumeEnters, Index, MovedTo
<1>14. ProgramEnters'
  BY DEF ProgramEnters
<1>15. RestoresDown'
  BY <1>2, <1>4 DEF Undisturbed, RestoresDown, Index, MovedTo
<1>16. WantedIsRaw'
  BY <1>1, <1>4 DEF WantedIsRaw, Mended, Mends, Index, MovedTo
<1>17. UnwantedIsDown'
  BY <1>2, <1>4 DEF UnwantedIsDown, Index, MovedTo
<1> QED BY <1>6, <1>7, <1>8, <1>9, <1>10, <1>11, <1>12, <1>13, <1>14, <1>15, <1>16, <1>17

(* raw_mode_active goes up, whoever called. *)
LEMMA EnterMarkKeeps ==
  ASSUME TermInv, EnterMark, stage' = stage
  PROVE  TermInv'
<1> USE DEF TermInv
<1>1. Runs /\ frames # <<>> /\ frames[top] = [fn |-> "enter", at |-> "mark"]
  BY DEF EnterMark, At, Last, top
<1>2. /\ tty' = tty /\ raw_mode_active' = TRUE /\ refused' = refused
      /\ tty_interactive' = tty_interactive /\ raw_wanted' = raw_wanted /\ raised' = raised
      /\ default' = default /\ proc' = proc /\ signals' = signals /\ overtaken' = overtaken /\ stage' = stage
  BY DEF EnterMark, Elsewhere, signalVars
<1>3. Popped /\ frames' \in Seq(Places) /\ (frames' = <<>> <=> top = 1)
  BY <1>1, ReturnPops DEF EnterMark
<1>4. /\ ~Dying /\ proc = "running" /\ (\A s \in raised : Blocked(s))
      /\ top \in Nat /\ Index = 1 .. top /\ top \in Index
      /\ default \subseteq Kills /\ (top = 1 => 1 \in Index)
  BY <1>1, RunsNow, StackIndex DEF TermTypeOK
<1>5. /\ Stacked'
      /\ \A s \in Signals : Blocked(s)' <=> Blocked(s)
      /\ \A i \in 1 .. top - 1 : PastLeaving(i)' => PastLeaving(i)
  BY <1>1, <1>3, PoppedFacts, Names
<1>6. Exited' => Exited \/ (top = 1 /\ frames' = <<>>)
  BY <1>3 DEF Exited, Popped
<1>7. TermTypeOK'
  BY <1>2, <1>3 DEF TermTypeOK
<1>8. KillsPending' /\ ~Dying'
  BY <1>2, <1>3, <1>4, <1>5, Names DEF KillsPending, Dying, Popped, Index
<1>9. /\ \A i \in 1 .. top - 1 : PastLeaving(i) => overtaken
      /\ Exited' => overtaken
  <2>1. \A i \in 1 .. top - 1 : PastLeaving(i) => overtaken
    BY <1>1, <1>4 DEF EntersOver
  <2>2. Exited => overtaken
    BY <1>1, <1>4 DEF EntersOver
  <2>3. ~(top = 1 /\ Exited')
    BY <1>1 DEF Wanting, Exited, Index
  <2> QED BY <1>6, <2>1, <2>2, <2>3
<1>10. Undisturbed => tty = "raw"
  <2>0. ASSUME top = 1 PROVE raised \cap Catching = {}
    BY <2>0, <1>1, <1>4 DEF Catching, Blocked, Index
  <2>1. CASE top = 1
    BY <2>0, <2>1, <1>1, <1>4 DEF ProgramEnters, Mended
  <2>2. CASE top > 1
    BY <2>2, <1>1, <1>4 DEF ResumeEnters
  <2> QED BY <2>1, <2>2, <1>4
<1>11. \A i \in 1 .. top - 1 : i > 1 => frames[i].fn # "enter"
  BY <1>1, <1>4, OneResume
<1>12. Wanting'
  BY <1>1, <1>2, <1>3 DEF Wanting, Index, Popped
<1>13. FlagLags'
  BY <1>2 DEF FlagLags
<1>14. EntersOver'
  BY <1>2, <1>3, <1>11 DEF EntersOver, Exited, Index, Popped
<1>15. LeftCooked'
  BY <1>2, <1>3, <1>4, <1>5, <1>9, Names DEF LeftCooked, Left, Dying, Index, Popped
<1>16. ResumeEnters'
  BY <1>3, <1>11 DEF ResumeEnters, Index, Popped
<1>17. ProgramEnters'
  BY <1>2, <1>10 DEF Undisturbed, ProgramEnters
<1>18. RestoresDown'
  BY <1>1, <1>2, <1>3, <1>10 DEF Undisturbed, RestoresDown, EntersOver, Index, Popped
<1>19. WantedIsRaw'
  BY <1>2, <1>10 DEF Undisturbed, WantedIsRaw
<1>20. UnwantedIsDown'
  BY <1>1, <1>2, <1>4 DEF UnwantedIsDown, Wanting
<1> QED BY <1>5, <1>7, <1>8, <1>12, <1>13, <1>14, <1>15, <1>16, <1>17, <1>18, <1>19, <1>20

(* leave_raw_mode returns at its test: the terminal is cooked already. *)
LEMMA LeaveTestReturnsKeeps ==
  ASSUME TermInv, LeaveTest, stage' = stage, ~raw_mode_active
  PROVE  TermInv'
<1> USE DEF TermInv
<1>1. Runs /\ frames # <<>> /\ frames[top] = [fn |-> "leave", at |-> "test"]
  BY DEF LeaveTest, At, Last, top
<1>2. /\ tty' = tty /\ raw_mode_active' = raw_mode_active /\ refused' = refused
      /\ tty_interactive' = tty_interactive /\ raw_wanted' = raw_wanted /\ raised' = raised
      /\ default' = default /\ proc' = proc /\ signals' = signals /\ overtaken' = overtaken /\ stage' = stage
  BY DEF LeaveTest, ttyVars, Elsewhere, signalVars
<1>3. Popped /\ frames' \in Seq(Places) /\ (frames' = <<>> <=> top = 1)
  BY <1>1, ReturnPops DEF LeaveTest
<1>4. /\ ~Dying /\ proc = "running" /\ (\A s \in raised : Blocked(s))
      /\ top \in Nat /\ Index = 1 .. top /\ top \in Index
      /\ default \subseteq Kills /\ (top = 1 => 1 \in Index)
  BY <1>1, RunsNow, StackIndex DEF TermTypeOK
<1>5. /\ Stacked'
      /\ \A s \in Signals : Blocked(s)' <=> Blocked(s)
      /\ \A i \in 1 .. top - 1 : PastLeaving(i)' => PastLeaving(i)
           \/ (i = top - 1 /\ frames[top].fn = "leave")
  BY <1>1, <1>3, PoppedFacts, Names
<1>6. TermTypeOK'
  BY <1>2, <1>3 DEF TermTypeOK
<1>7. KillsPending' /\ ~Dying'
  BY <1>2, <1>3, <1>4, <1>5, Names DEF KillsPending, Dying, Popped, Index
<1>8. Wanting'
  BY <1>2, <1>3 DEF Wanting, Index, Popped
<1>9. FlagLags'
  BY <1>1, <1>2, <1>3 DEF FlagLags, InBetween, Index, Popped
<1>10. EntersOver'
  BY <1>2, <1>3, <1>5 DEF EntersOver, Exited, Index, Popped
<1>11. LeftCooked'
  BY <1>1, <1>2, <1>3 DEF LeftCooked, FlagLags, InBetween, Index, Popped
<1>12. ResumeEnters'
  BY <1>2, <1>3 DEF Undisturbed, ResumeEnters, Index, Popped
<1>13. ProgramEnters'
  BY <1>1, <1>2, <1>3, <1>4, Names DEF Undisturbed, ProgramEnters, Mended, Mends, Index, Popped
<1>14. RestoresDown'
  BY <1>2 DEF RestoresDown
<1>15. WantedIsRaw'
  BY <1>1, <1>2, <1>3, <1>4, Names DEF Undisturbed, WantedIsRaw, Mended, Mends, Index, Popped
<1>16. UnwantedIsDown'
  BY <1>2 DEF UnwantedIsDown
<1> QED BY <1>5, <1>6, <1>7, <1>8, <1>9, <1>10, <1>11, <1>12, <1>13, <1>14, <1>15, <1>16

(* leave_raw_mode passes its test. *)
LEMMA LeaveTestGoesKeeps ==
  ASSUME TermInv, LeaveTest, stage' = stage, raw_mode_active
  PROVE  TermInv'
<1> USE DEF TermInv
<1>1. Runs /\ frames # <<>> /\ frames[top] = [fn |-> "leave", at |-> "test"]
  BY DEF LeaveTest, At, Last, top
<1>2. /\ tty' = tty /\ raw_mode_active' = raw_mode_active /\ refused' = refused
      /\ tty_interactive' = tty_interactive /\ raw_wanted' = raw_wanted /\ raised' = raised
      /\ default' = default /\ proc' = proc /\ signals' = signals /\ overtaken' = overtaken /\ stage' = stage
  BY DEF LeaveTest, ttyVars, Elsewhere, signalVars
<1>3. [fn |-> frames[top].fn, at |-> "clear"] \in Places
  BY <1>1 DEF Places
<1>4. MovedTo("clear") /\ frames' \in Seq(Places) /\ frames' # <<>>
  BY <1>1, <1>3, GotoMoves DEF LeaveTest
<1>5. /\ ~Dying /\ proc = "running" /\ (\A s \in raised : Blocked(s))
      /\ top \in Nat /\ Index = 1 .. top /\ top \in Index
      /\ default \subseteq Kills /\ (top = 1 => 1 \in Index)
  BY <1>1, RunsNow, StackIndex DEF TermTypeOK
<1>6. /\ Stacked'
      /\ \A s \in Signals : Blocked(s)' <=> Blocked(s)
      /\ \A i \in 1 .. top - 1 : PastLeaving(i)' => PastLeaving(i)
      /\ \A i \in Index : ~(i = top /\ PastLeaving(i)')
  BY <1>1, <1>4, MovedFacts, Names
<1>7. TermTypeOK'
  BY <1>2, <1>4 DEF TermTypeOK
<1>8. KillsPending' /\ ~Dying'
  BY <1>2, <1>4, <1>5, <1>6, Names DEF KillsPending, Dying, MovedTo, Index
<1>9. Wanting'
  BY <1>2, <1>4 DEF Wanting, Index, MovedTo
<1>10. FlagLags'
  BY <1>2 DEF FlagLags
<1>11. EntersOver'
  BY <1>2, <1>4, <1>6 DEF EntersOver, Exited, Index, MovedTo
<1>12. LeftCooked'
  BY <1>1, <1>2, <1>4, <1>6, <1>8 DEF LeftCooked, Left, Exited, InBetween, Index, MovedTo
<1>13. ResumeEnters'
  BY <1>1, <1>2, <1>4 DEF Undisturbed, ResumeEnters, Index, MovedTo
<1>14. ProgramEnters'
  BY <1>2 DEF Undisturbed, ProgramEnters, RestoresDown
<1>15. RestoresDown'
  BY <1>2, <1>4 DEF Undisturbed, RestoresDown, Index, MovedTo
<1>16. WantedIsRaw'
  BY <1>2 DEF Undisturbed, WantedIsRaw, RestoresDown
<1>17. UnwantedIsDown'
  BY <1>2, <1>4 DEF UnwantedIsDown, Index, MovedTo
<1> QED BY <1>6, <1>7, <1>8, <1>9, <1>10, <1>11, <1>12, <1>13, <1>14, <1>15, <1>16, <1>17

(* raw_mode_active goes down before the terminal is restored. *)
LEMMA LeaveClearKeeps ==
  ASSUME TermInv, LeaveClear, stage' = stage
  PROVE  TermInv'
<1> USE DEF TermInv
<1>1. Runs /\ frames # <<>> /\ frames[top] = [fn |-> "leave", at |-> "clear"]
  BY DEF LeaveClear, At, Last, top
<1>2. /\ tty' = tty /\ raw_mode_active' = FALSE /\ refused' = refused
      /\ tty_interactive' = tty_interactive /\ raw_wanted' = raw_wanted /\ raised' = raised
      /\ default' = default /\ proc' = proc /\ signals' = signals /\ overtaken' = overtaken /\ stage' = stage
  BY DEF LeaveClear, Elsewhere, signalVars
<1>3. [fn |-> frames[top].fn, at |-> "restore"] \in Places
  BY <1>1 DEF Places
<1>4. MovedTo("restore") /\ frames' \in Seq(Places) /\ frames' # <<>>
  BY <1>1, <1>3, GotoMoves DEF LeaveClear
<1>5. /\ ~Dying /\ proc = "running" /\ (\A s \in raised : Blocked(s))
      /\ top \in Nat /\ Index = 1 .. top /\ top \in Index
      /\ default \subseteq Kills /\ (top = 1 => 1 \in Index)
  BY <1>1, RunsNow, StackIndex DEF TermTypeOK
<1>6. /\ Stacked'
      /\ \A s \in Signals : Blocked(s)' <=> Blocked(s)
      /\ \A i \in 1 .. top - 1 : PastLeaving(i)' => PastLeaving(i)
      /\ \A i \in Index : ~(i = top /\ PastLeaving(i)')
  BY <1>1, <1>4, MovedFacts, Names
<1>7. TermTypeOK'
  BY <1>2, <1>4 DEF TermTypeOK
<1>8. KillsPending' /\ ~Dying'
  BY <1>2, <1>4, <1>5, <1>6, Names DEF KillsPending, Dying, MovedTo, Index
<1>9. top > 1 => top - 1 \in Index /\ frames[top - 1].fn \in Signals /\ Mends(frames[top - 1])
  BY <1>1, <1>5, OneResume
<1>10. Wanting'
  BY <1>1, <1>2, <1>4 DEF Wanting, Index, MovedTo
<1>11. FlagLags'
  BY <1>4 DEF FlagLags, InBetween, MovedTo
<1>12. EntersOver'
  BY <1>1, <1>2, <1>4, <1>6 DEF EntersOver, Exited, Index, MovedTo
<1>13. LeftCooked'
  BY <1>4 DEF LeftCooked, InBetween, MovedTo
<1>14. ResumeEnters'
  BY <1>1, <1>2, <1>4 DEF Undisturbed, ResumeEnters, Index, MovedTo
<1>15. ProgramEnters'
  BY <1>4, <1>9, Names DEF ProgramEnters, Mended, Index, MovedTo
<1>16. RestoresDown'
  BY <1>2 DEF RestoresDown
<1>17. WantedIsRaw'
  BY <1>1, <1>2, <1>4, <1>9 DEF WantedIsRaw, Wanting, Mended, Index, MovedTo
<1>18. UnwantedIsDown'
  BY <1>2 DEF UnwantedIsDown
<1> QED BY <1>6, <1>7, <1>8, <1>10, <1>11, <1>12, <1>13, <1>14, <1>15, <1>16, <1>17, <1>18

(* The terminal is restored; whoever waits for that finds it cooked. *)
LEMMA LeaveRestoreKeeps ==
  ASSUME TermInv, LeaveRestore, stage' = stage
  PROVE  TermInv'
<1> USE DEF TermInv
<1>1. Runs /\ frames # <<>> /\ frames[top] = [fn |-> "leave", at |-> "restore"]
  BY DEF LeaveRestore, At, Last, top
<1>2. /\ tty' = "cooked" /\ raw_mode_active' = raw_mode_active /\ refused' = refused
      /\ tty_interactive' = tty_interactive /\ raw_wanted' = raw_wanted /\ raised' = raised
      /\ default' = default /\ proc' = proc /\ signals' = signals /\ overtaken' = overtaken /\ stage' = stage
  BY DEF LeaveRestore, Elsewhere, signalVars
<1>3. Popped /\ frames' \in Seq(Places) /\ (frames' = <<>> <=> top = 1)
  BY <1>1, ReturnPops DEF LeaveRestore
<1>4. /\ ~Dying /\ proc = "running" /\ (\A s \in raised : Blocked(s))
      /\ top \in Nat /\ Index = 1 .. top /\ top \in Index
      /\ default \subseteq Kills /\ (top = 1 => 1 \in Index)
  BY <1>1, RunsNow, StackIndex DEF TermTypeOK
<1>5. /\ Stacked'
      /\ \A s \in Signals : Blocked(s)' <=> Blocked(s)
      /\ \A i \in 1 .. top - 1 : PastLeaving(i)' => PastLeaving(i)
           \/ (i = top - 1 /\ frames[top].fn = "leave")
  BY <1>1, <1>3, PoppedFacts, Names
<1>6. TermTypeOK'
  BY <1>2, <1>3 DEF TermTypeOK
<1>7. KillsPending' /\ ~Dying'
  BY <1>2, <1>3, <1>4, <1>5, Names DEF KillsPending, Dying, Popped, Index
<1>8. top > 1 => top - 1 \in Index /\ frames[top - 1].fn \in Signals /\ Mends(frames[top - 1])
  BY <1>1, <1>4, OneResume
<1>9. Wanting'
  BY <1>2, <1>3 DEF Wanting, Index, Popped
<1>10. FlagLags'
  BY <1>2 DEF FlagLags
<1>11. EntersOver'
  BY <1>2, <1>3, <1>5 DEF EntersOver, Exited, Index, Popped
<1>12. LeftCooked'
  BY <1>2 DEF LeftCooked
<1>13. ResumeEnters'
  BY <1>1, <1>2, <1>3 DEF Undisturbed, ResumeEnters, Index, Popped
<1>14. ProgramEnters'
  BY <1>3, <1>8, Names DEF ProgramEnters, Mended, Index, Popped
<1>15. RestoresDown'
  BY <1>1, <1>2, <1>4 DEF Undisturbed, RestoresDown
<1>16. WantedIsRaw'
  BY <1>1, <1>2, <1>3, <1>8 DEF WantedIsRaw, Wanting, Mended, Index, Popped
<1>17. UnwantedIsDown'
  BY <1>1, <1>2, <1>3 DEF UnwantedIsDown, Index, Popped
<1> QED BY <1>5, <1>6, <1>7, <1>9, <1>10, <1>11, <1>12, <1>13, <1>14, <1>15, <1>16, <1>17

(* A handler is entered, and a killing signal loses it. *)
LEMMA CaughtKeeps ==
  ASSUME TermInv, NEW s \in Signals, Deliver(s), Handled(s), stage' = stage
  PROVE  TermInv'
<1> USE DEF TermInv
<1>1. Deliver(s) /\ Handled(s) /\ frames' = Append(frames, [fn |-> s, at |-> "start"])
      /\ default' = Resets(s) /\ proc' = proc
  BY DEF Deliver
<1>2. /\ s \in raised /\ ~Blocked(s) /\ s \notin default /\ tty_interactive /\ proc = "running"
      /\ top \in Nat /\ Index = 1 .. top
  BY StackIndex DEF Deliver, Due, Handled
<1>3. /\ tty' = tty /\ raw_mode_active' = raw_mode_active /\ refused' = refused
      /\ tty_interactive' = tty_interactive /\ raw_wanted' = raw_wanted /\ raised' = raised \ {s}
      /\ default' = default \cup ({s} \cap Kills) /\ proc' = proc /\ signals' = signals
      /\ overtaken' = overtaken /\ stage' = stage
  BY DEF Deliver, ttyVars, Resets
<1>4. [fn |-> s, at |-> "start"] \in Places
  BY DEF Places
<1>5. Pushed([fn |-> s, at |-> "start"]) /\ frames' \in Seq(Places) /\ frames' # <<>>
  BY <1>1, <1>4, CallPushes
<1>6. /\ Stacked'
      /\ \A k : Blocked(k)' <=> Blocked(k) \/ k = s
      /\ \A i \in 1 .. top : PastLeaving(i)' => PastLeaving(i)
  BY <1>2, <1>4, <1>5, PushedFacts
<1>7. \A i \in 1 .. top + 1 : PastLeaving(i)' => i \in 1 .. top
  BY <1>5 DEF PastLeaving, Pushed
<1>8. Dying' <=> Dying
  BY <1>2, <1>3, <1>6 DEF Dying
<1>9. TermTypeOK'
  BY <1>3, <1>5 DEF TermTypeOK
<1>10. KillsPending'
  BY <1>2, <1>3, <1>5 DEF KillsPending, Pushed, Index, Blocked
<1>11. Wanting'
  BY <1>3, <1>5, Names DEF Wanting, Index, Pushed
<1>12. FlagLags'
  BY <1>3, <1>5 DEF FlagLags, InBetween, Index, Pushed
<1>13. EntersOver'
  BY <1>3, <1>5, <1>6, Names DEF EntersOver, Exited, Index, Pushed
<1>14. LeftCooked'
  BY <1>3, <1>5, <1>6, <1>7 DEF LeftCooked, Left, Dying, Exited, InBetween, Index, Pushed
<1>15. ResumeEnters'
  BY <1>3, <1>5, Names DEF Undisturbed, ResumeEnters, Index, Pushed
<1>16. ProgramEnters'
  BY <1>3, <1>5, <1>8 DEF Undisturbed, ProgramEnters, Mended, Mends, Index, Pushed, Catching
<1>17. RestoresDown'
  BY <1>3, <1>5 DEF Undisturbed, RestoresDown, Index, Pushed
<1>18. WantedIsRaw'
  BY <1>3, <1>5, <1>8 DEF Undisturbed, WantedIsRaw, Mended, Mends, Index, Pushed, Catching
<1>19. UnwantedIsDown'
  BY <1>3, <1>5 DEF UnwantedIsDown, Index, Pushed
<1> QED BY <1>6, <1>9, <1>10, <1>11, <1>12, <1>13, <1>14, <1>15, <1>16, <1>17, <1>18, <1>19

(* A signal kills, stops or wakes the process, or is ignored. *)
LEMMA NotCaughtKeeps ==
  ASSUME TermInv, NEW s \in Signals, Deliver(s), ~Handled(s), stage' = stage
  PROVE  TermInv'
<1> USE DEF TermInv
<1>1. /\ s \in raised /\ ~Blocked(s) /\ (~tty_interactive \/ (s \in default /\ Dying))
      /\ proc = "running" /\ (tty_interactive => s \in Kills /\ proc' = "dead")
      /\ (s \in Kills => proc' = "dead") /\ proc' \in {"running", "stopped", "dead"}
      /\ default \subseteq Kills
  BY DEF Deliver, Due, Handled, Dying, TermTypeOK
<1>2. /\ tty' = tty /\ raw_mode_active' = raw_mode_active /\ refused' = refused
      /\ tty_interactive' = tty_interactive /\ raw_wanted' = raw_wanted /\ raised' = raised \ {s}
      /\ default' = default /\ signals' = signals /\ overtaken' = overtaken /\ frames' = frames
      /\ stage' = stage
  BY DEF Deliver, ttyVars
<1>3. /\ \A k : Blocked(k)' <=> Blocked(k)
      /\ \A i \in Index : PastLeaving(i)' <=> PastLeaving(i)
      /\ Exited' <=> Exited
  BY <1>2 DEF Blocked, PastLeaving, Exited, Index
<1>4. TermTypeOK' /\ Stacked'
  BY <1>1, <1>2 DEF TermTypeOK, Stacked, Index
<1>5. KillsPending'
  BY <1>1, <1>2, <1>3 DEF KillsPending, Index
<1>6. Wanting'
  BY <1>2 DEF Wanting, Index
<1>7. FlagLags'
  BY <1>2 DEF FlagLags, InBetween
<1>8. EntersOver'
  BY <1>2, <1>3 DEF EntersOver, Index
<1>9. LeftCooked'
  BY <1>1, <1>2 DEF LeftCooked, Left, InBetween, Wanting
<1>10. ResumeEnters'
  BY <1>2 DEF Undisturbed, ResumeEnters, Index
<1>11. ProgramEnters'
  BY <1>1, <1>2 DEF ProgramEnters, Wanting, Mended, Index
<1>12. RestoresDown'
  BY <1>2 DEF Undisturbed, RestoresDown, Index
<1>13. WantedIsRaw'
  BY <1>1, <1>2 DEF WantedIsRaw, Mended
<1>14. UnwantedIsDown'
  BY <1>2 DEF UnwantedIsDown, Index
<1> QED BY <1>4, <1>5, <1>6, <1>7, <1>8, <1>9, <1>10, <1>11, <1>12, <1>13, <1>14

(* restore_and_reraise calls leave_raw_mode. *)
LEMMA KillStartKeeps ==
  ASSUME TermInv, NEW k \in Kills, KillStart(k), stage' = stage
  PROVE  TermInv'
<1> USE DEF TermInv
<1>1. Runs /\ frames # <<>> /\ frames[top] = [fn |-> k, at |-> "start"]
  BY DEF KillStart, At, Last, top
<1>2. /\ tty' = tty /\ raw_mode_active' = raw_mode_active /\ refused' = refused
      /\ tty_interactive' = tty_interactive /\ raw_wanted' = raw_wanted /\ raised' = raised
      /\ default' = default /\ proc' = proc /\ signals' = signals /\ overtaken' = overtaken /\ stage' = stage
  BY DEF KillStart, ttyVars, Elsewhere, signalVars
<1>3. [fn |-> k, at |-> "raise"] \in Places /\ [fn |-> "leave", at |-> "test"] \in Places
  BY Names DEF Places
<1>4. CalledFrom("raise", "leave") /\ frames' \in Seq(Places) /\ frames' # <<>>
  BY <1>1, <1>3, CallFromPushes DEF KillStart, LeaveFirst
<1>5. /\ ~Dying /\ proc = "running" /\ (\A s \in raised : Blocked(s))
      /\ top \in Nat /\ Index = 1 .. top /\ top \in Index /\ default \subseteq Kills
  BY <1>1, RunsNow, StackIndex DEF TermTypeOK
<1>6. /\ Stacked'
      /\ \A s \in Signals : Blocked(s)' <=> Blocked(s)
      /\ \A i \in 1 .. top - 1 : PastLeaving(i)' => PastLeaving(i)
  <2>1. Calls([fn |-> frames[top].fn, at |-> "raise"], "leave")
    BY <1>1, Names DEF Calls
  <2> QED BY <2>1, <1>4, CalledFacts, Names
<1>7. \A i \in 1 .. top + 1 : PastLeaving(i)' => i \in 1 .. top - 1
  BY <1>4 DEF PastLeaving, CalledFrom, Index
<1>8. Exited' => Exited
  BY <1>4 DEF Exited, CalledFrom
<1>9. TermTypeOK'
  BY <1>2, <1>4 DEF TermTypeOK
<1>10. ~Dying'
  BY <1>2, <1>5, <1>6, Names DEF Dying
<1>11. KillsPending'
  <2>1. \A i \in 1 .. top + 1 : frames'[i].fn \in Kills =>
          i \in Index /\ frames'[i].fn = frames[i].fn /\ (frames'[i].at = "return" => frames[i].at = "return")
    BY <1>4, Names DEF CalledFrom
  <2> QED BY <1>2, <1>4, <1>5, <1>6, Names DEF KillsPending, CalledFrom, Index
<1>12. Wanting'
  BY <1>1, <1>2, <1>4 DEF Wanting, Index, CalledFrom
<1>13. FlagLags'
  BY <1>1, <1>2, <1>4 DEF FlagLags, InBetween, Index, CalledFrom
<1>14. EntersOver'
  BY <1>2, <1>4, <1>6 DEF EntersOver, Exited, Index, CalledFrom
<1>15. LeftCooked'
  BY <1>1, <1>2, <1>4, <1>5, <1>6, <1>7, <1>8, <1>9, Names
     DEF LeftCooked, Left, Dying, Exited, InBetween, Index, CalledFrom
<1>16. ResumeEnters'
  BY <1>1, <1>2, <1>4 DEF Undisturbed, ResumeEnters, Index, CalledFrom
<1>17. ProgramEnters'
  BY <1>1, <1>4 DEF ProgramEnters, Mended, Mends, Index, CalledFrom
<1>18. RestoresDown'
  BY <1>2, <1>4 DEF Undisturbed, RestoresDown, Index, CalledFrom
<1>19. WantedIsRaw'
  BY <1>1, <1>4 DEF WantedIsRaw, Mended, Mends, Index, CalledFrom
<1>20. UnwantedIsDown'
  BY <1>2, <1>4 DEF UnwantedIsDown, Index, CalledFrom
<1> QED BY <1>6, <1>9, <1>11, <1>12, <1>13, <1>14, <1>15, <1>16, <1>17, <1>18, <1>19, <1>20

(* suspend_handler calls leave_raw_mode. *)
LEMMA SuspendStartKeeps ==
  ASSUME TermInv, SuspendStart, stage' = stage
  PROVE  TermInv'
<1> USE DEF TermInv
<1>1. Runs /\ frames # <<>> /\ frames[top] = [fn |-> "TSTP", at |-> "start"]
  BY DEF SuspendStart, At, Last, top
<1>2. /\ tty' = tty /\ raw_mode_active' = raw_mode_active /\ refused' = refused
      /\ tty_interactive' = tty_interactive /\ raw_wanted' = raw_wanted /\ raised' = raised
      /\ default' = default /\ proc' = proc /\ signals' = signals /\ overtaken' = overtaken /\ stage' = stage
  BY DEF SuspendStart, ttyVars, Elsewhere, signalVars
<1>3. [fn |-> "TSTP", at |-> "raise"] \in Places /\ [fn |-> "leave", at |-> "test"] \in Places
  BY Names DEF Places
<1>4. CalledFrom("raise", "leave") /\ frames' \in Seq(Places) /\ frames' # <<>>
  BY <1>1, <1>3, CallFromPushes DEF SuspendStart, LeaveFirst
<1>5. /\ ~Dying /\ proc = "running" /\ (\A s \in raised : Blocked(s))
      /\ top \in Nat /\ Index = 1 .. top /\ top \in Index /\ default \subseteq Kills
  BY <1>1, RunsNow, StackIndex DEF TermTypeOK
<1>6. /\ Stacked'
      /\ \A s \in Signals : Blocked(s)' <=> Blocked(s)
      /\ \A i \in 1 .. top - 1 : PastLeaving(i)' => PastLeaving(i)
  <2>1. Calls([fn |-> frames[top].fn, at |-> "raise"], "leave")
    BY <1>1 DEF Calls
  <2> QED BY <2>1, <1>4, CalledFacts, Names
<1>7. \A i \in 1 .. top + 1 : PastLeaving(i)' => i \in 1 .. top - 1
  BY <1>4 DEF PastLeaving, CalledFrom, Index
<1>8. Exited' => Exited
  BY <1>4 DEF Exited, CalledFrom
<1>9. TermTypeOK'
  BY <1>2, <1>4 DEF TermTypeOK
<1>10. ~Dying'
  BY <1>2, <1>5, <1>6, Names DEF Dying
<1>11. KillsPending'
  <2>1. \A i \in 1 .. top + 1 : frames'[i].fn \in Kills =>
          i \in Index /\ frames'[i].fn = frames[i].fn /\ (frames'[i].at = "return" => frames[i].at = "return")
    BY <1>4, Names DEF CalledFrom
  <2> QED BY <1>2, <1>4, <1>5, <1>6, Names DEF KillsPending, CalledFrom, Index
<1>12. Wanting'
  BY <1>1, <1>2, <1>4 DEF Wanting, Index, CalledFrom
<1>13. FlagLags'
  BY <1>1, <1>2, <1>4 DEF FlagLags, InBetween, Index, CalledFrom
<1>14. EntersOver'
  BY <1>2, <1>4, <1>6 DEF EntersOver, Exited, Index, CalledFrom
<1>15. LeftCooked'
  BY <1>1, <1>2, <1>3, <1>4, <1>6, <1>7, <1>10
     DEF LeftCooked, Left, Dying, Exited, InBetween, Index, CalledFrom
<1>16. ResumeEnters'
  BY <1>1, <1>2, <1>3, <1>4, <1>5, <1>6 DEF Undisturbed, ResumeEnters, Index, CalledFrom
<1>17. ProgramEnters'
  BY <1>1, <1>4 DEF ProgramEnters, Mended, Mends, Index, CalledFrom
<1>18. RestoresDown'
  BY <1>2, <1>4 DEF Undisturbed, RestoresDown, Index, CalledFrom
<1>19. WantedIsRaw'
  BY <1>1, <1>4 DEF WantedIsRaw, Mended, Mends, Index, CalledFrom
<1>20. UnwantedIsDown'
  BY <1>2, <1>4 DEF UnwantedIsDown, Index, CalledFrom
<1> QED BY <1>6, <1>9, <1>11, <1>12, <1>13, <1>14, <1>15, <1>16, <1>17, <1>18, <1>19, <1>20

(* restore_and_reraise raises its signal again, which waits for its return. *)
LEMMA KillRaiseKeeps ==
  ASSUME TermInv, NEW k \in Kills, KillRaise(k), stage' = stage
  PROVE  TermInv'
<1> USE DEF TermInv
<1>1. Runs /\ frames # <<>> /\ frames[top] = [fn |-> k, at |-> "raise"]
  BY DEF KillRaise, At, Last, top
<1>2. /\ tty' = tty /\ raw_mode_active' = raw_mode_active /\ refused' = refused
      /\ tty_interactive' = tty_interactive /\ raw_wanted' = raw_wanted /\ default' = default
      /\ signals' = signals /\ overtaken' = overtaken /\ stage' = stage
      /\ raised' = raised \cup {k} /\ proc' = proc
  BY DEF KillRaise, ttyVars
<1>3. [fn |-> frames[top].fn, at |-> "return"] \in Places
  BY <1>1, Names DEF Places
<1>4. MovedTo("return") /\ frames' \in Seq(Places) /\ frames' # <<>>
  BY <1>1, <1>3, GotoMoves DEF KillRaise
<1>5. /\ ~Dying /\ proc = "running" /\ (\A s \in raised : Blocked(s))
      /\ top \in Nat /\ Index = 1 .. top /\ top \in Index /\ default \subseteq Kills
  BY <1>1, RunsNow, StackIndex DEF TermTypeOK
<1>6. /\ Stacked'
      /\ \A s \in Signals : Blocked(s)' <=> Blocked(s)
      /\ \A i \in 1 .. top - 1 : PastLeaving(i)' => PastLeaving(i)
  BY <1>4, MovedFacts
<1>7. Left /\ (tty = "raw" => InBetween \/ overtaken)
  BY <1>1, <1>5 DEF Left, PastLeaving, LeftCooked
<1>8. TermTypeOK'
  BY <1>2, <1>4, Names DEF TermTypeOK
<1>9. KillsPending' /\ ~Dying'
  BY <1>1, <1>2, <1>4, <1>5, <1>6, Names DEF KillsPending, Dying, MovedTo, Index
<1>10. Wanting'
  BY <1>1, <1>2, <1>4 DEF Wanting, Index, MovedTo
<1>11. FlagLags'
  BY <1>1, <1>2, <1>4 DEF FlagLags, InBetween, Index, MovedTo
<1>12. EntersOver'
  BY <1>2, <1>4, <1>6 DEF EntersOver, Exited, Index, MovedTo
<1>13. LeftCooked'
  BY <1>1, <1>2, <1>4, <1>7 DEF LeftCooked, InBetween, Index, MovedTo
<1>14. ResumeEnters'
  BY <1>1, <1>2, <1>4 DEF Undisturbed, ResumeEnters, Index, MovedTo
<1>15. ProgramEnters'
  BY <1>1, <1>4 DEF ProgramEnters, Mended, Mends, Index, MovedTo
<1>16. RestoresDown'
  BY <1>2, <1>4 DEF Undisturbed, RestoresDown, Index, MovedTo
<1>17. WantedIsRaw'
  BY <1>1, <1>4 DEF WantedIsRaw, Mended, Mends, Index, MovedTo
<1>18. UnwantedIsDown'
  BY <1>2, <1>4 DEF UnwantedIsDown, Index, MovedTo
<1> QED BY <1>6, <1>8, <1>9, <1>10, <1>11, <1>12, <1>13, <1>14, <1>15, <1>16, <1>17, <1>18

(* suspend_handler stops the process. *)
LEMMA SuspendRaiseKeeps ==
  ASSUME TermInv, SuspendRaise, stage' = stage
  PROVE  TermInv'
<1> USE DEF TermInv
<1>1. Runs /\ frames # <<>> /\ frames[top] = [fn |-> "TSTP", at |-> "raise"]
  BY DEF SuspendRaise, At, Last, top
<1>2. /\ tty' = tty /\ raw_mode_active' = raw_mode_active /\ refused' = refused
      /\ tty_interactive' = tty_interactive /\ raw_wanted' = raw_wanted /\ default' = default
      /\ signals' = signals /\ overtaken' = overtaken /\ stage' = stage
      /\ raised' = raised \ {"CONT"} /\ proc' = "stopped"
  BY DEF SuspendRaise, ttyVars
<1>3. [fn |-> frames[top].fn, at |-> "return"] \in Places
  BY <1>1, Names DEF Places
<1>4. MovedTo("return") /\ frames' \in Seq(Places) /\ frames' # <<>>
  BY <1>1, <1>3, GotoMoves DEF SuspendRaise
<1>5. /\ ~Dying /\ proc = "running" /\ (\A s \in raised : Blocked(s))
      /\ top \in Nat /\ Index = 1 .. top /\ top \in Index /\ default \subseteq Kills
  BY <1>1, RunsNow, StackIndex DEF TermTypeOK
<1>6. /\ Stacked'
      /\ \A s \in Signals : Blocked(s)' <=> Blocked(s)
      /\ \A i \in 1 .. top - 1 : PastLeaving(i)' => PastLeaving(i)
  BY <1>4, MovedFacts
<1>7. Left /\ (tty = "raw" => InBetween \/ overtaken)
  BY <1>1, <1>5 DEF Left, PastLeaving, LeftCooked
<1>8. TermTypeOK'
  BY <1>2, <1>4 DEF TermTypeOK
<1>9. KillsPending' /\ ~Dying'
  BY <1>1, <1>2, <1>4, <1>5, <1>6, Names DEF KillsPending, Dying, MovedTo, Index
<1>10. Wanting'
  BY <1>1, <1>2, <1>4 DEF Wanting, Index, MovedTo
<1>11. FlagLags'
  BY <1>1, <1>2, <1>4 DEF FlagLags, InBetween, Index, MovedTo
<1>12. EntersOver'
  BY <1>2, <1>4, <1>6 DEF EntersOver, Exited, Index, MovedTo
<1>13. LeftCooked'
  BY <1>1, <1>2, <1>4, <1>7 DEF LeftCooked, InBetween, Index, MovedTo
<1>14. ResumeEnters'
  BY <1>1, <1>2, <1>4 DEF Undisturbed, ResumeEnters, Index, MovedTo
<1>15. ProgramEnters'
  BY <1>2 DEF ProgramEnters, Mended
<1>16. RestoresDown'
  BY <1>2, <1>4 DEF Undisturbed, RestoresDown, Index, MovedTo
<1>17. WantedIsRaw'
  BY <1>2 DEF WantedIsRaw, Mended
<1>18. UnwantedIsDown'
  BY <1>2, <1>4 DEF UnwantedIsDown, Index, MovedTo
<1> QED BY <1>6, <1>8, <1>9, <1>10, <1>11, <1>12, <1>13, <1>14, <1>15, <1>16, <1>17, <1>18

(* A handler returns. *)
LEMMA HandlerReturnKeeps ==
  ASSUME TermInv, HandlerReturn, stage' = stage
  PROVE  TermInv'
<1> USE DEF TermInv
<1>1. Runs /\ frames # <<>> /\ frames[top].fn \in Signals /\ frames[top].at = "return"
  BY DEF HandlerReturn, At, Last, top
<1>2. /\ tty' = tty /\ raw_mode_active' = raw_mode_active /\ refused' = refused
      /\ tty_interactive' = tty_interactive /\ raw_wanted' = raw_wanted /\ raised' = raised
      /\ default' = default /\ proc' = proc /\ signals' = signals /\ overtaken' = overtaken /\ stage' = stage
  BY DEF HandlerReturn, ttyVars, Elsewhere, signalVars
<1>3. Popped /\ frames' \in Seq(Places) /\ (frames' = <<>> <=> top = 1)
  BY <1>1, ReturnPops DEF HandlerReturn
<1>4. /\ ~Dying /\ proc = "running" /\ (\A s \in raised : Blocked(s))
      /\ top \in Nat /\ Index = 1 .. top /\ top \in Index /\ default \subseteq Kills
  BY <1>1, RunsNow, StackIndex DEF TermTypeOK
<1>5. /\ Stacked'
      /\ \A s \in Signals : s # frames[top].fn => (Blocked(s)' <=> Blocked(s))
      /\ \A s \in Signals : s = frames[top].fn => ~Blocked(s)'
      /\ \A i \in 1 .. top - 1 : PastLeaving(i)' => PastLeaving(i)
  BY <1>1, <1>3, PoppedFacts, Names
<1>6. TermTypeOK'
  BY <1>2, <1>3 DEF TermTypeOK
<1>7. KillsPending'
  BY <1>1, <1>2, <1>3, <1>4, <1>5, Names DEF KillsPending, Popped, Index
<1>8. Dying' <=> frames[top].fn \in Kills
  BY <1>2, <1>4, <1>5, Names DEF KillsPending, Dying
<1>9. frames[top].fn \in Kills => Left /\ (tty = "raw" => InBetween \/ overtaken)
  BY <1>1, <1>4 DEF Left, PastLeaving, LeftCooked
<1>10. Wanting'
  BY <1>2, <1>3 DEF Wanting, Index, Popped
<1>11. FlagLags'
  BY <1>1, <1>2, <1>3 DEF FlagLags, InBetween, Index, Popped
<1>12. EntersOver'
  BY <1>2, <1>3, <1>5 DEF EntersOver, Exited, Index, Popped
<1>13. LeftCooked'
  BY <1>1, <1>2, <1>3, <1>5, <1>8, <1>9, Names
     DEF LeftCooked, Left, Exited, InBetween, Index, Popped
<1>14. ResumeEnters'
  BY <1>2, <1>3 DEF Undisturbed, ResumeEnters, Index, Popped
<1>15. ProgramEnters'
  BY <1>1, <1>2, <1>3, <1>4, <1>8, Names
     DEF Undisturbed, ProgramEnters, Mended, Mends, Index, Popped
<1>16. RestoresDown'
  BY <1>2, <1>3 DEF Undisturbed, RestoresDown, Index, Popped
<1>17. WantedIsRaw'
  BY <1>1, <1>2, <1>3, <1>4, <1>8, Names DEF Undisturbed, WantedIsRaw, Mended, Mends, Index, Popped
<1>18. UnwantedIsDown'
  BY <1>1, <1>2, <1>3, Names DEF UnwantedIsDown, Index, Popped
<1> QED BY <1>5, <1>6, <1>7, <1>10, <1>11, <1>12, <1>13, <1>14, <1>15, <1>16, <1>17, <1>18

(* resume_handler has nothing to do: nothing is wanted, or the program has exited. *)
LEMMA ResumeIdleKeeps ==
  ASSUME TermInv, ResumeStart(Exited), stage' = stage, ~raw_wanted
  PROVE  TermInv'
<1> USE DEF TermInv
<1>1. Runs /\ frames # <<>> /\ frames[top] = [fn |-> "CONT", at |-> "start"]
  BY DEF ResumeStart, At, Last, top
<1>2. /\ tty' = tty /\ raw_mode_active' = raw_mode_active /\ refused' = refused
      /\ tty_interactive' = tty_interactive /\ raw_wanted' = raw_wanted /\ raised' = raised
      /\ default' = default /\ proc' = proc /\ signals' = signals /\ overtaken' = overtaken /\ stage' = stage
  BY DEF ResumeStart, Wanted, TermTypeOK, ttyVars, signalVars
<1>3. Popped /\ frames' \in Seq(Places) /\ (frames' = <<>> <=> top = 1)
  BY <1>1, ReturnPops DEF ResumeStart, Wanted
<1>4. /\ ~Dying /\ proc = "running" /\ (\A s \in raised : Blocked(s))
      /\ top \in Nat /\ Index = 1 .. top /\ top \in Index /\ default \subseteq Kills
  BY <1>1, RunsNow, StackIndex DEF TermTypeOK
<1>5. /\ Stacked'
      /\ \A s \in Signals : s # frames[top].fn => (Blocked(s)' <=> Blocked(s))
      /\ \A s \in Signals : s = frames[top].fn => ~Blocked(s)'
      /\ \A i \in 1 .. top - 1 : PastLeaving(i)' => PastLeaving(i)
  BY <1>1, <1>3, PoppedFacts
<1>6. TermTypeOK'
  BY <1>2, <1>3 DEF TermTypeOK
<1>7. KillsPending'
  BY <1>1, <1>2, <1>3, <1>4, <1>5, Names DEF KillsPending, Popped, Index
<1>8. Dying' <=> frames[top].fn \in Kills
  BY <1>2, <1>4, <1>5, Names DEF KillsPending, Dying
<1>9. Wanting'
  BY <1>2, <1>3 DEF Wanting, Index, Popped
<1>10. FlagLags'
  BY <1>1, <1>2, <1>3 DEF FlagLags, InBetween, Index, Popped
<1>11. EntersOver'
  BY <1>2, <1>3, <1>5 DEF EntersOver, Exited, Index, Popped
<1>12. LeftCooked'
  BY <1>1, <1>2, <1>3, <1>5, <1>8, Names DEF LeftCooked, Left, Exited, InBetween, Index, Popped
<1>13. ResumeEnters'
  BY <1>2, <1>3 DEF Undisturbed, ResumeEnters, Index, Popped
<1>14. ProgramEnters'
  BY <1>3 DEF ProgramEnters, Wanting, Index, Popped
<1>15. RestoresDown'
  BY <1>2, <1>3 DEF Undisturbed, RestoresDown, Index, Popped
<1>16. WantedIsRaw'
  BY <1>2 DEF WantedIsRaw
<1>17. UnwantedIsDown'
  BY <1>1, <1>2, <1>3 DEF UnwantedIsDown, Index, Popped
<1> QED BY <1>5, <1>6, <1>7, <1>9, <1>10, <1>11, <1>12, <1>13, <1>14, <1>15, <1>16, <1>17

(* resume_handler enters raw mode again, over whatever it interrupted. *)
LEMMA ResumeStartKeeps ==
  ASSUME TermInv, ResumeStart(Exited), stage' = stage, raw_wanted
  PROVE  TermInv'
<1> USE DEF TermInv
<1>1. Runs /\ frames # <<>> /\ frames[top] = [fn |-> "CONT", at |-> "start"]
  BY DEF ResumeStart, At, Last, top
<1>2. /\ tty' = tty /\ raw_mode_active' = raw_mode_active /\ refused' = refused
      /\ tty_interactive' = tty_interactive /\ raw_wanted' = raw_wanted /\ raised' = raised
      /\ default' = default /\ proc' = proc /\ signals' = signals
      /\ overtaken' = (overtaken \/ Leaving(Exited)) /\ stage' = stage
  BY DEF ResumeStart, Wanted, ttyVars, signalVars
<1>3. [fn |-> "CONT", at |-> "return"] \in Places /\ [fn |-> "enter", at |-> "test"] \in Places
  BY Names DEF Places
<1>4. CalledFrom("return", "enter") /\ frames' \in Seq(Places) /\ frames' # <<>>
  BY <1>1, <1>3, CallFromPushes DEF ResumeStart, Wanted
<1>5. /\ ~Dying /\ proc = "running" /\ (\A s \in raised : Blocked(s))
      /\ top \in Nat /\ Index = 1 .. top /\ top \in Index /\ default \subseteq Kills
  BY <1>1, RunsNow, StackIndex DEF TermTypeOK
<1>6. /\ Stacked'
      /\ \A s \in Signals : Blocked(s)' <=> Blocked(s)
      /\ \A i \in 1 .. top - 1 : PastLeaving(i)' => PastLeaving(i)
  <2>1. Calls([fn |-> frames[top].fn, at |-> "return"], "enter")
    BY <1>1 DEF Calls
  <2> QED BY <2>1, <1>4, CalledFacts, Names
<1>7. \A i \in 1 .. top + 1 : PastLeaving(i)' => i \in 1 .. top - 1
  BY <1>1, <1>4, Names DEF PastLeaving, CalledFrom
<1>8. \A i \in 1 .. top - 1 : PastLeaving(i) \/ (frames[i].fn = "leave" /\ frames[i].at # "test") => overtaken'
  <2>1. ASSUME NEW i \in 1 .. top - 1, PastLeaving(i) \/ (frames[i].fn = "leave" /\ frames[i].at # "test")
        PROVE  Leaving(Exited)
    <3>1. i \in Index /\ i + 1 \in Index
      BY <1>5
    <3>2. CASE frames[i].fn = "leave" /\ frames[i].at # "test"
      BY <3>1, <3>2 DEF Leaving, Index
    <3>3. CASE frames[i].fn \in Kills /\ frames[i].at = "return"
      BY <3>1, <3>3 DEF Leaving, Index
    <3>4. CASE frames[i].fn \in Kills \cup {"TSTP"} /\ frames[i].at = "raise" /\ frames[i + 1].fn # "leave"
      BY <3>1, <3>4 DEF Leaving, Index
    <3> QED BY <2>1, <3>1, <3>2, <3>3, <3>4 DEF PastLeaving
  <2> QED BY <2>1, <1>2
<1>9. Exited => overtaken'
  BY <1>2 DEF Leaving
<1>10. Exited' => Exited
  BY <1>4 DEF Exited, CalledFrom
<1>11. overtaken => overtaken'
  BY <1>2
<1>12. TermTypeOK'
  BY <1>2, <1>4 DEF TermTypeOK
<1>13. ~Dying'
  BY <1>2, <1>5, <1>6, Names DEF Dying
<1>14. KillsPending'
  <2>1. \A i \in 1 .. top + 1 : frames'[i].fn \in Kills => i \in 1 .. top - 1
    BY <1>1, <1>4, Names DEF CalledFrom
  <2> QED BY <2>1, <1>2, <1>4, <1>5, <1>6, Names DEF KillsPending, CalledFrom, Index
<1>15. \A i \in 1 .. top + 1 : frames'[i].fn = "enter" => (i \in 1 .. top - 1 /\ frames'[i] = frames[i]) \/ i = top + 1
  BY <1>1, <1>4 DEF CalledFrom
<1>16. \A j \in 1 .. top + 1 : PastLeaving(j)' \/ (frames'[j].fn = "leave" /\ frames'[j].at # "test") =>
        /\ j \in 1 .. top - 1
        /\ PastLeaving(j) \/ (frames[j].fn = "leave" /\ frames[j].at # "test")
  BY <1>1, <1>4, <1>6, <1>7 DEF CalledFrom
<1>17. Wanting'
  BY <1>2, <1>4, <1>15 DEF Wanting, CalledFrom, Index
<1>18. FlagLags'
  BY <1>1, <1>2, <1>4 DEF FlagLags, InBetween, Index, CalledFrom
<1>19. EntersOver'
  <2>1. SUFFICES ASSUME NEW i \in 1 .. top + 1, frames'[i].fn = "enter"
               PROVE  /\ Exited' => overtaken'
                      /\ \A j \in 1 .. top + 1 :
                           j < i /\ (PastLeaving(j)' \/ (frames'[j].fn = "leave" /\ frames'[j].at # "test"))
                             => overtaken'
    BY <1>4 DEF EntersOver, CalledFrom, Index
  <2>2. Exited' => overtaken'
    BY <1>9, <1>10
  <2>3. ASSUME NEW j \in 1 .. top + 1, j < i,
               PastLeaving(j)' \/ (frames'[j].fn = "leave" /\ frames'[j].at # "test")
        PROVE  overtaken'
    <3>1. /\ j \in 1 .. top - 1
          /\ PastLeaving(j) \/ (frames[j].fn = "leave" /\ frames[j].at # "test")
      BY <2>3, <1>16
    <3> QED BY <3>1, <1>8
  <2> QED BY <2>2, <2>3
<1>20. LeftCooked'
  BY <1>2, <1>4, <1>5, <1>8, <1>9, <1>13, <1>16 DEF LeftCooked, Left, Exited, Index, CalledFrom
<1>21. ResumeEnters'
  BY <1>2, <1>4, <1>6, <1>10, <1>11, <1>12, <1>15, <1>16
     DEF Undisturbed, ResumeEnters, Index, CalledFrom
<1>22. ProgramEnters'
  BY <1>4 DEF ProgramEnters, Mended, Mends, Index, CalledFrom
<1>23. RestoresDown'
  BY <1>2, <1>4, <1>11 DEF Undisturbed, RestoresDown, Index, CalledFrom
<1>24. WantedIsRaw'
  BY <1>4 DEF WantedIsRaw, Mended, Mends, Index, CalledFrom
<1>25. UnwantedIsDown'
  BY <1>2 DEF UnwantedIsDown
<1> QED BY <1>6, <1>12, <1>14, <1>17, <1>18, <1>19, <1>20, <1>21, <1>22, <1>23, <1>24, <1>25

(* A signal is sent. *)
LEMMA SendKeeps ==
  ASSUME TermInv, NEW s \in Signals, Send(s), stage' = stage
  PROVE  TermInv'
<1> USE DEF TermInv
<1>1. /\ proc # "dead" /\ signals' = signals + 1 /\ signals < MaxSignals
      /\ s = "CONT" => raised' = (raised \ {"TSTP"}) \cup {"CONT"} /\ proc' = "running"
      /\ s = "TSTP" => raised' = (raised \ {"CONT"}) \cup {"TSTP"} /\ proc' = proc
      /\ s \in Kills => raised' = raised \cup {s} /\ proc' = proc
  BY Names DEF Send
<1>2. s \in Kills \cup {"TSTP", "CONT"}
  BY DEF Signals
<1>3. /\ raised' \subseteq Signals /\ proc' \in {"running", "stopped", "dead"}
      /\ signals' \in 0 .. MaxSignals
  BY <1>1, KillsAssumption DEF TermTypeOK, Signals
<1>4. /\ frames' = frames /\ tty' = tty /\ raw_mode_active' = raw_mode_active /\ refused' = refused
      /\ raw_wanted' = raw_wanted /\ default' = default /\ overtaken' = overtaken
      /\ tty_interactive' = tty_interactive /\ stage' = stage
  BY DEF Send, ttyVars
<1>5. /\ \A k : Blocked(k)' <=> Blocked(k)
      /\ \A i \in Index : PastLeaving(i)' <=> PastLeaving(i)
      /\ InBetween' <=> InBetween
      /\ Stacked'
  BY <1>4 DEF Blocked, PastLeaving, InBetween, Stacked, Index
<1>6. Dying' <=> Dying
  BY <1>4, <1>5 DEF Dying
<1>7. TermTypeOK'
  BY <1>3, <1>4 DEF TermTypeOK
<1>8. KillsPending'
  BY <1>1, <1>2, <1>4, <1>5, Names DEF KillsPending, TermTypeOK, Index
<1>9. Wanting'
  BY <1>4 DEF Wanting, Index
<1>10. FlagLags'
  BY <1>4 DEF FlagLags, InBetween
<1>11. EntersOver'
  BY <1>4, <1>5 DEF EntersOver, Exited, Index
<1>12. LeftCooked'
  BY <1>1, <1>2, <1>4, <1>5 DEF LeftCooked, Left, Dying, Exited, Index
<1>13. ResumeEnters'
  BY <1>4 DEF Undisturbed, ResumeEnters, Index
<1>14. ProgramEnters'
  BY <1>1, <1>2, <1>4, <1>6 DEF Undisturbed, ProgramEnters, Mended, Index, Catching
<1>15. RestoresDown'
  BY <1>4 DEF Undisturbed, RestoresDown, Index
<1>16. WantedIsRaw'
  BY <1>1, <1>2, <1>4, <1>6 DEF Undisturbed, WantedIsRaw, Mended, Index, Catching
<1>17. UnwantedIsDown'
  BY <1>4 DEF UnwantedIsDown, Index
<1> QED BY <1>5, <1>7, <1>8, <1>9, <1>10, <1>11, <1>12, <1>13, <1>14, <1>15, <1>16, <1>17

(* The image asks for raw mode. *)
LEMMA RawOnKeeps ==
  ASSUME TermInv, RawOn
  PROVE  TermInv'
<1> USE DEF TermInv
<1>1. /\ frames = <<>> /\ stage = "run" /\ proc = "running"
      /\ frames' = Append(frames, [fn |-> "enter", at |-> "test"])
  BY DEF RawOn, Executes, Stage, Program, Runs, Call
<1>2. /\ tty' = tty /\ raw_mode_active' = raw_mode_active /\ refused' = refused
      /\ tty_interactive' = tty_interactive /\ raw_wanted' = TRUE /\ raised' = raised
      /\ default' = default /\ proc' = proc /\ signals' = signals /\ overtaken' = overtaken /\ stage' = stage
  BY DEF RawOn, ttyVars, signalVars
<1>3. [fn |-> "enter", at |-> "test"] \in Places
  BY DEF Places
<1>4. top = 0 /\ Index = {}
  BY <1>1, StackIndex
<1>5. Pushed([fn |-> "enter", at |-> "test"]) /\ frames' \in Seq(Places) /\ frames' # <<>>
  BY <1>1, <1>3, CallPushes
<1>6. /\ Stacked'
      /\ \A s \in Signals : Blocked(s)' <=> Blocked(s)
  BY <1>3, <1>4, <1>5, PushedFacts, Names
<1>7. ~PastLeaving(1)'
  BY <1>4, <1>5 DEF PastLeaving, Pushed
<1>8. Dying' <=> Dying
  BY <1>2, <1>6, Names DEF Dying, TermTypeOK
<1>9. TermTypeOK'
  BY <1>2, <1>5 DEF TermTypeOK
<1>10. KillsPending'
  BY <1>2, <1>5, <1>6, Names DEF KillsPending, TermTypeOK, Pushed, Index
<1>11. Wanting'
  BY <1>1, <1>2 DEF Wanting, Index
<1>12. FlagLags'
  BY <1>2, <1>5 DEF FlagLags, InBetween, Index, Pushed
<1>13. EntersOver'
  BY <1>1, <1>2 DEF EntersOver, Exited, Index
<1>14. LeftCooked'
  BY <1>2, <1>4, <1>5, <1>7, <1>8 DEF LeftCooked, Left, Exited, InBetween, Index, Pushed
<1>15. ResumeEnters'
  BY <1>4, <1>5 DEF ResumeEnters, Index, Pushed
<1>16. ProgramEnters'
  BY <1>5 DEF ProgramEnters, Mended, Mends, Index, Pushed
<1>17. RestoresDown'
  BY <1>2, <1>5 DEF Undisturbed, RestoresDown, Index, Pushed
<1>18. WantedIsRaw'
  BY <1>5 DEF WantedIsRaw, Mended, Mends, Index, Pushed
<1>19. UnwantedIsDown'
  BY <1>2 DEF UnwantedIsDown
<1> QED BY <1>6, <1>9, <1>10, <1>11, <1>12, <1>13, <1>14, <1>15, <1>16, <1>17, <1>18, <1>19

(* The image gives raw mode up. *)
LEMMA RawOffKeeps ==
  ASSUME TermInv, RawOff
  PROVE  TermInv'
<1> USE DEF TermInv
<1>1. /\ frames = <<>> /\ stage = "run" /\ proc = "running"
      /\ frames' = Append(frames, [fn |-> "leave", at |-> "test"])
  BY DEF RawOff, Executes, Stage, Program, Runs, Call
<1>2. /\ tty' = tty /\ raw_mode_active' = raw_mode_active /\ refused' = refused
      /\ tty_interactive' = tty_interactive /\ raw_wanted' = FALSE /\ raised' = raised
      /\ default' = default /\ proc' = proc /\ signals' = signals /\ overtaken' = overtaken /\ stage' = stage
  BY DEF RawOff, ttyVars, signalVars
<1>3. [fn |-> "leave", at |-> "test"] \in Places
  BY DEF Places
<1>4. top = 0 /\ Index = {}
  BY <1>1, StackIndex
<1>5. Pushed([fn |-> "leave", at |-> "test"]) /\ frames' \in Seq(Places) /\ frames' # <<>>
  BY <1>1, <1>3, CallPushes
<1>6. /\ Stacked'
      /\ \A s \in Signals : Blocked(s)' <=> Blocked(s)
  BY <1>3, <1>4, <1>5, PushedFacts, Names
<1>7. ~PastLeaving(1)'
  BY <1>4, <1>5 DEF PastLeaving, Pushed
<1>8. Dying' <=> Dying
  BY <1>2, <1>6, Names DEF Dying, TermTypeOK
<1>9. TermTypeOK'
  BY <1>2, <1>5 DEF TermTypeOK
<1>10. KillsPending'
  BY <1>2, <1>5, <1>6, Names DEF KillsPending, TermTypeOK, Pushed, Index
<1>11. Wanting'
  BY <1>2, <1>4, <1>5 DEF Wanting, Index, Pushed
<1>12. FlagLags'
  BY <1>2, <1>5 DEF FlagLags, InBetween, Index, Pushed
<1>13. EntersOver'
  BY <1>4, <1>5 DEF EntersOver, Index, Pushed
<1>14. LeftCooked'
  BY <1>2, <1>4, <1>5, <1>7, <1>8 DEF LeftCooked, Left, Exited, InBetween, Index, Pushed
<1>15. ResumeEnters'
  BY <1>4, <1>5 DEF ResumeEnters, Index, Pushed
<1>16. ProgramEnters'
  BY <1>4, <1>5 DEF ProgramEnters, Pushed
<1>17. RestoresDown'
  BY <1>2, <1>5 DEF Undisturbed, RestoresDown, Index, Pushed
<1>18. WantedIsRaw'
  BY <1>2 DEF WantedIsRaw
<1>19. UnwantedIsDown'
  BY <1>4, <1>5 DEF UnwantedIsDown, Index, Pushed
<1> QED BY <1>6, <1>9, <1>10, <1>11, <1>12, <1>13, <1>14, <1>15, <1>16, <1>17, <1>18, <1>19

(* exit() in the running image: leave_raw_mode is called. *)
LEMMA ExitLeavesKeeps ==
  ASSUME TermInv, Program, Exit, tty_interactive
  PROVE  TermInv'
<1> USE DEF TermInv
<1>1. /\ frames = <<>> /\ proc = "running" /\ stage' = "exit"
      /\ frames' = Append(frames, [fn |-> "leave", at |-> "test"])
  BY DEF Exit, Program, Runs
<1>2. /\ tty' = tty /\ raw_mode_active' = raw_mode_active /\ refused' = refused
      /\ tty_interactive' = tty_interactive /\ raw_wanted' = raw_wanted /\ raised' = raised
      /\ default' = default /\ proc' = proc /\ signals' = signals /\ overtaken' = overtaken
  BY DEF Exit, ttyVars, signalVars
<1>3. [fn |-> "leave", at |-> "test"] \in Places
  BY DEF Places
<1>4. top = 0 /\ Index = {}
  BY <1>1, StackIndex
<1>5. Pushed([fn |-> "leave", at |-> "test"]) /\ frames' \in Seq(Places) /\ frames' # <<>>
  BY <1>1, <1>3, CallPushes
<1>6. /\ Stacked'
      /\ \A s \in Signals : Blocked(s)' <=> Blocked(s)
  BY <1>3, <1>4, <1>5, PushedFacts, Names
<1>7. ~PastLeaving(1)' /\ ~Exited'
  BY <1>4, <1>5 DEF PastLeaving, Exited, Pushed
<1>8. Dying' <=> Dying
  BY <1>2, <1>6, Names DEF Dying, TermTypeOK
<1>9. TermTypeOK'
  BY <1>2, <1>5 DEF TermTypeOK
<1>10. KillsPending'
  BY <1>2, <1>5, <1>6, Names DEF KillsPending, TermTypeOK, Pushed, Index
<1>11. Wanting'
  BY <1>1, <1>2 DEF Wanting, Index
<1>12. FlagLags'
  BY <1>2, <1>5 DEF FlagLags, InBetween, Index, Pushed
<1>13. EntersOver'
  BY <1>4, <1>5 DEF EntersOver, Index, Pushed
<1>14. LeftCooked'
  BY <1>2, <1>4, <1>5, <1>7, <1>8 DEF LeftCooked, Left, InBetween, Index, Pushed
<1>15. ResumeEnters'
  BY <1>4, <1>5 DEF ResumeEnters, Index, Pushed
<1>16. ProgramEnters'
  BY <1>4, <1>5 DEF ProgramEnters, Pushed
<1>17. RestoresDown'
  BY <1>2, <1>5 DEF Undisturbed, RestoresDown, Index, Pushed
<1>18. WantedIsRaw'
  BY <1>1 DEF WantedIsRaw
<1>19. UnwantedIsDown'
  BY <1>4, <1>5 DEF UnwantedIsDown, Index, Pushed
<1> QED BY <1>6, <1>9, <1>10, <1>11, <1>12, <1>13, <1>14, <1>15, <1>16, <1>17, <1>18, <1>19

(* exit() before terminal_setup has registered anything. *)
LEMMA ExitAtOnceKeeps ==
  ASSUME TermInv, Program, Exit, ~tty_interactive
  PROVE  TermInv'
<1> USE DEF TermInv
<1>1. frames = <<>> /\ proc = "running" /\ stage' = "exit" /\ Index = {}
  BY DEF Exit, Program, Runs, Index
<1>2. tty = "cooked" /\ ~raw_mode_active
  BY DEF Wanting
<1>3. /\ frames' = frames /\ tty' = tty /\ raw_mode_active' = raw_mode_active /\ refused' = refused
      /\ raw_wanted' = raw_wanted /\ default' = default /\ overtaken' = overtaken
      /\ tty_interactive' = tty_interactive /\ raised' = raised /\ proc' = proc /\ signals' = signals
  BY <1>1 DEF Exit, ttyVars, signalVars
<1>4. /\ \A k : Blocked(k)' <=> Blocked(k)
      /\ \A i \in Index : PastLeaving(i)' <=> PastLeaving(i)
      /\ InBetween' <=> InBetween
      /\ Stacked'
  BY <1>3 DEF Blocked, PastLeaving, InBetween, Stacked, Index
<1>5. TermTypeOK'
  BY <1>3 DEF TermTypeOK
<1>6. KillsPending'
  BY <1>3, <1>4 DEF KillsPending, Index
<1>7. Wanting'
  BY <1>1, <1>3 DEF Wanting, Index
<1>8. FlagLags'
  BY <1>3 DEF FlagLags, InBetween
<1>9. EntersOver'
  BY <1>1, <1>3 DEF EntersOver, Index
<1>10. LeftCooked'
  BY <1>2, <1>3 DEF LeftCooked
<1>11. ResumeEnters'
  BY <1>3 DEF Undisturbed, ResumeEnters, Index
<1>12. ProgramEnters'
  BY <1>3 DEF ProgramEnters, Wanting, Index
<1>13. RestoresDown'
  BY <1>3 DEF Undisturbed, RestoresDown, Index
<1>14. WantedIsRaw'
  BY <1>3 DEF WantedIsRaw
<1>15. UnwantedIsDown'
  BY <1>3 DEF UnwantedIsDown, Wanting
<1> QED BY <1>4, <1>5, <1>6, <1>7, <1>8, <1>9, <1>10, <1>11, <1>12, <1>13, <1>14, <1>15

(* terminal_setup. *)
LEMMA SetUpKeeps ==
  ASSUME TermInv, SetUp
  PROVE  TermInv'
<1> USE DEF TermInv
<1>1. frames = <<>> /\ stage = "setup" /\ stage' \in {"baked", "ready"} /\ Index = {}
  BY DEF SetUp, Stage, Program, Index
<1>2. tty = "cooked" /\ ~raw_mode_active /\ ~raw_wanted
  BY <1>1 DEF Wanting
<1>3. tty_interactive' \in BOOLEAN
  BY DEF SetUp
<1>4. /\ frames' = frames /\ tty' = tty /\ raw_mode_active' = raw_mode_active /\ refused' = refused
      /\ raw_wanted' = raw_wanted /\ default' = default /\ overtaken' = overtaken
      /\ raised' = raised /\ proc' = proc /\ signals' = signals
  BY DEF SetUp, ttyVars, signalVars
<1>5. /\ \A k : Blocked(k)' <=> Blocked(k)
      /\ \A i \in Index : PastLeaving(i)' <=> PastLeaving(i)
      /\ InBetween' <=> InBetween
      /\ Stacked'
  BY <1>4 DEF Blocked, PastLeaving, InBetween, Stacked, Index
<1>6. Dying' <=> Dying
  BY <1>4, <1>5 DEF Dying
<1>7. TermTypeOK'
  BY <1>3, <1>4 DEF TermTypeOK
<1>8. KillsPending'
  BY <1>4, <1>5 DEF KillsPending, Index
<1>9. Wanting'
  BY <1>1, <1>4 DEF Wanting, Index
<1>10. FlagLags'
  BY <1>4 DEF FlagLags, InBetween
<1>11. EntersOver'
  BY <1>1, <1>4 DEF EntersOver, Index
<1>12. LeftCooked'
  BY <1>2, <1>4 DEF LeftCooked
<1>13. ResumeEnters'
  BY <1>4 DEF Undisturbed, ResumeEnters, Index
<1>14. ProgramEnters'
  BY <1>4, <1>6 DEF Undisturbed, ProgramEnters, Mended, Index
<1>15. RestoresDown'
  BY <1>4 DEF Undisturbed, RestoresDown, Index
<1>16. WantedIsRaw'
  BY <1>2, <1>4 DEF WantedIsRaw
<1>17. UnwantedIsDown'
  BY <1>2, <1>4 DEF UnwantedIsDown
<1> QED BY <1>5, <1>7, <1>8, <1>9, <1>10, <1>11, <1>12, <1>13, <1>14, <1>15, <1>16, <1>17

(* The process is gone when exit() is done. *)
LEMMA EndedKeeps ==
  ASSUME TermInv, Ended
  PROVE  TermInv'
<1> USE DEF TermInv
<1>1. frames = <<>> /\ stage = "exit" /\ Exited /\ Index = {}
  BY DEF Ended, Stage, Program, Exited, Index
<1>2. tty = "raw" => InBetween \/ overtaken
  BY <1>1 DEF LeftCooked, Left
<1>3. /\ frames' = frames /\ tty' = tty /\ raw_mode_active' = raw_mode_active /\ refused' = refused
      /\ raw_wanted' = raw_wanted /\ default' = default /\ overtaken' = overtaken
      /\ tty_interactive' = tty_interactive /\ raised' = raised /\ proc' = "dead" /\ signals' = signals
      /\ stage' = stage
  BY DEF Ended, ttyVars
<1>4. /\ \A k : Blocked(k)' <=> Blocked(k)
      /\ \A i \in Index : PastLeaving(i)' <=> PastLeaving(i)
      /\ InBetween' <=> InBetween
      /\ Stacked'
  BY <1>3 DEF Blocked, PastLeaving, InBetween, Stacked, Index
<1>5. TermTypeOK'
  BY <1>3 DEF TermTypeOK
<1>6. KillsPending'
  BY <1>3 DEF KillsPending, Index
<1>7. Wanting'
  BY <1>3 DEF Wanting, Index
<1>8. FlagLags'
  BY <1>3 DEF FlagLags, InBetween
<1>9. EntersOver'
  BY <1>3, <1>4 DEF EntersOver, Exited, Index
<1>10. LeftCooked'
  BY <1>2, <1>3 DEF LeftCooked, InBetween
<1>11. ResumeEnters'
  BY <1>3 DEF Undisturbed, ResumeEnters, Index
<1>12. ProgramEnters'
  BY <1>3 DEF ProgramEnters, Mended
<1>13. RestoresDown'
  BY <1>3 DEF Undisturbed, RestoresDown, Index
<1>14. WantedIsRaw'
  BY <1>3 DEF WantedIsRaw, Mended
<1>15. UnwantedIsDown'
  BY <1>3 DEF UnwantedIsDown, Index
<1> QED BY <1>4, <1>5, <1>6, <1>7, <1>8, <1>9, <1>10, <1>11, <1>12, <1>13, <1>14, <1>15

(* A step of the program that does not touch the terminal. *)
LEMMA QuietKeeps ==
  ASSUME TermInv, UNCHANGED termVars, stage' = stage
  PROVE  TermInv'
<1> USE DEF TermInv
<1>1. /\ frames' = frames /\ tty' = tty /\ raw_mode_active' = raw_mode_active /\ refused' = refused
      /\ raw_wanted' = raw_wanted /\ default' = default /\ overtaken' = overtaken
      /\ tty_interactive' = tty_interactive /\ raised' = raised /\ proc' = proc /\ signals' = signals
      /\ stage' = stage
  BY DEF termVars, ttyVars, signalVars
<1>2. /\ \A k : Blocked(k)' <=> Blocked(k)
      /\ \A i \in Index : PastLeaving(i)' <=> PastLeaving(i)
      /\ InBetween' <=> InBetween
      /\ Stacked'
  BY <1>1 DEF Blocked, PastLeaving, InBetween, Stacked, Index
<1>3. Dying' <=> Dying
  BY <1>1, <1>2 DEF Dying
<1>4. TermTypeOK'
  BY <1>1 DEF TermTypeOK
<1>5. KillsPending'
  BY <1>1, <1>2 DEF KillsPending, Index
<1>6. Wanting'
  BY <1>1 DEF Wanting, Index
<1>7. FlagLags'
  BY <1>1 DEF FlagLags, InBetween
<1>8. EntersOver'
  BY <1>1, <1>2 DEF EntersOver, Exited, Index
<1>9. LeftCooked'
  BY <1>1, <1>2 DEF LeftCooked, Left, Dying, Exited, Index
<1>10. ResumeEnters'
  BY <1>1 DEF Undisturbed, ResumeEnters, Index
<1>11. ProgramEnters'
  BY <1>1, <1>3 DEF Undisturbed, ProgramEnters, Mended, Index
<1>12. RestoresDown'
  BY <1>1 DEF Undisturbed, RestoresDown, Index
<1>13. WantedIsRaw'
  BY <1>1, <1>3 DEF Undisturbed, WantedIsRaw, Mended, Index
<1>14. UnwantedIsDown'
  BY <1>1 DEF UnwantedIsDown, Index
<1> QED BY <1>2, <1>4, <1>5, <1>6, <1>7, <1>8, <1>9, <1>10, <1>11, <1>12, <1>13, <1>14

(* The program goes from one stage to another. *)
LEMMA OnwardKeeps ==
  ASSUME TermInv, UNCHANGED termVars, Program, stage \in {"args", "load", "baked", "ready"}
        , stage' \notin {"args", "exit"}, (stage' \in {"load", "setup"} => stage \in {"args", "load"})
  PROVE  TermInv'
<1> USE DEF TermInv
<1>1. /\ frames' = frames /\ tty' = tty /\ raw_mode_active' = raw_mode_active /\ refused' = refused
      /\ raw_wanted' = raw_wanted /\ default' = default /\ overtaken' = overtaken
      /\ tty_interactive' = tty_interactive /\ raised' = raised /\ proc' = proc /\ signals' = signals
  BY DEF termVars, ttyVars, signalVars
<1>2. /\ \A k : Blocked(k)' <=> Blocked(k)
      /\ \A i \in Index : PastLeaving(i)' <=> PastLeaving(i)
      /\ InBetween' <=> InBetween
      /\ Stacked'
  BY <1>1 DEF Blocked, PastLeaving, InBetween, Stacked, Index
<1>3. TermTypeOK'
  BY <1>1 DEF TermTypeOK
<1>4. KillsPending'
  BY <1>1, <1>2 DEF KillsPending, Index
<1>5. Wanting'
  BY <1>1 DEF Wanting, Index
<1>6. FlagLags'
  BY <1>1 DEF FlagLags, InBetween
<1>7. EntersOver'
  BY <1>1, <1>2 DEF EntersOver, Exited, Index
<1>8. LeftCooked'
  BY <1>1, <1>2 DEF LeftCooked, Left, Dying, Exited, Index
<1>9. ResumeEnters'
  BY <1>1 DEF Undisturbed, ResumeEnters, Index
<1>10. ProgramEnters'
  BY <1>1 DEF ProgramEnters, Wanting, Index
<1>11. RestoresDown'
  BY <1>1 DEF Undisturbed, RestoresDown, Index
<1>12. WantedIsRaw'
  BY <1>1 DEF WantedIsRaw, Wanting
<1>13. UnwantedIsDown'
  BY <1>1 DEF UnwantedIsDown, Wanting
<1> QED BY <1>2, <1>3, <1>4, <1>5, <1>6, <1>7, <1>8, <1>9, <1>10, <1>11, <1>12, <1>13

------------------------------------------------------------------------------
(* exit(), from wherever the program is.                                   *)
LEMMA ExitKeeps ==
  ASSUME TermInv, Program, Exit
  PROVE  TermInv'
BY ExitLeavesKeeps, ExitAtOnceKeeps DEF TermInv, TermTypeOK

(* Before main has begun there are no handlers and no raw mode. *)
LEMMA TermInvInit ==
  ASSUME NativeInit
  PROVE  TermInv
<1>1. frames = <<>> /\ Index = {} /\ default = {} /\ raised = {}
  BY DEF NativeInit, TermInit, Index
<1>2. TermTypeOK
  <2>1. frames \in Seq(Places) /\ signals \in 0 .. MaxSignals
    BY EmptySeq, KillsAssumption DEF NativeInit, TermInit
  <2> QED BY <2>1 DEF NativeInit, TermInit, TermTypeOK
<1>3. Stacked /\ KillsPending /\ Wanting
  BY <1>1 DEF NativeInit, TermInit, Stacked, KillsPending, Wanting
<1>4. ~Left /\ FlagLags /\ EntersOver
  BY <1>1 DEF NativeInit, TermInit, FlagLags, EntersOver, Left, Dying, Exited
<1>5. ResumeEnters /\ ProgramEnters /\ RestoresDown /\ WantedIsRaw /\ UnwantedIsDown
  BY <1>1 DEF NativeInit, TermInit, ResumeEnters, ProgramEnters, RestoresDown, WantedIsRaw, UnwantedIsDown
<1> QED BY <1>2, <1>3, <1>4, <1>5 DEF TermInv, LeftCooked

(* The statements of enter_raw_mode and leave_raw_mode. *)
LEMMA RoutineKeeps ==
  ASSUME TermInv, Routine, stage' = stage
  PROVE  TermInv'
<1>1. CASE EnterTest
  BY <1>1, EnterTestReturnsKeeps, EnterTestGoesKeeps DEF TermInv, TermTypeOK
<1>2. CASE EnterSet
  <2>1. (refused' = TRUE /\ Return /\ tty' = tty) \/ (tty' = "raw" /\ Goto("mark") /\ refused' = refused)
    BY <1>2 DEF EnterSet
  <2> QED BY <1>2, <2>1, EnterSetRefusedKeeps, EnterSetGoesKeeps
<1>3. CASE EnterMark
  BY <1>3, EnterMarkKeeps
<1>4. CASE LeaveTest
  BY <1>4, LeaveTestReturnsKeeps, LeaveTestGoesKeeps DEF TermInv, TermTypeOK
<1>5. CASE LeaveClear
  BY <1>5, LeaveClearKeeps
<1>6. CASE LeaveRestore
  BY <1>6, LeaveRestoreKeeps
<1> QED BY <1>1, <1>2, <1>3, <1>4, <1>5, <1>6 DEF Routine

(* The handlers, entered, run and left. *)
LEMMA HandlersKeep ==
  ASSUME TermInv, Handlers(Exited), stage' = stage
  PROVE  TermInv'
<1>1. ASSUME NEW s \in Signals, Deliver(s) PROVE TermInv'
  BY <1>1, CaughtKeeps, NotCaughtKeeps
<1>2. ASSUME NEW k \in Kills, KillStart(k) \/ KillRaise(k) PROVE TermInv'
  BY <1>2, KillStartKeeps, KillRaiseKeeps
<1>3. CASE ResumeStart(Exited)
  BY <1>3, ResumeIdleKeeps, ResumeStartKeeps DEF TermInv, TermTypeOK
<1> QED BY <1>1, <1>2, <1>3, SuspendStartKeeps, SuspendRaiseKeeps, HandlerReturnKeeps DEF Handlers

(* Up to terminal_setup no terminal is touched. *)
LEMMA LoaderKeeps ==
  ASSUME TermInv, Main \/ LoadCell \/ LoadEnds \/ LoadDefault \/ Start
  PROVE  TermInv'
<1>1. Program /\ stage \in {"args", "load", "baked", "ready"}
  BY DEF Main, LoadCell, LoadEnds, LoadDefault, Start, Stage
<1>2. \/ Exit
      \/ UNCHANGED termVars /\ stage' = stage
      \/ /\ UNCHANGED termVars /\ stage' \notin {"args", "exit"}
         /\ stage' \in {"load", "setup"} => stage \in {"args", "load"}
  <2>1. CASE Main
    BY <2>1 DEF Main, Stage
  <2>2. CASE LoadCell
    BY <2>2 DEF LoadCell, Stage
  <2>3. CASE LoadEnds
    BY <2>3 DEF LoadEnds, Stage
  <2>4. CASE LoadDefault
    BY <2>4 DEF LoadDefault, Stage
  <2>5. CASE Start
    BY <2>5 DEF Start, Stage
  <2> QED BY <2>1, <2>2, <2>3, <2>4, <2>5
<1> QED BY <1>1, <1>2, ExitKeeps, QuietKeeps, OnwardKeeps

(* Every step keeps the terminal's invariant.                              *)
LEMMA TermInvKeeps ==
  ASSUME TermInv, [NativeNext]_nativeVars
  PROVE  TermInv'
<1>1. CASE Halt \/ EndOfInput
  <2>1. Program /\ Exit
    BY <1>1 DEF Halt, EndOfInput, Executes, Stage
  <2> QED BY <2>1, ExitKeeps
<1>2. CASE TerminalStep
  <2>1. (Routine \/ Handlers(Exited)) /\ stage' = stage
    BY <1>2 DEF TerminalStep
  <2> QED BY <2>1, RoutineKeeps, HandlersKeep
<1>3. CASE Sent
  <2>1. PICK s \in Signals : Send(s) /\ stage' = stage
    BY <1>3 DEF Sent
  <2> QED BY <2>1, SendKeeps
<1>4. CASE Peek \/ Read \/ PollReady \/ PollNone \/ GetKey \/ GetNothing \/ Type \/ Close \/ UNCHANGED nativeVars
  <2>1. UNCHANGED termVars /\ stage' = stage
    BY <1>4 DEF Peek, Read, PollReady, PollNone, GetKey, GetNothing, Type, Close, nativeVars
  <2> QED BY <2>1, QuietKeeps
<1> QED BY <1>1, <1>2, <1>3, <1>4, LoaderKeeps, SetUpKeeps, RawOnKeeps, RawOffKeeps, EndedKeeps
           DEF NativeNext

(* With nothing pending, active or overtaken, the invariant is the property.*)
LEMMA WantedHolds ==
  ASSUME TermInv
  PROVE  RawWhenWanted
<1> SUFFICES ASSUME Settled
             PROVE  /\ raw_mode_active = (tty = "raw")
                    /\ raw_mode_active = (raw_wanted /\ tty_interactive)
  BY DEF RawWhenWanted
<1>1. /\ Undisturbed /\ proc = "running" /\ stage = "run" /\ raised = {} /\ Index = {} /\ frames = <<>>
  BY DEF Settled, Undisturbed, Index
<1>2. ~Dying /\ ~Mended(0) /\ ~InBetween
  BY <1>1 DEF TermInv, KillsPending, Dying, Mended, InBetween, Index
<1>3. raw_mode_active <=> tty = "raw"
  BY <1>1, <1>2 DEF TermInv, FlagLags, RestoresDown
<1>4. raw_mode_active <=> raw_wanted /\ tty_interactive
  BY <1>1, <1>2 DEF TermInv, Wanting, WantedIsRaw, UnwantedIsDown
<1> QED BY <1>3, <1>4 DEF TermInv, TermTypeOK

(* suspend_handler and resume_handler: whatever signals came in the middle *)
(* of whatever, an image that executes again has the terminal in the mode  *)
(* it asked for, and raw_mode_active says so.                              *)
THEOREM RawIsWhatIsWanted == NativeSpec => []RawWhenWanted
<1>1. NativeInit => TermInv
  BY TermInvInit
<1>2. TermInv /\ [NativeNext]_nativeVars => TermInv'
  BY TermInvKeeps
<1>3. TermInv => RawWhenWanted
  BY WantedHolds
<1> QED BY <1>1, <1>2, <1>3, PTL DEF NativeSpec

(* leave_raw_mode: a process that stops, dies by a signal or exits leaves  *)
(* the terminal cooked, unless it was struck between the two statements or *)
(* resumed while it was leaving.                                           *)
THEOREM TerminalIsRestored == NativeSpec => []RestoresTerminal
<1>1. NativeInit => TermInv
  BY TermInvInit
<1>2. TermInv /\ [NativeNext]_nativeVars => TermInv'
  BY TermInvKeeps
<1>3. TermInv => RestoresTerminal
  BY DEF TermInv, LeftCooked, Left, RestoresTerminal
<1> QED BY <1>1, <1>2, <1>3, PTL DEF NativeSpec
------------------------------------------------------------------------------
(* A process that is to die of a signal stays so, and its program runs no  *)
(* more.                                                                   *)
LEMMA DyingStays ==
  ASSUME TermInv, Dying, TerminalStep \/ Sent
  PROVE  Dying'
<1>1. PICK k \in default : ~Blocked(k)
  BY DEF Dying
<1>2. ~Runs
  BY RunsNow
<1>3. \/ \E s \in Signals : Deliver(s)
      \/ \E s \in Signals : Send(s)
  BY <1>2 DEF TerminalStep, Sent, Routine, Handlers, EnterTest, EnterSet, EnterMark, LeaveTest,
     LeaveClear,
              LeaveRestore, KillStart, KillRaise, SuspendStart, SuspendRaise, ResumeStart, HandlerReturn, At
<1>4. CASE \E s \in Signals : Send(s)
  BY <1>1, <1>4 DEF Send, Dying, Blocked
<1>5. ASSUME NEW s \in Signals, Deliver(s) PROVE Dying'
  <2>1. CASE Handled(s) /\ frames' = Append(frames, [fn |-> s, at |-> "start"]) /\ default' = Resets(s)
    <3>1. frames \in Seq(Places) /\ [fn |-> s, at |-> "start"] \in Places
      BY DEF TermInv, TermTypeOK, Places
    <3>2. \A i \in DOMAIN frames' : frames'[i].fn = s \/ (i \in DOMAIN frames /\ frames'[i] = frames[i])
      BY <2>1, <3>1
    <3>3. k # s /\ k \in default'
      BY <1>1, <2>1 DEF Handled, Resets
    <3> QED BY <1>1, <3>2, <3>3 DEF Dying, Blocked
  <2>2. CASE UNCHANGED <<frames, default>>
    BY <1>1, <2>2 DEF Dying, Blocked
  <2> QED BY <1>5, <2>1, <2>2 DEF Deliver
<1> QED BY <1>3, <1>4, <1>5

(* A handler that makes getchar fail is a kill's, which is pending again.   *)
LEMMA InterruptsDie ==
  ASSUME TermInv, TerminalStep, Interrupts
  PROVE  Dying' /\ stage' = "run"
<1>1. /\ frames \in Seq(Places) /\ Len(frames) = 1 /\ frames' = <<>> /\ frames[1].fn \in Kills
      /\ 1 \in Index /\ stage' = "run"
  BY DEF TermInv, TermTypeOK, Interrupts, Restarts, Signals, TerminalStep, Index
<1>2. frames[1].fn \in default
  BY <1>1 DEF TermInv, KillsPending
<1>3. default \subseteq default'
  BY DEF TerminalStep, Routine, Handlers, Deliver, Resets, EnterTest, EnterSet, EnterMark,
     LeaveTest, LeaveClear,
         LeaveRestore, KillStart, KillRaise, SuspendStart, SuspendRaise, ResumeStart, HandlerReturn,
         Elsewhere, signalVars
<1> QED BY <1>1, <1>2, <1>3 DEF Dying, Blocked

(* Nothing has been read. *)
LEMMA InputInit ==
  ASSUME NativeInit
  PROVE  InputHeld
BY DEF NativeInit, TermInit, InputHeld

(* Every step keeps what is known of the input. *)
LEMMA InputKeeps ==
  ASSUME TermInv, InputHeld, [NativeNext]_nativeVars
  PROVE  InputHeld'
<1>1. CASE Main \/ LoadCell \/ LoadEnds \/ LoadDefault \/ Start
  <2>1. /\ stage \in {"args", "load", "baked", "ready"} /\ reading = "no" /\ stdio = 0
        /\ reading' = reading /\ stdio' = stdio
    BY <1>1 DEF Main, LoadCell, LoadEnds, LoadDefault, Start, Stage, inputVars, InputHeld
  <2> QED BY <2>1 DEF InputHeld
<1>2. CASE SetUp
  <2>1. stage = "setup" /\ reading = "no" /\ stdio = 0 /\ reading' = reading /\ stdio' = stdio
    BY <1>2 DEF SetUp, Stage, inputVars, InputHeld
  <2> QED BY <2>1 DEF InputHeld
<1>3. CASE RawOn \/ RawOff \/ Peek \/ Halt \/ Read \/ PollReady \/ PollNone \/ GetKey \/ GetNothing
  <2>1. /\ stage = "run" /\ stage' \in {"run", "exit"} /\ tty_interactive' = tty_interactive
        /\ tty_interactive => stdio = 0 /\ stdio' = 0
    <3>1. CASE GetKey
      <4>1. tty_interactive => stdio = 0
        BY <3>1 DEF GetKey, Stage, InputHeld
      <4>2. stdio = 0 => ~(stdio > 0)
        OBVIOUS
      <4> QED BY <3>1, <4>1, <4>2 DEF GetKey, Stage, termVars, Unbuffered
    <3> QED BY <1>3, <3>1 DEF RawOn, RawOff, Peek, Halt, Exit, Read, PollReady, PollNone, GetNothing,
               Executes, Stage, termVars, inputVars, InputHeld
  <2>2. ~Dying
    BY <1>3, RunsNow DEF RawOn, RawOff, Peek, Halt, Read, PollReady, PollNone, GetKey, GetNothing,
                         Executes, Stage, Program
  <2>3. reading' = "poll" => tty_interactive
    BY <1>3 DEF TermInv, Wanting, RawOn, RawOff, Peek, Halt, Read, PollReady, PollNone, GetKey,
       GetNothing,
                inputVars, InputHeld, Executes
  <2>4. reading' = "eof" => closed'
    BY <1>3, <2>2 DEF RawOn, RawOff, Peek, Halt, Read, PollReady, PollNone, GetKey, GetNothing,
                Executes, inputVars
  <2> QED BY <2>1, <2>3, <2>4 DEF InputHeld
<1>4. CASE Ended \/ EndOfInput \/ Type \/ Close \/ UNCHANGED nativeVars
  <2>1. /\ reading' = reading /\ stdio' = stdio /\ tty_interactive' = tty_interactive
        /\ stage' = stage \/ (stage = "run" /\ stage' = "exit")
        /\ closed => closed'
    BY <1>4 DEF Ended, EndOfInput, Exit, Type, Close, Stage, inputVars, termVars, nativeVars
  <2>2. reading = "eof" /\ ~closed => UNCHANGED nativeVars
    BY <1>4, RunsNow DEF Ended, EndOfInput, Type, Close, Reading, Stage, Program, InputHeld
  <2>3. UNCHANGED nativeVars /\ Dying => Dying'
    BY DEF nativeVars, termVars, signalVars, Dying, Blocked
  <2> QED BY <2>1, <2>2, <2>3 DEF InputHeld, nativeVars
<1>5. CASE TerminalStep \/ Sent
  <2>1. /\ stage' = stage /\ stdio' = stdio /\ closed' = closed /\ tty_interactive' = tty_interactive
        /\ reading' = reading \/ (reading' = "eof" /\ Interrupts)
    <3>1. tty_interactive' = tty_interactive
      BY <1>5 DEF TerminalStep, Sent, Send, Routine, Handlers, Deliver, EnterTest, EnterSet,
         EnterMark, LeaveTest,
         LeaveClear, LeaveRestore, KillStart, KillRaise, SuspendStart, SuspendRaise, ResumeStart, HandlerReturn,
         Elsewhere
    <3> QED BY <1>5, <3>1 DEF TerminalStep, Sent, inputVars
  <2>2. Interrupts /\ TerminalStep => Dying' /\ stage' = "run"
    BY InterruptsDie
  <2>3. Dying => Dying'
    BY <1>5, DyingStays
  <2>4. Interrupts => TerminalStep
    BY <1>5 DEF Sent, Send, Interrupts
  <2> QED BY <2>1, <2>2, <2>3, <2>4 DEF InputHeld, Interrupts
<1> QED BY <1>1, <1>2, <1>3, <1>4, <1>5 DEF NativeNext

(* edit_peek and getchar, under signals and under stdio's buffer: "no key" *)
(* means that no key is waiting anywhere, and the end of input that the    *)
(* input has ended.                                                        *)
THEOREM AnswersTrue == NativeSpec => AnswersAreTrue
<1> DEFINE Told == /\ reading = "poll" /\ reading' = "no" => keys = 0 /\ stdio = 0
                   /\ reading = "eof" /\ stage' = "exit" => closed
<1>1. NativeInit => TermInv /\ InputHeld
  BY TermInvInit, InputInit
<1>2. TermInv /\ InputHeld /\ [NativeNext]_nativeVars => (TermInv /\ InputHeld)'
  BY TermInvKeeps, InputKeeps
<1>3. TermInv /\ InputHeld /\ [NativeNext]_nativeVars => [Told]_nativeVars
  <2> SUFFICES ASSUME TermInv, InputHeld, NativeNext
               PROVE  Told
    OBVIOUS
  <2>1. ASSUME reading = "poll", reading' = "no" PROVE keys = 0 /\ stdio = 0
    <3>1. tty_interactive /\ stdio = 0 /\ stage \in {"run", "exit"}
      BY <2>1 DEF InputHeld
    <3>2. PollNone
      BY <2>1, <3>1
         DEF NativeNext, Main, LoadCell, LoadEnds, SetUp, LoadDefault, Start, RawOn, RawOff, Peek, Halt,
             Ended,
            Read, PollReady, GetKey, GetNothing, EndOfInput, TerminalStep, Type, Close, Sent, Executes, inputVars
    <3> QED BY <3>1, <3>2 DEF PollNone
  <2>2. ASSUME reading = "eof", stage' = "exit" PROVE closed
    <3>1. CASE stage = "exit"
      BY <2>2, <3>1 DEF InputHeld
    <3>2. CASE stage # "exit"
      <4>1. Program
        BY <2>2, <3>2
           DEF NativeNext, Main, LoadCell, LoadEnds, SetUp, LoadDefault, Start, RawOn, RawOff, Peek,
               Halt, Ended,
              Read, PollReady, PollNone, GetKey, GetNothing, EndOfInput, TerminalStep, Type, Close, Sent,
              Stage, Executes
      <4>2. ~Dying
        BY <4>1, RunsNow DEF Program
      <4> QED BY <2>2, <4>2 DEF InputHeld
    <3> QED BY <3>1, <3>2
  <2> QED BY <2>1, <2>2
<1> QED BY <1>1, <1>2, <1>3, PTL DEF NativeSpec, AnswersAreTrue

-------------------------------------------------------------------------------
(* The image is loaded. *)

(* Powers of two count subsets, since the provers know nothing of exponents. *)
LEMMA PowerCounts ==
  ASSUME NEW k \in Nat
  PROVE  /\ IsFiniteSet(SUBSET (1 .. k)) /\ Cardinality(SUBSET (1 .. k)) = 2 ^ k
         /\ 2 ^ k \in Nat
<1>1. IsFiniteSet(1 .. k) /\ Cardinality(1 .. k) = k
  BY FS_Interval
<1>2. IsFiniteSet(SUBSET (1 .. k)) /\ Cardinality(SUBSET (1 .. k)) = 2 ^ Cardinality(1 .. k)
  BY <1>1, FS_SUBSET
<1>3. Cardinality(SUBSET (1 .. k)) \in Nat
  BY <1>2, FS_CardinalityType
<1> QED BY <1>1, <1>2, <1>3

(* A larger exponent has a larger power: there are more subsets. *)
LEMMA PowerGrows ==
  ASSUME NEW j \in Nat, NEW k \in Nat, j < k
  PROVE  2 ^ j < 2 ^ k
<1>1. SUBSET (1 .. j) \subseteq SUBSET (1 .. k)
  OBVIOUS
<1>2. 1 .. k \in SUBSET (1 .. k) /\ 1 .. k \notin SUBSET (1 .. j)
  <2>1. k \in 1 .. k /\ k \notin 1 .. j
    OBVIOUS
  <2> QED BY <2>1
<1>3. SUBSET (1 .. j) # SUBSET (1 .. k)
  BY <1>2
<1>4. Cardinality(SUBSET (1 .. j)) < Cardinality(SUBSET (1 .. k))
  <2>1. IsFiniteSet(SUBSET (1 .. k))
    BY PowerCounts
  <2>2. SUBSET (1 .. j) \in SUBSET (SUBSET (1 .. k))
    BY <1>1
  <2>3. /\ Cardinality(SUBSET (1 .. j)) <= Cardinality(SUBSET (1 .. k))
        /\ Cardinality(SUBSET (1 .. j)) # Cardinality(SUBSET (1 .. k))
    BY <1>3, <2>1, <2>2, FS_Subset, Zenon
  <2>4. Cardinality(SUBSET (1 .. j)) \in Nat /\ Cardinality(SUBSET (1 .. k)) \in Nat
    BY PowerCounts
  <2> QED BY <2>3, <2>4
<1> QED BY <1>4, PowerCounts

(* A new element doubles the subsets. *)
LEMMA PowerDoubles ==
  ASSUME NEW k \in Nat
  PROVE  2 ^ (k + 1) = 2 * 2 ^ k
<1> DEFINE A == 1 .. k
           x == k + 1
           Ax == {B \cup {x} : B \in SUBSET A}
           f == [B \in SUBSET A |-> B \cup {x}]
<1>0. x \notin A /\ 1 .. x = A \cup {x} /\ x \in Nat
  OBVIOUS
<1>1. SUBSET (1 .. x) = (SUBSET A) \cup Ax
  <2>1. ASSUME NEW C \in SUBSET (A \cup {x}) PROVE C \in (SUBSET A) \cup Ax
    <3>1. CASE x \in C
      <4>1. C = (C \ {x}) \cup {x} /\ C \ {x} \in SUBSET A
        BY <3>1
      <4> QED BY <4>1
    <3> QED BY <3>1
  <2>2. Ax \subseteq SUBSET (A \cup {x}) /\ SUBSET A \subseteq SUBSET (A \cup {x})
    OBVIOUS
  <2> QED BY <2>1, <2>2, <1>0
<1>2. f \in Bijection(SUBSET A, Ax)
  <2> HIDE DEF A, x
  <2>1. f \in [SUBSET A -> Ax]
    OBVIOUS
  <2>2. \A B, C \in SUBSET A : f[B] = f[C] => B = C
    BY <1>0
  <2>3. \A C \in Ax : \E B \in SUBSET A : f[B] = C
    OBVIOUS
  <2> QED BY <2>1, <2>2, <2>3, Zenon DEF Bijection, Injection, Surjection, IsInjective
<1>3. IsFiniteSet(Ax) /\ Cardinality(Ax) = Cardinality(SUBSET A)
  <2>1. ExistsBijection(SUBSET A, Ax)
    BY <1>2, Zenon DEF ExistsBijection
  <2> QED BY <2>1, PowerCounts, FS_Bijection, Zenon
<1>4. (SUBSET A) \cap Ax = {}
  <2> HIDE DEF A, x
  <2> QED BY <1>0
<1> HIDE DEF Ax, f
<1>5. Cardinality(SUBSET (1 .. x)) = Cardinality(SUBSET A) + Cardinality(Ax) - Cardinality((SUBSET A) \cap Ax)
  <2>1. IsFiniteSet(SUBSET A)
    BY PowerCounts
  <2>2. Cardinality((SUBSET A) \cup Ax) = Cardinality(SUBSET A) + Cardinality(Ax) - Cardinality((SUBSET A) \cap Ax)
    BY <2>1, <1>3, FS_Union, Zenon
  <2> QED BY <1>1, <2>2
<1>6. Cardinality((SUBSET A) \cap Ax) = 0
  BY <1>4, FS_EmptySet
<1>7. Cardinality(SUBSET (1 .. x)) = 2 ^ (k + 1)
  BY <1>0, PowerCounts
<1>8. Cardinality(SUBSET A) = 2 ^ k /\ 2 ^ k \in Nat
  BY PowerCounts
<1> QED BY <1>3, <1>5, <1>6, <1>7, <1>8

(* A source of cells whose first k have been put into an arena.            *)
Filled(size, k, source) == [i \in 0 .. size - 1 |-> IF i < k THEN source[i + 1] ELSE 0]

Arena(size, k, source) ==
  [m |-> Filled(size, k, source), size |-> size, mask |-> size - 1]

Whole(k, source) ==
  \E size \in PowersOfTwo \cap (MinCells .. MaxCells) : k <= size /\ img = Arena(size, k, source)

FileCells == [i \in DOMAIN file |-> Cell(file[i].value)]

Tokens == Seq([number : BOOLEAN, value : Int])

(* The loader at each stage: what is in the arena, and that nothing was    *)
(* refused that could have been loaded.                                    *)
Loading ==
  /\ file \in Tokens
  /\ stage = "load" => /\ n \in 0 .. Len(file) /\ \A i \in 1 .. n : GoodCell(file[i])
                       /\ Whole(n, FileCells)
  /\ stage \in {"setup", "ready"} /\ file # <<>> => Whole(Len(file), FileCells)
  /\ stage = "setup" /\ file = <<>> => img = NoImage
  /\ stage = "ready" /\ file = <<>> => Whole(Len(DefaultImage), DefaultImage)
  /\ stage \in {"args", "baked", "run"} => file = <<>>
  /\ stage = "args" => img = NoImage
  /\ stage = "exit" /\ ~failed => ~Loadable

(* Powers of two are natural numbers, and twice one that is below another  *)
(* is one too and not above it.                                            *)
LEMMA Powers ==
  /\ PowersOfTwo \subseteq Nat \ {0}
  /\ \A a, b \in PowersOfTwo : a < b => 2 * a \in PowersOfTwo /\ 2 * a <= b
<1>1. ASSUME NEW k \in Nat PROVE 2 ^ k \in Nat \ {0}
  <2>1. 2 ^ k \in Nat /\ 2 ^ 0 \in Nat
    BY PowerCounts
  <2>2. CASE k = 0
    BY <2>2
  <2>3. CASE k > 0
    <3>1. 2 ^ 0 < 2 ^ k
      BY <2>3, PowerGrows
    <3> QED BY <3>1, <2>1
  <2> QED BY <2>2, <2>3
<1>2. ASSUME NEW j \in 0 .. Width, NEW k \in 0 .. Width, 2 ^ j < 2 ^ k
      PROVE  2 * 2 ^ j \in PowersOfTwo /\ 2 * 2 ^ j <= 2 ^ k
  <2>1. Width \in Nat /\ j \in Nat /\ k \in Nat /\ j + 1 \in Nat
    BY CellsAssumption
  <2>2. 2 ^ j \in Nat /\ 2 ^ k \in Nat
    BY <2>1, PowerCounts
  <2>3. j < k
    <3>1. CASE k < j
      <4>1. 2 ^ k < 2 ^ j
        BY <3>1, <2>1, PowerGrows
      <4> QED BY <4>1, <1>2, <2>2
    <3>2. CASE k = j
      BY <3>2, <1>2, <2>2
    <3> QED BY <3>1, <3>2, <2>1
  <2>4. 2 ^ (j + 1) = 2 * 2 ^ j
    BY <2>1, PowerDoubles
  <2>5. j + 1 \in 0 .. Width
    BY <2>1, <2>3
  <2>6. 2 ^ (j + 1) <= 2 ^ k
    <3>1. CASE j + 1 < k
      <4>1. 2 ^ (j + 1) < 2 ^ k
        BY <3>1, <2>1, PowerGrows
      <4>2. 2 ^ (j + 1) \in Nat
        BY <2>1, PowerCounts
      <4> QED BY <4>1, <4>2, <2>2
    <3>2. CASE j + 1 = k
      BY <3>2, <2>2
    <3> QED BY <3>1, <3>2, <2>1, <2>3
  <2>7. 2 ^ (j + 1) \in PowersOfTwo
    BY <2>5 DEF PowersOfTwo
  <2> QED BY <2>4, <2>6, <2>7
<1>3. Width \in Nat
  BY CellsAssumption
<1> QED BY <1>1, <1>2, <1>3 DEF PowersOfTwo

(* alloc_muxleq takes the least arena that holds the cells.                *)
LEMMA ArenaFits ==
  ASSUME NEW cells \in Nat, ~TooLong(cells)
  PROVE  /\ SizeFor(cells) \in PowersOfTwo /\ SizeFor(cells) \in MinCells .. MaxCells
         /\ cells <= SizeFor(cells)
<1> DEFINE T == {s \in PowersOfTwo : s >= MinCells /\ s >= cells}
<1>1. PowersOfTwo \subseteq Nat /\ {MinCells, MaxCells} \subseteq PowersOfTwo /\ MinCells <= MaxCells
  BY Powers, CellsAssumption
<1>2. /\ MinCells \in Nat /\ MaxCells \in Nat /\ MaxCells >= MinCells /\ MaxCells >= cells
      /\ T \subseteq Nat /\ MaxCells \in T
  <2>1. MinCells \in Nat /\ MaxCells \in Nat
    BY <1>1
  <2>2. MaxCells >= MinCells /\ MaxCells >= cells
    BY <1>1, <2>1 DEF TooLong
  <2> QED BY <1>1, <2>1, <2>2
<1>3. \E s \in T : \A r \in T : s <= r
  <2> HIDE DEF T
  <2>1. PICK s \in T : \A r \in T : ~(<<r, s>> \in OpToRel(<, Nat))
    BY <1>2, NatLessThanWellFounded, WFMin, Zenon
  <2>2. \A r \in T : r < s => <<r, s>> \in OpToRel(<, Nat)
    BY <1>2 DEF OpToRel
  <2>3. \A r \in T : ~(r < s)
    BY <2>1, <2>2, Zenon
  <2>4. \A r \in T : s <= r
    BY <1>2, <2>3
  <2> QED BY <2>4
<1>4. \E s \in PowersOfTwo :
        /\ s >= MinCells /\ s >= cells
        /\ \A r \in PowersOfTwo : r >= MinCells /\ r >= cells => s <= r
  BY <1>3
<1>5. /\ SizeFor(cells) \in PowersOfTwo /\ SizeFor(cells) >= MinCells /\ SizeFor(cells) >= cells
      /\ SizeFor(cells) <= MaxCells
  <2>1. MaxCells \in PowersOfTwo
    BY <1>1
  <2> QED BY <1>2, <1>4, <2>1 DEF SizeFor
<1>6. SizeFor(cells) \in Nat
  BY <1>1, <1>5
<1> QED BY <1>2, <1>5, <1>6

(* A new arena, one that takes a cell, one that grows.                     *)
LEMMA Arenas ==
  ASSUME NEW size \in Nat \ {0}, NEW source
  PROVE  /\ Zeroed(size) = Arena(size, 0, source)
         /\ \A k \in 0 .. size - 1 : \A tok : source[k + 1] = Cell(tok.value) =>
              Stored(Arena(size, k, source), k, tok) = Arena(size, k + 1, source)
         /\ Grown(Arena(size, size, source)) = Arena(2 * size, size, source)
<1>1. Zeroed(size) = Arena(size, 0, source)
  BY DEF Zeroed, Arena, Filled
<1>2. ASSUME NEW k \in 0 .. size - 1, NEW tok, source[k + 1] = Cell(tok.value)
      PROVE  Stored(Arena(size, k, source), k, tok) = Arena(size, k + 1, source)
  <2>1. [Filled(size, k, source) EXCEPT ![k] = source[k + 1]] = Filled(size, k + 1, source)
    <3>1. \A i \in 0 .. size - 1 : i < k + 1 <=> i < k \/ i = k
      OBVIOUS
    <3>2. \A i \in 0 .. size - 1 :
            [Filled(size, k, source) EXCEPT ![k] = source[k + 1]][i]
              = IF i < k + 1 THEN source[i + 1] ELSE 0
      BY <3>1 DEF Filled
    <3> QED BY <3>2 DEF Filled
  <2> QED BY <1>2, <2>1 DEF Stored, Arena
<1>3. Grown(Arena(size, size, source)) = Arena(2 * size, size, source)
  <2>1. [i \in 0 .. 2 * size - 1 |-> IF i < size THEN Filled(size, size, source)[i] ELSE 0]
          = Filled(2 * size, size, source)
    BY DEF Filled
  <2> QED BY <2>1 DEF Grown, Arena
<1> QED BY <1>1, <1>2, <1>3

(* A new arena is whole: zeros. *)
LEMMA NewIsWhole ==
  ASSUME NEW cells \in Nat, ~TooLong(cells), img' = alloc_muxleq(cells), NEW source
  PROVE  Whole(0, source)'
<1>1. /\ SizeFor(cells) \in PowersOfTwo \cap (MinCells .. MaxCells)
      /\ SizeFor(cells) \in Nat \ {0}
  BY ArenaFits, Powers
<1>2. img' = Arena(SizeFor(cells), 0, source)
  BY <1>1, Arenas DEF alloc_muxleq
<1> QED BY <1>1, <1>2 DEF Whole

(* load_default copies all of the baked image. *)
LEMMA CopiedIsWhole ==
  ASSUME NEW source \in Seq(Int), ~TooLong(Len(source)), img' = Copied(alloc_muxleq(Len(source)), source)
  PROVE  Whole(Len(source), source)'
<1>1. /\ SizeFor(Len(source)) \in PowersOfTwo \cap (MinCells .. MaxCells)
      /\ Len(source) <= SizeFor(Len(source))
  BY ArenaFits
<1>2. img' = Arena(SizeFor(Len(source)), Len(source), source)
  BY DEF Copied, alloc_muxleq, Zeroed, Arena, Filled
<1> QED BY <1>1, <1>2 DEF Whole

(* grow_muxleq doubles an arena that is full and keeps what is in it. *)
LEMMA StoredIsWhole ==
  ASSUME NEW k \in Nat, NEW source, Whole(k, source), Full(img, k) => ~CannotGrow(img),
         NEW tok, source[k + 1] = Cell(tok.value), img' = Stored(Roomy(img, k), k, tok)
  PROVE  Whole(k + 1, source)'
<1>1. PICK size \in PowersOfTwo \cap (MinCells .. MaxCells) : k <= size /\ img = Arena(size, k, source)
  BY DEF Whole
<1>2. size \in Nat \ {0} /\ MaxCells \in PowersOfTwo /\ MaxCells \in Nat /\ MinCells \in Nat /\ img.size = size
  BY <1>1, Powers, CellsAssumption DEF Arena
<1>3. CASE k = size
  <2>1. Full(img, k) /\ size < MaxCells
    BY <1>2, <1>3 DEF Full, CannotGrow
  <2>2. 2 * size \in PowersOfTwo /\ 2 * size <= MaxCells
    BY <1>2, <2>1, Powers
  <2>3. Roomy(img, k) = Arena(2 * size, k, source)
    BY <1>1, <1>2, <1>3, <2>1, Arenas DEF Roomy
  <2>4. img' = Arena(2 * size, k + 1, source)
    BY <1>2, <1>3, <2>3, Arenas
  <2>5. 2 * size \in MinCells .. MaxCells /\ k + 1 <= 2 * size
    BY <1>1, <1>2, <1>3, <2>2
  <2> QED BY <2>2, <2>4, <2>5 DEF Whole
<1>4. CASE k # size
  <2>1. ~Full(img, k) /\ k \in 0 .. size - 1
    BY <1>1, <1>2, <1>4 DEF Full
  <2>2. img' = Arena(size, k + 1, source)
    BY <1>1, <1>2, <2>1, Arenas DEF Roomy
  <2> QED BY <1>1, <1>2, <2>1, <2>2 DEF Whole
<1> QED BY <1>3, <1>4

(* Nothing has been loaded. *)
LEMMA LoadingInit ==
  ASSUME NativeInit
  PROVE  Loading
BY DEF NativeInit, Loading, Tokens

(* The command line: a file is opened, none is named, or main gives up. *)
LEMMA MainLoads ==
  ASSUME Loading, Main
  PROVE  Loading'
<1>1. file = <<>> /\ file \in Tokens /\ img = NoImage /\ ~Loadable
  BY DEF Main, Stage, Loading, Loadable
<1>2. CASE Exit /\ UNCHANGED <<file, n, img>>
  BY <1>1, <1>2 DEF Exit, Loading, Loadable
<1>3. CASE stage' = "setup" /\ UNCHANGED loadVars
  BY <1>1, <1>3 DEF Loading, loadVars
<1>4. CASE file' \in Files /\ img' = alloc_muxleq(1) /\ n' = 0 /\ stage' = "load"
  <2>1. file' \in Tokens
    BY <1>4, FilesAssumption DEF Tokens
  <2>2. ~TooLong(1)
    <3>1. MaxCells \in Nat \ {0}
      BY Powers, CellsAssumption
    <3> QED BY <3>1 DEF TooLong
  <2>3. \A source : Whole(0, source)'
    BY <1>4, <2>2, NewIsWhole
  <2>4. Whole(0, FileCells)'
    BY <2>3 DEF Whole
  <2> QED BY <1>4, <2>1, <2>4 DEF Loading, Tokens
<1> QED BY <1>2, <1>3, <1>4 DEF Main, loadVars

(* load_muxleq stores a cell, or dies of what cannot be loaded. *)
LEMMA CellLoads ==
  ASSUME Loading, LoadCell
  PROVE  Loading'
<1>1. /\ stage = "load" /\ file \in Tokens /\ n \in 0 .. Len(file) /\ n < Len(file)
      /\ \A i \in 1 .. n : GoodCell(file[i])
      /\ Whole(n, FileCells)
  BY DEF LoadCell, Stage, Loading
<1>2. Len(file) \in Nat /\ n \in Nat /\ n + 1 \in DOMAIN file
  BY <1>1 DEF Tokens
<1>3. CASE (~GoodCell(file[n + 1]) \/ (Full(img, n) /\ CannotGrow(img))) /\ Exit /\ UNCHANGED loadVars
  <2>1. ASSUME Full(img, n), CannotGrow(img) PROVE Len(file) > MaxCells
    <3>1. PICK size \in PowersOfTwo \cap (MinCells .. MaxCells) : img.size = size
      BY <1>1 DEF Whole, Arena
    <3>2. size \in Nat /\ MaxCells \in Nat
      BY <3>1, Powers, CellsAssumption
    <3> QED BY <1>1, <1>2, <2>1, <3>1, <3>2 DEF Full, CannotGrow
  <2>2. ~Loadable
    <3>1. MaxCells \in Nat
      BY Powers, CellsAssumption
    <3> QED BY <1>2, <1>3, <2>1, <3>1 DEF Loadable
  <2> QED BY <1>1, <1>3, <2>2 DEF Exit, Loading, Loadable, loadVars
<1>4. CASE failed' = TRUE /\ Exit /\ UNCHANGED <<file, n, img>>
  BY <1>1, <1>4 DEF Exit, Loading
<1>5. CASE /\ GoodCell(file[n + 1]) /\ (Full(img, n) => ~CannotGrow(img))
           /\ img' = Stored(Roomy(img, n), n, file[n + 1]) /\ n' = n + 1
           /\ UNCHANGED <<file, failed, termVars, stage>>
  <2>1. PICK k, source : k = n /\ source = FileCells
    OBVIOUS
  <2>2. source[k + 1] = Cell(file[n + 1].value)
    BY <1>2, <2>1 DEF FileCells
  <2>3. Whole(k + 1, source)'
    BY <1>1, <1>2, <1>5, <2>1, <2>2, StoredIsWhole
  <2>4. n' = k + 1 /\ FileCells' = source
    BY <1>5, <2>1 DEF FileCells
  <2>5. \A i \in 1 .. n' : GoodCell(file'[i])
    BY <1>1, <1>2, <1>5
  <2> QED BY <1>1, <1>2, <1>5, <2>3, <2>4, <2>5 DEF Loading, Whole
<1> QED BY <1>3, <1>4, <1>5 DEF LoadCell

(* load_muxleq at the end of the file. *)
LEMMA FileEnds ==
  ASSUME Loading, LoadEnds
  PROVE  Loading'
<1>1. stage = "load" /\ file \in Tokens /\ n = Len(file) /\ Whole(n, FileCells) /\ UNCHANGED <<file, n, img>>
  BY DEF LoadEnds, Stage, Loading
<1>2. CASE failed' = TRUE /\ Exit
  BY <1>1, <1>2 DEF Exit, Loading
<1>3. CASE n = 0 /\ Exit /\ UNCHANGED failed
  <2>1. file = <<>>
    BY <1>1, <1>3, EmptySeq DEF Tokens
  <2> QED BY <1>1, <1>3, <2>1 DEF Exit, Loading, Loadable
<1>4. CASE n > 0 /\ stage' = "setup"
  <2>1. file # <<>>
    BY <1>1, <1>4
  <2> QED BY <1>1, <1>4, <2>1 DEF Loading, Whole, FileCells
<1> QED BY <1>2, <1>3, <1>4 DEF LoadEnds

(* terminal_setup comes between the file and the baked image. *)
LEMMA SetUpLoads ==
  ASSUME Loading, SetUp
  PROVE  Loading'
<1>1. /\ stage = "setup" /\ stage' = IF img = NoImage THEN "baked" ELSE "ready"
      /\ UNCHANGED <<file, n, img, failed>>
  BY DEF SetUp, Stage, loadVars
<1>2. CASE file = <<>>
  BY <1>1, <1>2 DEF Loading
<1>3. CASE file # <<>>
  <2>1. Whole(Len(file), FileCells)
    BY <1>1, <1>3 DEF Loading
  <2>2. img # NoImage
    BY <2>1, Powers DEF Whole, Arena, NoImage
  <2> QED BY <1>1, <1>3, <2>1, <2>2 DEF Loading, Whole, FileCells
<1> QED BY <1>2, <1>3

(* The baked image is loaded when no file was named. *)
LEMMA DefaultLoads ==
  ASSUME Loading, LoadDefault
  PROVE  Loading'
<1>1. stage = "baked" /\ file = <<>> /\ file \in Tokens /\ UNCHANGED <<file, n>>
  BY DEF LoadDefault, Stage, Loading
<1>2. CASE ~TooLong(Len(DefaultImage)) /\ img' = Copied(alloc_muxleq(Len(DefaultImage)), DefaultImage)
           /\ stage' = "ready"
  <2>1. DefaultImage \in Seq(Int)
    BY FilesAssumption, PowerCounts, CellsAssumption
  <2>2. Whole(Len(DefaultImage), DefaultImage)'
    BY <1>2, <2>1, CopiedIsWhole
  <2> QED BY <1>1, <1>2, <2>2 DEF Loading
<1>3. CASE Exit
  BY <1>1, <1>3 DEF Exit, Loading, Loadable
<1> QED BY <1>2, <1>3 DEF LoadDefault

(* Every step keeps the loader's invariant. *)
LEMMA LoadingKeeps ==
  ASSUME Loading, [NativeNext]_nativeVars
  PROVE  Loading'
<1>1. CASE Start
  BY <1>1 DEF Start, Stage, Loading, Tokens
<1>2. CASE Exit /\ stage = "run" /\ UNCHANGED loadVars
  BY <1>2 DEF Exit, Loading, Loadable, loadVars
<1>3. CASE stage' = stage /\ UNCHANGED loadVars
  BY <1>3 DEF Loading, Loadable, loadVars, Whole, FileCells
<1>4. Halt \/ EndOfInput => Exit /\ stage = "run" /\ UNCHANGED loadVars
  BY DEF Halt, EndOfInput, Executes, Stage
<1>5. RawOn \/ RawOff \/ Peek \/ Ended \/ Read \/ PollReady \/ PollNone \/ GetKey \/ GetNothing
        \/ TerminalStep \/ Type \/ Close \/ Sent \/ UNCHANGED nativeVars
      => stage' = stage /\ UNCHANGED loadVars
  BY DEF RawOn, RawOff, Peek, Ended, Read, PollReady, PollNone, GetKey, GetNothing, TerminalStep,
         Type, Close, Sent, nativeVars
<1> QED BY <1>1, <1>2, <1>3, <1>4, <1>5, MainLoads, CellLoads, FileEnds, SetUpLoads, DefaultLoads
        DEF NativeNext

(* It is the property once the arena is whole. *)
LEMMA WholeIsLoaded ==
  ASSUME Loading
  PROVE  LoadsWhole
<1>1. ASSUME stage = "ready" PROVE Whole(Len(Source), Source)
  <2>1. CASE file = <<>>
    BY <1>1, <2>1 DEF Loading, Source
  <2>2. CASE file # <<>>
    <3>1. Source = FileCells /\ Len(Source) = Len(file)
      BY <2>2 DEF Source, FileCells, Loading, Tokens
    <3> QED BY <1>1, <2>2, <3>1 DEF Loading
  <2> QED BY <2>1, <2>2
<1>2. ASSUME stage = "ready"
      PROVE  /\ img.size \in PowersOfTwo /\ img.mask = img.size - 1
             /\ img.size \in MinCells .. MaxCells
             /\ Len(Source) <= img.size
             /\ img.m = [i \in 0 .. img.size - 1 |-> IF i < Len(Source) THEN Source[i + 1] ELSE 0]
  BY <1>1, <1>2 DEF Whole, Arena, Filled
<1>3. stage = "exit" /\ ~failed => ~Loadable
  BY DEF Loading
<1> QED BY <1>2, <1>3 DEF LoadsWhole

(* alloc_muxleq, grow_muxleq, load_muxleq and load_default: the image that *)
(* runs is the file, cell by cell, or the baked one, then zeros, in an     *)
(* arena of a power of two that the mask fits; and nothing is refused but  *)
(* what must be.                                                           *)
THEOREM RunsWhatIsThere == NativeSpec => []LoadsWhole
<1>1. NativeInit => Loading
  BY LoadingInit
<1>2. Loading /\ [NativeNext]_nativeVars => Loading'
  BY LoadingKeeps
<1>3. Loading => LoadsWhole
  BY WholeIsLoaded
<1> QED BY <1>1, <1>2, <1>3, PTL DEF NativeSpec
=============================================================================
