----------------------------- MODULE LoweringProofs ----------------------------
(***************************************************************************)
(* ImplementsISA, continued from RvoptProofs: register shifts, dispatch,   *)
(* indirect jumps, guest memory and write.  The lemmas go block by block:  *)
(* where the pieces of an emitter are (Holds), what each piece does to the *)
(* cells (Gets, Alike), and that the whole does what the instruction means *)
(* (Means).  A loop in a block, and a loop that emits one, is an induction *)
(* on its rounds.                                                          *)
(***************************************************************************)
EXTENDS RvoptProofs

------------------------------------------------------------------------------
(* Code made of as many pieces as there are in a sequence: off says where  *)
(* each begins.                                                            *)
Offsets(off, s) ==
  /\ Len(s) \in Nat /\ off \in [1 .. Len(s) + 1 -> Nat] /\ off[1] = 0
  /\ \A k \in 1 .. Len(s) : Sized(s[k], off[k + 1] - off[k])

LEMMA PiecesAre ==
  ASSUME NEW s, NEW off, Offsets(off, s), Len(s) = 0 => s = <<>>
  PROVE  /\ Sized(FlattenSeq(s), off[Len(s) + 1])
         /\ \A c, p : Holds(c, p, FlattenSeq(s)) =>
              \A k \in 1 .. Len(s) : Holds(c, p + off[k], s[k])
<1> DEFINE n == Len(s)
<1>0. n \in Nat /\ off \in [1 .. n + 1 -> Nat] /\ off[1] = 0
      /\ \A k \in 1 .. n : Sized(s[k], off[k + 1] - off[k])
  BY DEF Offsets
<1>1. CASE n = 0
  <2>1. FlattenSeq(s) = <<>> /\ off[n + 1] = 0 /\ 1 .. n = {}
    BY <1>0, <1>1 DEF FlattenSeq
  <2> QED BY <2>1, EmptyIs DEF Sized
<1>2. CASE n # 0
  <2>1. PICK g : Flattening(g, s, n) /\ FlattenSeq(s) = g[n]
    BY <1>0, <1>2, FlattenIs
  <2> HIDE DEF n
  <2>2. \A k \in 1 .. n : g[k] = IF k = 1 THEN s[k] ELSE g[k - 1] \o s[k]
    BY <2>1 DEF Flattening
  <2> DEFINE Laid(k) == /\ Sized(g[k], off[k + 1])
                        /\ \A c, p : Holds(c, p, g[k]) => \A j \in 1 .. k : Holds(c, p + off[j], s[j])
             S == {k \in Nat : k \in 1 .. n => Laid(k)}
  <2>3. 0 \in S
    OBVIOUS
  <2>4. ASSUME NEW k \in Nat, k \in S PROVE k + 1 \in S
    <3> SUFFICES ASSUME k + 1 \in 1 .. n PROVE Laid(k + 1)
      OBVIOUS
    <3> DEFINE j == k + 1
    <3>1. /\ j \in 1 .. n + 1 /\ j + 1 \in 1 .. n + 1 /\ off[j] \in Nat /\ off[j + 1] \in Nat
          /\ Sized(s[j], off[j + 1] - off[j]) /\ g[j] = IF j = 1 THEN s[j] ELSE g[j - 1] \o s[j]
      BY <1>0, <2>2
    <3>2. CASE k = 0
      <4>1. g[j] = s[j] /\ j = 1 /\ off[j] = 0 /\ off[j + 1] - off[j] = off[j + 1]
        BY <1>0, <3>1, <3>2
      <4>2. \A c, p : Holds(c, p, s[j]) => p + 0 = p
        BY DEF Holds
      <4>3. 1 .. j = {j}
        BY <4>1
      <4> QED BY <3>1, <4>1, <4>2, <4>3
    <3>3. CASE k # 0
      <4>1. g[j] = g[k] \o s[j] /\ k \in 1 .. n /\ Laid(k)
        <5>1. k \in 1 .. n /\ j - 1 = k /\ j # 1
          BY <1>0, <3>3
        <5>2. Laid(k)
          BY <2>4, <5>1
        <5> QED BY <3>1, <5>1, <5>2
      <4> DEFINE r == off[j]
                 w == off[j + 1] - off[j]
      <4>2. Sized(g[k], r) /\ Sized(s[j], w) /\ r + w = off[j + 1]
        BY <3>1, <4>1
      <4> HIDE DEF r, w
      <4>3. Sized(g[k] \o s[j], r + w)
        BY <4>2, SizedJoin
      <4>4. ASSUME NEW c, NEW p, Holds(c, p, g[k] \o s[j])
            PROVE  Holds(c, p, g[k]) /\ Holds(c, p + r, s[j])
        BY <4>2, <4>4, SizedSplit
      <4>5. \A c, p : Holds(c, p, g[j]) => \A l \in 1 .. j : Holds(c, p + off[l], s[l])
        <5> SUFFICES ASSUME NEW c, NEW p, Holds(c, p, g[j]), NEW l \in 1 .. j
                     PROVE  Holds(c, p + off[l], s[l])
          OBVIOUS
        <5>1. Holds(c, p, g[k]) /\ Holds(c, p + r, s[j])
          BY <4>1, <4>4
        <5>2. l \in 1 .. k \/ l = j
          OBVIOUS
        <5> QED BY <4>1, <5>1, <5>2 DEF r
      <4> QED BY <4>1, <4>2, <4>3, <4>5
    <3> QED BY <3>2, <3>3
  <2> HIDE DEF S
  <2>5. Nat \subseteq S
    BY <2>3, <2>4, AllNaturals
  <2>6. Laid(n)
    <3>1. n \in 1 .. n /\ n \in S
      <4>1. n \in Nat /\ n # 0
        BY <1>0, <1>2
      <4> HIDE DEF n, S
      <4> QED BY <2>5, <4>1
    <3> HIDE DEF n
    <3> QED BY <3>1 DEF S
  <2> QED BY <2>1, <2>6 DEF n
<1> QED BY <1>1, <1>2

------------------------------------------------------------------------------
(* Computed jumps: the comparisons, one after the other, find the address  *)
(* if the image knows it.                                                  *)
Try(cell, a)       == ne32(cell, ADDR(a), 5) \o jump32(Native(a))
Tries(cell, known) == [k \in 1 .. Len(known) |-> Try(cell, known[k])]

LEMMA DispatchIs ==
  ASSUME NEW cell, NEW known
  PROVE  emit_dispatch32(cell, known) = FlattenSeq(Tries(cell, known)) \o jump32(HALT)
BY DEF emit_dispatch32, Each, Tries, Try

LEMMA TryIs ==
  ASSUME NEW cell, NEW a
  PROVE  /\ Sized(Try(cell, a), 5)
         /\ \A c, p : Holds(c, p, Try(cell, a)) =>
              Holds(c, p, ne32(cell, ADDR(a), 5)) /\ Holds(c, p + 4, jump32(Native(a)))
<1> DEFINE u == ne32(cell, ADDR(a), 5)
           v == jump32(Native(a))
<1>1. Sized(u, 4) /\ Sized(v, 1) /\ Try(cell, a) = u \o v
  BY SizesAre DEF Try
<1> HIDE DEF u, v
<1>2. Sized(u \o v, 4 + 1)
  BY <1>1, SizedJoin
<1>3. ASSUME NEW c, NEW p, Holds(c, p, u \o v) PROVE Holds(c, p, u) /\ Holds(c, p + 4, v)
  BY <1>1, <1>3, SizedSplit
<1> QED BY <1>1, <1>2, <1>3 DEF u, v

LEMMA TriesAre ==
  ASSUME NEW cell, NEW known, NEW n \in Nat, Len(known) = n
  PROVE  LET s == Tries(cell, known)
         IN  /\ Sized(FlattenSeq(s), 5 * n)
             /\ \A c, p : Holds(c, p, FlattenSeq(s)) =>
                  \A k \in 1 .. n : Holds(c, p + 5 * (k - 1), Try(cell, known[k]))
<1> DEFINE s == Tries(cell, known)
           off == [k \in 1 .. n + 1 |-> 5 * (k - 1)]
<1>1. s = [k \in 1 .. n |-> Try(cell, known[k])]
  BY DEF Tries
<1> HIDE DEF s
<1>2. Len(s) = n /\ \A k \in 1 .. n : s[k] = Try(cell, known[k])
  BY <1>1
<1>3. off \in [1 .. n + 1 -> Nat] /\ off[1] = 0 /\ off[n + 1] = 5 * n
      /\ \A k \in 1 .. n : off[k] = 5 * (k - 1) /\ off[k + 1] - off[k] = 5
  OBVIOUS
<1> HIDE DEF off
<1>4. Offsets(off, s)
  <2>1. ASSUME NEW k \in 1 .. n PROVE Sized(s[k], off[k + 1] - off[k])
    BY <1>2, <1>3, TryIs
  <2> QED BY <1>2, <1>3, <2>1 DEF Offsets
<1>5. Len(s) = 0 => s = <<>>
  BY <1>1, <1>2
<1>6. /\ Sized(FlattenSeq(s), off[Len(s) + 1])
      /\ \A c, p : Holds(c, p, FlattenSeq(s)) => \A k \in 1 .. Len(s) : Holds(c, p + off[k], s[k])
  BY <1>4, <1>5, PiecesAre
<1> QED BY <1>2, <1>3, <1>6 DEF s

LEMMA DispatchPieces ==
  ASSUME NEW cell, NEW known, NEW n \in Nat, Len(known) = n
  PROVE  LET d == emit_dispatch32(cell, known)
         IN  /\ Sized(d, 5 * n + 1)
             /\ \A c, p : Holds(c, p, d) =>
                  /\ \A k \in 1 .. n : Holds(c, p + 5 * (k - 1), Try(cell, known[k]))
                  /\ Holds(c, p + 5 * n, jump32(HALT))
<1> DEFINE s == FlattenSeq(Tries(cell, known))
           h == jump32(HALT)
           r == 5 * n
<1>1. Sized(s, r) /\ Sized(h, 1) /\ emit_dispatch32(cell, known) = s \o h
  BY TriesAre, SizesAre, DispatchIs
<1>2. \A c, p : Holds(c, p, s) => \A k \in 1 .. n : Holds(c, p + 5 * (k - 1), Try(cell, known[k]))
  BY TriesAre
<1> HIDE DEF s, h, r
<1>3. Sized(s \o h, r + 1)
  BY <1>1, SizedJoin
<1>4. ASSUME NEW c, NEW p, Holds(c, p, s \o h) PROVE Holds(c, p, s) /\ Holds(c, p + r, h)
  BY <1>1, <1>4, SizedSplit
<1> QED BY <1>1, <1>2, <1>3, <1>4 DEF r, h

(* Where the run is after the comparison with a at p.                      *)
Tried(v, a, p) == IF v = a THEN Native(a) ELSE p + 5

LEMMA RunsTry ==
  ASSUME NEW c, NEW i, Lowerable(i), NEW p, NEW m, Good(i, m), NEW cell \in NamesOf(i),
         NEW a \in i.known, Holds(c, p, Try(cell, a))
  PROVE  \E n : Gets(c, i, p, m, Tried(m[cell], a, p), n) /\ Alike(i, m, n, Temps)
<1> DEFINE b == ADDR(a)
<1>1. Holds(c, p, ne32(cell, b, 5)) /\ Holds(c, p + 4, jump32(Native(a))) /\ p \in Nat
  <2>1. p \in Nat
    BY DEF Holds
  <2> QED BY <2>1, TryIs
<1>2. b \in Source(i) /\ m[b] = a
  BY ConstantsAre, PoolValues
<1>3. To(p, 5) = p + 5 /\ To(p + 4, Native(a)) = Native(a)
  <2>1. a \in Nat
    BY CellIs, PowerIs DEF Lowerable
  <2> QED BY <1>1, <2>1, ToNative DEF To, HALT
<1> HIDE DEF b
<1>4. 5 \in Int
  OBVIOUS
<1>5. PICK n : /\ Gets(c, i, p, m, IF m[cell] # m[b] THEN To(p, 5) ELSE p + 4, n)
               /\ Alike(i, m, n, Temps)
  BY <1>1, <1>2, <1>4, RunsUnequal
<1>6. CASE m[cell] = a
  <2>1. Gets(c, i, p, m, p + 4, n)
    BY <1>2, <1>5, <1>6
  <2>2. Gets(c, i, p, m, To(p + 4, Native(a)), n)
    BY <1>1, <2>1, JumpOn
  <2> QED BY <1>3, <1>5, <1>6, <2>2 DEF Tried
<1>7. CASE m[cell] # a
  <2>1. Gets(c, i, p, m, p + 5, n)
    BY <1>2, <1>3, <1>5, <1>7
  <2> QED BY <1>5, <1>7, <2>1 DEF Tried
<1> QED BY <1>6, <1>7

(* Where the comparisons leave the run: at the address, or at the halt.    *)
Found(v, known) == IF v \in known THEN Native(v) ELSE HALT

Lists(known, S, n) ==
  Len(known) = n /\ (\A k \in 1 .. n : known[k] \in S) /\ \A a \in S : \E k \in 1 .. n : known[k] = a

LEMMA RunsDispatch ==
  ASSUME NEW c, NEW i, Lowerable(i), NEW p, NEW m, Good(i, m), NEW cell \in NamesOf(i) \ Temps,
         NEW known, NEW n \in Nat, Lists(known, i.known, n),
         Holds(c, p, emit_dispatch32(cell, known))
  PROVE  \E l : Gets(c, i, p, m, Found(m[cell], i.known), l) /\ Alike(i, m, l, Temps)
<1> DEFINE v == m[cell]
           Missed(k) == \A j \in 1 .. k : known[j] # v
           Reached(q) == \E l : Gets(c, i, p, m, q, l) /\ Alike(i, m, l, Temps)
           S == {k \in Nat : k <= n =>
                    IF Missed(k) THEN Reached(p + 5 * k) ELSE Reached(Native(v))}
<1>1. /\ \A k \in 1 .. n : Holds(c, p + 5 * (k - 1), Try(cell, known[k]))
      /\ Holds(c, p + 5 * n, jump32(HALT))
      /\ p \in Nat
  <2>1. Len(known) = n
    BY DEF Lists
  <2>2. p \in Nat
    BY DEF Holds
  <2> QED BY <2>1, <2>2, DispatchPieces
<1>2. \A k \in 1 .. n : known[k] \in i.known
  BY DEF Lists
<1>3. Reached(p) /\ p + 5 * 0 = p
  BY <1>1, GetsItself DEF Alike
<1>4. 0 \in S
  <2>1. Missed(0)
    OBVIOUS
  <2> HIDE DEF Missed, Reached
  <2> QED BY <1>3, <2>1
<1>5. ASSUME NEW k \in Nat, k \in S PROVE k + 1 \in S
  <2> SUFFICES ASSUME k + 1 <= n
               PROVE  IF Missed(k + 1) THEN Reached(p + 5 * (k + 1)) ELSE Reached(Native(v))
    OBVIOUS
  <2>1. k <= n /\ k + 1 \in 1 .. n /\ (k + 1) - 1 = k /\ 1 .. k + 1 = (1 .. k) \cup {k + 1}
        /\ p + 5 * (k + 1) = (p + 5 * k) + 5
    BY <1>1
  <2>2. IF Missed(k) THEN Reached(p + 5 * k) ELSE Reached(Native(v))
    BY <1>5, <2>1
  <2>3. Missed(k + 1) <=> Missed(k) /\ known[k + 1] # v
    BY <2>1
  <2>4. CASE Missed(k)
    <3> DEFINE q == p + 5 * k
               a == known[k + 1]
    <3>1. PICK l : Gets(c, i, p, m, q, l) /\ Alike(i, m, l, Temps)
      BY <2>2, <2>4
    <3>2. Holds(c, q, Try(cell, a)) /\ a \in i.known
      BY <1>1, <1>2, <2>1
    <3>3. Good(i, l) /\ l[cell] = v
      BY <3>1 DEF Gets, Alike
    <3> HIDE DEF q, a, v
    <3>4. PICK o : Gets(c, i, q, l, Tried(l[cell], a, q), o) /\ Alike(i, l, o, Temps)
      BY <3>2, <3>3, RunsTry
    <3>5. Gets(c, i, p, m, Tried(l[cell], a, q), o) /\ Alike(i, m, o, Temps)
      BY <3>1, <3>4, GetsOn, AlikeOn
    <3>6. Reached(Tried(v, a, q))
      BY <3>3, <3>5
    <3>7. CASE a = v
      <4>1. Tried(v, a, q) = Native(v) /\ ~Missed(k + 1)
        BY <2>3, <3>7 DEF Tried, a
      <4> HIDE DEF Missed, Reached
      <4> QED BY <3>6, <4>1
    <3>8. CASE a # v
      <4>1. Tried(v, a, q) = p + 5 * (k + 1) /\ Missed(k + 1)
        BY <2>1, <2>3, <2>4, <3>8 DEF Tried, a, q
      <4> HIDE DEF Missed, Reached
      <4> QED BY <3>6, <4>1
    <3> QED BY <3>7, <3>8
  <2>5. CASE ~Missed(k)
    <3> HIDE DEF Missed, Reached
    <3> QED BY <2>2, <2>3, <2>5
  <2> QED BY <2>4, <2>5
<1>6. Nat \subseteq S
  <2> HIDE DEF S
  <2> QED BY <1>4, <1>5, AllNaturals
<1>7. IF Missed(n) THEN Reached(p + 5 * n) ELSE Reached(Native(v))
  <2> HIDE DEF Missed, Reached
  <2> QED BY <1>6
<1>8. Missed(n) <=> v \notin i.known
  BY <1>2 DEF Lists
<1>9. CASE v \in i.known
  <2>1. Reached(Native(v)) /\ Found(v, i.known) = Native(v)
    BY <1>7, <1>8, <1>9 DEF Found
  <2> QED BY <2>1
<1>10. CASE v \notin i.known
  <2> DEFINE q == p + 5 * n
  <2>1. PICK l : Gets(c, i, p, m, q, l) /\ Alike(i, m, l, Temps)
    BY <1>7, <1>8, <1>10
  <2>2. Holds(c, q, jump32(HALT)) /\ To(q, HALT) = HALT
    BY <1>1 DEF To, HALT
  <2> HIDE DEF q
  <2>3. Gets(c, i, p, m, To(q, HALT), l)
    BY <2>1, <2>2, JumpOn
  <2> QED BY <1>10, <2>1, <2>2, <2>3 DEF Found
<1> QED BY <1>9, <1>10

LEMMA KnownIs ==
  ASSUME NEW i, Lowerable(i)
  PROVE  LET n == Cardinality(i.known)
         IN  n \in Nat /\ n <= MaxKnown /\ Lists(Known(i), i.known, n)
<1> DEFINE S == i.known
           n == Cardinality(S)
           f == SetToSeq(S)
<1>1. IsFiniteSet(S) /\ n <= MaxKnown
  BY DEF Lowerable
<1>2. n \in Nat /\ ExistsBijection(1 .. n, S)
  BY <1>1, FS_CardinalityType
<1>3. PICK g : g \in [1 .. n -> S] /\ IsInjective(g)
  BY <1>2 DEF ExistsBijection, Bijection, Injection
<1>4. f \in [1 .. n -> S] /\ IsInjective(f)
  <2> HIDE DEF S
  <2>1. f = CHOOSE h \in [1 .. n -> S] : IsInjective(h)
    BY DEF SetToSeq
  <2> HIDE DEF f, n
  <2> QED BY <1>3, <2>1
<1> HIDE DEF S, n, f
<1>5. IsFiniteSet(1 .. n) /\ Cardinality(1 .. n) = n
  BY <1>2, FS_Interval
<1>6. f \in Injection(1 .. n, S)
  BY <1>4 DEF Injection
<1>7. Cardinality(1 .. n) = Cardinality(S) <=> f \in Surjection(1 .. n, S)
  BY <1>1, <1>6, FS_Injection
<1>8. f \in Surjection(1 .. n, S)
  BY <1>5, <1>7 DEF n
<1>9. Len(f) = n
  <2>1. f \in Seq(S)
    BY <1>2, <1>4
  <2>2. DOMAIN f = 1 .. n
    BY <1>4
  <2> QED BY <1>2, <2>1, <2>2
<1>10. (\A k \in 1 .. n : f[k] \in S) /\ \A a \in S : \E k \in 1 .. n : f[k] = a
  BY <1>4, <1>8 DEF Surjection
<1>11. Lists(f, S, n)
  BY <1>9, <1>10 DEF Lists
<1>12. Known(i) = f
  BY DEF Known, f, S
<1> QED BY <1>1, <1>2, <1>11, <1>12 DEF S, n

LEMMA WhereFound ==
  ASSUME NEW c, Short(c), NEW i, Lowerable(i), NEW v
  PROVE  /\ WhereIn(c, Found(v, i.known)) = Among(i.known, v)
         /\ Found(v, i.known) > Len(c)
<1>1. CASE v \in i.known
  <2>1. v \in Nat
    BY <1>1, CellIs, PowerIs DEF Lowerable
  <2> QED BY <1>1, <2>1, WhereGoes DEF Found, Among
<1>2. CASE v \notin i.known
  BY <1>2, WhereHalts DEF Found, Among
<1> QED BY <1>1, <1>2

(* ret jumps to the address in ra when the image knows it, and halts when  *)
(* it does not.                                                            *)
LEMMA MeansRet ==
  ASSUME NEW i, Lowerable(i), i.kind = "ret", NEW s \in GuestStates
  PROVE  Means(i, s)
<1> DEFINE c == emit_one32(i)
           m == Image(i, s)
           cell == X(1)
           known == Known(i)
           d == emit_dispatch32(cell, known)
           q == Found(s.x[1], i.known)
<1>1. c = d /\ Execute(i, s) = Goes(s, s.x, Among(i.known, s.x[1])) /\ 1 \in Regs
  BY DEF emit_one32, emit_ret_dispatch32, Execute, Lowerable
<1>2. PICK n \in Nat : n <= MaxKnown /\ Lists(known, i.known, n)
  BY KnownIs
<1>3. Sized(d, 5 * n + 1) /\ 5 * n + 1 <= 9000
  BY <1>2, DispatchPieces DEF Lists, MaxKnown
<1>4. Holds(c, 1, d) /\ Short(c)
  <2> HIDE DEF c, d
  <2> QED BY <1>1, <1>2, <1>3 DEF Holds, Piece, Short, Sized
<1>5. Has(i, m, s) /\ Good(i, m)
  BY HasImage DEF Has
<1>6. cell \in NamesOf(i) \ Temps /\ m[cell] = s.x[1]
  <2>1. m[cell] = s.x[1]
    BY <1>1, <1>5 DEF Has
  <2> QED BY <1>1, <2>1, GuestCellsAre DEF Source, Scratch, Temps
<1>7. WhereIn(c, q) = Among(i.known, s.x[1]) /\ q > Len(c)
  BY <1>4, WhereFound
<1>8. c = emit_one32(i) /\ m = Image(i, s)
  OBVIOUS
<1> HIDE DEF c, m, known, cell
<1>9. Holds(c, 1, emit_dispatch32(cell, known))
  BY <1>4
<1> HIDE DEF d
<1>10. PICK l : Gets(c, i, 1, m, Found(m[cell], i.known), l) /\ Alike(i, m, l, Temps)
  BY <1>2, <1>5, <1>6, <1>9, RunsDispatch
<1>11. Gets(c, i, 1, m, q, l)
  BY <1>6, <1>10
<1> HIDE DEF q
<1>12. Has(i, l, s)
  <2>1. Good(i, l)
    BY <1>11 DEF Gets
  <2> QED BY <1>5, <1>10, <2>1, ScratchIsPrivate, HasStill
<1>13. Execute(i, s) = Goes(s, s.x, WhereIn(c, q))
  BY <1>1, <1>7
<1> QED BY <1>7, <1>8, <1>11, <1>12, <1>13, MeansHas

------------------------------------------------------------------------------
(* A bit copied into a clear bit: the bit is singled out, and the mask is  *)
(* added unless nothing, or the sign, is left of it.                       *)
TopBit(sb)   == sb = Width - 1
CopySize(sb) == 6 + Worth(TopBit(sb), 1)
LoneBit(v, sb) == IF TopBit(sb) THEN W!Wrap(W!Select(0, v, 2 ^ sb) - 1) ELSE W!Select(0, v, 2 ^ sb)

LEMMA CopyIs ==
  ASSUME NEW a, NEW sb, NEW d, NEW db
  PROVE  /\ Sized(copybit32(a, sb, d, db), CopySize(sb))
         /\ Worth(TopBit(sb), 1) \in {0, 1}
         /\ \A c, p : Holds(c, p, copybit32(a, sb, d, db)) =>
              LET r == Worth(TopBit(sb), 1)
              IN  /\ Holds(c, p, mov32(a, T1)) /\ Holds(c, p + 1, mux32op(Z, T1, MASK(sb)))
                  /\ Holds(c, p + 2, MayBe(TopBit(sb), subnb32(ONE, T1)))
                  /\ Holds(c, p + (2 + r), leq32(Z, T1, 4))
                  /\ Holds(c, p + (2 + r + 1), addcell32(d, MASK(db)))
<1> DEFINE u == mov32(a, T1)
           v == mux32op(Z, T1, MASK(sb))
           w == MayBe(TopBit(sb), subnb32(ONE, T1))
           x == leq32(Z, T1, 4)
           y == addcell32(d, MASK(db))
           r == Worth(TopBit(sb), 1)
<1>1. /\ Sized(u, 1) /\ Sized(v, 1) /\ Sized(w, r) /\ Sized(x, 1) /\ Sized(y, 3)
      /\ r \in {0, 1}
  <2>1. 1 \in Nat /\ Sized(subnb32(ONE, T1), 1)
    BY SizesAre
  <2>2. Sized(w, r)
    BY <2>1, MayBeSized
  <2> QED BY <2>2, SizesAre DEF Worth
<1>2. copybit32(a, sb, d, db) = (((u \o v) \o w) \o x) \o y
  BY DEF copybit32, MayBe, TopBit
<1> HIDE DEF u, v, w, x, y, r
<1>3. Sized(u \o v, 2) /\ \A c, p : Holds(c, p, u \o v) => Holds(c, p, u) /\ Holds(c, p + 1, v)
  <2>1. Sized(u \o v, 1 + 1)
    BY <1>1, SizedJoin
  <2> QED BY <1>1, <2>1, SizedSplit
<1> DEFINE A == u \o v
<1> HIDE DEF A
<1>4. Sized(A, 2)
  BY <1>3 DEF A
<1>5. Sized(A \o w, 2 + r) /\ \A c, p : Holds(c, p, A \o w) => Holds(c, p, A) /\ Holds(c, p + 2, w)
  BY <1>1, <1>4, SizedJoin, SizedSplit
<1> DEFINE B == A \o w
           k == 2 + r
<1>6. Sized(B, k)
  BY <1>5
<1>66. k + 1 \in Nat /\ (k + 1) + 3 = 6 + r /\ k = 2 + r
  BY <1>1
<1> HIDE DEF B, k
<1>7. Sized(B \o x, k + 1) /\ \A c, p : Holds(c, p, B \o x) => Holds(c, p, B) /\ Holds(c, p + k, x)
  BY <1>1, <1>6, SizedJoin, SizedSplit
<1> DEFINE C == B \o x
           l == k + 1
<1>8. Sized(C, l)
  BY <1>7
<1> HIDE DEF C, l
<1>9. Sized(C \o y, l + 3) /\ \A c, p : Holds(c, p, C \o y) => Holds(c, p, C) /\ Holds(c, p + l, y)
  BY <1>1, <1>8, SizedJoin, SizedSplit
<1>10. copybit32(a, sb, d, db) = C \o y /\ C = B \o x /\ B = A \o w /\ A = u \o v
  BY <1>2 DEF A, B, C
<1>11. l + 3 = CopySize(sb) /\ l = 2 + r + 1
  BY <1>1, <1>66 DEF l, r, CopySize
<1>12. ASSUME NEW c, NEW p, Holds(c, p, C \o y)
       PROVE  Holds(c, p, u) /\ Holds(c, p + 1, v) /\ Holds(c, p + 2, w) /\ Holds(c, p + k, x) /\ Holds(c, p + l, y)
  BY <1>3, <1>5, <1>7, <1>9, <1>10, <1>12
<1> QED BY <1>1, <1>9, <1>10, <1>11, <1>12, <1>66 DEF u, v, w, x, y, r

LEMMA CopiedBit ==
  ASSUME NEW v \in W!Cell, NEW sb \in W!Lanes
  PROVE  /\ LoneBit(v, sb) \in W!Cell
         /\ Bit(v, sb) => LoneBit(v, sb) # 0 /\ ~(LoneBit(v, sb) >= W!SignBit)
         /\ ~Bit(v, sb) => LoneBit(v, sb) = 0 \/ LoneBit(v, sb) >= W!SignBit
<1> DEFINE M == W!Modulus
           H == W!SignBit
           x == 2 ^ sb
           t == W!Select(0, v, x)
<1>1. M \in Nat /\ H \in Nat /\ M = 2 * H /\ H >= 16 /\ \A y \in Int : W!Wrap(y) = y % M
  BY WordIs DEF W!Wrap
<1>2. x \in W!Cell /\ x > 0 /\ (Bit(v, sb) => t = x) /\ (~Bit(v, sb) => t = 0) /\ 0 \in W!Cell
  BY WordBit, NoBits DEF Bit
<1>3. TopBit(sb) => x = H
  BY DEF TopBit, W!SignBit
<1>4. ~TopBit(sb) => ~(x >= H)
  BY <1>2, PowerBits, SignIsTop DEF TopBit
<1>5. x \in Nat /\ W!Cell = 0 .. M - 1
  BY <1>2, CellIs DEF W!Cell
<1>6. LoneBit(v, sb) = IF TopBit(sb) THEN W!Wrap(t - 1) ELSE t
  BY DEF LoneBit
<1> HIDE DEF M, H, x, t
<1>7. (H - 1) % M = H - 1 /\ (0 - 1) % M = M - 1 /\ H - 1 \in Int /\ 0 - 1 \in Int
  BY SMTT(40), <1>1
<1>8. CASE TopBit(sb)
  <2>1. CASE Bit(v, sb)
    <3>1. LoneBit(v, sb) = H - 1
      BY <1>1, <1>2, <1>3, <1>6, <1>7, <1>8, <2>1
    <3> QED BY <1>1, <1>5, <2>1, <3>1 DEF H
  <2>2. CASE ~Bit(v, sb)
    <3>1. LoneBit(v, sb) = M - 1
      BY <1>1, <1>2, <1>6, <1>7, <1>8, <2>2
    <3> QED BY <1>1, <1>5, <2>2, <3>1 DEF H
  <2> QED BY <2>1, <2>2
<1>9. CASE ~TopBit(sb)
  BY <1>2, <1>4, <1>5, <1>6, <1>9 DEF H
<1> QED BY <1>8, <1>9

(* The value of d once bit db has been added if bit sb of v is set.        *)
Copied(v, sb, w, db) == IF Bit(v, sb) THEN Alu("ADD", w, 2 ^ db) ELSE w

LEMMA RunsCopy ==
  ASSUME NEW c, NEW i, NEW p, NEW m, Good(i, m), NEW a \in NamesOf(i), NEW sb \in W!Lanes,
         NEW d \in Writable(i) \ Low, NEW db \in W!Lanes, Holds(c, p, copybit32(a, sb, d, db))
  PROVE  \E n : /\ Gets(c, i, p, m, p + CopySize(sb), n) /\ Alike(i, m, n, Plus(Low, d))
                /\ n[d] = Copied(m[a], sb, m[d], db)
<1> DEFINE k == MASK(sb)
           r == Worth(TopBit(sb), 1)
           q == p + (2 + r)
           m1 == Written(m, T1, m[a])
           m2 == Written(m1, T1, W!Select(m1[Z], m1[T1], m1[k]))
           e == W!Wrap(m2[T1] - m2[ONE])
           m3 == IF TopBit(sb) THEN Written(m2, T1, e) ELSE m2
           t == LoneBit(m[a], sb)
           m4 == Written(m3, T1, t)
<1>1. /\ Holds(c, p, mov32(a, T1)) /\ Holds(c, p + 1, mux32op(Z, T1, k))
      /\ Holds(c, p + 2, MayBe(TopBit(sb), subnb32(ONE, T1)))
      /\ Holds(c, q, leq32(Z, T1, 4))
      /\ Holds(c, p + (2 + r + 1), addcell32(d, MASK(db)))
      /\ r \in {0, 1}
  BY CopyIs
<1>2. /\ p \in Nat /\ (p + 1) + 1 = p + 2 /\ q \in Nat /\ q + 1 = p + (2 + r + 1)
      /\ (TopBit(sb) => (p + 2) + 1 = q) /\ (~TopBit(sb) => p + 2 = q)
      /\ p + CopySize(sb) = q + 4 /\ (q + 1) + 3 = q + 4 /\ To(q, 4) = q + 4
  <2>1. p \in Nat
    BY DEF Holds
  <2>2. (TopBit(sb) => r = 1) /\ (~TopBit(sb) => r = 0) /\ CopySize(sb) = 6 + r
    BY DEF Worth, CopySize
  <2> HIDE DEF r
  <2>3. q \in Nat
    BY <1>1, <2>1
  <2> QED BY <1>1, <2>1, <2>2, <2>3 DEF To, HALT
<1>3. /\ a \in NamesOf(i) /\ k \in NamesOf(i) /\ k # T1 /\ ONE \in NamesOf(i) /\ ONE # T1
      /\ T1 \in Writable(i) /\ T1 \in NamesOf(i) /\ Z \in NamesOf(i) /\ Z # T1
      /\ d \in NamesOf(i) /\ d # T1 /\ T1 \in Plus(Low, d) /\ d \in Plus(Low, d)
      /\ MASK(db) \in NamesOf(i) \ Low /\ MASK(db) # T1 /\ m[k] = 2 ^ sb /\ m[MASK(db)] = 2 ^ db
      /\ m[Z] = 0 /\ m[ONE] = 1 /\ m[a] \in W!Cell
  BY LowAre, PoolValues, GoodTyped DEF Writable, Plus
<1> HIDE DEF k, r, q, m1, m2, m3, m4, e, t
<1>4. Gets(c, i, p, m, p, m)
  BY GetsItself
<1>5. Gets(c, i, p, m, p + 1, m1)
  BY <1>1, <1>2, <1>3, <1>4, MoveOn DEF m1
<1>6. m1[T1] = m[a] /\ \A x \in NamesOf(i) : x # T1 => m1[x] = m[x]
  BY <1>3, <1>4, WrittenAfter DEF m1
<1>7. Gets(c, i, p, m, p + 2, m2)
  BY <1>1, <1>2, <1>3, <1>5, MuxOn DEF m2
<1>8. m2[T1] = W!Select(0, m[a], 2 ^ sb) /\ \A x \in NamesOf(i) : x # T1 => m2[x] = m[x]
  BY <1>3, <1>5, <1>6, WrittenAfter DEF m2
<1>9. Gets(c, i, p, m, q, m3) /\ m3[T1] = t /\ \A x \in NamesOf(i) : x # T1 => m3[x] = m[x]
  <2>1. CASE TopBit(sb)
    <3>1. Holds(c, p + 2, subnb32(ONE, T1)) /\ m3 = Written(m2, T1, e)
      BY <1>1, <2>1 DEF MayBe, m3
    <3>2. Gets(c, i, p, m, (p + 2) + 1, Written(m2, T1, e))
      BY <1>3, <1>7, <3>1, SubOn DEF e
    <3>3. t = e
      BY <1>3, <1>8, <2>1 DEF t, e, LoneBit
    <3>4. m3[T1] = e /\ \A x \in NamesOf(i) : x # T1 => m3[x] = m2[x]
      BY <1>3, <1>7, <3>1, WrittenAfter
    <3> QED BY <1>2, <1>8, <2>1, <3>1, <3>2, <3>3, <3>4
  <2>2. CASE ~TopBit(sb)
    BY <1>2, <1>7, <1>8, <2>2 DEF m3, t, LoneBit
  <2> QED BY <2>1, <2>2
<1>10. /\ t \in W!Cell /\ (Bit(m[a], sb) => t # 0 /\ ~(t >= W!SignBit))
       /\ (~Bit(m[a], sb) => t = 0 \/ t >= W!SignBit)
  BY <1>3, CopiedBit DEF t
<1>11. t = W!Wrap(m3[T1] - m3[Z])
  <2>1. W!Wrap(t - 0) = t
    BY <1>10, WordIs DEF W!Wrap, W!Cell
  <2> QED BY <1>3, <1>9, <2>1
<1>12. Gets(c, i, p, m, Branches(t, q, 4), m4)
  BY <1>1, <1>3, <1>9, <1>11, LeqOn DEF m4
<1>13. \A x \in NamesOf(i) : x # T1 => m4[x] = m[x]
  BY <1>3, <1>9, WrittenAfter DEF m4
<1>14. CASE ~Bit(m[a], sb)
  <2>1. Gets(c, i, p, m, p + CopySize(sb), m4)
    BY <1>2, <1>10, <1>12, <1>14 DEF Branches
  <2>2. Alike(i, m, m4, Plus(Low, d)) /\ m4[d] = m[d]
    BY <1>3, <1>13 DEF Alike
  <2> QED BY <1>14, <2>1, <2>2 DEF Copied
<1>15. CASE Bit(m[a], sb)
  <2>1. Gets(c, i, p, m, q + 1, m4)
    BY <1>10, <1>12, <1>15 DEF Branches
  <2>2. Good(i, m4) /\ Holds(c, q + 1, addcell32(d, MASK(db)))
    BY <1>1, <1>2, <2>1 DEF Gets
  <2> DEFINE g == q + 1
  <2>3. Gets(c, i, p, m, g, m4) /\ Holds(c, g, addcell32(d, MASK(db))) /\ g + 3 = p + CopySize(sb)
    BY <1>2, <2>1, <2>2
  <2> HIDE DEF g
  <2>4. PICK n : /\ Gets(c, i, g, m4, g + 3, n) /\ Alike(i, m4, n, Plus(Low, d))
                 /\ n[d] = Alu("ADD", m4[d], m4[MASK(db)])
    BY <1>3, <2>2, <2>3, RunsAdd
  <2>5. Gets(c, i, p, m, g + 3, n)
    BY <2>3, <2>4, GetsOn
  <2>6. n[d] = Copied(m[a], sb, m[d], db)
    BY <1>3, <1>13, <1>15, <2>4 DEF Copied
  <2>7. Alike(i, m, n, Plus(Low, d))
    BY <1>3, <1>13, <2>4 DEF Alike
  <2> QED BY <2>3, <2>5, <2>6, <2>7
<1> QED BY <1>14, <1>15

LEMMA CopiedBits ==
  ASSUME NEW v, NEW sb, NEW w \in W!Cell, NEW db \in W!Lanes, db \notin W!Bits(w)
  PROVE  /\ Copied(v, sb, w, db) \in W!Cell
         /\ W!Bits(Copied(v, sb, w, db)) = W!Bits(w) \cup (IF Bit(v, sb) THEN {db} ELSE {})
         /\ Copied(v, sb, w, db) = WithBit(w, db, Bit(v, sb))
<1>1. CASE Bit(v, sb)
  <2>1. Copied(v, sb, w, db) = Raised(w, db) /\ Raised(w, db) = WithBit(w, db, Bit(v, sb))
    BY <1>1, WordSet DEF Copied, Raised
  <2> QED BY <1>1, <2>1, BitSetIs
<1>2. CASE ~Bit(v, sb)
  <2>1. Copied(v, sb, w, db) = w /\ Cleared(w, db) = WithBit(w, db, Bit(v, sb))
    BY <1>2 DEF Copied, Cleared, WithBit
  <2>2. Cleared(w, db) = w
    BY WithBitKeeps
  <2> QED BY <1>2, <2>1, <2>2
<1> QED BY <1>1, <1>2

LEMMA CsrCopies ==
  ASSUME NEW c, NEW i, NEW p, NEW m, NEW q, NEW n, Gets(c, i, p, m, q, n), NEW t, Has(i, n, t),
         NEW k \in CsrNames, NEW sb \in W!Lanes, NEW db \in W!Lanes,
         Holds(c, q, copybit32(CSR(k), sb, CSR(k), db))
  PROVE  \E l : /\ Gets(c, i, p, m, q + CopySize(sb), l)
                /\ Has(i, l, CsrSet(t, k, Copied(t.csr[k], sb, t.csr[k], db)))
<1> DEFINE d == CSR(k)
<1>1. /\ Good(i, n) /\ d \in Writable(i) \ Low /\ d \in NamesOf(i)
      /\ Holds(c, q, copybit32(d, sb, d, db)) /\ n[d] = t.csr[k]
  BY CsrCell DEF Gets, Has
<1> HIDE DEF d
<1>2. PICK l : /\ Gets(c, i, q, n, q + CopySize(sb), l) /\ Alike(i, n, l, Plus(Low, d))
               /\ l[d] = Copied(n[d], sb, n[d], db)
  BY <1>1, RunsCopy
<1>3. Gets(c, i, p, m, q + CopySize(sb), l) /\ Good(i, l)
  <2>1. Gets(c, i, p, m, q + CopySize(sb), l)
    BY <1>2, GetsOn
  <2> QED BY <2>1 DEF Gets
<1>4. Alike(i, n, l, Plus(Low, CSR(k))) /\ l[CSR(k)] = Copied(t.csr[k], sb, t.csr[k], db)
  BY <1>1, <1>2 DEF d
<1>5. Has(i, l, CsrSet(t, k, l[CSR(k)]))
  BY <1>3, <1>4, LowIsPrivate, HasCsr
<1> QED BY <1>3, <1>4, <1>5

LEMMA HasDispatch ==
  ASSUME NEW c, NEW i, Lowerable(i), NEW p, NEW m, NEW q, NEW n, Gets(c, i, p, m, q, n),
         NEW t, Has(i, n, t), NEW cell \in NamesOf(i) \ Temps,
         NEW known, NEW w \in Nat, Lists(known, i.known, w),
         Holds(c, q, emit_dispatch32(cell, known))
  PROVE  \E l : Gets(c, i, p, m, Found(n[cell], i.known), l) /\ Has(i, l, t)
<1> DEFINE r == Found(n[cell], i.known)
<1>1. Good(i, n)
  BY DEF Gets
<1>2. PICK l : Gets(c, i, q, n, r, l) /\ Alike(i, n, l, Temps)
  BY <1>1, RunsDispatch
<1> HIDE DEF r
<1>3. Gets(c, i, p, m, r, l)
  BY <1>2, GetsOn
<1>4. Good(i, l)
  BY <1>3 DEF Gets
<1>5. Has(i, l, t)
  BY <1>2, <1>4, ScratchIsPrivate, HasStill
<1> QED BY <1>3, <1>5 DEF r

(* mret: MIE takes the value of MPIE, MPIE is set, and mepc says where the *)
(* trap came from.                                                         *)
MretBits(v) == Raised(Copied(Cleared(v, MIE), MPIE, Cleared(v, MIE), MIE), MPIE)
Returned(s) == CsrSet(s, "mstatus", MretBits(s.csr["mstatus"]))

LEMMA MretIs ==
  ASSUME NEW v \in W!Cell
  PROVE  MretBits(v) = WithBit(WithBit(v, MIE, Bit(v, MPIE)), MPIE, TRUE)
<1> DEFINE u == Cleared(v, MIE)
           w == Copied(u, MPIE, u, MIE)
           x == WithBit(v, MIE, Bit(v, MPIE))
<1>0. MIE \in W!Lanes /\ MPIE \in W!Lanes /\ MIE # MPIE
  BY SafepointNames
<1>1. u \in W!Cell /\ W!Bits(u) = W!Bits(v) \ {MIE}
  BY <1>0, BitClearIs
<1> HIDE DEF u
<1>2. Bit(u, MPIE) <=> Bit(v, MPIE)
  BY <1>0, <1>1 DEF Bit
<1>3. w \in W!Cell /\ W!Bits(w) = W!Bits(u) \cup (IF Bit(u, MPIE) THEN {MIE} ELSE {})
  <2>1. MIE \notin W!Bits(u) /\ MIE \in W!Lanes /\ u \in W!Cell
    BY <1>0, <1>1
  <2> QED BY <2>1, CopiedBits
<1>4. x \in W!Cell /\ W!Bits(x) = (W!Bits(v) \ {MIE}) \cup (IF Bit(v, MPIE) THEN {MIE} ELSE {})
  <2>1. CASE Bit(v, MPIE)
    <3>1. x = Raised(v, MIE)
      BY <2>1 DEF Raised, WithBit
    <3> HIDE DEF x
    <3> QED BY <1>0, <2>1, <3>1, BitSetIs
  <2>2. CASE ~Bit(v, MPIE)
    <3>1. x = Cleared(v, MIE)
      BY <2>2 DEF Cleared, WithBit
    <3> HIDE DEF x
    <3> QED BY <1>0, <2>2, <3>1, BitClearIs
  <2> QED BY <2>1, <2>2
<1> HIDE DEF w, x
<1>5. W!Bits(w) = W!Bits(x)
  BY <1>1, <1>2, <1>3, <1>4
<1>6. w = x
  BY <1>3, <1>4, <1>5, SameBits
<1> QED BY <1>6 DEF MretBits, Raised, u, w, x

LEMMA MretPieces ==
  ASSUME NEW i, NEW n \in Nat, Len(Known(i)) = n
  PROVE  LET r == 9 + CopySize(MPIE)
         IN  /\ CopySize(MPIE) \in 6 .. 7
             /\ Sized(emit_mret32(i), r + (5 * n + 1))
             /\ \A c, p : Holds(c, p, emit_mret32(i)) =>
                  /\ Holds(c, p, clearbit32(CSR("mstatus"), MIE))
                  /\ Holds(c, p + 3, copybit32(CSR("mstatus"), MPIE, CSR("mstatus"), MIE))
                  /\ Holds(c, p + (3 + CopySize(MPIE)), setbit32(CSR("mstatus"), MPIE))
                  /\ Holds(c, p + r, emit_dispatch32(CSR("mepc"), Known(i)))
<1> DEFINE u == clearbit32(CSR("mstatus"), MIE)
           v == copybit32(CSR("mstatus"), MPIE, CSR("mstatus"), MIE)
           w == setbit32(CSR("mstatus"), MPIE)
           x == emit_dispatch32(CSR("mepc"), Known(i))
           k == CopySize(MPIE)
           e == 5 * n + 1
<1>1. Sized(u, 3) /\ Sized(v, k) /\ Sized(w, 6) /\ Sized(x, e)
  BY SizesAre, CopyIs, DispatchPieces
<1>2. k \in 6 .. 7
  BY DEF CopySize, Worth
<1>3. emit_mret32(i) = ((u \o v) \o w) \o x
  BY DEF emit_mret32
<1> HIDE DEF u, v, w, x, k, e
<1> DEFINE A == u \o v
           a == 3 + k
<1>4. Sized(A, a) /\ \A c, p : Holds(c, p, A) => Holds(c, p, u) /\ Holds(c, p + 3, v)
  BY <1>1, SizedJoin, SizedSplit
<1>5. a + 6 = 9 + k
  BY <1>2
<1> HIDE DEF A, a
<1> DEFINE B == A \o w
           b == a + 6
<1>6. Sized(B, b) /\ \A c, p : Holds(c, p, B) => Holds(c, p, A) /\ Holds(c, p + a, w)
  BY <1>1, <1>4, SizedJoin, SizedSplit
<1>7. b = 9 + k
  BY <1>5
<1> HIDE DEF B, b
<1>8. Sized(B \o x, b + e) /\ \A c, p : Holds(c, p, B \o x) => Holds(c, p, B) /\ Holds(c, p + b, x)
  BY <1>1, <1>6, SizedJoin, SizedSplit
<1>9. emit_mret32(i) = B \o x
  BY <1>3 DEF A, B
<1>10. \A c, p : Holds(c, p, emit_mret32(i)) =>
         Holds(c, p, u) /\ Holds(c, p + 3, v) /\ Holds(c, p + a, w) /\ Holds(c, p + b, x)
  BY <1>4, <1>6, <1>8, <1>9
<1>11. Sized(emit_mret32(i), b + e)
  BY <1>8, <1>9
<1> QED BY <1>2, <1>7, <1>10, <1>11 DEF a, e, k, u, v, w, x

LEMMA ReturnedIs ==
  ASSUME NEW i, i.kind = "mret", NEW s \in GuestStates
  PROVE  Execute(i, s) = Goes(Returned(s), s.x, Among(i.known, s.csr["mepc"]))
<1> DEFINE t == s.csr["mstatus"]
           f == s.csr
           to == Among(i.known, s.csr["mepc"])
           h == [f EXCEPT !["mstatus"] = MretBits(t)]
<1>1. t \in W!Cell /\ f \in [CsrNames -> W!Cell] /\ "mstatus" \in CsrNames
  BY SafepointNames DEF GuestStates
<1>2. Execute(i, s) =
        [Goes(s, s.x, to) EXCEPT
           !.csr = [f EXCEPT !["mstatus"] = WithBit(WithBit(@, MIE, Bit(t, MPIE)), MPIE, TRUE)]]
  BY DEF Execute, ExecuteMret
<1>3. h = [f EXCEPT !["mstatus"] = WithBit(WithBit(@, MIE, Bit(t, MPIE)), MPIE, TRUE)]
  BY <1>1, MretIs
<1>4. Returned(s).x = s.x /\ Returned(s).ram = s.ram /\ Returned(s).csr = h
  BY <1>1, CsrSetIs DEF Returned
<1> HIDE DEF h, to
<1>5. Execute(i, s) = [Goes(s, s.x, to) EXCEPT !.csr = h]
  BY <1>2, <1>3
<1> QED BY <1>4, <1>5 DEF Goes, to

LEMMA RunsMret ==
  ASSUME NEW c, NEW i, Lowerable(i), NEW m, NEW s, Has(i, m, s), NEW w \in Nat,
         Lists(Known(i), i.known, w), Holds(c, 1, emit_mret32(i))
  PROVE  \E l : Gets(c, i, 1, m, Found(s.csr["mepc"], i.known), l) /\ Has(i, l, Returned(s))
<1> DEFINE k == CopySize(MPIE)
           t1 == CsrSet(s, "mstatus", Cleared(s.csr["mstatus"], MIE))
           t2 == CsrSet(t1, "mstatus", Copied(t1.csr["mstatus"], MPIE, t1.csr["mstatus"], MIE))
           t3 == CsrSet(t2, "mstatus", Raised(t2.csr["mstatus"], MPIE))
<1>1. /\ k \in 6 .. 7
      /\ Holds(c, 1, clearbit32(CSR("mstatus"), MIE))
      /\ Holds(c, 1 + 3, copybit32(CSR("mstatus"), MPIE, CSR("mstatus"), MIE))
      /\ Holds(c, 1 + (3 + k), setbit32(CSR("mstatus"), MPIE))
      /\ Holds(c, 1 + (9 + k), emit_dispatch32(CSR("mepc"), Known(i)))
  BY MretPieces DEF Lists
<1>2. "mstatus" \in CsrNames /\ "mepc" \in CsrNames /\ MIE \in W!Lanes /\ MPIE \in W!Lanes
  BY SafepointNames
<1> HIDE DEF k
<1>3. (1 + 3) + k = 1 + (3 + k) /\ (1 + (3 + k)) + 6 = 1 + (9 + k)
  BY <1>1
<1>4. Gets(c, i, 1, m, 1, m) /\ s \in GuestStates
  BY GetsItself DEF Has
<1> HIDE DEF t1, t2, t3
<1>5. PICK n1 : Gets(c, i, 1, m, 1 + 3, n1) /\ Has(i, n1, t1)
  BY <1>1, <1>2, <1>4, CsrClears DEF t1
<1>6. PICK n2 : Gets(c, i, 1, m, (1 + 3) + k, n2) /\ Has(i, n2, t2)
  BY <1>1, <1>2, <1>5, CsrCopies DEF t2, k
<1>7. PICK n3 : Gets(c, i, 1, m, (1 + (3 + k)) + 6, n3) /\ Has(i, n3, t3)
  <2>1. Gets(c, i, 1, m, 1 + (3 + k), n2)
    BY <1>3, <1>6
  <2> QED BY <1>1, <1>2, <1>6, <2>1, CsrRaises DEF t3
<1>8. Gets(c, i, 1, m, 1 + (9 + k), n3)
  BY <1>3, <1>7
<1>9. t3 = Returned(s)
  <2> DEFINE f == s.csr
  <2>1. t1.x = s.x /\ t1.ram = s.ram /\ t1.csr = [f EXCEPT !["mstatus"] = Cleared(f["mstatus"], MIE)]
        /\ t1 \in GuestStates
    BY <1>2, <1>4, <1>5, CsrSetIs DEF t1, Has
  <2>2. f \in [CsrNames -> W!Cell]
    BY <1>4 DEF GuestStates
  <2>3. t2.x = s.x /\ t2.ram = s.ram /\ t2 \in GuestStates
        /\ t2.csr = [t1.csr EXCEPT !["mstatus"] = Copied(t1.csr["mstatus"], MPIE, t1.csr["mstatus"], MIE)]
    BY <1>2, <1>6, <2>1, CsrSetIs DEF t2, Has
  <2>4. t3.x = s.x /\ t3.ram = s.ram /\ t3 \in GuestStates
        /\ t3.csr = [t2.csr EXCEPT !["mstatus"] = Raised(t2.csr["mstatus"], MPIE)]
    BY <1>2, <1>7, <2>3, CsrSetIs DEF t3, Has
  <2> HIDE DEF f
  <2>5. t1.csr["mstatus"] = Cleared(f["mstatus"], MIE)
    BY <1>2, <2>1, <2>2
  <2>6. t2.csr["mstatus"] = Copied(t1.csr["mstatus"], MPIE, t1.csr["mstatus"], MIE)
    <3>1. t1.csr \in [CsrNames -> W!Cell]
      BY <2>1 DEF GuestStates
    <3> QED BY <1>2, <2>3, <3>1
  <2>7. t3.csr = [f EXCEPT !["mstatus"] = MretBits(f["mstatus"])]
    <3>1. Raised(t2.csr["mstatus"], MPIE) = MretBits(f["mstatus"])
      BY <2>5, <2>6 DEF MretBits
    <3> QED BY <2>1, <2>3, <2>4, <3>1
  <2>8. Returned(s).x = s.x /\ Returned(s).ram = s.ram /\ Returned(s) = GuestOf(s.x, s.ram, t3.csr)
    BY <1>4, <2>7 DEF Returned, CsrSet, GuestOf, GuestStates, f
  <2>9. t3 = GuestOf(t3.x, t3.ram, t3.csr)
    BY <2>4 DEF GuestStates, GuestOf
  <2> QED BY <2>4, <2>8, <2>9
<1>10. CSR("mepc") \in NamesOf(i) \ Temps /\ n3[CSR("mepc")] = s.csr["mepc"]
  <2>1. t3.csr["mepc"] = s.csr["mepc"]
    <3>1. s.csr \in [CsrNames -> W!Cell]
      BY <1>4 DEF GuestStates
    <3>2. t3.csr = [s.csr EXCEPT !["mstatus"] = MretBits(s.csr["mstatus"])]
      BY <1>2, <1>4, <1>9, CsrSetIs DEF Returned
    <3> QED BY <1>2, <3>1, <3>2
  <2>2. n3[CSR("mepc")] = t3.csr["mepc"]
    BY <1>2, <1>7 DEF Has
  <2> QED BY <1>2, <2>1, <2>2, CsrCell DEF Source
<1> DEFINE q == 1 + (9 + k)
           cell == CSR("mepc")
           known == Known(i)
<1>11. Gets(c, i, 1, m, q, n3) /\ Holds(c, q, emit_dispatch32(cell, known)) /\ Has(i, n3, t3)
       /\ cell \in NamesOf(i) \ Temps /\ Lists(known, i.known, w)
  BY <1>1, <1>7, <1>8, <1>10
<1> HIDE DEF q, cell, known
<1>12. PICK l : Gets(c, i, 1, m, Found(n3[cell], i.known), l) /\ Has(i, l, t3)
  BY <1>11, HasDispatch
<1> QED BY <1>9, <1>10, <1>12 DEF cell

LEMMA MeansMret ==
  ASSUME NEW i, Lowerable(i), i.kind = "mret", NEW s \in GuestStates
  PROVE  Means(i, s)
<1> DEFINE c == emit_one32(i)
           m == Image(i, s)
           q == Found(s.csr["mepc"], i.known)
<1>1. c = emit_mret32(i)
  BY DEF emit_one32
<1>2. PICK n \in Nat : n <= MaxKnown /\ Lists(Known(i), i.known, n)
  BY KnownIs
<1>3. Holds(c, 1, emit_mret32(i)) /\ Short(c)
  <2> DEFINE l == (9 + CopySize(MPIE)) + (5 * n + 1)
  <2>1. Sized(emit_mret32(i), l) /\ CopySize(MPIE) \in 6 .. 7
    BY <1>2, MretPieces DEF Lists
  <2>2. l \in Nat /\ l <= 9000
    BY <1>2, <2>1 DEF MaxKnown
  <2> HIDE DEF l, c
  <2> QED BY <1>1, <2>1, <2>2 DEF Holds, Piece, Short, Sized
<1>4. Has(i, m, s)
  BY HasImage
<1>5. c = emit_one32(i) /\ m = Image(i, s)
  OBVIOUS
<1> HIDE DEF c, m
<1>6. PICK l : Gets(c, i, 1, m, q, l) /\ Has(i, l, Returned(s))
  BY <1>2, <1>3, <1>4, RunsMret
<1>7. WhereIn(c, q) = Among(i.known, s.csr["mepc"]) /\ q > Len(c)
  BY <1>3, WhereFound
<1> HIDE DEF q
<1>8. Execute(i, s) = Goes(Returned(s), Returned(s).x, WhereIn(c, q))
  <2>1. Returned(s).x = s.x
    <3>1. "mstatus" \in CsrNames
      BY SafepointNames
    <3>2. \A v : CsrSet(s, "mstatus", v).x = s.x
      BY <3>1, CsrSetIs
    <3> QED BY <3>2 DEF Returned
  <2> QED BY <1>7, <2>1, ReturnedIs
<1> QED BY <1>5, <1>6, <1>7, <1>8, MeansHas

------------------------------------------------------------------------------
(* An indirect jump that is not a return.  Its target is compared in T0,   *)
(* which a comparison leaves changed: the first comparison is right.       *)
OneKnown(i) == Cardinality(i.known) <= 1

LEMMA RunsOne ==
  ASSUME NEW c, NEW i, Lowerable(i), NEW p, NEW m, Good(i, m), NEW cell \in NamesOf(i),
         NEW known, NEW n \in Nat, n <= 1, Lists(known, i.known, n),
         Holds(c, p, emit_dispatch32(cell, known))
  PROVE  \E l : Gets(c, i, p, m, Found(m[cell], i.known), l) /\ Alike(i, m, l, Temps)
<1>1. /\ \A k \in 1 .. n : Holds(c, p + 5 * (k - 1), Try(cell, known[k]))
      /\ Holds(c, p + 5 * n, jump32(HALT))
      /\ p \in Nat
  <2>1. Len(known) = n
    BY DEF Lists
  <2>2. p \in Nat
    BY DEF Holds
  <2> QED BY <2>1, <2>2, DispatchPieces
<1>2. CASE n = 0
  <2>1. i.known = {} /\ p + 5 * n = p
    BY <1>1, <1>2 DEF Lists
  <2>2. Holds(c, p, jump32(HALT)) /\ To(p, HALT) = HALT
    BY <1>1, <2>1 DEF To, HALT
  <2>3. Gets(c, i, p, m, To(p, HALT), m)
    BY <2>2, GetsItself, JumpOn
  <2> QED BY <2>1, <2>2, <2>3 DEF Found, Alike
<1>3. CASE n = 1
  <2> DEFINE a == known[1]
             q == p + 5
  <2>1. a \in i.known /\ (\A b \in i.known : b = a) /\ 1 \in 1 .. n
    BY <1>3 DEF Lists
  <2>2. Holds(c, p, Try(cell, a)) /\ Holds(c, q, jump32(HALT)) /\ To(q, HALT) = HALT
    <3>1. p + 5 * (1 - 1) = p /\ p + 5 * n = q
      BY <1>1, <1>3
    <3> QED BY <1>1, <2>1, <3>1 DEF To, HALT
  <2> HIDE DEF a
  <2>3. PICK l : Gets(c, i, p, m, Tried(m[cell], a, p), l) /\ Alike(i, m, l, Temps)
    BY <2>1, <2>2, RunsTry
  <2>4. CASE m[cell] = a
    BY <2>1, <2>3, <2>4 DEF Tried, Found
  <2>5. CASE m[cell] # a
    <3>1. Gets(c, i, p, m, q, l)
      BY <2>3, <2>5 DEF Tried
    <3> HIDE DEF q
    <3>2. Gets(c, i, p, m, To(q, HALT), l)
      BY <2>2, <3>1, JumpOn
    <3> QED BY <2>1, <2>2, <2>3, <2>5, <3>2 DEF Found
  <2> QED BY <2>4, <2>5
<1> QED BY <1>2, <1>3

\* The parts of the block.
JalrAdd(i)  == MayBe(i.imm # 0, addcell32(T0, IMM(0)))
JalrLink(i) == MayBe(i.rd # 0, mov32(IMM(1), X(i.rd)))
AddSize(i)  == Worth(i.imm # 0, 3)
LinkSize(i) == Worth(i.rd # 0, 1)

LEMMA JalrPieces ==
  ASSUME NEW i, NEW n \in Nat, Len(Known(i)) = n
  PROVE  LET a == AddSize(i)
             b == LinkSize(i)
         IN  /\ a \in 0 .. 3 /\ b \in 0 .. 1
             /\ Sized(emit_jalr32(i), (4 + a + b) + (5 * n + 1))
             /\ \A c, p : Holds(c, p, emit_jalr32(i)) =>
                  /\ Holds(c, p, mov32(X(i.rs1), T0)) /\ Holds(c, p + 1, JalrAdd(i))
                  /\ Holds(c, p + (1 + a), mov32(T0, T1))
                  /\ Holds(c, p + (2 + a), mux32op(Z, T1, ONE))
                  /\ Holds(c, p + (3 + a), subnb32(T1, T0))
                  /\ Holds(c, p + (4 + a), JalrLink(i))
                  /\ Holds(c, p + (4 + a + b), emit_dispatch32(T0, Known(i)))
<1> DEFINE s1 == mov32(X(i.rs1), T0)
           s2 == JalrAdd(i)
           s3 == mov32(T0, T1)
           s4 == mux32op(Z, T1, ONE)
           s5 == subnb32(T1, T0)
           s6 == JalrLink(i)
           s7 == emit_dispatch32(T0, Known(i))
           a == AddSize(i)
           b == LinkSize(i)
           e == 5 * n + 1
<1>1. /\ Sized(s1, 1) /\ Sized(s2, a) /\ Sized(s3, 1) /\ Sized(s4, 1) /\ Sized(s5, 1)
      /\ Sized(s6, b) /\ Sized(s7, e)
  <2>1. 3 \in Nat /\ 1 \in Nat
    OBVIOUS
  <2>2. Sized(s2, a) /\ Sized(s6, b)
    BY <2>1, SizesAre, MayBeSized DEF JalrAdd, JalrLink, AddSize, LinkSize
  <2> QED BY <2>2, SizesAre, DispatchPieces
<1>2. a \in 0 .. 3 /\ b \in 0 .. 1
  BY DEF AddSize, LinkSize, Worth
<1>3. emit_jalr32(i) = (((((s1 \o s2) \o s3) \o s4) \o s5) \o s6) \o s7
  BY DEF emit_jalr32, emit_jalr_entry_dispatch32, JalrAdd, JalrLink, MayBe
<1> HIDE DEF s1, s2, s3, s4, s5, s6, s7, a, b, e
<1> DEFINE u2 == s1 \o s2
           k2 == 1 + a
<1>4. Sized(u2, k2) /\ \A c, p : Holds(c, p, u2) => Holds(c, p, s1) /\ Holds(c, p + 1, s2)
  BY <1>1, SizedJoin, SizedSplit
<1> HIDE DEF u2
<1> DEFINE u3 == u2 \o s3
           k3 == 2 + a
<1>5. k2 + 1 = k3
  BY <1>2
<1> HIDE DEF k2
<1>6. Sized(u3, k2 + 1) /\ \A c, p : Holds(c, p, u3) => Holds(c, p, u2) /\ Holds(c, p + k2, s3)
  BY <1>1, <1>4, SizedJoin, SizedSplit
<1> HIDE DEF u3
<1> DEFINE u4 == u3 \o s4
           k4 == 3 + a
<1>7. k3 + 1 = k4
  BY <1>2
<1> HIDE DEF k3
<1>8. Sized(u4, k3 + 1) /\ \A c, p : Holds(c, p, u4) => Holds(c, p, u3) /\ Holds(c, p + k3, s4)
  BY <1>1, <1>5, <1>6, SizedJoin, SizedSplit
<1> HIDE DEF u4
<1> DEFINE u5 == u4 \o s5
           k5 == 4 + a
<1>9. k4 + 1 = k5
  BY <1>2
<1> HIDE DEF k4
<1>10. Sized(u5, k4 + 1) /\ \A c, p : Holds(c, p, u5) => Holds(c, p, u4) /\ Holds(c, p + k4, s5)
  BY <1>1, <1>7, <1>8, SizedJoin, SizedSplit
<1> HIDE DEF u5
<1> DEFINE u6 == u5 \o s6
           k6 == 4 + a + b
<1>11. k5 + b = k6
  BY <1>2
<1> HIDE DEF k5
<1>12. Sized(u6, k5 + b) /\ \A c, p : Holds(c, p, u6) => Holds(c, p, u5) /\ Holds(c, p + k5, s6)
  BY <1>1, <1>9, <1>10, SizedJoin, SizedSplit
<1> HIDE DEF u6
<1> HIDE DEF k6
<1>13. Sized(u6 \o s7, k6 + e) /\ \A c, p : Holds(c, p, u6 \o s7) => Holds(c, p, u6) /\ Holds(c, p + k6, s7)
  BY <1>1, <1>11, <1>12, SizedJoin, SizedSplit
<1>14. emit_jalr32(i) = u6 \o s7
  BY <1>3 DEF u2, u3, u4, u5, u6
<1>15. \A c, p : Holds(c, p, emit_jalr32(i)) =>
         /\ Holds(c, p, s1) /\ Holds(c, p + 1, s2) /\ Holds(c, p + k2, s3) /\ Holds(c, p + k3, s4)
         /\ Holds(c, p + k4, s5) /\ Holds(c, p + k5, s6) /\ Holds(c, p + k6, s7)
  BY <1>4, <1>6, <1>8, <1>10, <1>12, <1>13, <1>14
<1> QED BY <1>2, <1>13, <1>14, <1>15 DEF s1, s2, s3, s4, s5, s6, s7, a, b, e, k2, k3, k4, k5, k6

Linked(i, s) == IF i.rd = 0 THEN s ELSE RegSet(s, i.rd, W!Wrap(i.pc + 4))
JumpsTo(i, s) == Cleared(Alu("ADD", s.x[i.rs1], i.imm), 0)

LEMMA JalrTarget ==
  ASSUME NEW c, NEW i, Lowerable(i), NEW m, NEW s, Has(i, m, s),
         NEW p, p = 5 + AddSize(i), AddSize(i) \in 0 .. 3,
         Holds(c, 1, mov32(X(i.rs1), T0)), Holds(c, 1 + 1, JalrAdd(i)),
         Holds(c, 1 + (1 + AddSize(i)), mov32(T0, T1)),
         Holds(c, 1 + (2 + AddSize(i)), mux32op(Z, T1, ONE)),
         Holds(c, 1 + (3 + AddSize(i)), subnb32(T1, T0))
  PROVE  \E n : Gets(c, i, 1, m, p, n) /\ Has(i, n, s) /\ n[T0] = JumpsTo(i, s)
<1> DEFINE a == AddSize(i)
           r == X(i.rs1)
           v == Alu("ADD", s.x[i.rs1], i.imm)
           q == 2 + a
           m1 == Written(m, T0, m[r])
<1>1. /\ q \in Nat /\ q = 1 + (1 + a) /\ q + 1 = 1 + (2 + a) /\ (q + 1) + 1 = 1 + (3 + a)
      /\ ((q + 1) + 1) + 1 = p
  OBVIOUS
<1>2. i.rs1 \in Regs /\ i.imm \in W!Cell /\ Good(i, m) /\ s.x[i.rs1] \in W!Cell /\ m[r] = s.x[i.rs1]
  BY DEF Lowerable, Has, GuestStates
<1>3. /\ r \in NamesOf(i) /\ T0 \in NamesOf(i) /\ T1 \in NamesOf(i)
      /\ T0 \in Writable(i) /\ T1 \in Writable(i) /\ T0 # T1
      /\ Z \in NamesOf(i) /\ ONE \in NamesOf(i) /\ Z # T0 /\ Z # T1 /\ ONE # T0 /\ ONE # T1
      /\ IMM(0) \in NamesOf(i) \ Low /\ T0 \notin Low /\ T0 \in Temps /\ T1 \in Temps
  <2>1. r \in NamesOf(i)
    BY <1>2, GuestCellsAre DEF Writable
  <2>2. IMM(0) \in Source(i) /\ Z \in Source(i) /\ ONE \in Source(i) /\ Low \subseteq Temps
    BY ConstantsAre DEF Low, Temps
  <2>3. T0 \notin Low
    BY ScratchAre DEF Low
  <2> QED BY <2>1, <2>2, <2>3, ScratchAre DEF Source, Writable, Temps
<1> HIDE DEF r, m1
<1>4. Gets(c, i, 1, m, 1 + 1, m1)
  BY <1>2, <1>3, GetsItself, MoveOn DEF r, m1
<1>5. m1[T0] = s.x[i.rs1] /\ Alike(i, m, m1, Temps) /\ Good(i, m1)
  <2>1. \A x \in NamesOf(i) : x # T0 => m1[x] = m[x]
    BY <1>2, <1>3 DEF m1, Written, Good
  <2>2. m1[T0] = s.x[i.rs1]
    BY <1>2, <1>3 DEF m1, Written, Good
  <2> QED BY <1>3, <1>4, <2>1, <2>2 DEF Alike, Gets
<1>6. \E n : Gets(c, i, 1, m, q, n) /\ Alike(i, m, n, Temps) /\ n[T0] = v
  <2>1. CASE i.imm = 0
    <3>1. a = 0 /\ q = 1 + 1
      BY <2>1 DEF AddSize, Worth
    <3>2. v = s.x[i.rs1]
      <4> DEFINE x == s.x[i.rs1]
                 M == W!Modulus
      <4>1. x \in 0 .. M - 1 /\ M \in Nat
        BY <1>2, WordIs DEF W!Cell
      <4>2. v = (x + i.imm) % M
        BY DEF Alu, W!Wrap
      <4> HIDE DEF x, M, v
      <4>3. v = x
        BY <2>1, <4>1, <4>2
      <4> QED BY <4>3 DEF x
    <3> HIDE DEF q, v
    <3> QED BY <1>4, <1>5, <3>1, <3>2
  <2>2. CASE i.imm # 0
    <3>1. Holds(c, 1 + 1, addcell32(T0, IMM(0))) /\ q = (1 + 1) + 3
      BY <2>2 DEF AddSize, Worth, JalrAdd, MayBe
    <3> DEFINE g == 1 + 1
    <3>2. Holds(c, g, addcell32(T0, IMM(0))) /\ q = g + 3 /\ Gets(c, i, 1, m, g, m1)
      BY <1>4, <3>1
    <3> HIDE DEF g, q
    <3>3. PICK n : /\ Gets(c, i, g, m1, g + 3, n) /\ Alike(i, m1, n, Plus(Low, T0))
                   /\ n[T0] = Alu("ADD", m1[T0], m1[IMM(0)])
      BY <1>3, <1>5, <3>2, RunsAdd
    <3>4. Gets(c, i, 1, m, g + 3, n)
      BY <3>2, <3>3, GetsOn
    <3>5. m1[IMM(0)] = i.imm
      BY <1>5, PoolValues
    <3>6. Plus(Low, T0) = Temps
      BY DEF Plus, Low, Temps
    <3>7. Alike(i, m, n, Temps)
      BY <1>5, <3>3, <3>6, AlikeOn
    <3> QED BY <1>5, <3>2, <3>3, <3>4, <3>5, <3>7
  <2> QED BY <2>1, <2>2
<1>7. PICK m2 : Gets(c, i, 1, m, q, m2) /\ Alike(i, m, m2, Temps) /\ m2[T0] = v
  BY <1>6
<1>8. v \in W!Cell /\ m2[Z] = 0 /\ m2[ONE] = 1
  <2>1. s.x[i.rs1] + i.imm \in Int
    BY <1>2, CellIs, PowerIs, WidthAssumption
  <2> QED BY <1>7, <2>1, PoolValues, WrapTyped DEF Alu, Gets
<1> HIDE DEF q, v
<1> DEFINE m3 == Written(m2, T1, m2[T0])
           m4 == Written(m3, T1, W!Select(m3[Z], m3[T1], m3[ONE]))
           m5 == Written(m4, T0, W!Wrap(m4[T0] - m4[T1]))
<1> HIDE DEF m3, m4, m5
<1>9. Gets(c, i, 1, m, q + 1, m3) /\ m3[T1] = v /\ \A x \in NamesOf(i) : x # T1 => m3[x] = m2[x]
  BY <1>1, <1>3, <1>7, MoveOn, WrittenAfter DEF m3
<1>10. Gets(c, i, 1, m, (q + 1) + 1, m4)
  BY <1>1, <1>3, <1>9, MuxOn DEF m4
<1>11. m4[T1] = W!Select(0, v, 1) /\ \A x \in NamesOf(i) : x # T1 => m4[x] = m2[x]
  BY <1>3, <1>8, <1>9, WrittenAfter DEF m4
<1>12. Gets(c, i, 1, m, ((q + 1) + 1) + 1, m5)
  BY <1>1, <1>3, <1>10, SubOn DEF m5
<1>13. m5[T0] = W!Wrap(v - W!Select(0, v, 1)) /\ \A x \in NamesOf(i) : x \notin Temps => m5[x] = m2[x]
  BY <1>3, <1>7, <1>10, <1>11, WrittenAfter DEF m5
<1>14. m5[T0] = Cleared(v, 0)
  <2>1. 0 \in W!Lanes /\ 2 ^ 0 = 1
    BY CellIs, WidthAssumption
  <2>2. W!Wrap(v - W!Select(0, v, 2 ^ 0)) = Cleared(v, 0)
    BY <1>8, <2>1, WordClear
  <2> QED BY <1>13, <2>1, <2>2
<1>15. Alike(i, m, m5, Temps) /\ Good(i, m5)
  BY <1>7, <1>12, <1>13 DEF Alike, Gets
<1>16. Has(i, m5, s)
  BY <1>15, ScratchIsPrivate, HasStill
<1> QED BY <1>1, <1>12, <1>14, <1>16 DEF JumpsTo, v

LEMMA JalrLinks ==
  ASSUME NEW c, NEW i, Lowerable(i), NEW p, NEW m, NEW q, NEW n,
         Gets(c, i, p, m, q, n), NEW s, Has(i, n, s), Holds(c, q, JalrLink(i))
  PROVE  \E l : /\ Gets(c, i, p, m, q + LinkSize(i), l) /\ Has(i, l, Linked(i, s)) /\ l[T0] = n[T0]
<1> DEFINE d == X(i.rd)
           k == IMM(1)
<1>1. i.rd \in Regs /\ Good(i, n) /\ n[k] = W!Wrap(i.pc + 4) /\ q \in Nat
  BY PoolValues DEF Lowerable, Has, Holds
<1>2. k \in NamesOf(i) /\ d \in Writable(i) /\ d # T0 /\ T0 \in NamesOf(i)
  <2>1. d \in Writable(i) \cap Source(i) /\ k \in NamesOf(i) /\ T0 \in NamesOf(i)
    BY <1>1, GuestCellsAre, ConstantsAre, ScratchAre DEF Writable, Source
  <2> QED BY <2>1 DEF Source, Temps
<1>3. CASE i.rd = 0
  BY <1>1, <1>3 DEF LinkSize, Worth, Linked
<1>4. CASE i.rd # 0
  <2>1. Holds(c, q, mov32(k, d)) /\ LinkSize(i) = 1
    BY <1>4 DEF JalrLink, LinkSize, MayBe, Worth
  <2> DEFINE l == Written(n, d, n[k])
  <2>2. Gets(c, i, p, m, q + 1, l)
    BY <1>2, <2>1, MoveOn
  <2>3. l[d] = n[k] /\ l[T0] = n[T0] /\ Alike(i, n, l, Plus({}, d))
    <3>1. Good(i, n) /\ d \in NamesOf(i)
      BY <1>1, <1>2 DEF Writable
    <3> HIDE DEF d, k
    <3>2. l[d] = n[k] /\ \A x \in NamesOf(i) : x # d => l[x] = n[x]
      BY <3>1 DEF Written, Good
    <3> QED BY <1>2, <3>2 DEF Alike, Plus
  <2>4. Good(i, l) /\ Private({})
    BY <2>2, ScratchIsPrivate DEF Gets
  <2> HIDE DEF l
  <2>5. Has(i, l, RegSet(s, i.rd, l[X(i.rd)]))
    BY <1>1, <1>4, <2>3, <2>4, HasReg
  <2> QED BY <1>1, <1>4, <2>1, <2>2, <2>3, <2>5 DEF Linked
<1> QED BY <1>3, <1>4

LEMMA JalrIs ==
  ASSUME NEW i, Lowerable(i), i.kind = "jalr", NEW s \in GuestStates, NEW to, to = Among(i.known, JumpsTo(i, s))
  PROVE  Execute(i, s) = Goes(Linked(i, s), Linked(i, s).x, to)
<1> DEFINE w == W!Wrap(i.pc + 4)
<1>1. Execute(i, s) = Goes(s, Set(s.x, i.rd, w), to)
  <2>1. JumpsTo(i, s) = WithBit(W!Wrap(s.x[i.rs1] + i.imm), 0, FALSE)
    BY DEF JumpsTo, Cleared, Alu
  <2> QED BY <2>1 DEF Execute
<1>2. Linked(i, s).x = Set(s.x, i.rd, w) /\ Linked(i, s).ram = s.ram /\ Linked(i, s).csr = s.csr
  BY DEF Linked, RegSet, Set, GuestStates
<1> QED BY <1>1, <1>2 DEF Goes

LEMMA KnownIsOne ==
  ASSUME NEW i, Lowerable(i), OneKnown(i)
  PROVE  \E n \in Nat : n <= 1 /\ Lists(Known(i), i.known, n)
<1>1. Lists(Known(i), i.known, Cardinality(i.known))
  BY KnownIs
<1>2. Cardinality(i.known) \in Nat
  BY FS_CardinalityType DEF Lowerable
<1> QED BY <1>1, <1>2 DEF OneKnown

LEMMA MeansJalr ==
  ASSUME NEW i, Lowerable(i), i.kind = "jalr", OneKnown(i), NEW s \in GuestStates
  PROVE  Means(i, s)
<1> DEFINE c == emit_one32(i)
           m == Image(i, s)
           t == Linked(i, s)
           q == Found(JumpsTo(i, s), i.known)
           a == AddSize(i)
           b == LinkSize(i)
<1>1. c = emit_jalr32(i)
  BY DEF emit_one32
<1>2. PICK n \in Nat : n <= 1 /\ Lists(Known(i), i.known, n)
  BY KnownIsOne
<1>3. Len(Known(i)) = n
  BY <1>2 DEF Lists
<1>4. Holds(c, 1, emit_jalr32(i)) /\ Short(c)
  <2> DEFINE l == (4 + a + b) + (5 * n + 1)
  <2>1. Sized(emit_jalr32(i), l) /\ a \in 0 .. 3 /\ b \in 0 .. 1
    BY <1>2, <1>3, JalrPieces
  <2>2. l \in Nat /\ l <= 9000
    BY <1>2, <2>1
  <2> HIDE DEF l, c
  <2> QED BY <1>1, <2>1, <2>2 DEF Holds, Piece, Short, Sized
<1>5. Has(i, m, s)
  BY HasImage
<1>6. c = emit_one32(i) /\ m = Image(i, s)
  OBVIOUS
<1> HIDE DEF c, m
<1>7. /\ a \in 0 .. 3 /\ b \in 0 .. 1
      /\ Holds(c, 1, mov32(X(i.rs1), T0)) /\ Holds(c, 1 + 1, JalrAdd(i))
      /\ Holds(c, 1 + (1 + a), mov32(T0, T1)) /\ Holds(c, 1 + (2 + a), mux32op(Z, T1, ONE))
      /\ Holds(c, 1 + (3 + a), subnb32(T1, T0)) /\ Holds(c, 1 + (4 + a), JalrLink(i))
      /\ Holds(c, 1 + (4 + a + b), emit_dispatch32(T0, Known(i)))
  BY <1>3, <1>4, JalrPieces
<1> DEFINE g == 5 + a
           h == g + b
<1>8. g = 1 + (4 + a) /\ h = 1 + (4 + a + b)
  BY <1>7
<1>9. PICK n1 : Gets(c, i, 1, m, g, n1) /\ Has(i, n1, s) /\ n1[T0] = JumpsTo(i, s)
  BY <1>5, <1>7, JalrTarget
<1>10. Holds(c, g, JalrLink(i)) /\ Holds(c, h, emit_dispatch32(T0, Known(i)))
  BY <1>7, <1>8
<1> HIDE DEF g
<1>11. PICK n2 : Gets(c, i, 1, m, h, n2) /\ Has(i, n2, t) /\ n2[T0] = n1[T0]
  BY <1>9, <1>10, JalrLinks
<1> HIDE DEF h, t
<1>12. Good(i, n2) /\ T0 \in NamesOf(i)
  BY <1>11, ScratchAre DEF Gets, Writable
<1>13. PICK l : Gets(c, i, h, n2, Found(n2[T0], i.known), l) /\ Alike(i, n2, l, Temps)
  BY <1>2, <1>10, <1>12, RunsOne
<1>14. Gets(c, i, 1, m, q, l)
  <2>1. Gets(c, i, h, n2, q, l)
    BY <1>9, <1>11, <1>13
  <2> QED BY <1>11, <2>1, GetsOn
<1>15. Has(i, l, t)
  <2>1. Good(i, l)
    BY <1>14 DEF Gets
  <2> QED BY <1>11, <1>13, <2>1, ScratchIsPrivate, HasStill
<1>16. WhereIn(c, q) = Among(i.known, JumpsTo(i, s)) /\ q > Len(c)
  BY <1>4, WhereFound
<1> HIDE DEF q
<1>17. Execute(i, s) = Goes(t, t.x, WhereIn(c, q))
  BY <1>16, JalrIs DEF t
<1> QED BY <1>6, <1>14, <1>15, <1>16, <1>17, MeansHas

------------------------------------------------------------------------------
(* Where the pieces of a sequence begin, and how far the last one reaches. *)
LEMMA OffsetsExist ==
  ASSUME NEW s, NEW n \in Nat, Len(s) = n, NEW size, NEW b \in Nat,
         \A k \in 1 .. n : size[k] \in 0 .. b /\ Sized(s[k], size[k])
  PROVE  \E off : Offsets(off, s) /\ off[n + 1] <= b * n
<1>1. PICK u : Counting(u, size, n)
  BY CountingExists
<1>2. \A k \in 0 .. n : u[k] = IF k = 0 THEN 0 ELSE u[k - 1] + size[k]
  BY <1>1 DEF Counting
<1> DEFINE S == {k \in Nat : k <= n => u[k] \in Nat /\ u[k] <= b * k}
<1>3. 0 \in S
  BY <1>2
<1>4. ASSUME NEW k \in Nat, k \in S PROVE k + 1 \in S
  <2> SUFFICES ASSUME k + 1 <= n PROVE u[k + 1] \in Nat /\ u[k + 1] <= b * (k + 1)
    OBVIOUS
  <2>1. k + 1 \in 1 .. n /\ k + 1 \in 0 .. n /\ k + 1 # 0 /\ (k + 1) - 1 = k /\ k <= n
    OBVIOUS
  <2>2. u[k + 1] = u[k] + size[k + 1] /\ size[k + 1] \in 0 .. b
    BY <1>2, <2>1
  <2>3. u[k] \in Nat /\ u[k] <= b * k
    BY <1>4, <2>1
  <2>4. b * (k + 1) = b * k + b /\ b * k \in Nat
    BY Z3
  <2> QED BY <2>2, <2>3, <2>4
<1>5. Nat \subseteq S
  <2> HIDE DEF S
  <2> QED BY <1>3, <1>4, AllNaturals
<1>6. \A k \in 0 .. n : u[k] \in Nat /\ u[k] <= b * k
  BY <1>5
<1> DEFINE off == [k \in 1 .. n + 1 |-> u[k - 1]]
<1>7. off \in [1 .. n + 1 -> Nat] /\ off[1] = 0 /\ off[n + 1] = u[n]
      /\ \A k \in 1 .. n : off[k] = u[k - 1] /\ off[k + 1] = u[k]
  <2>1. ASSUME NEW k \in 1 .. n + 1 PROVE u[k - 1] \in Nat
    <3>1. k - 1 \in 0 .. n
      OBVIOUS
    <3> QED BY <1>6, <3>1
  <2>2. off \in [1 .. n + 1 -> Nat]
    BY <2>1
  <2>3. \A k \in 1 .. n : k \in 1 .. n + 1 /\ k + 1 \in 1 .. n + 1 /\ (k + 1) - 1 = k
    OBVIOUS
  <2>4. 1 \in 1 .. n + 1 /\ n + 1 \in 1 .. n + 1 /\ (n + 1) - 1 = n /\ u[0] = 0
    BY <1>2
  <2> QED BY <2>2, <2>3, <2>4
<1> HIDE DEF off
<1>8. ASSUME NEW k \in 1 .. n PROVE Sized(s[k], off[k + 1] - off[k])
  <2>1. k \in 0 .. n /\ k # 0 /\ k - 1 \in 0 .. n
    OBVIOUS
  <2>2. u[k] = u[k - 1] + size[k] /\ u[k - 1] \in Nat /\ size[k] \in Nat
    BY <1>2, <1>6, <2>1
  <2>3. off[k + 1] - off[k] = size[k]
    BY SMTT(40), <1>7, <2>2
  <2> QED BY <2>3
<1>9. Offsets(off, s)
  BY <1>7, <1>8 DEF Offsets
<1>10. off[n + 1] <= b * n
  <2>1. n \in 0 .. n
    OBVIOUS
  <2> QED BY <1>6, <1>7, <2>1
<1> QED BY <1>9, <1>10

------------------------------------------------------------------------------
(* Shifts and masks.                                                       *)
LEMMA PowerSplits ==
  ASSUME NEW n \in 0 .. Width, NEW i \in 0 .. n
  PROVE  /\ 2 ^ n = 2 ^ i * 2 ^ (n - i) /\ 2 ^ i <= 2 ^ n
         /\ 2 ^ n \in Nat \ {0} /\ 2 ^ i \in Nat \ {0} /\ 2 ^ (n - i) \in Nat \ {0}
<1> DEFINE p == 2 ^ i
           h == 2 ^ (n - i)
<1>1. i \in 0 .. Width /\ n - i \in 0 .. Width /\ i \in Nat /\ n - i \in Nat /\ i + (n - i) = n /\ i + (n - i) <= Width
  BY WidthAssumption
<1>2. p \in Nat \ {0} /\ h \in Nat \ {0} /\ 2 ^ n \in Nat \ {0}
  BY <1>1, PowerIs
<1>3. 2 ^ n = p * h
  BY <1>1, PowerSum
<1> HIDE DEF p, h
<1>4. p <= p * h
  <2>1. h - 1 \in Nat /\ h = (h - 1) + 1
    BY <1>2
  <2>2. ASSUME NEW k \in Nat PROVE p <= p * (k + 1)
    BY <1>2, Z3
  <2> QED BY <2>1, <2>2
<1> QED BY <1>2, <1>3, <1>4 DEF p, h

LEMMA BitUnder ==
  ASSUME NEW v \in Nat, NEW k \in Nat, NEW n \in 0 .. Width, NEW i \in 0 .. n - 1
  PROVE  BitOf(v + 2 ^ n * k, i) = BitOf(v, i)
<1> DEFINE p == 2 ^ i
           h == 2 ^ (n - i - 1)
<1>1. i \in 0 .. Width /\ n - i - 1 \in 0 .. Width /\ n - i = (n - i - 1) + 1 /\ n - i \in Nat /\ n = i + (n - i)
  BY WidthAssumption
<1>2. p \in Nat \ {0} /\ h \in Nat
  BY <1>1, PowerIs
<1>3. 2 ^ (n - i) = 2 * h
  BY <1>1, PowerAssumption
<1>4. 2 ^ n = p * (2 * h)
  <2>1. i + (n - i) <= Width
    BY <1>1
  <2> QED BY <1>1, <1>3, <2>1, PowerSum
<1> HIDE DEF p, h
<1>5. h * k \in Nat /\ 2 * (h * k) \in Nat /\ (p * (2 * h)) * k = p * (2 * (h * k))
  BY <1>2, Z3
<1>6. (v + p * (2 * (h * k))) \div p = v \div p + 2 * (h * k)
  BY <1>2, <1>5, DivShift
<1>7. v \div p \in Nat
  BY <1>2, DivMod
<1>8. (v \div p + 2 * (h * k)) % 2 = (v \div p) % 2
  BY <1>5, <1>7, Parity
<1> QED BY <1>4, <1>5, <1>6, <1>8 DEF BitOf, p

LEMMA DivBelow ==
  ASSUME NEW p \in Nat \ {0}, NEW m \in Nat, NEW v \in Nat, v < p * m
  PROVE  v \div p < m
<1> DEFINE q == v \div p
           r == v % p
<1>1. q \in Nat /\ r \in 0 .. p - 1 /\ v = p * q + r
  BY DivMod
<1> HIDE DEF q, r
<1> SUFFICES ASSUME q >= m PROVE FALSE
  BY <1>1 DEF q
<1>2. q - m \in Nat /\ q = m + (q - m)
  BY <1>1
<1>3. ASSUME NEW k \in Nat PROVE p * (m + k) >= p * m /\ p * m \in Nat /\ p * (m + k) \in Nat
  BY Z3
<1>4. p * q >= p * m /\ p * m \in Nat /\ p * q \in Nat
  BY <1>2, <1>3
<1> QED BY <1>1, <1>4

(* The cell shifted right, and its low bits.                               *)
LEMMA DivBits ==
  ASSUME NEW v \in W!Cell, NEW k \in 0 .. Width
  PROVE  /\ v \div 2 ^ k \in 0 .. 2 ^ (Width - k) - 1 /\ v \div 2 ^ k \in W!Cell
         /\ W!Bits(v \div 2 ^ k) = {i \in W!Lanes : i + k \in W!Bits(v)}
<1> DEFINE p == 2 ^ k
           h == 2 ^ (Width - k)
           w == v \div p
<1>1. p \in Nat \ {0} /\ h \in Nat \ {0} /\ 2 ^ Width = p * h /\ h <= 2 ^ Width /\ 2 ^ Width \in Nat
  <2>1. Width \in 0 .. Width /\ Width - k \in 0 .. Width
    BY WidthAssumption
  <2> QED BY <2>1, PowerSplits
<1>2. v \in Nat /\ v < p * h /\ W!Lanes = 0 .. Width - 1
  BY <1>1, CellIs
<1>3. w \in Nat /\ w < h
  <2> HIDE DEF p, h
  <2> QED BY <1>1, <1>2, DivMod, DivBelow
<1>4. w \in 0 .. h - 1 /\ w \in W!Cell
  <2> HIDE DEF h, w
  <2> QED BY <1>1, <1>3, CellIs
<1>5. ASSUME NEW i \in W!Lanes, i + k < Width PROVE BitOf(w, i) = BitOf(v, i + k)
  <2>1. i + k \in 0 .. Width /\ k \in 0 .. i + k /\ (i + k) - k = i
    BY <1>2, <1>5, WidthAssumption
  <2>2. 2 ^ (i + k) = p * 2 ^ i /\ 2 ^ i \in Nat \ {0}
    BY <2>1, PowerSplits
  <2>3. (v \div p) \div 2 ^ i = v \div (p * 2 ^ i)
    <3> HIDE DEF p
    <3> QED BY <1>1, <1>2, <2>2, DivTwice
  <2> QED BY <2>2, <2>3 DEF BitOf
<1>6. ASSUME NEW i \in W!Lanes, ~(i + k < Width) PROVE BitOf(w, i) = 0
  <2>1. i \in 0 .. Width /\ Width - k \in 0 .. i
    BY <1>2, <1>6, WidthAssumption
  <2>2. h <= 2 ^ i /\ 2 ^ i \in Nat
    BY <2>1, PowerSplits
  <2>3. w \in 0 .. 2 ^ i - 1
    <3> HIDE DEF h, w
    <3> QED BY <1>1, <1>3, <2>2
  <2> QED BY <2>1, <2>3, BitAbove
<1>7. W!Bits(w) = {i \in W!Lanes : i + k \in W!Bits(v)}
  <2>1. ASSUME NEW i \in W!Lanes PROVE i \in W!Bits(w) <=> i + k \in W!Bits(v)
    <3>1. i \in W!Bits(w) <=> BitOf(w, i) = 1
      BY <1>2, BitsAre
    <3>2. CASE i + k < Width
      <4>1. i + k \in 0 .. Width - 1
        BY <1>2, <3>2, WidthAssumption
      <4>2. i + k \in W!Bits(v) <=> BitOf(v, i + k) = 1
        BY <4>1, BitsAre
      <4> QED BY <1>5, <3>1, <3>2, <4>2
    <3>3. CASE ~(i + k < Width)
      <4>1. i + k \notin 0 .. Width - 1
        BY <1>2, <3>3, WidthAssumption
      <4>2. i + k \notin W!Bits(v)
        BY <4>1, BitsAre
      <4> QED BY <1>6, <3>1, <3>3, <4>2
    <3> QED BY <3>2, <3>3
  <2>2. W!Bits(w) \in SUBSET W!Lanes
    BY <1>4, CellOfBits
  <2> QED BY <2>1, <2>2
<1> QED BY <1>4, <1>7

LEMMA ModBits ==
  ASSUME NEW v \in W!Cell, NEW n \in 0 .. Width
  PROVE  /\ v % 2 ^ n \in 0 .. 2 ^ n - 1 /\ v % 2 ^ n \in W!Cell
         /\ W!Bits(v % 2 ^ n) = {i \in W!Bits(v) : i < n}
<1> DEFINE p == 2 ^ n
           q == v \div p
           r == v % p
<1>1. p \in Nat \ {0} /\ p <= 2 ^ Width /\ 2 ^ Width \in Nat
  <2>1. Width \in 0 .. Width
    BY WidthAssumption
  <2> QED BY <2>1, PowerSplits
<1>2. v \in Nat /\ W!Lanes = 0 .. Width - 1
  BY CellIs, <1>1
<1>3. q \in Nat /\ r \in 0 .. p - 1 /\ v = p * q + r
  <2> HIDE DEF p
  <2> QED BY <1>1, <1>2, DivMod
<1>4. r \in W!Cell /\ r \in Nat /\ r \in 0 .. p - 1 /\ p * q \in Nat /\ v = r + p * q
  <2> HIDE DEF p, q, r
  <2>1. p * q \in Nat
    BY <1>1, <1>3, Z3
  <2> QED BY <1>1, <1>3, <2>1, CellIs
<1> HIDE DEF q, r
<1>5. ASSUME NEW i \in W!Lanes, i < n PROVE BitOf(r, i) = BitOf(v, i)
  <2>1. i \in 0 .. n - 1
    BY <1>2, <1>5
  <2> QED BY <1>3, <1>4, <2>1, BitUnder
<1>6. ASSUME NEW i \in W!Lanes, ~(i < n) PROVE BitOf(r, i) = 0
  <2>1. i \in 0 .. Width /\ n \in 0 .. i
    BY <1>2, <1>6, WidthAssumption
  <2>2. p <= 2 ^ i /\ 2 ^ i \in Nat
    BY <2>1, PowerSplits
  <2>3. r \in 0 .. 2 ^ i - 1
    <3> HIDE DEF p
    <3> QED BY <1>1, <1>4, <2>2
  <2> QED BY <2>1, <2>3, BitAbove
<1>7. W!Bits(r) = {i \in W!Bits(v) : i < n}
  <2>1. ASSUME NEW i \in W!Lanes PROVE i \in W!Bits(r) <=> i \in W!Bits(v) /\ i < n
    <3>1. (i \in W!Bits(r) <=> BitOf(r, i) = 1) /\ (i \in W!Bits(v) <=> BitOf(v, i) = 1)
      BY <1>2, BitsAre
    <3> QED BY <1>5, <1>6, <3>1
  <2>2. W!Bits(r) \in SUBSET W!Lanes /\ W!Bits(v) \in SUBSET W!Lanes
    BY <1>4, CellOfBits
  <2> QED BY <2>1, <2>2
<1> QED BY <1>4, <1>7 DEF r

LEMMA OnesAre == \A n \in 0 .. Width : 2 ^ n - 1 \in W!Cell /\ W!Bits(2 ^ n - 1) = 0 .. n - 1
<1> DEFINE Ones(n) == 2 ^ n - 1 \in W!Cell /\ W!Bits(2 ^ n - 1) = 0 .. n - 1
           S == {n \in Nat : n <= Width => Ones(n)}
<1>1. 0 \in S
  <2>1. 2 ^ 0 - 1 = 0 /\ 0 .. 0 - 1 = {}
    OBVIOUS
  <2> QED BY <2>1, NoBits
<1>2. ASSUME NEW n \in Nat, n \in S PROVE n + 1 \in S
  <2> SUFFICES ASSUME n + 1 <= Width PROVE Ones(n + 1)
    OBVIOUS
  <2>1. n \in 0 .. Width /\ n \in 0 .. Width - 1 /\ n \in W!Lanes
    BY WidthAssumption, CellIs
  <2>2. Ones(n)
    BY <1>2, <2>1
  <2>3. 2 ^ n \in Nat /\ 2 ^ (n + 1) = 2 * 2 ^ n
    BY <2>1, PowerIs, PowerAssumption
  <2> DEFINE w == 2 ^ n - 1
  <2>4. w + 2 ^ n = 2 ^ (n + 1) - 1
    BY <2>3
  <2>5. n \notin W!Bits(w) /\ w \in W!Cell
    BY <2>2
  <2> HIDE DEF w
  <2>6. w + 2 ^ n \in W!Cell /\ W!Bits(w + 2 ^ n) = W!Bits(w) \cup {n}
    BY <2>1, <2>5, SetBitIs
  <2>7. W!Bits(w) = 0 .. n - 1
    BY <2>2 DEF w
  <2>8. (0 .. n - 1) \cup {n} = 0 .. (n + 1) - 1
    OBVIOUS
  <2> QED BY <2>4, <2>6, <2>7, <2>8
<1>3. Nat \subseteq S
  <2> HIDE DEF S
  <2> QED BY <1>1, <1>2, AllNaturals
<1> QED BY <1>3, WidthAssumption

LEMMA WordMask ==
  ASSUME NEW v \in W!Cell, NEW n \in 0 .. Width, NEW k, k = 2 ^ n - 1
  PROVE  W!Select(0, v, k) = v % 2 ^ n
<1>1. W!Bits(k) = 0 .. n - 1
  BY OnesAre
<1>2. W!Bits(W!Select(0, v, k)) = (W!Bits(0) \ W!Bits(k)) \cup (W!Bits(v) \cap W!Bits(k))
  BY SelectBits
<1>3. W!Bits(v) \in SUBSET W!Lanes /\ W!Lanes = 0 .. Width - 1 /\ W!Bits(0) = {}
  BY CellOfBits, NoBits, CellIs
<1>4. {i \in W!Bits(v) : i < n} = W!Bits(v) \cap (0 .. n - 1)
  BY <1>3
<1>5. W!Bits(W!Select(0, v, k)) = W!Bits(v % 2 ^ n)
  BY <1>1, <1>2, <1>3, <1>4, ModBits
<1> QED BY <1>5, SelectTyped, ModBits, SameBits

------------------------------------------------------------------------------
(* Guest memory.                                                           *)
LEMMA MemoryCells ==
  ASSUME NEW i
  PROVE  /\ {WINMASK, RAMBC, MFF, M1F} \subseteq Constants(i)
         /\ OPERAND \in Writable(i) /\ OPERAND \notin {T0, T1, T2, SH1, SH2}
         /\ \A m, c : Good(i, m) /\ c \in NamesOf(i) => CellIn(m, c) = c
<1>1. {WINMASK, RAMBC, MFF, M1F} \subseteq Constants(i)
  BY DEF Constants
<1>2. OPERAND \notin Constants(i)
  BY DEF OPERAND, Constants, Z, NEG1, SGN, ONE, M1F, MFF, WINMASK, RAMBC, IMM, COUNT, MCAUSE, MASK, ADDR
<1>3. OPERAND \in NamesOf(i)
  BY DEF NamesOf, Scratch
<1>4. OPERAND \notin {T0, T1, T2, SH1, SH2}
  BY DEF OPERAND, T0, T1, T2, SH1, SH2
<1>5. \A m, c : Good(i, m) /\ c \in NamesOf(i) => CellIn(m, c) = c
  BY NoDeref DEF CellIn
<1> QED BY <1>1, <1>2, <1>3, <1>4, <1>5 DEF Writable

LEMMA MemoryValues ==
  ASSUME NEW i, NEW m, Good(i, m)
  PROVE  /\ m[M1F] = Width - 1 /\ m[MFF] = 2 ^ BYTE - 1
         /\ m[WINMASK] = Window - 1 /\ m[RAMBC] = RamBase
<1>1. /\ Pool(i)[M1F] = Width - 1 /\ Pool(i)[MFF] = 2 ^ BYTE - 1
      /\ Pool(i)[WINMASK] = Window - 1 /\ Pool(i)[RAMBC] = RamBase
  BY DEF Pool, Constants, Z, NEG1, SGN, ONE, M1F, MFF, WINMASK, RAMBC, IMM, COUNT, MCAUSE
<1> QED BY <1>1, MemoryCells DEF Good

(* The guest address k, as the cells have it.                              *)
InWindow(k) == k \in 0 .. Window - 1

LEMMA WindowMask ==
  ASSUME NEW v \in W!Cell
  PROVE  W!Select(0, v, Window - 1) = v % Window /\ InWindow(v % Window)
<1>1. PICK n \in 0 .. Width : Window = 2 ^ n
  BY GuestAssumption
<1>2. W!Select(0, v, Window - 1) = v % 2 ^ n
  BY <1>1, WordMask
<1>3. v % 2 ^ n \in 0 .. 2 ^ n - 1
  BY ModBits
<1> QED BY <1>1, <1>2, <1>3 DEF InWindow

LEMMA RamAddress ==
  ASSUME NEW k, InWindow(k)
  PROVE  /\ k \in W!Cell /\ RamBase + k \in W!Cell /\ Alu("ADD", k, RamBase) = RamBase + k
         /\ (RamBase + k) - RamBase = k
<1>1. /\ RamBase \in Nat /\ RamBase + Window \in 0 .. W!Modulus - 1 /\ W!Modulus \in Nat \ {0}
      /\ W!Cell = 0 .. W!Modulus - 1 /\ Window \in Nat
  BY RamAssumption, GuestAssumption, WordIs DEF W!Cell
<1>2. k \in Nat /\ k < Window
  BY <1>1 DEF InWindow
<1> DEFINE w == RamBase + k
           M == W!Modulus
<1>3. w \in 0 .. M - 1 /\ k \in 0 .. M - 1 /\ k + RamBase = w /\ M \in Nat \ {0} /\ w - RamBase = k
  BY <1>1, <1>2
<1> HIDE DEF w, M
<1>4. w % M = w
  BY <1>3
<1>5. Alu("ADD", k, RamBase) = w
  BY <1>3, <1>4 DEF Alu, W!Wrap, M
<1> QED BY <1>1, <1>3, <1>5 DEF w, M

\* emit_addr32 leaves everything but T0 and T2 alone, T1 and the value in it too.
LEMMA AddrIs ==
  ASSUME NEW a, NEW k
  PROVE  /\ Sized(emit_addr32(a, k), 8)
         /\ \A c, p : Holds(c, p, emit_addr32(a, k)) =>
              /\ Holds(c, p, mov32(a, T0)) /\ Holds(c, p + 1, addcell32(T0, k))
              /\ Holds(c, p + 4, mux32op(Z, T0, WINMASK)) /\ Holds(c, p + 5, addcell32(T0, RAMBC))
<1> DEFINE s1 == mov32(a, T0)
           s2 == addcell32(T0, k)
           s3 == mux32op(Z, T0, WINMASK)
           s4 == addcell32(T0, RAMBC)
<1>1. Sized(s1, 1) /\ Sized(s2, 3) /\ Sized(s3, 1) /\ Sized(s4, 3)
  BY SizesAre
<1>2. emit_addr32(a, k) = s1 \o s2 \o s3 \o s4
  BY DEF emit_addr32
<1> HIDE DEF s1, s2, s3, s4
<1>3. Sized(s1 \o s2, 1 + 3)
  BY <1>1, SizedJoin
<1>4. Sized(s1 \o s2 \o s3, (1 + 3) + 1)
  BY <1>1, <1>3, SizedJoin
<1>5. Sized(s1 \o s2 \o s3 \o s4, ((1 + 3) + 1) + 3)
  BY <1>1, <1>4, SizedJoin
<1>6. ASSUME NEW c, NEW p, Holds(c, p, s1 \o s2 \o s3 \o s4)
      PROVE  Holds(c, p, s1) /\ Holds(c, p + 1, s2) /\ Holds(c, p + 4, s3) /\ Holds(c, p + 5, s4)
  <2>1. Holds(c, p, s1 \o s2 \o s3) /\ Holds(c, p + ((1 + 3) + 1), s4)
    BY <1>1, <1>4, <1>6, SizedSplit
  <2>2. Holds(c, p, s1 \o s2) /\ Holds(c, p + (1 + 3), s3)
    BY <1>1, <1>3, <2>1, SizedSplit
  <2>3. Holds(c, p, s1) /\ Holds(c, p + 1, s2)
    BY <1>1, <2>2, SizedSplit
  <2> QED BY <2>1, <2>2, <2>3
<1> QED BY <1>2, <1>5, <1>6 DEF s1, s2, s3, s4

AddrTemps == {T0, T2}

LEMMA RunsAddr ==
  ASSUME NEW c, NEW i, NEW p, NEW m, Good(i, m), NEW a \in NamesOf(i) \ AddrTemps, NEW k \in NamesOf(i) \ AddrTemps,
         Holds(c, p, emit_addr32(a, k))
  PROVE  \E n : /\ Gets(c, i, p, m, p + 8, n) /\ Alike(i, m, n, AddrTemps)
                /\ n[T0] = RamBase + At(m[a], m[k]) /\ InWindow(At(m[a], m[k]))
<1> DEFINE m1 == Written(m, T0, m[a])
           v == Alu("ADD", m[a], m[k])
           g == At(m[a], m[k])
<1>1. /\ Holds(c, p, mov32(a, T0)) /\ Holds(c, p + 1, addcell32(T0, k))
      /\ Holds(c, p + 4, mux32op(Z, T0, WINMASK)) /\ Holds(c, p + 5, addcell32(T0, RAMBC))
  BY AddrIs
<1>2. p \in Nat /\ (p + 1) + 3 = p + 4 /\ (p + 4) + 1 = p + 5 /\ (p + 5) + 3 = p + 8
  <2>1. p \in Nat
    BY DEF Holds
  <2> QED BY <2>1
<1>3. /\ T0 \in Writable(i) /\ T0 \in NamesOf(i) /\ T0 # T2 /\ T2 \in NamesOf(i)
      /\ {Z, WINMASK, RAMBC} \subseteq NamesOf(i) \ AddrTemps
      /\ a \in NamesOf(i) /\ k \in NamesOf(i) /\ k # T2 /\ k # T0 /\ a # T0
  BY ScratchAre, ConstantsAre, MemoryCells DEF Writable, Source, AddrTemps, Temps
<1>4. v = W!Wrap(m[a] + m[k]) /\ v \in W!Cell /\ g = v % Window /\ InWindow(g) /\ W!Select(0, v, Window - 1) = g
  <2>1. m[a] \in Int /\ m[k] \in Int
    BY <1>3, GoodTyped
  <2>2. v = W!Wrap(m[a] + m[k]) /\ m[a] + m[k] \in Int
    BY <2>1 DEF Alu
  <2>3. v \in W!Cell
    BY <2>2, WrapTyped
  <2> QED BY <2>2, <2>3, WindowMask DEF At
<1> HIDE DEF m1, v, g
<1>5. Gets(c, i, p, m, p, m)
  BY GetsItself
<1>6. Gets(c, i, p, m, p + 1, m1)
  BY <1>1, <1>3, <1>5, MoveOn DEF m1
<1>7. m1[T0] = m[a] /\ (\A x \in NamesOf(i) : x # T0 => m1[x] = m[x])
  BY <1>3, <1>5, WrittenAfter DEF m1
<1>8. T0 \in Writable(i) \ {T2} /\ k \in NamesOf(i) \ {T2} /\ RAMBC \in NamesOf(i) \ {T2} /\ Good(i, m1)
  BY <1>3, <1>6 DEF Gets, AddrTemps
<1>9. PICK m2 : /\ Gets(c, i, p + 1, m1, (p + 1) + 3, m2) /\ Alike(i, m1, m2, Plus({T2}, T0))
                /\ m2[T0] = Alu("ADD", m1[T0], m1[k])
  BY <1>1, <1>8, RunsSum
<1>10. Gets(c, i, p, m, p + 4, m2)
  BY <1>2, <1>6, <1>9, GetsOn
<1>11. m2[T0] = v /\ Alike(i, m, m2, AddrTemps)
  BY <1>3, <1>7, <1>9 DEF v, Alike, Plus, AddrTemps
<1> DEFINE m3 == Written(m2, T0, W!Select(m2[Z], m2[T0], m2[WINMASK]))
<1>12. Good(i, m2) /\ m2[Z] = 0 /\ m2[WINMASK] = Window - 1
  BY <1>10, PoolValues, MemoryValues DEF Gets
<1>13. Gets(c, i, p, m, p + 5, m3)
  <2>1. T0 \in Writable(i) /\ Z \in NamesOf(i) /\ WINMASK \in NamesOf(i)
    BY <1>3
  <2>2. Gets(c, i, p, m, (p + 4) + 1, m3)
    BY <1>1, <1>10, <2>1, MuxOn
  <2> QED BY <1>2, <2>2
<1>14. m3[T0] = g /\ \A x \in NamesOf(i) : x # T0 => m3[x] = m2[x]
  BY <1>3, <1>4, <1>10, <1>11, <1>12, WrittenAfter
<1> HIDE DEF m3
<1>15. Good(i, m3)
  BY <1>13 DEF Gets
<1>16. PICK n : /\ Gets(c, i, p + 5, m3, (p + 5) + 3, n) /\ Alike(i, m3, n, Plus({T2}, T0))
                /\ n[T0] = Alu("ADD", m3[T0], m3[RAMBC])
  BY <1>1, <1>8, <1>15, RunsSum
<1>17. Gets(c, i, p, m, p + 8, n)
  BY <1>2, <1>13, <1>16, GetsOn
<1>18. n[T0] = RamBase + g
  BY <1>4, <1>14, <1>15, <1>16, MemoryValues, RamAddress
<1>19. Alike(i, m, n, AddrTemps)
  BY <1>11, <1>14, <1>16 DEF Alike, Plus, AddrTemps
<1> QED BY <1>4, <1>17, <1>18, <1>19 DEF g

(* Through the patched operand: T0 holds the native address of byte k.     *)
Through(m, k) == Written(m, OPERAND, RamBase + k)

LEMMA PatchRuns ==
  ASSUME NEW c, NEW i, NEW p, NEW m, Good(i, m), NEW k, InWindow(k), m[T0] = RamBase + k,
         Holds(c, p, mov32(T0, OPERAND))
  PROVE  LET n == Through(m, k)
         IN  /\ Gets(c, i, p, m, p + 1, n) /\ CellIn(n, DEREF) = RAM(k)
             /\ \A x \in NamesOf(i) : x # OPERAND => n[x] = m[x]
<1> DEFINE n == Through(m, k)
<1>1. T0 \in NamesOf(i) /\ OPERAND \in Writable(i) /\ OPERAND \in NamesOf(i)
  BY ScratchAre, MemoryCells DEF Writable
<1>2. Gets(c, i, p, m, p + 1, Written(m, OPERAND, m[T0]))
  BY <1>1, MoveRuns
<1>3. Gets(c, i, p, m, p + 1, n)
  BY <1>2 DEF Through
<1>4. n[OPERAND] = RamBase + k /\ \A x \in NamesOf(i) : x # OPERAND => n[x] = m[x]
  BY <1>1, WrittenIs DEF Through
<1>5. CellIn(n, DEREF) = RAM(k)
  <2>1. n[OPERAND] - RamBase = k
    BY <1>4, RamAddress
  <2> HIDE DEF n
  <2> QED BY <2>1 DEF CellIn, PointedIn, InWindow
<1> QED BY <1>3, <1>4, <1>5

\* What a load into d, or a store to it, changes.
Patched(d) == {OPERAND, d}

LEMMA AtAre ==
  ASSUME NEW x
  PROVE  /\ Sized(load_at32(x), 2) /\ Sized(store_at32(x), 2)
         /\ \A c, p : Holds(c, p, load_at32(x)) =>
              Holds(c, p, mov32(T0, OPERAND)) /\ Holds(c, p + 1, mov32(DEREF, x))
         /\ \A c, p : Holds(c, p, store_at32(x)) =>
              Holds(c, p, mov32(T0, OPERAND)) /\ Holds(c, p + 1, mov32(x, DEREF))
BY Row2, EmittersAreSingle DEF load_at32, store_at32, Sized

\* A byte of RAM is loaded into a cell of the image.
LEMMA RunsLoadAt ==
  ASSUME NEW c, NEW i, NEW p, NEW m, Good(i, m), NEW k, InWindow(k), m[T0] = RamBase + k,
         NEW d \in Writable(i), d # OPERAND, Holds(c, p, load_at32(d))
  PROVE  \E n : /\ Gets(c, i, p, m, p + 2, n) /\ Alike(i, m, n, Patched(d)) /\ n[d] = m[RAM(k)]
<1> DEFINE m1 == Through(m, k)
           n == Written(m1, d, m1[RAM(k)])
<1>1. Holds(c, p, mov32(T0, OPERAND)) /\ Holds(c, p + 1, mov32(DEREF, d)) /\ (p + 1) + 1 = p + 2
  <2>1. p \in Nat
    BY DEF Holds
  <2> QED BY <2>1, AtAre
<1>2. /\ Gets(c, i, p, m, p + 1, m1) /\ CellIn(m1, DEREF) = RAM(k)
      /\ \A x \in NamesOf(i) : x # OPERAND => m1[x] = m[x]
  BY <1>1, PatchRuns
<1>3. RAM(k) \in NamesOf(i) /\ RAM(k) # OPERAND /\ d \in NamesOf(i)
  BY GuestCellsAre DEF InWindow, Writable, Scratch
<1>4. Good(i, m1) /\ CellIn(m1, d) = d
  BY <1>2, <1>3, MemoryCells DEF Gets
<1> HIDE DEF m1
<1>5. Gets(c, i, p + 1, m1, (p + 1) + 1, n)
  BY <1>1, <1>2, <1>3, <1>4, MoveThrough
<1>6. Gets(c, i, p, m, p + 2, n)
  BY <1>1, <1>2, <1>5, GetsOn
<1>7. \A x \in NamesOf(i) : n[x] = IF x = d THEN m1[RAM(k)] ELSE m1[x]
  BY <1>3, <1>4, WrittenIs
<1> HIDE DEF n
<1> QED BY <1>2, <1>3, <1>6, <1>7 DEF Alike, Patched

\* And stored from one.
LEMMA RunsStoreAt ==
  ASSUME NEW c, NEW i, NEW p, NEW m, Good(i, m), NEW k, InWindow(k), m[T0] = RamBase + k,
         NEW a \in NamesOf(i), a # OPERAND, Holds(c, p, store_at32(a))
  PROVE  \E n : /\ Gets(c, i, p, m, p + 2, n) /\ Alike(i, m, n, Patched(RAM(k))) /\ n[RAM(k)] = m[a]
<1> DEFINE m1 == Through(m, k)
           n == Written(m1, RAM(k), m1[a])
<1>1. Holds(c, p, mov32(T0, OPERAND)) /\ Holds(c, p + 1, mov32(a, DEREF)) /\ (p + 1) + 1 = p + 2
  <2>1. p \in Nat
    BY DEF Holds
  <2> QED BY <2>1, AtAre
<1>2. /\ Gets(c, i, p, m, p + 1, m1) /\ CellIn(m1, DEREF) = RAM(k)
      /\ \A x \in NamesOf(i) : x # OPERAND => m1[x] = m[x]
  BY <1>1, PatchRuns
<1>3. RAM(k) \in NamesOf(i) /\ RAM(k) \in Writable(i)
  BY GuestCellsAre DEF InWindow, Writable
<1>4. Good(i, m1) /\ CellIn(m1, a) = a
  BY <1>2, <1>3, MemoryCells DEF Gets
<1> HIDE DEF m1
<1>5. Gets(c, i, p + 1, m1, (p + 1) + 1, n)
  BY <1>1, <1>2, <1>3, <1>4, MoveThrough
<1>6. Gets(c, i, p, m, p + 2, n)
  BY <1>1, <1>2, <1>5, GetsOn
<1>7. \A x \in NamesOf(i) : n[x] = IF x = RAM(k) THEN m1[a] ELSE m1[x]
  BY <1>3, <1>4, WrittenIs
<1> HIDE DEF n
<1> QED BY <1>2, <1>3, <1>6, <1>7 DEF Alike, Patched

RamSet(s, k, v) == [s EXCEPT !.ram = [s.ram EXCEPT ![k] = v]]

LEMMA HasRam ==
  ASSUME NEW i, NEW m, NEW s, Has(i, m, s), NEW n, Good(i, n), NEW D, Private(D),
         NEW k, InWindow(k), Alike(i, m, n, Plus(D, RAM(k))), n[RAM(k)] \in Byte
  PROVE  Has(i, n, RamSet(s, k, n[RAM(k)]))
<1> DEFINE t == RamSet(s, k, n[RAM(k)])
           v == n[RAM(k)]
<1>0. k \in 0 .. Window - 1
  BY DEF InWindow
<1>1. /\ \A l \in Regs : n[X(l)] = m[X(l)]
      /\ \A l \in 0 .. Window - 1 : l # k => n[RAM(l)] = m[RAM(l)]
      /\ \A l \in CsrNames : n[CSR(l)] = m[CSR(l)]
  <2>1. \A l : RAM(l) = RAM(k) => l = k
    BY DEF RAM
  <2> QED BY <2>1, GuestCellsAre DEF Alike, Private, Source, Plus
<1>3. s.csr \in [CsrNames -> W!Cell] /\ s.x \in [Regs -> W!Cell] /\ s.x[0] = 0
      /\ s.ram \in [0 .. Window - 1 -> Byte] /\ s = [x |-> s.x, ram |-> s.ram, csr |-> s.csr]
  BY DEF Has, GuestStates
<1>4. t.csr = s.csr /\ t.x = s.x /\ t.ram = [s.ram EXCEPT ![k] = v] /\ t = [x |-> t.x, ram |-> t.ram, csr |-> t.csr]
  BY <1>3 DEF RamSet
<1> HIDE DEF t, v
<1>5. t.ram \in [0 .. Window - 1 -> Byte] /\ t.ram[k] = v /\ \A l \in 0 .. Window - 1 : l # k => t.ram[l] = s.ram[l]
  BY <1>0, <1>3, <1>4 DEF v
<1>6. t \in GuestStates
  BY <1>3, <1>4, <1>5 DEF GuestStates
<1>7. \A l \in 0 .. Window - 1 : n[RAM(l)] = t.ram[l]
  BY <1>1, <1>5 DEF Has, v
<1> QED BY <1>1, <1>4, <1>6, <1>7 DEF Has, t, v

\* The address of an access.
Base(i, s) == At(s.x[i.rs1], i.imm)

LEMMA HasAddr ==
  ASSUME NEW c, NEW i, Lowerable(i), NEW p, NEW m, NEW q, NEW n, Gets(c, i, p, m, q, n), NEW s, Has(i, n, s),
         Holds(c, q, emit_addr32(X(i.rs1), IMM(0)))
  PROVE  \E l : /\ Gets(c, i, p, m, q + 8, l) /\ Has(i, l, s) /\ Alike(i, n, l, AddrTemps)
                /\ l[T0] = RamBase + Base(i, s) /\ InWindow(Base(i, s))
<1>1. i.rs1 \in Regs /\ Good(i, n) /\ AddrTemps \subseteq Temps
  BY DEF Lowerable, Has, AddrTemps, Temps
<1>2. X(i.rs1) \in NamesOf(i) \ AddrTemps /\ IMM(0) \in NamesOf(i) \ AddrTemps
  BY <1>1, GuestCellsAre, ConstantsAre DEF Source
<1>3. n[X(i.rs1)] = s.x[i.rs1] /\ n[IMM(0)] = i.imm
  BY <1>1, PoolValues DEF Has
<1>4. PICK l : /\ Gets(c, i, q, n, q + 8, l) /\ Alike(i, n, l, AddrTemps)
               /\ l[T0] = RamBase + Base(i, s) /\ InWindow(Base(i, s))
  BY <1>1, <1>2, <1>3, RunsAddr DEF Base
<1>5. Private(AddrTemps)
  BY <1>1, ScratchIsPrivate DEF Private
<1>6. Has(i, l, s)
  BY <1>4, <1>5, HasStill DEF Gets
<1> QED BY <1>4, <1>6, GetsOn

------------------------------------------------------------------------------
(* Loads and stores of a byte.                                             *)
LoadValue(i, s) ==
  LET n == BytesOf(i.f)
      v == Loaded(s.ram, Base(i, s), n)
  IN  IF i.signed THEN SignExtended(v, n) ELSE v

LEMMA RegMoves ==
  ASSUME NEW c, NEW i, NEW p, NEW m, NEW q, NEW n, Gets(c, i, p, m, q, n), NEW t, Has(i, n, t),
         NEW a \in NamesOf(i), NEW r \in Regs, r # 0, Holds(c, q, mov32(a, X(r)))
  PROVE  \E l : Gets(c, i, p, m, q + 1, l) /\ Has(i, l, RegSet(t, r, n[a]))
<1> DEFINE l == Written(n, X(r), n[a])
<1>1. X(r) \in Writable(i) /\ X(r) \in NamesOf(i)
  BY GuestCellsAre DEF Writable
<1>2. Gets(c, i, p, m, q + 1, l)
  BY <1>1, MoveOn
<1>3. l[X(r)] = n[a] /\ Alike(i, n, l, Plus({}, X(r)))
  BY <1>1, WrittenAfter DEF Alike, Plus
<1> HIDE DEF l
<1>4. Has(i, l, RegSet(t, r, l[X(r)]))
  BY <1>2, <1>3, ScratchIsPrivate, HasReg DEF Gets
<1> QED BY <1>2, <1>3, <1>4

(* A block ends with the value of its instruction in a register.           *)
LEMMA RegEnds ==
  ASSUME NEW i, Lowerable(i), i.rd # 0, NEW s \in GuestStates,
         NEW c, c = emit_one32(i), Short(c), NEW q, q + 1 = Len(c) + 1,
         NEW n, Gets(c, i, 1, Image(i, s), q, n), Has(i, n, s),
         NEW a \in NamesOf(i), Execute(i, s) = Goes(s, Set(s.x, i.rd, n[a]), Following),
         Holds(c, q, mov32(a, X(i.rd)))
  PROVE  Means(i, s)
<1>1. i.rd \in Regs
  BY DEF Lowerable
<1>2. PICK l : Gets(c, i, 1, Image(i, s), q + 1, l) /\ Has(i, l, RegSet(s, i.rd, n[a]))
  BY <1>1, RegMoves
<1> DEFINE t == RegSet(s, i.rd, n[a])
           r == q + 1
<1>3. WhereIn(c, r) = Following /\ r > Len(c)
  BY WhereFollows
<1>4. t.x = [s.x EXCEPT ![i.rd] = n[a]] /\ t.ram = s.ram /\ t.csr = s.csr
  BY DEF RegSet, GuestStates
<1>5. Execute(i, s) = Goes(t, t.x, Following)
  BY <1>4 DEF Set, Goes
<1>6. Gets(c, i, 1, Image(i, s), r, l) /\ Has(i, l, t)
  BY <1>2
<1> HIDE DEF t, r
<1> QED BY <1>3, <1>5, <1>6, MeansHas

LEMMA LoadIs ==
  ASSUME NEW i, i.kind = "load", NEW s \in GuestStates
  PROVE  Execute(i, s) = Goes(s, Set(s.x, i.rd, LoadValue(i, s)), Following)
BY DEF Execute, LoadValue, Base

LEMMA MeansLoadNone ==
  ASSUME NEW i, Lowerable(i), i.kind = "load", i.rd = 0, NEW s \in GuestStates
  PROVE  Means(i, s)
<1>1. emit_one32(i) = <<>>
  BY DEF emit_one32, emit_load32
<1>2. Execute(i, s) = Goes(s, s.x, Following)
  BY LoadIs DEF Set
<1> QED BY <1>1, <1>2, MeansNothing

LEMMA ByteBits ==
  ASSUME NEW v \in Byte
  PROVE  v \in W!Cell /\ W!Bits(v) \subseteq 0 .. BYTE - 1 /\ v % 2 ^ BYTE = v
<1>1. BYTE \in 0 .. Width /\ v \in W!Cell /\ v \in 0 .. 2 ^ BYTE - 1 /\ 2 ^ BYTE \in Nat \ {0}
  BY MemoryIs, PowerIs, WidthAssumption DEF Byte
<1>2. v % 2 ^ BYTE = v
  <2> DEFINE M == 2 ^ BYTE
  <2>1. v \in 0 .. M - 1 /\ M \in Nat \ {0}
    BY <1>1
  <2> HIDE DEF M
  <2>2. v % M = v
    BY <2>1
  <2> QED BY <2>2 DEF M
<1>3. W!Bits(v) = {i \in W!Bits(v) : i < BYTE} /\ W!Bits(v) \subseteq 0 .. Width - 1
  BY <1>1, <1>2, ModBits, CellOfBits, CellIs
<1> QED BY <1>1, <1>2, <1>3, MemoryIs, WidthAssumption

\* A word of one byte is that byte.
LEMMA ByteLoaded ==
  ASSUME NEW s \in GuestStates, NEW k, InWindow(k)
  PROVE  s.ram[k] \in Byte /\ Loaded(s.ram, k, 1) = s.ram[k]
<1>1. s.ram[k] \in Byte /\ k \in Nat
  BY GuestAssumption DEF GuestStates, InWindow
<1>2. BYTE \in Nat \ {0} /\ BYTE * 1 = BYTE
  BY GuestAssumption
<1>3. \A b \in 0 .. BYTE - 1 : b \div BYTE = 0 /\ b % BYTE = b /\ k + b \div BYTE = k
  <2> TAKE b \in 0 .. BYTE - 1
  <2>1. b \in Nat /\ b < BYTE
    BY <1>2
  <2>2. b \div BYTE \in Nat /\ b % BYTE \in 0 .. BYTE - 1 /\ b = BYTE * (b \div BYTE) + (b % BYTE)
    BY <1>2, <2>1, DivMod
  <2>3. (BYTE * 0 + b) \div BYTE = 0
    BY <1>2, <2>1, DivUnique
  <2>4. BYTE * 0 = 0
    BY <1>2
  <2>5. b \div BYTE = 0
    BY <2>1, <2>3, <2>4
  <2> QED BY <1>1, <2>1, <2>2, <2>4, <2>5
<1>4. {b \in 0 .. BYTE * 1 - 1 : Bit(s.ram[k + b \div BYTE], b % BYTE)} = W!Bits(s.ram[k])
  BY <1>1, <1>2, <1>3, ByteBits DEF Bit
<1> QED BY <1>1, <1>4, ByteBits, CellOfBits DEF Loaded

LEMMA LoadByteIs ==
  ASSUME NEW i, i.kind = "load", i.f = "B", ~i.signed, i.rd # 0
  PROVE  /\ Sized(emit_one32(i), 11)
         /\ \A c, p : Holds(c, p, emit_one32(i)) =>
              /\ Holds(c, p, emit_addr32(X(i.rs1), IMM(0)))
              /\ Holds(c, p + 8, load_at32(T1)) /\ Holds(c, p + 10, mov32(T1, X(i.rd)))
<1> DEFINE s1 == emit_addr32(X(i.rs1), IMM(0))
           s2 == load_at32(T1)
           s3 == mov32(T1, X(i.rd))
<1>1. Sized(s1, 8) /\ Sized(s2, 2) /\ Sized(s3, 1)
  BY AddrIs, AtAre, SizesAre
<1>2. emit_one32(i) = s1 \o s2 \o s3
  BY DEF emit_one32, emit_load32, emit_load_byte_u32
<1> HIDE DEF s1, s2, s3
<1>3. Sized(s1 \o s2, 8 + 2)
  BY <1>1, SizedJoin
<1>4. Sized(s1 \o s2 \o s3, (8 + 2) + 1)
  BY <1>1, <1>3, SizedJoin
<1>5. ASSUME NEW c, NEW p, Holds(c, p, s1 \o s2 \o s3)
      PROVE  Holds(c, p, s1) /\ Holds(c, p + 8, s2) /\ Holds(c, p + 10, s3)
  <2>1. Holds(c, p, s1 \o s2) /\ Holds(c, p + (8 + 2), s3)
    BY <1>1, <1>3, <1>5, SizedSplit
  <2>2. Holds(c, p, s1) /\ Holds(c, p + 8, s2)
    BY <1>1, <2>1, SizedSplit
  <2> QED BY <2>1, <2>2
<1> QED BY <1>2, <1>4, <1>5 DEF s1, s2, s3

(* lbu: the byte at the address, masked into the window.                   *)
LEMMA MeansLoadByte ==
  ASSUME NEW i, Lowerable(i), i.kind = "load", i.f = "B", ~i.signed, i.rd # 0, NEW s \in GuestStates
  PROVE  Means(i, s)
<1> DEFINE c == emit_one32(i)
           m == Image(i, s)
           k == Base(i, s)
<1>1. Sized(c, 11)
  BY LoadByteIs
<1>2. Holds(c, 1, emit_addr32(X(i.rs1), IMM(0))) /\ Holds(c, 9, load_at32(T1)) /\ Holds(c, 11, mov32(T1, X(i.rd)))
  <2>1. Holds(c, 1, c)
    BY <1>1, WholeIs DEF Sized
  <2> QED BY <2>1, LoadByteIs
<1>3. Has(i, m, s)
  BY HasImage
<1>4. Gets(c, i, 1, m, 1, m)
  BY <1>3, GetsItself DEF Has
<1> HIDE DEF c, m
<1>5. PICK n1 : Gets(c, i, 1, m, 1 + 8, n1) /\ Has(i, n1, s) /\ n1[T0] = RamBase + k /\ InWindow(k)
  BY <1>2, <1>3, <1>4, HasAddr
<1>6. Good(i, n1) /\ T1 \in Writable(i) /\ T1 # OPERAND /\ T1 \in NamesOf(i)
  BY <1>5, ScratchAre, MemoryCells DEF Has, Writable
<1> HIDE DEF k
<1>7. PICK n2 : Gets(c, i, 9, n1, 9 + 2, n2) /\ Alike(i, n1, n2, Patched(T1)) /\ n2[T1] = n1[RAM(k)]
  <2>1. Good(i, n1) /\ InWindow(k) /\ n1[T0] = RamBase + k /\ T1 \in Writable(i) /\ T1 # OPERAND
    BY <1>5, <1>6
  <2>2. Holds(c, 9, load_at32(T1))
    BY <1>2
  <2> QED BY <2>1, <2>2, RunsLoadAt
<1>8. Gets(c, i, 1, m, 11, n2)
  BY <1>5, <1>7, GetsOn
<1>9. Private(Patched(T1))
  BY GuestCellsAre DEF Private, Scratch, Patched
<1>10. Has(i, n2, s)
  BY <1>5, <1>7, <1>8, <1>9, HasStill DEF Gets
<1>11. n2[T1] = LoadValue(i, s)
  <2>1. n1[RAM(k)] = s.ram[k]
    BY <1>5 DEF Has, InWindow
  <2>2. LoadValue(i, s) = Loaded(s.ram, k, 1)
    BY DEF LoadValue, BytesOf, k
  <2> QED BY <1>5, <1>7, <2>1, <2>2, ByteLoaded
<1>12. Short(c) /\ 11 + 1 = Len(c) + 1
  BY <1>1 DEF Sized, Short
<1>13. Execute(i, s) = Goes(s, Set(s.x, i.rd, n2[T1]), Following)
  BY <1>11, LoadIs
<1> QED BY <1>2, <1>6, <1>8, <1>10, <1>12, <1>13, RegEnds DEF c, m

LEMMA StoreEnds ==
  ASSUME NEW i, Lowerable(i), i.kind = "store", NEW s \in GuestStates,
         NEW c, c = emit_one32(i), Short(c), NEW q, q = Len(c) + 1,
         NEW n, Gets(c, i, 1, Image(i, s), q, n), NEW t, Has(i, n, t), t.x = s.x, t.csr = s.csr,
         t.ram = Stored(s.ram, Base(i, s), BytesOf(i.f), s.x[i.rs2])
  PROVE  Means(i, s)
<1>1. WhereIn(c, q) = Following /\ q > Len(c)
  BY WhereFollows
<1>2. Execute(i, s) = Goes(t, t.x, Following)
  BY DEF Execute, Base, Goes
<1> QED BY <1>1, <1>2, MeansHas

LEMMA RamSetIs ==
  ASSUME NEW s \in GuestStates, NEW k, NEW v
  PROVE  /\ RamSet(s, k, v).x = s.x /\ RamSet(s, k, v).csr = s.csr
         /\ RamSet(s, k, v).ram = Upd(s.ram, k, v)
BY DEF Upd, RamSet, GuestStates

LEMMA ByteStored ==
  ASSUME NEW s \in GuestStates, NEW k, InWindow(k), NEW v \in W!Cell
  PROVE  /\ v % 2 ^ BYTE \in Byte
         /\ Stored(s.ram, k, 1, v) = Upd(s.ram, k, v % 2 ^ BYTE)
<1>1. BYTE \in 0 .. Width /\ BYTE \in Nat
  BY MemoryIs, WidthAssumption
<1>2. v % 2 ^ BYTE \in Byte
  BY <1>1, ModBits DEF Byte
<1>3. DOMAIN s.ram = 0 .. Window - 1 /\ k \in Nat /\ v \in Nat /\ s.ram \in [0 .. Window - 1 -> Byte]
  BY GuestAssumption, CellIs, PowerIs, WidthAssumption DEF GuestStates, InWindow
<1>4. \A l \in 0 .. Window - 1 : l \in k .. k + 1 - 1 <=> l = k
  BY <1>3, GuestAssumption
<1>5. v \div 2 ^ (BYTE * (k - k)) = v
  <2>1. k - k = 0 /\ BYTE * 0 = 0 /\ 2 ^ 0 = 1
    BY <1>1, <1>3
  <2>2. v \div 1 = v
    BY <1>3
  <2>3. BYTE * (k - k) = 0
    BY <2>1
  <2> QED BY <2>1, <2>2, <2>3
<1> DEFINE w == v % 2 ^ BYTE
           Of(l) == (v \div 2 ^ (BYTE * (l - k))) % 2 ^ BYTE
<1>6. Stored(s.ram, k, 1, v) = [l \in 0 .. Window - 1 |-> IF l \in k .. k + 1 - 1 THEN Of(l) ELSE s.ram[l]]
  BY <1>3 DEF Stored
<1>7. Of(k) = w
  BY <1>5
<1> HIDE DEF Of, w
<1>8. Stored(s.ram, k, 1, v) = [s.ram EXCEPT ![k] = w]
  BY <1>3, <1>4, <1>6, <1>7
<1> QED BY <1>2, <1>8 DEF w, Upd

LEMMA StoreByteIs ==
  ASSUME NEW i, i.kind = "store", i.f = "B"
  PROVE  /\ Sized(emit_one32(i), 12)
         /\ \A c, p : Holds(c, p, emit_one32(i)) =>
              /\ Holds(c, p, mov32(X(i.rs2), T1)) /\ Holds(c, p + 1, mux32op(Z, T1, MFF))
              /\ Holds(c, p + 2, emit_addr32(X(i.rs1), IMM(0))) /\ Holds(c, p + 10, store_at32(T1))
<1> DEFINE s1 == mov32(X(i.rs2), T1)
           s2 == mux32op(Z, T1, MFF)
           s3 == emit_addr32(X(i.rs1), IMM(0))
           s4 == store_at32(T1)
<1>1. Sized(s1, 1) /\ Sized(s2, 1) /\ Sized(s3, 8) /\ Sized(s4, 2)
  BY AddrIs, AtAre, SizesAre
<1>2. emit_one32(i) = s1 \o s2 \o s3 \o s4
  BY DEF emit_one32, emit_store32, emit_store_byte32
<1> HIDE DEF s1, s2, s3, s4
<1>3. Sized(s1 \o s2, 1 + 1)
  BY <1>1, SizedJoin
<1>4. Sized(s1 \o s2 \o s3, (1 + 1) + 8)
  BY <1>1, <1>3, SizedJoin
<1>5. Sized(s1 \o s2 \o s3 \o s4, ((1 + 1) + 8) + 2)
  BY <1>1, <1>4, SizedJoin
<1>6. ASSUME NEW c, NEW p, Holds(c, p, s1 \o s2 \o s3 \o s4)
      PROVE  Holds(c, p, s1) /\ Holds(c, p + 1, s2) /\ Holds(c, p + 2, s3) /\ Holds(c, p + 10, s4)
  <2>1. Holds(c, p, s1 \o s2 \o s3) /\ Holds(c, p + ((1 + 1) + 8), s4)
    BY <1>1, <1>4, <1>6, SizedSplit
  <2>2. Holds(c, p, s1 \o s2) /\ Holds(c, p + (1 + 1), s3)
    BY <1>1, <1>3, <2>1, SizedSplit
  <2>3. Holds(c, p, s1) /\ Holds(c, p + 1, s2)
    BY <1>1, <2>2, SizedSplit
  <2> QED BY <2>1, <2>2, <2>3
<1> QED BY <1>2, <1>5, <1>6 DEF s1, s2, s3, s4

(* sb: the low byte of the register at the address, and no other byte.  T1 *)
(* still holds it when the address has been computed.                      *)
LEMMA MeansStoreByte ==
  ASSUME NEW i, Lowerable(i), i.kind = "store", i.f = "B", NEW s \in GuestStates
  PROVE  Means(i, s)
<1> DEFINE c == emit_one32(i)
           m == Image(i, s)
           k == Base(i, s)
           v == s.x[i.rs2]
           w == v % 2 ^ BYTE
           n1 == Written(m, T1, v)
           n2 == Written(n1, T1, W!Select(n1[Z], n1[T1], n1[MFF]))
<1>1. Sized(c, 12)
  BY StoreByteIs
<1>2. /\ Holds(c, 1, mov32(X(i.rs2), T1)) /\ Holds(c, 2, mux32op(Z, T1, MFF))
      /\ Holds(c, 3, emit_addr32(X(i.rs1), IMM(0))) /\ Holds(c, 11, store_at32(T1))
  <2>1. Holds(c, 1, c)
    BY <1>1, WholeIs DEF Sized
  <2> QED BY <2>1, StoreByteIs
<1>3. Has(i, m, s) /\ v \in W!Cell /\ m[X(i.rs2)] = v /\ X(i.rs2) \in NamesOf(i)
  BY HasImage, OperandsAre DEF Source
<1>4. Gets(c, i, 1, m, 1, m)
  BY <1>3, GetsItself DEF Has
<1>5. /\ T1 \in Writable(i) /\ T1 \in NamesOf(i) /\ Z \in NamesOf(i) /\ MFF \in NamesOf(i) /\ Z # T1 /\ MFF # T1
      /\ T1 # OPERAND /\ T1 \notin AddrTemps
  BY ScratchAre, ConstantsAre, MemoryCells DEF Writable, Source, Temps, AddrTemps
<1> HIDE DEF c, m, v, n1, n2, w
<1>6. Gets(c, i, 1, m, 1 + 1, n1)
  BY <1>2, <1>3, <1>4, <1>5, MoveOn DEF n1
<1>7. n1[T1] = v /\ Alike(i, m, n1, {T1})
  BY <1>4, <1>5, WrittenAfter DEF n1, Alike
<1>8. Gets(c, i, 1, m, (1 + 1) + 1, n2)
  BY <1>2, <1>5, <1>6, MuxOn DEF n2
<1>9. n2[T1] = w /\ Alike(i, m, n2, {T1})
  <2>1. n1[Z] = 0 /\ n1[MFF] = 2 ^ BYTE - 1
    BY <1>6, PoolValues, MemoryValues DEF Gets
  <2>2. W!Select(0, v, 2 ^ BYTE - 1) = w
    BY <1>3, WordMask, MemoryIs, WidthAssumption DEF w
  <2> QED BY <1>5, <1>6, <1>7, <2>1, <2>2, WrittenAfter DEF n2, Alike
<1>10. Has(i, n2, s)
  <2>1. Private({T1})
    BY GuestCellsAre DEF Private, Scratch
  <2> QED BY <1>3, <1>8, <1>9, <2>1, HasStill DEF Gets
<1>11. PICK n3 : /\ Gets(c, i, 1, m, 3 + 8, n3) /\ Has(i, n3, s) /\ Alike(i, n2, n3, AddrTemps)
                 /\ n3[T0] = RamBase + k /\ InWindow(k)
  BY <1>2, <1>8, <1>10, HasAddr
<1>12. n3[T1] = w /\ Good(i, n3) /\ w \in Byte
  BY <1>3, <1>5, <1>9, <1>11, ByteStored DEF Alike, Has, w
<1> HIDE DEF k
<1>13. PICK n4 : /\ Gets(c, i, 11, n3, 11 + 2, n4) /\ Alike(i, n3, n4, Patched(RAM(k))) /\ n4[RAM(k)] = n3[T1]
  <2>1. Good(i, n3) /\ InWindow(k) /\ n3[T0] = RamBase + k /\ T1 \in NamesOf(i) /\ T1 # OPERAND
    BY <1>5, <1>11, <1>12
  <2>2. Holds(c, 11, store_at32(T1))
    BY <1>2
  <2> QED BY <2>1, <2>2, RunsStoreAt
<1>14. Gets(c, i, 1, m, 13, n4)
  BY <1>11, <1>13, GetsOn
<1>15. Has(i, n4, RamSet(s, k, w))
  <2>1. Private({OPERAND}) /\ Patched(RAM(k)) = Plus({OPERAND}, RAM(k))
    BY GuestCellsAre DEF Private, Scratch, Patched, Plus
  <2>2. Good(i, n4) /\ n4[RAM(k)] = w
    BY <1>12, <1>13, <1>14 DEF Gets
  <2> QED BY <1>11, <1>12, <1>13, <2>1, <2>2, HasRam
<1> DEFINE t == RamSet(s, k, w)
<1>16. t.x = s.x /\ t.csr = s.csr /\ t.ram = Stored(s.ram, k, BytesOf(i.f), v)
  <2>1. BytesOf(i.f) = 1
    BY DEF BytesOf
  <2>2. t.x = s.x /\ t.csr = s.csr /\ t.ram = Upd(s.ram, k, w)
    BY RamSetIs
  <2>3. InWindow(k) /\ v \in W!Cell
    BY <1>3, <1>11
  <2>4. Stored(s.ram, k, 1, v) = Upd(s.ram, k, w)
    BY <2>3, ByteStored DEF w
  <2> HIDE DEF t
  <2> QED BY <2>1, <2>2, <2>4
<1>17. Short(c) /\ 13 = Len(c) + 1
  BY <1>1 DEF Sized, Short
<1> HIDE DEF t
<1> QED BY <1>14, <1>15, <1>16, <1>17, StoreEnds DEF c, m, t, k, v

------------------------------------------------------------------------------
(* Bit after bit: bit f[k] of one cell goes to bit g[k] of another, or of  *)
(* the same, for k from 1 to n.                                            *)
Copies(a, d, f, g, n) == [k \in 1 .. n |-> copybit32(a, f[k], d, g[k])]
Gather(a, d, f, g, n) == FlattenSeq(Copies(a, d, f, g, n))
Aims(f, g, n) ==
  /\ f \in [1 .. n -> W!Lanes] /\ g \in [1 .. n -> W!Lanes]
  /\ \A j, k \in 1 .. n : g[j] = g[k] => j = k
Got(v, f, g, n) == {g[j] : j \in {j \in 1 .. n : Bit(v, f[j])}}

LEMMA CopiesAre ==
  ASSUME NEW a, NEW d, NEW f, NEW g, NEW n \in Nat
  PROVE  LET s == Copies(a, d, f, g, n)
         IN  \E off : /\ Offsets(off, s) /\ off[n + 1] <= 7 * n /\ Len(s) = n
                      /\ Sized(Gather(a, d, f, g, n), off[n + 1])
                      /\ \A c, p : Holds(c, p, Gather(a, d, f, g, n)) =>
                           \A k \in 1 .. n : Holds(c, p + off[k], copybit32(a, f[k], d, g[k]))
<1> DEFINE s == Copies(a, d, f, g, n)
           size == [k \in 1 .. n |-> CopySize(f[k])]
<1>1. Len(s) = n /\ (\A k \in 1 .. n : s[k] = copybit32(a, f[k], d, g[k])) /\ (n = 0 => s = <<>>)
  BY DEF Copies
<1>2. \A k \in 1 .. n : size[k] \in 0 .. 7 /\ Sized(s[k], size[k])
  <2> TAKE k \in 1 .. n
  <2>1. Sized(copybit32(a, f[k], d, g[k]), CopySize(f[k])) /\ CopySize(f[k]) \in 0 .. 7
    BY CopyIs DEF CopySize
  <2> QED BY <1>1, <2>1
<1> HIDE DEF s, size
<1>3. PICK off : Offsets(off, s) /\ off[n + 1] <= 7 * n
  BY <1>1, <1>2, OffsetsExist
<1>4. /\ Sized(FlattenSeq(s), off[n + 1])
      /\ \A c, p : Holds(c, p, FlattenSeq(s)) => \A k \in 1 .. n : Holds(c, p + off[k], s[k])
  BY <1>1, <1>3, PiecesAre
<1>5. FlattenSeq(s) = Gather(a, d, f, g, n)
  BY DEF Gather, s
<1> QED BY <1>1, <1>3, <1>4, <1>5 DEF s

LEMMA GotStep ==
  ASSUME NEW f, NEW g, NEW n \in Nat, Aims(f, g, n), NEW v, NEW k \in Nat, k + 1 <= n
  PROVE  /\ Got(v, f, g, k + 1) = Got(v, f, g, k) \cup (IF Bit(v, f[k + 1]) THEN {g[k + 1]} ELSE {})
         /\ g[k + 1] \notin Got(v, f, g, k)
<1>1. 1 .. k + 1 = (1 .. k) \cup {k + 1} /\ k + 1 \notin 1 .. k /\ k + 1 \in 1 .. n /\ 1 .. k \subseteq 1 .. n
  OBVIOUS
<1>2. g[k + 1] \notin Got(v, f, g, k)
  BY <1>1 DEF Aims, Got
<1> QED BY <1>1, <1>2 DEF Got

\* The cell read is not the one written, or no bit is read that is written.
Apart(a, d, f, g, n) == a = d => \A j, k \in 1 .. n : f[j] # g[k]

\* The bits written are zero yet.
Vacant(v, g, n) == \A k \in 1 .. n : g[k] \notin W!Bits(v)

\* And w is v with the bits B.
Gains(w, v, B) == W!Bits(w) = W!Bits(v) \cup B

LEMMA RunsGather ==
  ASSUME NEW c, NEW i, NEW p, NEW m, Good(i, m), NEW a \in NamesOf(i) \ Low, NEW d \in Writable(i) \ Low,
         NEW n \in Nat, NEW f, NEW g, Aims(f, g, n), Apart(a, d, f, g, n),
         Vacant(m[d], g, n), Holds(c, p, Gather(a, d, f, g, n))
  PROVE  \E l : /\ Gets(c, i, p, m, p + Len(Gather(a, d, f, g, n)), l) /\ Alike(i, m, l, Plus(Low, d))
                /\ Gains(l[d], m[d], Got(m[a], f, g, n))
<1>1. PICK off : /\ Offsets(off, Copies(a, d, f, g, n)) /\ Len(Copies(a, d, f, g, n)) = n
                 /\ Sized(Gather(a, d, f, g, n), off[n + 1])
                 /\ \A k \in 1 .. n : Holds(c, p + off[k], copybit32(a, f[k], d, g[k]))
  BY CopiesAre
<1> DEFINE B == W!Bits(m[d])
           At0(k, l) == /\ Gets(c, i, p, m, p + off[k + 1], l) /\ Alike(i, m, l, Plus(Low, d))
                        /\ W!Bits(l[d]) = B \cup Got(m[a], f, g, k)
           S == {k \in Nat : k <= n => \E l : At0(k, l)}
<1>2. /\ off \in [1 .. n + 1 -> Nat] /\ off[1] = 0 /\ p \in Nat
      /\ \A k \in 1 .. n : Sized(copybit32(a, f[k], d, g[k]), off[k + 1] - off[k])
  BY <1>1 DEF Offsets, Holds, Copies
<1>3. 0 \in S
  <2>1. p + off[0 + 1] = p /\ Got(m[a], f, g, 0) = {}
    BY <1>2 DEF Got
  <2>2. Gets(c, i, p, m, p, m) /\ Alike(i, m, m, Plus(Low, d))
    BY GetsItself DEF Alike
  <2>3. At0(0, m)
    BY <2>1, <2>2
  <2> QED BY <2>3
<1>4. ASSUME NEW k \in Nat, k \in S PROVE k + 1 \in S
  <2> SUFFICES ASSUME k + 1 <= n PROVE \E l : At0(k + 1, l)
    OBVIOUS
  <2> DEFINE q == p + off[k + 1]
             sb == f[k + 1]
             db == g[k + 1]
  <2>1. k + 1 \in 1 .. n /\ k <= n /\ (k + 1) + 1 \in 1 .. n + 1 /\ k + 1 \in 1 .. n + 1
    OBVIOUS
  <2>2. PICK l : At0(k, l)
    BY <1>4, <2>1
  <2>3. sb \in W!Lanes /\ db \in W!Lanes /\ db \notin B /\ db \notin Got(m[a], f, g, k)
    BY <2>1, GotStep DEF Aims, Vacant
  <2>4. Bit(l[a], sb) <=> Bit(m[a], sb)
    <3>1. CASE a # d
      BY <2>2, <3>1 DEF Alike, Plus
    <3>2. CASE a = d
      <4>1. sb \notin Got(m[a], f, g, k)
        BY <2>1, <3>2 DEF Apart, Got
      <4> QED BY <2>2, <3>2, <4>1 DEF Bit
    <3> QED BY <3>1, <3>2
  <2>5. Holds(c, q, copybit32(a, sb, d, db)) /\ Good(i, l) /\ l[d] \in W!Cell
    <3>1. Good(i, l)
      BY <2>2 DEF Gets
    <3>2. d \in NamesOf(i)
      BY DEF Writable
    <3> QED BY <1>1, <2>1, <3>1, <3>2, GoodTyped
  <2>6. q + CopySize(sb) = p + off[(k + 1) + 1]
    <3>1. Sized(copybit32(a, sb, d, db), off[(k + 1) + 1] - off[k + 1])
      BY <1>2, <2>1
    <3>2. Sized(copybit32(a, sb, d, db), CopySize(sb))
      BY CopyIs
    <3>3. off[(k + 1) + 1] \in Nat /\ off[k + 1] \in Nat
      BY <1>2, <2>1
    <3>4. CopySize(sb) = off[(k + 1) + 1] - off[k + 1]
      BY <3>1, <3>2 DEF Sized
    <3> QED BY <1>2, <3>3, <3>4
  <2>7. a \in NamesOf(i)
    OBVIOUS
  <2> HIDE DEF q, sb, db, B
  <2>8. PICK o : /\ Gets(c, i, q, l, q + CopySize(sb), o) /\ Alike(i, l, o, Plus(Low, d))
                 /\ o[d] = Copied(l[a], sb, l[d], db)
    BY <2>3, <2>5, <2>7, RunsCopy
  <2>9. Gets(c, i, p, m, p + off[(k + 1) + 1], o)
    BY <2>2, <2>6, <2>8, GetsOn DEF q
  <2>10. Alike(i, m, o, Plus(Low, d))
    BY <2>2, <2>8, AlikeOn
  <2>11. db \notin W!Bits(l[d])
    BY <2>2, <2>3
  <2>12. W!Bits(o[d]) = W!Bits(l[d]) \cup (IF Bit(l[a], sb) THEN {db} ELSE {})
    <3> DEFINE v == l[a]
               w == l[d]
    <3>1. w \in W!Cell /\ db \in W!Lanes /\ db \notin W!Bits(w) /\ o[d] = Copied(v, sb, w, db)
      BY <2>3, <2>5, <2>8, <2>11
    <3> HIDE DEF v, w
    <3>2. W!Bits(o[d]) = W!Bits(w) \cup (IF Bit(v, sb) THEN {db} ELSE {})
      BY <3>1, CopiedBits
    <3> QED BY <3>2 DEF v, w
  <2>13. Got(m[a], f, g, k + 1) = Got(m[a], f, g, k) \cup (IF Bit(m[a], sb) THEN {db} ELSE {})
    BY GotStep DEF sb, db
  <2>14. W!Bits(o[d]) = B \cup Got(m[a], f, g, k + 1)
    BY <2>2, <2>4, <2>12, <2>13
  <2> QED BY <2>9, <2>10, <2>14
<1>5. Nat \subseteq S
  <2> HIDE DEF S
  <2> QED BY <1>3, <1>4, AllNaturals
<1>6. PICK l : At0(n, l)
  <2> HIDE DEF At0
  <2> QED BY <1>5
<1>7. off[n + 1] = Len(Gather(a, d, f, g, n))
  BY <1>1 DEF Sized
<1> QED BY <1>6, <1>7 DEF Gains

------------------------------------------------------------------------------
(* Shifting right.                                                         *)
LEMMA DivFloor ==
  ASSUME NEW q \in Int, NEW r \in Nat, NEW p \in Nat \ {0}, r < p
  PROVE  (p * q + r) \div p = q
<1> DEFINE x == p * q + r
           y == x \div p
<1>1. x \in Int /\ p * q \in Int
  BY Z3
<1>2. y \in Int /\ x = p * y + (x % p) /\ x % p \in 0 .. p - 1
  <2> HIDE DEF x
  <2> QED BY <1>1, Z3
<1> HIDE DEF y
<1>3. p * q + r = p * y + (x % p) /\ p * y \in Int
  BY <1>2, Z3
<1>4. ASSUME NEW z \in Nat \ {0}, NEW a \in Int PROVE p * (a + z) >= p * a + p
  BY Z3
<1>5. CASE y < q
  <2>1. q = y + (q - y) /\ q - y \in Nat \ {0}
    BY <1>2, <1>5
  <2>2. p * q >= p * y + p
    BY <1>2, <1>4, <2>1
  <2> HIDE DEF x
  <2> QED BY <1>1, <1>2, <1>3, <2>2
<1>6. CASE y > q
  <2>1. y = q + (y - q) /\ y - q \in Nat \ {0}
    BY <1>2, <1>6
  <2>2. p * y >= p * q + p
    BY <1>4, <2>1
  <2> HIDE DEF x
  <2> QED BY <1>1, <1>2, <1>3, <2>2
<1> QED BY <1>2, <1>5, <1>6 DEF y

(* Copies of the sign above the n bits of v.                               *)
LEMMA SignFill ==
  ASSUME NEW k \in 0 .. Width, NEW v \in 0 .. 2 ^ k - 1, NEW j \in k .. Width
  PROVE  /\ v + 2 ^ j - 2 ^ k \in W!Cell
         /\ W!Bits(v + 2 ^ j - 2 ^ k) = W!Bits(v) \cup (k .. j - 1)
<1> DEFINE x(e) == v + 2 ^ (k + e) - 2 ^ k
           P(e) == x(e) \in W!Cell /\ W!Bits(x(e)) = W!Bits(v) \cup (k .. k + e - 1)
           S == {e \in Nat : k + e <= Width => P(e)}
<1>1. v \in W!Cell /\ W!Bits(v) \subseteq 0 .. k - 1 /\ v \in Nat /\ 2 ^ k \in Nat
  <2>1. 2 ^ k \in Nat \ {0} /\ 2 ^ k <= 2 ^ Width /\ 2 ^ Width \in Nat
    BY PowerSplits, WidthAssumption
  <2>2. v \in W!Cell /\ v % 2 ^ k = v
    <3> DEFINE p == 2 ^ k
               M == 2 ^ Width
    <3>1. v \in 0 .. p - 1 /\ p \in Nat \ {0} /\ p <= M /\ M \in Nat /\ W!Cell = 0 .. M - 1
      BY <2>1, CellIs
    <3> HIDE DEF p, M
    <3>2. v % p = v /\ v \in W!Cell
      BY <3>1
    <3> QED BY <3>2 DEF p
  <2>3. W!Bits(v) = {i \in W!Bits(v) : i < k} /\ W!Bits(v) \subseteq 0 .. Width - 1
    BY <2>2, ModBits, CellOfBits, CellIs
  <2> QED BY <2>1, <2>2, <2>3, WidthAssumption
<1>2. 0 \in S
  <2>1. k + 0 = k /\ x(0) = v /\ k .. k + 0 - 1 = {}
    BY <1>1
  <2> QED BY <1>1, <2>1
<1>3. ASSUME NEW e \in Nat, e \in S PROVE e + 1 \in S
  <2> SUFFICES ASSUME k + (e + 1) <= Width PROVE P(e + 1)
    OBVIOUS
  <2>1. k + e \in 0 .. Width - 1 /\ k + e \in 0 .. Width /\ k + (e + 1) = (k + e) + 1 /\ k + e <= Width
    BY WidthAssumption
  <2>2. P(e)
    BY <1>3, <2>1
  <2>3. 2 ^ (k + e) \in Nat /\ 2 ^ ((k + e) + 1) = 2 * 2 ^ (k + e)
    BY <2>1, PowerIs, PowerAssumption
  <2>4. x(e + 1) = x(e) + 2 ^ (k + e) /\ x(e) \in W!Cell /\ k + e \in W!Lanes
    BY <1>1, <2>1, <2>2, <2>3, CellIs
  <2>5. W!Bits(x(e)) = W!Bits(v) \cup (k .. k + e - 1) /\ k + e \notin W!Bits(x(e))
    BY <1>1, <2>2
  <2> DEFINE w == x(e)
  <2> HIDE DEF w
  <2>6. w + 2 ^ (k + e) \in W!Cell /\ W!Bits(w + 2 ^ (k + e)) = W!Bits(w) \cup {k + e}
    BY <2>4, <2>5, SetBitIs DEF w
  <2>7. (k .. k + e - 1) \cup {k + e} = k .. k + (e + 1) - 1
    BY <2>1
  <2>8. w + 2 ^ (k + e) = x(e + 1)
    BY <2>4 DEF w
  <2> HIDE DEF x
  <2> QED BY <2>5, <2>6, <2>7, <2>8 DEF w
<1>4. Nat \subseteq S
  <2> HIDE DEF S
  <2> QED BY <1>2, <1>3, AllNaturals
<1>5. j - k \in Nat /\ k + (j - k) = j /\ j <= Width
  BY WidthAssumption
<1>6. P(j - k)
  <2> HIDE DEF P
  <2> QED BY <1>4, <1>5
<1> QED BY <1>5, <1>6

(* What is in bit d of a cell shifted by k: bit From(d, k, arith) of it.   *)
Top          == Width - 1
Least(x, y)  == IF x > y THEN y ELSE x

LEMMA PowerBelow ==
  ASSUME NEW k \in W!Lanes
  PROVE  Power(k) = 2 ^ k /\ k \in 0 .. Width
<1>1. k \in 0 .. Width - 1
  BY CellIs
<1>2. k % Width = k
  BY <1>1, WidthAssumption
<1> QED BY <1>1, <1>2, WidthAssumption DEF Power

LEMMA SrlBits ==
  ASSUME NEW v \in W!Cell, NEW k \in W!Lanes
  PROVE  /\ Alu("SRL", v, k) \in W!Cell
         /\ W!Bits(Alu("SRL", v, k)) = {d \in W!Lanes : d + k \in W!Bits(v)}
<1>1. Alu("SRL", v, k) = v \div 2 ^ k
  BY PowerBelow DEF Alu
<1> QED BY <1>1, PowerBelow, DivBits

LEMMA SraBits ==
  ASSUME NEW v \in W!Cell, NEW k \in W!Lanes
  PROVE  /\ Alu("SRA", v, k) \in W!Cell
         /\ W!Bits(Alu("SRA", v, k)) = {d \in W!Lanes : Least(d + k, Top) \in W!Bits(v)}
<1> DEFINE p == 2 ^ k
           h == 2 ^ (Width - k)
           q == v \div p
           r == v % p
           M == W!Modulus
<1>1. k \in 0 .. Width /\ Power(k) = p /\ Width - k \in 0 .. Width /\ W!Lanes = 0 .. Width - 1 /\ k \in 0 .. Width - 1
  BY PowerBelow, CellIs, WidthAssumption
<1>2. p \in Nat \ {0} /\ h \in Nat \ {0} /\ M = p * h /\ M \in Nat \ {0} /\ h <= M
  <2>1. Width \in 0 .. Width /\ Width - k \in 0 .. Width
    BY <1>1, WidthAssumption
  <2> QED BY <1>1, <2>1, PowerSplits, WordIs DEF W!Modulus
<1>3. v \in Nat /\ v \in 0 .. M - 1 /\ W!Cell = 0 .. M - 1
  BY WordIs DEF W!Cell
<1>4. q \in 0 .. h - 1 /\ q \in W!Cell /\ W!Bits(q) = {d \in W!Lanes : d + k \in W!Bits(v)}
  BY <1>1, DivBits
<1>5. v = p * q + r /\ r \in Nat /\ r < p
  <2> HIDE DEF p
  <2> QED BY <1>2, <1>3, DivMod
<1>6. Alu("SRA", v, k) = W!Wrap(Signed(v) \div p)
  BY <1>1 DEF Alu
<1>7. Width - 1 \in W!Bits(v) <=> W!Negative(v)
  BY SignIsTop DEF W!Negative
<1> HIDE DEF p, h, q, r, M
<1>8. CASE ~W!Negative(v)
  <2>1. Signed(v) \div p = q
    BY <1>8 DEF Signed, q
  <2>2. W!Wrap(q) = q
    BY <1>2, <1>3, <1>4 DEF W!Wrap, M
  <2>3. \A d \in W!Lanes : Least(d + k, Top) \in W!Bits(v) <=> d + k \in W!Bits(v)
    <3> TAKE d \in W!Lanes
    <3>1. CASE d + k > Top
      <4>1. d + k \notin 0 .. Width - 1 /\ W!Bits(v) \subseteq 0 .. Width - 1
        BY <1>1, <3>1, CellOfBits, WidthAssumption DEF Top
      <4> QED BY <1>7, <1>8, <3>1, <4>1 DEF Least, Top
    <3> QED BY <3>1 DEF Least
  <2> QED BY <1>4, <1>6, <2>1, <2>2, <2>3
<1>9. CASE W!Negative(v)
  <2>1. Signed(v) = p * (q - h) + r
    <3>1. p * (q - h) = p * q - p * h
      BY <1>2, <1>4, Z3
    <3>2. Signed(v) = v - M /\ p * q \in Nat /\ p * h \in Nat
      BY <1>2, <1>4, <1>9, Z3 DEF Signed, M
    <3> QED BY <1>2, <1>3, <1>5, <3>1, <3>2
  <2>2. Signed(v) \div p = q - h
    <3>1. q - h \in Int
      BY <1>2, <1>4
    <3> QED BY <1>2, <1>5, <2>1, <3>1, DivFloor
  <2>3. W!Wrap(q - h) = q + M - h
    <3> DEFINE w == q - h
    <3>1. w \in Int /\ -M <= w /\ w < 0 /\ w + M = q + M - h
      BY <1>2, <1>4
    <3> HIDE DEF w
    <3>2. w % M = w + M
      BY <1>2, <3>1
    <3> QED BY <3>1, <3>2 DEF W!Wrap, M, w
  <2>4. q + M - h \in W!Cell /\ W!Bits(q + M - h) = W!Bits(q) \cup (Width - k .. Width - 1)
    <3>1. Width \in Width - k .. Width /\ M = 2 ^ Width
      BY <1>1, WidthAssumption DEF M, W!Modulus
    <3> QED BY <1>1, <1>4, <3>1, SignFill DEF h
  <2>5. \A d \in W!Lanes : Least(d + k, Top) \in W!Bits(v) <=> d + k \in W!Bits(v) \/ d \in Width - k .. Width - 1
    <3> TAKE d \in W!Lanes
    <3>1. CASE d + k > Top
      <4>1. d \in Width - k .. Width - 1
        BY <1>1, <3>1, WidthAssumption DEF Top
      <4> QED BY <1>7, <1>9, <3>1, <4>1 DEF Least, Top
    <3>2. CASE ~(d + k > Top)
      <4>1. d \notin Width - k .. Width - 1
        BY <1>1, <3>2, WidthAssumption DEF Top
      <4> QED BY <3>2, <4>1 DEF Least
    <3> QED BY <3>1, <3>2
  <2>6. Width - k .. Width - 1 \subseteq W!Lanes
    BY <1>1, WidthAssumption
  <2>7. Alu("SRA", v, k) = q + M - h
    BY <1>6, <2>2, <2>3
  <2>8. W!Bits(q) \cup (Width - k .. Width - 1) = {d \in W!Lanes : Least(d + k, Top) \in W!Bits(v)}
    BY <1>4, <2>5, <2>6
  <2> QED BY <2>4, <2>7, <2>8
<1> QED BY <1>8, <1>9

(* A right shift by an immediate: the bits from k on, and the sign.        *)
Rights         == {"SRL", "SRA"}
Kept(f, k)     == IF f = "SRA" THEN Width ELSE Width - k
Sources(k, n)  == [j \in 1 .. n |-> Least((j - 1) + k, Top)]
Targets(n)     == [j \in 1 .. n |-> j - 1]
Moved(a, k, n) == Gather(a, T0, Sources(k, n), Targets(n), n)

LEMMA ShiftRightIs ==
  ASSUME NEW f \in Rights, NEW a, NEW d, NEW k \in W!Lanes, k # 0
  PROVE  emit_shift_imm32(f, a, d, k) = mov32(Z, T0) \o Moved(a, k, Kept(f, k)) \o mov32(T0, d)
<1> DEFINE n == Kept(f, k)
           u == UpTo(0, n - 1)
<1>1. k \in Nat /\ k < Width /\ Width \in Nat /\ n \in Nat
  BY CellIs, WidthAssumption DEF Kept
<1>2. Len(u) = n /\ \A j \in 1 .. n : u[j] = j - 1
  <2>1. (n - 1) - 0 + 1 = n
    BY <1>1
  <2>2. u = [j \in 1 .. n |-> 0 + j - 1]
    BY <2>1 DEF UpTo
  <2> HIDE DEF u, n
  <2>3. \A j \in 1 .. n : 0 + j - 1 = j - 1
    BY <1>1
  <2> QED BY <1>1, <2>2, <2>3
<1>3. emit_shift_imm32(f, a, d, k)
        = mov32(Z, T0)
          \o FlattenSeq([j \in 1 .. Len(u) |->
               copybit32(a, IF u[j] + k > Width - 1 THEN Width - 1 ELSE u[j] + k, T0, u[j])])
          \o mov32(T0, d)
  <2>1. CASE f = "SRL"
    <3>1. n - 1 = Width - 1 - k
      BY <1>1, <2>1 DEF Kept
    <3> HIDE DEF n
    <3> QED BY <2>1, <3>1 DEF emit_shift_imm32, shift_right32, Each
  <2>2. CASE f = "SRA"
    BY <2>2 DEF emit_shift_imm32, shift_right32, Each, Kept
  <2> QED BY <2>1, <2>2 DEF Rights
<1> HIDE DEF u, n
<1>4. [j \in 1 .. Len(u) |-> copybit32(a, IF u[j] + k > Width - 1 THEN Width - 1 ELSE u[j] + k, T0, u[j])]
        = Copies(a, T0, Sources(k, n), Targets(n), n)
  <2>1. \A j \in 1 .. n : /\ Sources(k, n)[j] = IF u[j] + k > Width - 1 THEN Width - 1 ELSE u[j] + k
                          /\ Targets(n)[j] = u[j]
    BY <1>2 DEF Sources, Targets, Least, Top
  <2> QED BY <1>2, <2>1 DEF Copies
<1> QED BY <1>3, <1>4 DEF Moved, Gather, n

LEMMA MovedAims ==
  ASSUME NEW k \in W!Lanes, NEW n \in 0 .. Width
  PROVE  /\ Aims(Sources(k, n), Targets(n), n)
         /\ \A v : Got(v, Sources(k, n), Targets(n), n) = {d \in 0 .. n - 1 : Least(d + k, Top) \in W!Bits(v)}
<1>1. W!Lanes = 0 .. Width - 1 /\ Width \in Nat \ {0} /\ k \in Nat /\ k < Width
  BY CellIs, WidthAssumption
<1>2. \A j \in 1 .. n : Sources(k, n)[j] = Least((j - 1) + k, Top) /\ Targets(n)[j] = j - 1
  BY DEF Sources, Targets
<1>3. \A j \in 1 .. n : Least((j - 1) + k, Top) \in 0 .. Width - 1 /\ j - 1 \in 0 .. Width - 1
  BY <1>1 DEF Least, Top
<1>4. Aims(Sources(k, n), Targets(n), n)
  <2>1. Sources(k, n) \in [1 .. n -> W!Lanes]
    BY <1>1, <1>3 DEF Sources
  <2>2. Targets(n) \in [1 .. n -> W!Lanes]
    BY <1>1, <1>3 DEF Targets
  <2>3. \A j, l \in 1 .. n : j - 1 = l - 1 => j = l
    BY <1>1
  <2> QED BY <1>2, <2>1, <2>2, <2>3 DEF Aims
<1>5. ASSUME NEW v
      PROVE  Got(v, Sources(k, n), Targets(n), n) = {d \in 0 .. n - 1 : Least(d + k, Top) \in W!Bits(v)}
  <2>1. \A d \in 0 .. n - 1 : d + 1 \in 1 .. n /\ (d + 1) - 1 = d
    BY <1>1
  <2>2. \A j \in 1 .. n : j - 1 \in 0 .. n - 1
    BY <1>1
  <2> QED BY <1>2, <2>1, <2>2 DEF Got, Bit
<1> QED BY <1>4, <1>5

\* What a register holds at the end of the block.
LEMMA ShiftedIs ==
  ASSUME NEW f \in Rights, NEW v \in W!Cell, NEW k \in W!Lanes, NEW w \in W!Cell,
         W!Bits(w) = {d \in 0 .. Kept(f, k) - 1 : Least(d + k, Top) \in W!Bits(v)}
  PROVE  w = Alu(f, v, k)
<1>1. W!Lanes = 0 .. Width - 1 /\ Width \in Nat \ {0} /\ k \in Nat /\ k < Width
  BY CellIs, WidthAssumption
<1>2. CASE f = "SRA"
  <2>1. W!Bits(w) = W!Bits(Alu("SRA", v, k)) /\ Alu("SRA", v, k) \in W!Cell
    BY <1>1, <1>2, SraBits DEF Kept
  <2> QED BY <1>2, <2>1, CellOfBits
<1>3. CASE f = "SRL"
  <2>1. \A d \in W!Lanes : d + k \in W!Bits(v) <=> d \in 0 .. Width - k - 1 /\ Least(d + k, Top) \in W!Bits(v)
    <3> TAKE d \in W!Lanes
    <3>1. CASE d + k > Top
      BY <1>1, <3>1, CellOfBits DEF Top
    <3>2. CASE ~(d + k > Top)
      BY <1>1, <3>2 DEF Top, Least
    <3> QED BY <3>1, <3>2
  <2>2. 0 .. Width - k - 1 \subseteq W!Lanes
    BY <1>1
  <2>3. W!Bits(w) = W!Bits(Alu("SRL", v, k)) /\ Alu("SRL", v, k) \in W!Cell
    BY <1>3, <2>1, <2>2, SrlBits DEF Kept
  <2> QED BY <1>3, <2>3, CellOfBits
<1> QED BY <1>2, <1>3 DEF Rights

LEMMA RunsMoved ==
  ASSUME NEW c, NEW i, NEW p, NEW m, Good(i, m), m[T0] = 0, NEW a \in NamesOf(i) \ Low, a # T0,
         NEW k \in W!Lanes, NEW f \in Rights, NEW n, n = Kept(f, k), Holds(c, p, Moved(a, k, n))
  PROVE  \E l : /\ Gets(c, i, p, m, p + Len(Moved(a, k, n)), l) /\ Alike(i, m, l, Plus(Low, T0))
                /\ l[T0] = Alu(f, m[a], k)
<1> DEFINE F == Sources(k, n)
           J == Targets(n)
           d == T0
<1>0. n \in 0 .. Width
  BY CellIs, WidthAssumption DEF Kept
<1>1. /\ Aims(F, J, n)
      /\ \A v : Got(v, F, J, n) = {e \in 0 .. n - 1 : Least(e + k, Top) \in W!Bits(v)}
  BY <1>0, MovedAims
<1>2. d \in Writable(i) \ Low /\ n \in Nat
  BY <1>0, ScratchAre DEF Low
<1>3. Vacant(m[d], J, n) /\ W!Bits(m[d]) = {} /\ Apart(a, d, F, J, n)
  BY NoBits DEF Vacant, Apart
<1>4. Moved(a, k, n) = Gather(a, d, F, J, n)
  BY DEF Moved
<1> HIDE DEF F, J, d
<1>5. Holds(c, p, Gather(a, d, F, J, n))
  BY <1>4
<1>6. PICK l : /\ Gets(c, i, p, m, p + Len(Gather(a, d, F, J, n)), l) /\ Alike(i, m, l, Plus(Low, d))
               /\ Gains(l[d], m[d], Got(m[a], F, J, n))
  BY <1>1, <1>2, <1>3, <1>5, RunsGather
<1>7. l[d] \in W!Cell /\ m[a] \in W!Cell
  BY <1>2, <1>6, GoodTyped DEF Gets, Writable
<1>8. W!Bits(l[d]) = {e \in 0 .. n - 1 : Least(e + k, Top) \in W!Bits(m[a])}
  BY <1>1, <1>3, <1>6 DEF Gains
<1>9. l[d] = Alu(f, m[a], k)
  <2> DEFINE v == m[a]
             w == l[d]
  <2>1. v \in W!Cell /\ w \in W!Cell /\ W!Bits(w) = {e \in 0 .. Kept(f, k) - 1 : Least(e + k, Top) \in W!Bits(v)}
    BY <1>7, <1>8
  <2> HIDE DEF v, w
  <2>2. w = Alu(f, v, k)
    BY <2>1, ShiftedIs
  <2> QED BY <2>2 DEF v, w
<1> QED BY <1>4, <1>6, <1>9 DEF d

(* A block of a first instruction, a body and a last one.                  *)
LEMMA FramedIs ==
  ASSUME NEW u, NEW g, NEW w, NEW e \in Nat, e <= 8000, Sized(u, 1), Sized(g, e), Sized(w, 1)
  PROVE  LET c == u \o g \o w
         IN  /\ Short(c) /\ (2 + e) + 1 = Len(c) + 1
             /\ Holds(c, 1, u) /\ Holds(c, 2, g) /\ Holds(c, 2 + e, w)
<1> DEFINE b == u \o g
           c == b \o w
<1>1. Sized(b, 1 + e)
  BY SizedJoin
<1> HIDE DEF b
<1>2. Sized(c, (1 + e) + 1)
  BY <1>1, SizedJoin
<1>3. Holds(c, 1, c)
  BY <1>2, WholeIs DEF Sized
<1>4. Holds(c, 1, b) /\ Holds(c, 1 + (1 + e), w)
  BY <1>1, <1>3, SizedSplit
<1> HIDE DEF c
<1>5. Holds(c, 1, u) /\ Holds(c, 1 + 1, g)
  BY <1>4, SizedSplit DEF b
<1>6. Len(c) = e + 2 /\ Short(c) /\ 1 + (1 + e) = 2 + e
  BY <1>2 DEF Sized, Short
<1> QED BY <1>4, <1>5, <1>6 DEF b, c

LEMMA ShiftRightPieces ==
  ASSUME NEW f \in Rights, NEW a, NEW d, NEW k \in W!Lanes, k # 0
  PROVE  LET c == emit_shift_imm32(f, a, d, k)
             g == Moved(a, k, Kept(f, k))
         IN  /\ Short(c) /\ (2 + Len(g)) + 1 = Len(c) + 1 /\ Len(g) \in Nat
             /\ Holds(c, 1, mov32(Z, T0)) /\ Holds(c, 2, g) /\ Holds(c, 2 + Len(g), mov32(T0, d))
<1> DEFINE n == Kept(f, k)
           g == Moved(a, k, n)
           c == emit_shift_imm32(f, a, d, k)
           s1 == mov32(Z, T0)
           s3 == mov32(T0, d)
<1>1. n \in 0 .. Width /\ Width \in Nat
  BY CellIs, WidthAssumption DEF Kept
<1>2. PICK e \in Nat : Sized(g, e) /\ e <= 7 * n
  <2>1. n \in Nat
    BY <1>1
  <2> HIDE DEF n
  <2>2. PICK off : /\ Offsets(off, Copies(a, T0, Sources(k, n), Targets(n), n)) /\ off[n + 1] <= 7 * n
                   /\ Len(Copies(a, T0, Sources(k, n), Targets(n), n)) = n
                   /\ Sized(Gather(a, T0, Sources(k, n), Targets(n), n), off[n + 1])
    BY <2>1, CopiesAre
  <2>3. off[n + 1] \in Nat
    BY <2>1, <2>2 DEF Offsets
  <2> QED BY <2>2, <2>3 DEF Moved
<1>3. c = s1 \o g \o s3
  BY ShiftRightIs
<1>4. Sized(s1, 1) /\ Sized(s3, 1) /\ e <= 8000 /\ Len(g) = e
  BY <1>1, <1>2, SizesAre, RoomAssumption DEF MaxWidth, Sized
<1> HIDE DEF c, s1, g, s3, n
<1>5. Short(c) /\ (2 + e) + 1 = Len(c) + 1 /\ Holds(c, 1, s1) /\ Holds(c, 2, g) /\ Holds(c, 2 + e, s3)
  BY <1>2, <1>3, <1>4, FramedIs
<1> QED BY <1>2, <1>4, <1>5 DEF c, s1, g, s3, n

(* srli and srai.                                                          *)
LEMMA MeansShiftRight ==
  ASSUME NEW i, Lowerable(i), i.kind = "opimm", i.f \in Rights, i.rd # 0, i.imm # 0, NEW s \in GuestStates
  PROVE  Means(i, s)
<1> DEFINE c == emit_one32(i)
           m == Image(i, s)
           a == X(i.rs1)
           k == i.imm
           n == Kept(i.f, k)
           g == Moved(a, k, n)
           r == 2 + Len(g)
<1>1. i.f \in Rights /\ k \in W!Lanes /\ k # 0 /\ i.rs1 \in Regs /\ i.f \in Shifts
  BY DEF Lowerable, Shifts, Rights
<1>2. c = emit_shift_imm32(i.f, a, X(i.rd), k)
  BY <1>1 DEF emit_one32
<1>3. /\ Short(c) /\ r + 1 = Len(c) + 1 /\ Len(g) \in Nat
      /\ Holds(c, 1, mov32(Z, T0)) /\ Holds(c, 2, g) /\ Holds(c, r, mov32(T0, X(i.rd)))
  <2> HIDE DEF c, a, k
  <2>1. k \in W!Lanes /\ k # 0 /\ i.f \in Rights
    BY <1>1
  <2>2. /\ Short(c) /\ r + 1 = Len(c) + 1 /\ Len(g) \in Nat
        /\ Holds(c, 1, mov32(Z, T0)) /\ Holds(c, 2, g) /\ Holds(c, 2 + Len(g), mov32(T0, X(i.rd)))
    BY <1>2, <2>1, ShiftRightPieces
  <2> QED BY <2>2
<1>6. Has(i, m, s) /\ Gets(c, i, 1, m, 1, m)
  BY HasImage, GetsItself DEF Has
<1>7. T0 \in Writable(i) \ Low /\ T0 \in NamesOf(i) /\ a \in NamesOf(i) \ Low /\ a # T0 /\ Z \in NamesOf(i)
  BY <1>1, ScratchAre, LowAre, GuestCellsAre DEF Writable, Low, Source, Temps
<1> DEFINE m1 == Written(m, T0, m[Z])
<1>8. Gets(c, i, 1, m, 2, m1) /\ m[Z] = 0
  <2>1. Gets(c, i, 1, m, 1 + 1, m1)
    BY <1>3, <1>6, <1>7, MoveOn
  <2> QED BY <1>6, <2>1, PoolValues DEF Has
<1> HIDE DEF c, m, a, k, n, g
<1>9. m1[T0] = 0 /\ m1[a] = m[a] /\ Alike(i, m, m1, Plus(Low, T0)) /\ Good(i, m1)
  <2>1. Gets(c, i, 1, m, 1, m) /\ T0 \in NamesOf(i) /\ Good(i, m1)
    BY <1>6, <1>7, <1>8 DEF Gets
  <2>2. \A x \in NamesOf(i) : m1[x] = IF x = T0 THEN m[Z] ELSE m[x]
    BY <2>1, WrittenAfter
  <2> QED BY <1>7, <1>8, <2>1, <2>2 DEF Alike, Plus
<1> HIDE DEF m1
<1>11. PICK l : /\ Gets(c, i, 2, m1, 2 + Len(g), l) /\ Alike(i, m1, l, Plus(Low, T0))
                /\ l[T0] = Alu(i.f, m1[a], k)
  <2>1. Holds(c, 2, Moved(a, k, n))
    BY <1>3 DEF g
  <2>2. n = Kept(i.f, k)
    BY DEF n
  <2> QED BY <1>1, <1>7, <1>9, <2>1, <2>2, RunsMoved DEF g
<1>12. Gets(c, i, 1, m, r, l)
  BY <1>8, <1>11, GetsOn
<1>13. Private(Plus(Low, T0))
  BY GuestCellsAre DEF Private, Scratch, Plus, Low
<1>14. Has(i, l, s)
  <2>1. Alike(i, m, l, Plus(Low, T0))
    BY <1>9, <1>11, AlikeOn
  <2> QED BY <1>6, <1>12, <1>13, <2>1, HasStill DEF Gets
<1>16. l[T0] = Alu(i.f, s.x[i.rs1], k)
  BY <1>1, <1>6, <1>9, <1>11 DEF Has, a
<1>17. Execute(i, s) = Goes(s, Set(s.x, i.rd, l[T0]), Following)
  BY <1>16 DEF Execute, k
<1> HIDE DEF r
<1> QED BY <1>3, <1>7, <1>12, <1>14, <1>17, RegEnds DEF c, m, r

(* A left shift by an immediate doubles T0 again and again.                *)
Doubles(k) == Repeat(k, dbl32(T0))

LEMMA DoublesAre ==
  ASSUME NEW n \in Nat
  PROVE  /\ Sized(Doubles(n), 3 * n)
         /\ \A c, p : Holds(c, p, Doubles(n)) =>
              \A k \in 1 .. n : Holds(c, p + 3 * (k - 1), AddBy(T0, T0, T1))
<1> DEFINE s == [k \in 1 .. n |-> dbl32(T0)]
           off == [k \in 1 .. n + 1 |-> 3 * (k - 1)]
           b == AddBy(T0, T0, T1)
<1>1. s = [k \in 1 .. n |-> b] /\ Doubles(n) = FlattenSeq(s)
  BY DEF dbl32, AddBy, Doubles, Repeat
<1>2. Sized(b, 3)
  BY AddByIs DEF Sized
<1> HIDE DEF s, b
<1>3. Len(s) = n /\ \A k \in 1 .. n : s[k] = b
  BY <1>1
<1>4. off \in [1 .. n + 1 -> Nat] /\ off[1] = 0 /\ off[n + 1] = 3 * n
      /\ \A k \in 1 .. n : off[k] = 3 * (k - 1) /\ off[k + 1] - off[k] = 3
  OBVIOUS
<1> HIDE DEF off
<1>5. Offsets(off, s)
  <2>1. ASSUME NEW k \in 1 .. n PROVE Sized(s[k], off[k + 1] - off[k])
    BY <1>2, <1>3, <1>4
  <2> QED BY <1>3, <1>4, <2>1 DEF Offsets
<1>6. Len(s) = 0 => s = <<>>
  BY <1>1, <1>3
<1>7. /\ Sized(FlattenSeq(s), off[Len(s) + 1])
      /\ \A c, p : Holds(c, p, FlattenSeq(s)) => \A k \in 1 .. Len(s) : Holds(c, p + off[k], s[k])
  BY <1>5, <1>6, PiecesAre
<1> QED BY <1>1, <1>3, <1>4, <1>7 DEF b

(* What k doublings make of v.                                             *)
Doubled(v, k) == W!Wrap(v * 2 ^ k)

LEMMA DoubledIs ==
  ASSUME NEW v \in W!Cell
  PROVE  /\ Doubled(v, 0) = v
         /\ \A k \in 0 .. Width - 1 :
              Doubled(v, k) \in W!Cell /\ Alu("ADD", Doubled(v, k), Doubled(v, k)) = Doubled(v, k + 1)
<1> DEFINE M == W!Modulus
<1>1. M \in Nat \ {0} /\ v \in 0 .. M - 1 /\ v \in Nat /\ W!Cell = 0 .. M - 1
  BY WordIs DEF W!Cell
<1>2. Doubled(v, 0) = v
  <2>1. v * 1 = v /\ 2 ^ 0 = 1
    BY <1>1
  <2> HIDE DEF M
  <2>2. v % M = v
    BY <1>1
  <2> QED BY <2>1, <2>2 DEF Doubled, W!Wrap, M
<1>3. ASSUME NEW k \in 0 .. Width - 1
      PROVE  Doubled(v, k) \in W!Cell /\ Alu("ADD", Doubled(v, k), Doubled(v, k)) = Doubled(v, k + 1)
  <2> DEFINE p == 2 ^ k
             x == v * p
             r == x % M
             q == x \div M
  <2>1. p \in Nat /\ 2 ^ (k + 1) = 2 * p
    BY PowerIs, PowerAssumption, WidthAssumption
  <2>2. x \in Nat /\ v * (2 * p) = 2 * x
    <3> HIDE DEF p
    <3> QED BY <1>1, <2>1, Z3
  <2> HIDE DEF x, p, M
  <2>3. q \in Nat /\ r \in 0 .. M - 1 /\ x = M * q + r
    BY <1>1, <2>2, DivMod
  <2> HIDE DEF q, r
  <2>4. 2 * x = 2 * r + M * (2 * q) /\ 2 * q \in Nat /\ 2 * r \in Nat
    BY <1>1, <2>3, Z3
  <2>5. (2 * r + M * (2 * q)) % M = (2 * r) % M
    <3> DEFINE y == 2 * r
               k2 == 2 * q
               z == y + M * k2
    <3>1. y \in Nat /\ k2 \in Nat /\ z \in Nat
      BY <1>1, <2>4, Z3
    <3>2. z \div M = y \div M + k2
      BY <1>1, <3>1, DivShift
    <3> HIDE DEF y, k2, z
    <3>3. /\ y \div M \in Nat /\ y % M \in Nat /\ y = M * (y \div M) + (y % M)
          /\ z % M \in Nat /\ z = M * (z \div M) + (z % M)
      <4>1. \A x1 \in Nat : x1 \div M \in Nat /\ x1 % M \in 0 .. M - 1 /\ x1 = M * (x1 \div M) + (x1 % M)
        BY <1>1, DivMod
      <4>2. 0 .. M - 1 \subseteq Nat
        BY <1>1
      <4> QED BY <3>1, <4>1, <4>2
    <3>4. M * (y \div M + k2) = M * (y \div M) + M * k2
      BY <1>1, <3>1, <3>3, Z3
    <3>5. z % M = y % M
      <4> DEFINE a == M * (y \div M)
                 b == M * k2
                 d == z % M
                 e == y % M
      <4>1. a \in Int /\ b \in Int /\ d \in Int /\ e \in Int
        BY <1>1, <3>1, <3>3, Z3
      <4>2. y = a + e /\ z = (a + b) + d /\ z = y + b
        BY <3>2, <3>3, <3>4 DEF z
      <4> HIDE DEF a, b, d, e
      <4>3. d = e
        BY <4>1, <4>2
      <4> QED BY <4>3 DEF d, e
    <3> QED BY <3>5 DEF y, k2, z
  <2>6. Doubled(v, k) = r /\ Doubled(v, k + 1) = (2 * x) % M
    BY <2>1, <2>2 DEF Doubled, W!Wrap, r, x, p, M
  <2>7. Alu("ADD", r, r) = (2 * r) % M
    <3>1. r + r = 2 * r
      BY <2>3
    <3> QED BY <3>1 DEF Alu, W!Wrap, M
  <2> QED BY <1>1, <2>3, <2>4, <2>5, <2>6, <2>7 DEF M
<1> QED BY <1>2, <1>3

LEMMA RunsDoubles ==
  ASSUME NEW c, NEW i, NEW p, NEW m, Good(i, m), NEW k \in W!Lanes, Holds(c, p, Doubles(k))
  PROVE  \E l : /\ Gets(c, i, p, m, p + 3 * k, l) /\ Alike(i, m, l, Plus(Low, T0))
                /\ l[T0] = Doubled(m[T0], k)
<1> DEFINE v == m[T0]
           Got0(j, l) == /\ Gets(c, i, p, m, p + 3 * j, l) /\ Alike(i, m, l, Plus(Low, T0))
                         /\ l[T0] = Doubled(v, j)
           S == {j \in Nat : j <= k => \E l : Got0(j, l)}
<1>1. T0 \in NamesOf(i) /\ T0 \in Writable(i) /\ T0 # T1 /\ T1 \in Low /\ T0 \notin Low
  BY ScratchAre DEF Low, Writable
<1>2. v \in W!Cell /\ k \in 0 .. Width - 1 /\ p \in Nat
  BY <1>1, GoodTyped, CellIs DEF Holds
<1> HIDE DEF v
<1>3. 0 \in S
  <2>1. p + 3 * 0 = p
    BY <1>2
  <2>2. Gets(c, i, p, m, p, m) /\ Alike(i, m, m, Plus(Low, T0))
    BY GetsItself DEF Alike
  <2>3. Got0(0, m)
    BY <1>2, <2>1, <2>2, DoubledIs DEF v
  <2> QED BY <2>3
<1>4. ASSUME NEW j \in Nat, j \in S PROVE j + 1 \in S
  <2> SUFFICES ASSUME j + 1 <= k PROVE \E l : Got0(j + 1, l)
    OBVIOUS
  <2> DEFINE q == p + 3 * j
  <2>1. j \in 0 .. Width - 1 /\ j + 1 \in 1 .. k /\ 3 * ((j + 1) - 1) = 3 * j /\ j <= k
        /\ q + 3 = p + 3 * (j + 1)
    BY <1>2, WidthAssumption
  <2>2. PICK l : Got0(j, l)
    BY <1>4, <2>1
  <2>3. Holds(c, q, AddBy(T0, T0, T1))
    <3>1. k \in Nat
      BY <1>2
    <3> QED BY <2>1, <3>1, DoublesAre
  <2>4. Good(i, l) /\ l[T0] = Doubled(v, j) /\ Gets(c, i, p, m, q, l)
    BY <2>2 DEF Gets
  <2>5. T0 \in Writable(i) \ {T1} /\ T0 \in NamesOf(i) \ {T1}
    BY <1>1
  <2> HIDE DEF q
  <2>6. PICK o : /\ Gets(c, i, q, l, q + 3, o) /\ Alike(i, l, o, Plus({T1}, T0))
                 /\ o[T0] = Alu("ADD", l[T0], l[T0])
    BY <1>1, <2>3, <2>4, <2>5, RunsAddBy
  <2>7. Gets(c, i, p, m, q + 3, o)
    BY <2>4, <2>6, GetsOn
  <2>8. Alike(i, m, o, Plus(Low, T0))
    BY <1>1, <2>2, <2>6 DEF Alike, Plus
  <2>9. o[T0] = Doubled(v, j + 1)
    BY <1>2, <2>1, <2>4, <2>6, DoubledIs
  <2> QED BY <2>1, <2>7, <2>8, <2>9
<1>5. Nat \subseteq S
  <2> HIDE DEF S
  <2> QED BY <1>3, <1>4, AllNaturals
<1>6. PICK l : Got0(k, l)
  <2> HIDE DEF Got0
  <2> QED BY <1>2, <1>5
<1> QED BY <1>6 DEF v

(* slli.                                                                   *)
LEMMA MeansShiftLeft ==
  ASSUME NEW i, Lowerable(i), i.kind = "opimm", i.f = "SLL", i.rd # 0, i.imm # 0, NEW s \in GuestStates
  PROVE  Means(i, s)
<1> DEFINE c == emit_one32(i)
           m == Image(i, s)
           a == X(i.rs1)
           k == i.imm
           e == 3 * k
           g == Doubles(k)
           r == 2 + e
           s1 == mov32(a, T0)
           s3 == mov32(T0, X(i.rd))
           m1 == Written(m, T0, m[a])
<1>1. k \in W!Lanes /\ k # 0 /\ i.rs1 \in Regs /\ i.f \in Shifts
  BY DEF Lowerable, Shifts
<1>2. k \in Nat /\ e \in Nat /\ e <= 8000
  BY <1>1, CellIs, WidthAssumption, RoomAssumption DEF MaxWidth
<1>3. c = s1 \o g \o s3
  BY <1>1 DEF emit_one32, emit_shift_imm32, shift_left32, Doubles
<1>4. Sized(s1, 1) /\ Sized(g, e) /\ Sized(s3, 1)
  BY <1>2, SizesAre, DoublesAre
<1>5. Has(i, m, s) /\ Gets(c, i, 1, m, 1, m)
  BY HasImage, GetsItself DEF Has
<1>6. T0 \in Writable(i) /\ T0 \in NamesOf(i) /\ a \in NamesOf(i)
  BY <1>1, ScratchAre, GuestCellsAre DEF Writable
<1> HIDE DEF c, m, a, k, e, g, m1, s1, s3
<1>7. Short(c) /\ r + 1 = Len(c) + 1 /\ Holds(c, 1, s1) /\ Holds(c, 2, g) /\ Holds(c, r, s3)
  BY <1>2, <1>3, <1>4, FramedIs
<1>8. Gets(c, i, 1, m, 2, m1)
  <2>1. Gets(c, i, 1, m, 1 + 1, m1)
    BY <1>5, <1>6, <1>7, MoveOn DEF m1, s1
  <2> QED BY <2>1
<1>9. m1[T0] = m[a] /\ Alike(i, m, m1, Plus(Low, T0)) /\ Good(i, m1)
  <2>1. \A x \in NamesOf(i) : m1[x] = IF x = T0 THEN m[a] ELSE m[x]
    BY <1>5, <1>6, WrittenAfter DEF m1
  <2> QED BY <1>6, <1>8, <2>1 DEF Alike, Plus, Gets
<1>10. PICK l : /\ Gets(c, i, 2, m1, 2 + e, l) /\ Alike(i, m1, l, Plus(Low, T0)) /\ l[T0] = Doubled(m1[T0], k)
  BY <1>1, <1>7, <1>9, RunsDoubles DEF g, e
<1>11. Gets(c, i, 1, m, r, l)
  BY <1>8, <1>10, GetsOn
<1>12. Has(i, l, s)
  <2>1. Alike(i, m, l, Plus(Low, T0))
    BY <1>9, <1>10, AlikeOn
  <2>2. Private(Plus(Low, T0))
    BY GuestCellsAre DEF Private, Scratch, Plus, Low
  <2> QED BY <1>5, <1>11, <2>1, <2>2, HasStill DEF Gets
<1>13. l[T0] = Alu("SLL", s.x[i.rs1], k)
  BY <1>1, <1>5, <1>9, <1>10, PowerBelow DEF Has, a, Alu, Doubled
<1>14. Execute(i, s) = Goes(s, Set(s.x, i.rd, l[T0]), Following)
  BY <1>13 DEF Execute, k
<1> HIDE DEF r
<1> QED BY <1>6, <1>7, <1>11, <1>12, <1>14, RegEnds DEF c, m, s3

LEMMA ShiftByNone ==
  ASSUME NEW v \in W!Cell, NEW f \in Shifts
  PROVE  Alu(f, v, 0) = v
<1>1. 0 \in W!Lanes /\ \A d \in W!Lanes : d + 0 = d /\ Least(d, Top) = d
  BY CellIs, WidthAssumption DEF Least, Top
<1>2. W!Bits(v) \subseteq W!Lanes
  BY CellOfBits
<1>3. Alu("SLL", v, 0) = v
  BY <1>1, DoubledIs, PowerBelow DEF Alu, Doubled
<1> DEFINE k == 0
<1>4. k \in W!Lanes /\ \A d \in W!Lanes : d + k = d /\ Least(d + k, Top) = d
  BY <1>1
<1> HIDE DEF k
<1>5. Alu("SRL", v, k) \in W!Cell /\ W!Bits(Alu("SRL", v, k)) = W!Bits(v)
  BY <1>2, <1>4, SrlBits
<1>6. Alu("SRA", v, k) \in W!Cell /\ W!Bits(Alu("SRA", v, k)) = W!Bits(v)
  <2>1. /\ Alu("SRA", v, k) \in W!Cell
        /\ W!Bits(Alu("SRA", v, k)) = {d \in W!Lanes : Least(d + k, Top) \in W!Bits(v)}
    BY <1>4, SraBits
  <2>2. {d \in W!Lanes : Least(d + k, Top) \in W!Bits(v)} = W!Bits(v)
    BY <1>2, <1>4
  <2> QED BY <2>1, <2>2
<1>7. Alu("SRL", v, k) = v /\ Alu("SRA", v, k) = v
  BY <1>5, <1>6, SameBits
<1> QED BY <1>3, <1>7 DEF Shifts, k

LEMMA MeansShiftImm ==
  ASSUME NEW i, Lowerable(i), i.kind = "opimm", i.f \in Shifts, NEW s \in GuestStates
  PROVE  Means(i, s)
<1>1. CASE i.rd = 0
  <2>1. emit_one32(i) = <<>> /\ Execute(i, s) = Goes(s, s.x, Following)
    BY <1>1 DEF emit_one32, Execute, Set
  <2> QED BY <2>1, MeansNothing
<1>2. CASE i.rd # 0 /\ i.imm = 0
  <2> DEFINE v == s.x[i.rs1]
  <2>1. i.rs1 \in Regs /\ v \in W!Cell
    BY DEF Lowerable, GuestStates
  <2>2. Alu(i.f, v, 0) = v
    <3> HIDE DEF v
    <3> QED BY <2>1, ShiftByNone
  <2>3. emit_one32(i) = mov32(X(i.rs1), X(i.rd))
    BY <1>2 DEF emit_one32, Shifts, emit_shift_imm32, shift_left32, shift_right32
  <2>4. Execute(i, s) = Goes(s, Set(s.x, i.rd, v), Following)
    BY <1>2, <2>2 DEF Execute
  <2>5. X(i.rs1) \in NamesOf(i) /\ Image(i, s)[X(i.rs1)] = v
    BY <2>1, ImageIs, GuestCellsAre DEF Source
  <2> QED BY <1>2, <2>3, <2>4, <2>5, MeansMove
<1>3. CASE i.rd # 0 /\ i.imm # 0
  BY <1>3, MeansShiftRight, MeansShiftLeft DEF Shifts, Rights
<1> QED BY <1>1, <1>2, <1>3

------------------------------------------------------------------------------
(* Runs of bits and the extension of a sign.                               *)
Span(b, n)  == [j \in 1 .. n |-> b + j - 1]
Repeated(b, n) == [j \in 1 .. n |-> b]

LEMMA UpToIs ==
  ASSUME NEW lo \in Int, NEW n \in Nat, NEW hi, hi = lo + n - 1
  PROVE  UpTo(lo, hi) = Span(lo, n) /\ Len(Span(lo, n)) = n
<1>1. hi - lo + 1 = n
  OBVIOUS
<1>2. UpTo(lo, hi) = Span(lo, n)
  BY <1>1 DEF UpTo, Span
<1> QED BY <1>2 DEF Span

LEMMA GatherSized ==
  ASSUME NEW a, NEW d, NEW f, NEW g, NEW n \in Nat
  PROVE  LET e == Len(Gather(a, d, f, g, n))
         IN  Sized(Gather(a, d, f, g, n), e) /\ e \in Nat /\ e <= 7 * n
<1>1. PICK off : /\ Offsets(off, Copies(a, d, f, g, n)) /\ off[n + 1] <= 7 * n /\ Len(Copies(a, d, f, g, n)) = n
                 /\ Sized(Gather(a, d, f, g, n), off[n + 1])
  BY CopiesAre
<1>2. off[n + 1] \in Nat
  BY <1>1 DEF Offsets
<1> QED BY <1>1, <1>2 DEF Sized

Signs(sb)     == Width - 1 - sb
Extend(d, sb) == Gather(d, d, Repeated(sb, Signs(sb)), Span(sb + 1, Signs(sb)), Signs(sb))

LEMMA ExtendIs ==
  ASSUME NEW d, NEW sb \in W!Lanes
  PROVE  /\ sign_extend32(d, sb) = Extend(d, sb)
         /\ Signs(sb) \in Nat /\ Signs(sb) <= Width
         /\ Aims(Repeated(sb, Signs(sb)), Span(sb + 1, Signs(sb)), Signs(sb))
         /\ Apart(d, d, Repeated(sb, Signs(sb)), Span(sb + 1, Signs(sb)), Signs(sb))
<1> DEFINE n == Signs(sb)
           f == Repeated(sb, n)
           g == Span(sb + 1, n)
<1>1. sb \in Nat /\ sb <= Width - 1 /\ Width \in Nat /\ W!Lanes = 0 .. Width - 1 /\ n \in Nat /\ n <= Width
      /\ Width - 1 = (sb + 1) + n - 1 /\ sb + n = Width - 1
  BY CellIs, WidthAssumption DEF Signs
<1> HIDE DEF n
<1>2. UpTo(sb + 1, Width - 1) = g /\ Len(g) = n
  <2> DEFINE lo == sb + 1
             hi == Width - 1
  <2>1. lo \in Int /\ n \in Nat /\ hi = lo + n - 1
    BY <1>1
  <2> HIDE DEF lo, hi
  <2>2. UpTo(lo, hi) = Span(lo, n) /\ Len(Span(lo, n)) = n
    BY <2>1, UpToIs
  <2> QED BY <2>2 DEF lo, hi
<1>3. \A k \in 1 .. n : f[k] = sb /\ g[k] = sb + k
  BY <1>1 DEF Repeated, Span
<1>4. sign_extend32(d, sb) = FlattenSeq([k \in 1 .. n |-> copybit32(d, sb, d, g[k])])
  BY <1>2 DEF sign_extend32, Each
<1>5. [k \in 1 .. n |-> copybit32(d, sb, d, g[k])] = Copies(d, d, f, g, n)
  BY <1>3 DEF Copies
<1>6. sign_extend32(d, sb) = Gather(d, d, f, g, n)
  BY <1>4, <1>5 DEF Gather
<1>7. Aims(f, g, n)
  <2>1. f \in [1 .. n -> W!Lanes]
    BY DEF Repeated
  <2>2. g \in [1 .. n -> W!Lanes]
    BY <1>1 DEF Span
  <2>3. \A j, k \in 1 .. n : sb + j = sb + k => j = k
    BY <1>1
  <2> QED BY <1>3, <2>1, <2>2, <2>3 DEF Aims
<1>8. Apart(d, d, f, g, n)
  BY <1>1, <1>3 DEF Apart
<1> QED BY <1>1, <1>6, <1>7, <1>8 DEF Extend, n

\* The bits of w are those of v and copies of bit sb above it.
SignCopies(v, sb) == IF Bit(v, sb) THEN sb + 1 .. Width - 1 ELSE {}

LEMMA ExtendGot ==
  ASSUME NEW sb \in W!Lanes, NEW v
  PROVE  Got(v, Repeated(sb, Signs(sb)), Span(sb + 1, Signs(sb)), Signs(sb)) = SignCopies(v, sb)
<1> DEFINE n == Signs(sb)
           f == Repeated(sb, n)
           g == Span(sb + 1, n)
<1>1. sb \in Nat /\ Width \in Nat /\ n \in Nat /\ sb + n = Width - 1
  BY CellIs, WidthAssumption DEF Signs
<1> HIDE DEF n
<1>2. \A k \in 1 .. n : f[k] = sb /\ g[k] = sb + k
  BY <1>1 DEF Repeated, Span
<1>3. \A b \in sb + 1 .. Width - 1 : b - sb \in 1 .. n /\ b = sb + (b - sb)
  BY <1>1
<1>4. \A k \in 1 .. n : sb + k \in sb + 1 .. Width - 1
  BY <1>1
<1> HIDE DEF f, g
<1>5. CASE Bit(v, sb)
  <2>1. {j \in 1 .. n : Bit(v, f[j])} = 1 .. n
    BY <1>2, <1>5
  <2>2. Got(v, f, g, n) = {g[j] : j \in 1 .. n}
    BY <2>1 DEF Got
  <2>3. {g[j] : j \in 1 .. n} = sb + 1 .. Width - 1
    BY <1>2, <1>3, <1>4
  <2> QED BY <1>5, <2>2, <2>3 DEF SignCopies, f, g, n
<1>6. CASE ~Bit(v, sb)
  <2>1. Got(v, f, g, n) = {}
    BY <1>2, <1>6 DEF Got
  <2> QED BY <1>6, <2>1 DEF SignCopies, f, g, n
<1> QED BY <1>5, <1>6

(* The number that the sign makes of v.                                    *)
SignMakes(v, sb) == IF v >= 2 ^ sb THEN W!Wrap(v - 2 ^ (sb + 1)) ELSE v

LEMMA SignMakesIs ==
  ASSUME NEW sb \in W!Lanes, NEW v \in 0 .. 2 ^ (sb + 1) - 1, NEW w \in W!Cell, Gains(w, v, SignCopies(v, sb))
  PROVE  w = SignMakes(v, sb)
<1>1. sb \in 0 .. Width - 1 /\ sb \in 0 .. Width /\ sb + 1 \in 0 .. Width /\ Width \in sb + 1 .. Width /\ Width \in Nat
  BY CellIs, WidthAssumption
<1> DEFINE p == 2 ^ (sb + 1)
           M == W!Modulus
           u == v + M - p
<1>2. p \in Nat \ {0} /\ 2 ^ Width = M /\ M \in Nat \ {0} /\ p <= M
  BY <1>1, PowerSplits, WordIs DEF W!Modulus
<1>3. /\ u \in W!Cell /\ W!Bits(u) = W!Bits(v) \cup (sb + 1 .. Width - 1)
  BY <1>1, <1>2, SignFill
<1>4. Bit(v, sb) <=> v >= 2 ^ sb
  <2>1. BitOf(v, sb) = 1 <=> v >= 2 ^ sb
    BY <1>1, TopBitIs
  <2>2. sb \in W!Bits(v) <=> BitOf(v, sb) = 1
    BY <1>1, BitsAre
  <2> QED BY <2>1, <2>2 DEF Bit
<1>5. v \in W!Cell
  <2> HIDE DEF p, M
  <2> QED BY <1>2, CellIs DEF p
<1> HIDE DEF p, u, M
<1>6. CASE v >= 2 ^ sb
  <2>1. W!Bits(w) = W!Bits(u)
    BY <1>3, <1>4, <1>6 DEF Gains, SignCopies
  <2>2. w = u
    BY <1>3, <2>1, SameBits
  <2>3. W!Wrap(v - p) = u
    <3>1. v \in Int /\ v - p \in Int /\ (v - p) + M = u /\ u \in 0 .. M - 1
      <4>1. v \in Int
        BY <1>5, CellIs
      <4>2. u \in 0 .. M - 1
        BY <1>2, <1>3, CellIs
      <4> QED BY <1>2, <4>1, <4>2 DEF u
    <3> DEFINE y == v - p
    <3> HIDE DEF y
    <3>2. y \in Int /\ y + M = u /\ M \in Nat \ {0}
      BY <1>2, <3>1 DEF y
    <3>3. y % M = u
      BY <3>1, <3>2
    <3> QED BY <3>3 DEF W!Wrap, y, M
  <2> QED BY <1>6, <2>2, <2>3 DEF SignMakes, p
<1>7. CASE ~(v >= 2 ^ sb)
  <2>1. W!Bits(w) = W!Bits(v)
    BY <1>4, <1>7 DEF Gains, SignCopies
  <2> QED BY <1>5, <1>7, <2>1, SameBits DEF SignMakes
<1> QED BY <1>6, <1>7

LEMMA RunsExtend ==
  ASSUME NEW c, NEW i, NEW p, NEW m, Good(i, m), NEW d \in Writable(i) \ Low, NEW sb \in W!Lanes,
         m[d] \in 0 .. 2 ^ (sb + 1) - 1, Holds(c, p, sign_extend32(d, sb))
  PROVE  \E l : /\ Gets(c, i, p, m, p + Len(sign_extend32(d, sb)), l) /\ Alike(i, m, l, Plus(Low, d))
                /\ l[d] = SignMakes(m[d], sb)
<1> DEFINE n == Signs(sb)
           f == Repeated(sb, n)
           g == Span(sb + 1, n)
           v == m[d]
<1>1. sign_extend32(d, sb) = Gather(d, d, f, g, n) /\ n \in Nat /\ Aims(f, g, n) /\ Apart(d, d, f, g, n)
  BY ExtendIs DEF Extend
<1>2. d \in NamesOf(i) /\ v \in W!Cell
  BY GoodTyped DEF Writable
<1>3. Vacant(v, g, n)
  <2>1. sb + 1 \in 0 .. Width /\ sb \in Nat
    BY CellIs, WidthAssumption
  <2>2. v % 2 ^ (sb + 1) = v
    <3> DEFINE q == 2 ^ (sb + 1)
    <3>1. q \in Nat \ {0} /\ v \in 0 .. q - 1
      BY <2>1, PowerIs
    <3> HIDE DEF q, v
    <3>2. v % q = v
      BY <3>1
    <3> QED BY <3>2 DEF q
  <2> HIDE DEF v
  <2>3. W!Bits(v) = {e \in W!Bits(v) : e < sb + 1}
    BY <1>2, <2>1, <2>2, ModBits
  <2>4. n \in Nat /\ \A k \in 1 .. n : g[k] = sb + k
    BY <1>1, <2>1 DEF Span
  <2> HIDE DEF n, g
  <2>5. \A k \in 1 .. n : ~(sb + k < sb + 1)
    BY <2>1, <2>4
  <2> QED BY <2>3, <2>4, <2>5 DEF Vacant
<1>4. Got(v, f, g, n) = SignCopies(v, sb)
  BY ExtendGot
<1> HIDE DEF f, g, n
<1>5. d \in NamesOf(i) \ Low /\ Vacant(m[d], g, n) /\ Holds(c, p, Gather(d, d, f, g, n))
  BY <1>1, <1>2, <1>3
<1>6. PICK l : /\ Gets(c, i, p, m, p + Len(Gather(d, d, f, g, n)), l) /\ Alike(i, m, l, Plus(Low, d))
               /\ Gains(l[d], m[d], Got(m[d], f, g, n))
  BY <1>1, <1>5, RunsGather
<1>7. l[d] \in W!Cell
  BY <1>2, <1>6, GoodTyped DEF Gets
<1>8. l[d] = SignMakes(v, sb)
  BY <1>4, <1>6, <1>7, SignMakesIs
<1> QED BY <1>1, <1>6, <1>8

------------------------------------------------------------------------------
(* Blocks in a row of four parts.                                          *)
LEMMA RowOfFour ==
  ASSUME NEW a, NEW b, NEW d, NEW e, NEW n1, NEW n2, NEW n3, NEW n4,
         Sized(a, n1), Sized(b, n2), Sized(d, n3), Sized(e, n4)
  PROVE  LET s == a \o b \o d \o e
         IN  /\ Sized(s, n1 + n2 + n3 + n4)
             /\ \A c, p : Holds(c, p, s) => /\ Holds(c, p, a) /\ Holds(c, p + n1, b)
                                            /\ Holds(c, p + (n1 + n2), d) /\ Holds(c, p + (n1 + n2 + n3), e)
<1>2. Sized(a \o b, n1 + n2)
  BY SizedJoin
<1>3. Sized(a \o b \o d, (n1 + n2) + n3)
  BY <1>2, SizedJoin
<1>4. Sized(a \o b \o d \o e, ((n1 + n2) + n3) + n4)
  BY <1>3, SizedJoin
<1>5. ASSUME NEW c, NEW p, Holds(c, p, a \o b \o d \o e)
      PROVE  /\ Holds(c, p, a) /\ Holds(c, p + n1, b)
             /\ Holds(c, p + (n1 + n2), d) /\ Holds(c, p + (n1 + n2 + n3), e)
  <2>1. Holds(c, p, a \o b \o d) /\ Holds(c, p + ((n1 + n2) + n3), e)
    BY <1>3, <1>5, SizedSplit
  <2>2. Holds(c, p, a \o b) /\ Holds(c, p + (n1 + n2), d)
    BY <1>2, <2>1, SizedSplit
  <2>3. Holds(c, p, a) /\ Holds(c, p + n1, b)
    BY <2>2, SizedSplit
  <2> QED BY <2>1, <2>2, <2>3
<1> QED BY <1>4, <1>5

(* A cell whose bits are all below n is less than 2 ^ n.                   *)
LEMMA BitsBound ==
  ASSUME NEW v \in W!Cell, NEW n \in 0 .. Width, W!Bits(v) \subseteq 0 .. n - 1
  PROVE  v \in 0 .. 2 ^ n - 1
<1>1. v % 2 ^ n \in 0 .. 2 ^ n - 1 /\ v % 2 ^ n \in W!Cell /\ W!Bits(v % 2 ^ n) = {i \in W!Bits(v) : i < n}
  BY ModBits
<1>2. {i \in W!Bits(v) : i < n} = W!Bits(v)
  <2>1. \A i \in 0 .. n - 1 : i < n
    BY WidthAssumption
  <2> QED BY <2>1
<1>3. v % 2 ^ n = v
  BY <1>1, <1>2, SameBits
<1> QED BY <1>1, <1>3

(* The block of a signed byte load.                                        *)
LEMMA SignedByteIs ==
  ASSUME NEW i, i.kind = "load", i.f = "B", i.signed, i.rd # 0
  PROVE  \E e \in Nat : /\ Short(emit_one32(i)) /\ Len(emit_one32(i)) = e + 11
                        /\ Len(sign_extend32(SH1, BYTE - 1)) = e
                        /\ LET c == emit_one32(i)
                           IN  /\ Holds(c, 1, emit_addr32(X(i.rs1), IMM(0)))
                               /\ Holds(c, 9, load_at32(SH1)) /\ Holds(c, 11, sign_extend32(SH1, BYTE - 1))
                               /\ Holds(c, e + 11, mov32(SH1, X(i.rd)))
<1> DEFINE s1 == emit_addr32(X(i.rs1), IMM(0))
           s2 == load_at32(SH1)
           s3 == sign_extend32(SH1, BYTE - 1)
           s4 == mov32(SH1, X(i.rd))
           c == emit_one32(i)
           sb == BYTE - 1
<1>1. c = s1 \o s2 \o s3 \o s4
  BY DEF emit_one32, emit_load32, emit_load_byte_s32
<1>2. sb \in W!Lanes
  BY GuestAssumption, CellIs, WidthAssumption
<1>3. PICK e \in Nat : Sized(s3, e) /\ e <= 8000
  <2> HIDE DEF sb
  <2>1. /\ sign_extend32(SH1, sb) = Extend(SH1, sb) /\ Signs(sb) \in Nat /\ Signs(sb) <= Width
    BY <1>2, ExtendIs
  <2> DEFINE n == Signs(sb)
             g == Gather(SH1, SH1, Repeated(sb, n), Span(sb + 1, n), n)
             e == Len(g)
  <2>2. Sized(g, e) /\ e \in Nat /\ e <= 7 * n
    <3> HIDE DEF n
    <3>1. n \in Nat
      BY <2>1 DEF n
    <3> QED BY <3>1, GatherSized
  <2>3. e <= 8000
    <3>1. Width \in Nat /\ Width <= 100 /\ n \in Nat /\ n <= Width
      BY <2>1, WidthAssumption, RoomAssumption DEF MaxWidth
    <3> HIDE DEF n, e
    <3> QED BY <2>2, <3>1
  <2> QED BY <2>1, <2>2, <2>3 DEF Extend, sb
<1>4. Sized(s1, 8) /\ Sized(s2, 2) /\ Sized(s4, 1)
  BY AddrIs, AtAre, SizesAre
<1> HIDE DEF s1, s2, s3, s4, c, sb
<1> DEFINE n1 == 8
           n2 == 2
           n4 == 1
<1>5. /\ Sized(c, n1 + n2 + e + n4)
      /\ \A b, p : Holds(b, p, c) => /\ Holds(b, p, s1) /\ Holds(b, p + n1, s2)
                                     /\ Holds(b, p + (n1 + n2), s3) /\ Holds(b, p + (n1 + n2 + e), s4)
  <2>1. Sized(s1, n1) /\ Sized(s2, n2) /\ Sized(s3, e) /\ Sized(s4, n4)
    BY <1>3, <1>4
  <2> HIDE DEF n1, n2, n4
  <2>2. LET s == s1 \o s2 \o s3 \o s4
        IN  /\ Sized(s, n1 + n2 + e + n4)
            /\ \A b, p : Holds(b, p, s) => /\ Holds(b, p, s1) /\ Holds(b, p + n1, s2)
                                           /\ Holds(b, p + (n1 + n2), s3) /\ Holds(b, p + (n1 + n2 + e), s4)
    BY <2>1, RowOfFour
  <2> QED BY <1>1, <2>2
<1>6. 8 + 2 + e + 1 = e + 11 /\ 1 + (8 + 2) = 11 /\ 1 + (8 + 2 + e) = e + 11 /\ e + 11 <= 9000
  BY <1>3
<1>9. Holds(c, 1, c) /\ Short(c) /\ Len(c) = e + 11
  BY <1>3, <1>5, <1>6, WholeIs DEF Sized, Short
<1>10. Holds(c, 1, s1) /\ Holds(c, 1 + 8, s2) /\ Holds(c, 1 + (8 + 2), s3) /\ Holds(c, 1 + (8 + 2 + e), s4)
  BY <1>5, <1>9
<1>12. Holds(c, 1, s1) /\ Holds(c, 9, s2) /\ Holds(c, 11, s3) /\ Holds(c, e + 11, s4)
  BY <1>6, <1>10
<1>11. Len(s3) = e
  BY <1>3 DEF Sized
<1> QED BY <1>9, <1>11, <1>12 DEF s1, s2, s3, s4, c, sb

(* lb: the byte at the address, and copies of its top bit above it.        *)
LEMMA SignedByte ==
  ASSUME NEW v \in Byte
  PROVE  v \in 0 .. 2 ^ ((BYTE - 1) + 1) - 1 /\ SignMakes(v, BYTE - 1) = SignExtended(v, 1)
<1>1. BYTE \in Nat /\ (BYTE - 1) + 1 = BYTE /\ BYTE * 1 - 1 = BYTE - 1 /\ BYTE * 1 = BYTE
  BY GuestAssumption
<1> QED BY <1>1 DEF SignMakes, SignExtended, Byte

LEMMA MeansLoadSignedByte ==
  ASSUME NEW i, Lowerable(i), i.kind = "load", i.f = "B", i.signed, i.rd # 0, NEW s \in GuestStates
  PROVE  Means(i, s)
<1> DEFINE c == emit_one32(i)
           m == Image(i, s)
           k == Base(i, s)
           sb == BYTE - 1
           x == sign_extend32(SH1, sb)
<1>1. PICK e \in Nat : /\ Short(c) /\ Len(c) = e + 11 /\ Len(x) = e
                       /\ Holds(c, 1, emit_addr32(X(i.rs1), IMM(0))) /\ Holds(c, 9, load_at32(SH1))
                       /\ Holds(c, 11, x) /\ Holds(c, e + 11, mov32(SH1, X(i.rd)))
  BY SignedByteIs
<1>2. sb \in W!Lanes
  BY GuestAssumption, CellIs, WidthAssumption
<1>3. Has(i, m, s)
  BY HasImage
<1>4. Gets(c, i, 1, m, 1, m)
  BY <1>3, GetsItself DEF Has
<1> HIDE DEF c, m
<1>5. PICK n1 : Gets(c, i, 1, m, 1 + 8, n1) /\ Has(i, n1, s) /\ n1[T0] = RamBase + k /\ InWindow(k)
  BY <1>1, <1>3, <1>4, HasAddr
<1>6. Good(i, n1) /\ SH1 \in Writable(i) \ Low /\ SH1 # OPERAND /\ SH1 \in NamesOf(i)
  BY <1>5, ScratchAre, MemoryCells DEF Has, Writable, Low
<1> HIDE DEF k
<1>7. PICK n2 : Gets(c, i, 9, n1, 9 + 2, n2) /\ Alike(i, n1, n2, Patched(SH1)) /\ n2[SH1] = n1[RAM(k)]
  <2>1. Good(i, n1) /\ InWindow(k) /\ n1[T0] = RamBase + k /\ SH1 \in Writable(i) /\ SH1 # OPERAND
    BY <1>5, <1>6
  <2>2. Holds(c, 9, load_at32(SH1))
    BY <1>1
  <2> QED BY <2>1, <2>2, RunsLoadAt
<1>8. Gets(c, i, 1, m, 11, n2)
  BY <1>5, <1>7, GetsOn
<1>9. Private(Patched(SH1)) /\ Private(Plus(Low, SH1))
  BY GuestCellsAre DEF Private, Scratch, Patched, Plus, Low
<1>10. Has(i, n2, s)
  BY <1>5, <1>7, <1>8, <1>9, HasStill DEF Gets
<1>11. n2[SH1] = s.ram[k] /\ s.ram[k] \in Byte /\ Loaded(s.ram, k, 1) = s.ram[k]
  <2>1. n1[RAM(k)] = s.ram[k]
    BY <1>5 DEF Has, InWindow
  <2> QED BY <1>5, <1>7, <2>1, ByteLoaded
<1> DEFINE v == s.ram[k]
<1>12. v \in 0 .. 2 ^ (sb + 1) - 1 /\ SignMakes(v, sb) = SignExtended(v, 1)
  <2> HIDE DEF v
  <2>1. v \in Byte
    BY <1>11 DEF v
  <2> QED BY <2>1, SignedByte
<1> HIDE DEF sb, v
<1>13. PICK n3 : /\ Gets(c, i, 11, n2, 11 + Len(x), n3) /\ Alike(i, n2, n3, Plus(Low, SH1))
                 /\ n3[SH1] = SignMakes(n2[SH1], sb)
  <2>1. Good(i, n2) /\ n2[SH1] \in 0 .. 2 ^ (sb + 1) - 1 /\ Holds(c, 11, sign_extend32(SH1, sb))
    BY <1>1, <1>10, <1>11, <1>12 DEF Has, v
  <2>2. SH1 \in Writable(i) \ Low /\ sb \in W!Lanes
    BY <1>2, <1>6
  <2> QED BY <2>1, <2>2, RunsExtend
<1> HIDE DEF x
<1>14. 11 + Len(x) = e + 11
  BY <1>1
<1>15. Gets(c, i, 1, m, e + 11, n3)
  BY <1>8, <1>13, <1>14, GetsOn
<1>16. Has(i, n3, s)
  BY <1>10, <1>13, <1>15, <1>9, HasStill DEF Gets
<1>17. n3[SH1] = LoadValue(i, s)
  <2>1. LoadValue(i, s) = SignExtended(Loaded(s.ram, k, 1), 1)
    BY DEF LoadValue, BytesOf, k
  <2> QED BY <1>11, <1>12, <1>13, <2>1 DEF v
<1>18. (e + 11) + 1 = Len(c) + 1
  BY <1>1
<1>19. Execute(i, s) = Goes(s, Set(s.x, i.rd, n3[SH1]), Following)
  BY <1>17, LoadIs
<1> QED BY <1>1, <1>6, <1>15, <1>16, <1>18, <1>19, RegEnds DEF c, m

------------------------------------------------------------------------------
(* A part of a block that is gone through n times, or n parts in a row:    *)
(* from place q[k], with a memory of R[k], to q[k + 1] with one of R[k+1]. *)
LEMMA RunsAgain ==
  ASSUME NEW c, NEW i, NEW n \in Nat, NEW q, NEW R, NEW m \in R[0], Good(i, m),
         \A k \in Nat : k + 1 <= n =>
           \A l \in R[k] : Good(i, l) => \E o \in R[k + 1] : Gets(c, i, q[k], l, q[k + 1], o)
  PROVE  \E l \in R[n] : Gets(c, i, q[0], m, q[n], l)
<1> DEFINE S == {k \in Nat : k <= n => \E l \in R[k] : Gets(c, i, q[0], m, q[k], l)}
<1>1. 0 \in S
  <2>1. Gets(c, i, q[0], m, q[0], m)
    BY GetsItself
  <2> QED BY <2>1
<1>2. ASSUME NEW k \in Nat, k \in S PROVE k + 1 \in S
  <2> SUFFICES ASSUME k + 1 <= n PROVE \E l \in R[k + 1] : Gets(c, i, q[0], m, q[k + 1], l)
    OBVIOUS
  <2>1. k <= n
    OBVIOUS
  <2>2. PICK l \in R[k] : Gets(c, i, q[0], m, q[k], l)
    BY <1>2, <2>1
  <2>3. Good(i, l)
    BY <2>2 DEF Gets
  <2>4. PICK o \in R[k + 1] : Gets(c, i, q[k], l, q[k + 1], o)
    BY <2>3
  <2>5. Gets(c, i, q[0], m, q[k + 1], o)
    BY <2>2, <2>4, GetsOn
  <2> QED BY <2>5
<1>3. Nat \subseteq S
  <2> HIDE DEF S
  <2> QED BY <1>1, <1>2, AllNaturals
<1> QED BY <1>3

Memories(i) == [NamesOf(i) -> W!Cell]

(* The bits that the first k bytes from base on make.                        *)
BytesBits(ram, base, k) == {b \in 0 .. BYTE * k - 1 : Bit(ram[base + b \div BYTE], b % BYTE)}
Lifted(x, S) == {x + j : j \in S}

LEMMA BytesStep ==
  ASSUME NEW ram, NEW base \in Nat, NEW k \in Nat, W!Bits(ram[base + k]) \subseteq 0 .. BYTE - 1
  PROVE  BytesBits(ram, base, k + 1) = BytesBits(ram, base, k) \cup Lifted(BYTE * k, W!Bits(ram[base + k]))
<1> DEFINE x == BYTE * k
           B == W!Bits(ram[base + k])
<1>1. BYTE \in Nat \ {0} /\ x \in Nat /\ BYTE * (k + 1) = x + BYTE
  <2>1. BYTE \in Nat \ {0}
    BY GuestAssumption
  <2>2. BYTE * k \in Nat /\ BYTE * (k + 1) = BYTE * k + BYTE
    BY <2>1, Z3
  <2> QED BY <2>1, <2>2
<1>2. \A j \in 0 .. BYTE - 1 : (x + j) \div BYTE = k /\ (x + j) % BYTE = j
  <2> TAKE j \in 0 .. BYTE - 1
  <2>1. j \in Nat /\ j < BYTE
    BY <1>1
  <2>2. (BYTE * k + j) \div BYTE = k
    BY <1>1, <2>1, DivUnique
  <2>3. (x + j) \div BYTE = k
    BY <2>2
  <2>4. x + j \in Nat
    BY <1>1, <2>1
  <2> DEFINE y == x + j
             z == y % BYTE
  <2>5. y = BYTE * (y \div BYTE) + z /\ z \in 0 .. BYTE - 1
    <3> HIDE DEF y
    <3> QED BY <1>1, <2>4, DivMod DEF y
  <2>6. y \div BYTE = k
    BY <2>3
  <2>7. y = x + z
    BY <2>5, <2>6
  <2> HIDE DEF z
  <2>8. z = j
    <3> HIDE DEF x
    <3> QED BY <1>1, <2>1, <2>5, <2>7 DEF y
  <2> QED BY <2>3, <2>8 DEF z
<1> HIDE DEF x, B
<1>3. \A b \in x .. x + BYTE - 1 : b - x \in 0 .. BYTE - 1 /\ x + (b - x) = b
  BY <1>1
<1>4. \A j \in 0 .. BYTE - 1 : x + j \in 0 .. (x + BYTE) - 1
  BY <1>1
<1>5. \A b \in 0 .. (x + BYTE) - 1 : b \in 0 .. x - 1 \/ b \in x .. x + BYTE - 1
  BY <1>1
<1>6. \A b \in 0 .. x - 1 : b \in 0 .. (x + BYTE) - 1
  BY <1>1
<1>7. \A j \in 0 .. BYTE - 1 : Bit(ram[base + (x + j) \div BYTE], (x + j) % BYTE) <=> j \in B
  BY <1>2 DEF B, Bit
<1>8. BytesBits(ram, base, k + 1) = {b \in 0 .. (x + BYTE) - 1 : Bit(ram[base + b \div BYTE], b % BYTE)}
  BY <1>1 DEF BytesBits
<1>9. BytesBits(ram, base, k) = {b \in 0 .. x - 1 : Bit(ram[base + b \div BYTE], b % BYTE)}
  BY DEF BytesBits, x
<1> DEFINE On(b) == Bit(ram[base + b \div BYTE], b % BYTE)
<1>10. \A j \in 0 .. BYTE - 1 : On(x + j) <=> j \in B
  BY <1>7
<1>11. B \subseteq 0 .. BYTE - 1
  BY DEF B
<1> HIDE DEF On
<1>12. {b \in 0 .. (x + BYTE) - 1 : On(b)} = {b \in 0 .. x - 1 : On(b)} \cup Lifted(x, B)
  <2>1. ASSUME NEW b \in 0 .. (x + BYTE) - 1, On(b), b \notin 0 .. x - 1 PROVE b \in Lifted(x, B)
    <3>1. b - x \in 0 .. BYTE - 1 /\ x + (b - x) = b
      BY <1>3, <1>5, <2>1
    <3>2. b - x \in B
      BY <1>10, <2>1, <3>1
    <3> QED BY <3>1, <3>2 DEF Lifted
  <2>2. ASSUME NEW j \in B PROVE x + j \in 0 .. (x + BYTE) - 1 /\ On(x + j)
    BY <1>4, <1>10, <1>11
  <2> QED BY <1>6, <2>1, <2>2 DEF Lifted
<1> QED BY <1>8, <1>9, <1>12 DEF On, x, B

LEMMA ByteGot ==
  ASSUME NEW v, W!Bits(v) \subseteq 0 .. BYTE - 1, NEW x \in Nat
  PROVE  Got(v, Span(0, BYTE), Span(x, BYTE), BYTE) = Lifted(x, W!Bits(v))
<1> DEFINE f == Span(0, BYTE)
           g == Span(x, BYTE)
<1>1. BYTE \in Nat
  BY GuestAssumption
<1>2. \A j \in 1 .. BYTE : f[j] = j - 1 /\ g[j] = x + (j - 1)
  BY <1>1 DEF Span
<1>3. \A b \in 0 .. BYTE - 1 : b + 1 \in 1 .. BYTE /\ (b + 1) - 1 = b
  BY <1>1
<1> HIDE DEF f, g
<1>4. Got(v, f, g, BYTE) = {g[j] : j \in {j \in 1 .. BYTE : f[j] \in W!Bits(v)}}
  BY DEF Got, Bit
<1>5. ASSUME NEW j \in 1 .. BYTE, f[j] \in W!Bits(v) PROVE g[j] \in Lifted(x, W!Bits(v))
  BY <1>2, <1>5 DEF Lifted
<1>6. ASSUME NEW b \in W!Bits(v) PROVE \E j \in 1 .. BYTE : f[j] \in W!Bits(v) /\ g[j] = x + b
  <2>1. b + 1 \in 1 .. BYTE /\ (b + 1) - 1 = b
    BY <1>3
  <2>2. f[b + 1] = b /\ g[b + 1] = x + b
    BY <1>2, <2>1
  <2> QED BY <2>1, <2>2
<1>7. Lifted(x, W!Bits(v)) \subseteq Got(v, f, g, BYTE)
  BY <1>4, <1>6 DEF Lifted
<1>8. Got(v, f, g, BYTE) \subseteq Lifted(x, W!Bits(v))
  BY <1>4, <1>5
<1> QED BY <1>7, <1>8 DEF f, g

\* A wider access has at least one byte and at most the bytes of a word.
Several(n) == n \in Nat \ {0} /\ BYTE * n <= Width

LEMMA SeveralAre ==
  ASSUME NEW f, f = "H" \/ f = "W"
  PROVE  Several(BytesOf(f)) /\ (f = "W" => BYTE * BytesOf(f) = Width)
<1> DEFINE b == BYTE + BYTE
           q == Width \div b
           w == Width \div BYTE
<1>1. Width \in Nat /\ BYTE \in Nat \ {0} /\ b \in Nat \ {0} /\ b <= Width /\ b = 2 * BYTE /\ BYTE <= b /\ BYTE * w = Width
  BY WidthAssumption, GuestAssumption
<1>2. q \in Nat /\ Width % b \in 0 .. b - 1 /\ Width = b * q + (Width % b)
  <2> HIDE DEF b
  <2> QED BY <1>1, DivMod
<1>3. w \in Nat
  BY <1>1, DivMod
<1>4. q # 0 /\ b * q <= Width
  <2>1. CASE q = 0
    <3>1. b * q = 0
      BY <1>1, <2>1
    <3> HIDE DEF b, q
    <3> QED BY <1>1, <1>2, <3>1
  <2>2. CASE q # 0
    <3> DEFINE u == b * q
    <3>1. u \in Nat
      <4> HIDE DEF b, q
      <4> QED BY <1>1, <1>2, Z3
    <3> HIDE DEF b, q, u
    <3>2. Width = u + (Width % b)
      BY <1>2 DEF u
    <3> QED BY <1>1, <1>2, <2>2, <3>1, <3>2 DEF u
  <2> QED BY <2>1, <2>2
<1>5. BYTE * q <= Width
  <2>1. BYTE * q \in Nat /\ b * q = BYTE * q + BYTE * q
    <3> HIDE DEF q
    <3> QED BY <1>1, <1>2, Z3
  <2> DEFINE y == BYTE * q
             u == b * q
  <2> HIDE DEF y, u
  <2>2. y \in Nat /\ u = y + y /\ u <= Width
    BY <1>4, <2>1 DEF y, u
  <2>3. y <= Width
    BY <1>1, <2>2
  <2> QED BY <2>3 DEF y
<1>6. w # 0
  <2>1. CASE w = 0
    <3>1. BYTE * w = 0
      BY <1>1, <2>1
    <3> QED BY <1>1, <3>1
  <2> QED BY <2>1
<1>7. f = "H" => BytesOf(f) = q
  BY <1>1 DEF BytesOf
<1>8. f = "W" => BytesOf(f) = w
  BY DEF BytesOf
<1> HIDE DEF q, w
<1> QED BY <1>1, <1>2, <1>3, <1>4, <1>5, <1>6, <1>7, <1>8 DEF Several

LEMMA LanesOfByte ==
  ASSUME NEW n, Several(n), NEW k \in Nat, k < n
  PROVE  LET x == BYTE * k
         IN  /\ x \in Nat /\ x + BYTE <= Width
             /\ Aims(Span(0, BYTE), Span(x, BYTE), BYTE) /\ Aims(Span(x, BYTE), Span(0, BYTE), BYTE)
<1> DEFINE x == BYTE * k
           y == BYTE * n
           z == BYTE * (n - (k + 1))
           lo == 0
<1>1. BYTE \in Nat \ {0} /\ Width \in Nat /\ W!Lanes = 0 .. Width - 1 /\ n \in Nat /\ n - (k + 1) \in Nat
  BY GuestAssumption, WidthAssumption, CellIs DEF Several
<1>2. x \in Nat /\ z \in Nat /\ y = x + BYTE + z /\ y <= Width
  <2>1. x \in Nat /\ z \in Nat /\ BYTE * n = BYTE * k + BYTE + BYTE * (n - (k + 1))
    <3> DEFINE r == n - (k + 1)
    <3>1. n = k + 1 + r /\ r \in Nat
      BY <1>1
    <3> HIDE DEF r
    <3> QED BY <1>1, <3>1, Z3 DEF r
  <2> QED BY <2>1 DEF Several
<1> HIDE DEF x, y, z, lo
<1>3. x + BYTE <= Width
  BY <1>1, <1>2
<1>4. ASSUME NEW b \in Nat, b + BYTE <= Width
      PROVE  /\ Span(b, BYTE) \in [1 .. BYTE -> W!Lanes]
             /\ \A j, k2 \in 1 .. BYTE : Span(b, BYTE)[j] = Span(b, BYTE)[k2] => j = k2
  BY <1>1, <1>4 DEF Span
<1>5. lo \in Nat /\ lo + BYTE <= Width
  BY <1>1, <1>2, <1>3 DEF lo
<1>6. Aims(Span(lo, BYTE), Span(x, BYTE), BYTE) /\ Aims(Span(x, BYTE), Span(lo, BYTE), BYTE)
  BY <1>2, <1>3, <1>4, <1>5 DEF Aims
<1> QED BY <1>2, <1>3, <1>6 DEF x, lo

LoadPiece(k, n) == load_at32(SH1) \o Gather(SH1, SH2, Span(0, BYTE), Span(BYTE * k, BYTE), BYTE) \o Advance(k, n)
AdvanceSize(k, n) == IF k < n - 1 THEN 3 ELSE 0

LEMMA AdvanceIs ==
  ASSUME NEW k, NEW n
  PROVE  /\ Sized(Advance(k, n), AdvanceSize(k, n)) /\ AdvanceSize(k, n) \in 0 .. 3
         /\ Advance(k, n) = MayBe(k < n - 1, addcell32(T0, ONE))
<1>1. Sized(<<>>, 0)
  BY DEF Sized, Piece
<1> QED BY <1>1, SizesAre DEF Advance, AdvanceSize, MayBe

LEMMA GatherByte ==
  ASSUME NEW a, NEW d, NEW x \in Nat
  PROVE  /\ Each(ByteLanes, LAMBDA j : copybit32(a, j, d, x + j)) = Gather(a, d, Span(0, BYTE), Span(x, BYTE), BYTE)
         /\ Each(ByteLanes, LAMBDA j : copybit32(a, x + j, d, j)) = Gather(a, d, Span(x, BYTE), Span(0, BYTE), BYTE)
<1>1. BYTE \in Nat
  BY GuestAssumption
<1> DEFINE lo == 0
           hi == BYTE - 1
           f == Span(lo, BYTE)
           g == Span(x, BYTE)
<1>2. ByteLanes = f /\ Len(f) = BYTE
  <2>1. lo \in Int /\ BYTE \in Nat /\ hi = lo + BYTE - 1
    BY <1>1
  <2> HIDE DEF lo, hi, f
  <2>2. UpTo(lo, hi) = Span(lo, BYTE) /\ Len(Span(lo, BYTE)) = BYTE
    BY <2>1, UpToIs
  <2> QED BY <2>2 DEF ByteLanes, lo, hi, f
<1>3. \A j \in 1 .. BYTE : f[j] = j - 1 /\ x + f[j] = g[j]
  BY <1>1 DEF Span
<1> HIDE DEF f, g
<1>4. [j \in 1 .. BYTE |-> copybit32(a, f[j], d, x + f[j])] = Copies(a, d, f, g, BYTE)
  BY <1>3 DEF Copies
<1>5. [j \in 1 .. BYTE |-> copybit32(a, x + f[j], d, f[j])] = Copies(a, d, g, f, BYTE)
  BY <1>3 DEF Copies
<1>6. Each(ByteLanes, LAMBDA j : copybit32(a, j, d, x + j)) = FlattenSeq([j \in 1 .. BYTE |-> copybit32(a, f[j], d, x + f[j])])
  BY <1>2 DEF Each
<1>7. Each(ByteLanes, LAMBDA j : copybit32(a, x + j, d, j)) = FlattenSeq([j \in 1 .. BYTE |-> copybit32(a, x + f[j], d, f[j])])
  BY <1>2 DEF Each
<1> QED BY <1>4, <1>5, <1>6, <1>7 DEF Gather, f, g

LEMMA RunsAdvance ==
  ASSUME NEW c, NEW i, NEW p, NEW m, Good(i, m), NEW n \in Nat, NEW k \in Nat, k < n,
         NEW base \in Nat, base + n <= Window, m[T0] = RamBase + (base + k), Holds(c, p, Advance(k, n))
  PROVE  \E o : /\ Gets(c, i, p, m, p + AdvanceSize(k, n), o) /\ Alike(i, m, o, Plus(Low, T0))
                /\ o[T0] = RamBase + (base + Least(k + 1, n - 1))
<1>1. CASE k < n - 1
  <2>1. Holds(c, p, addcell32(T0, ONE)) /\ AdvanceSize(k, n) = 3
    BY <1>1 DEF Advance, AdvanceSize
  <2>2. T0 \in Writable(i) \ Low /\ ONE \in NamesOf(i) \ Low
    BY LowAre, ScratchAre DEF Writable, Low
  <2>3. PICK o : /\ Gets(c, i, p, m, p + 3, o) /\ Alike(i, m, o, Plus(Low, T0)) /\ o[T0] = Alu("ADD", m[T0], m[ONE])
    BY <2>1, <2>2, RunsAdd
  <2>4. m[ONE] = 1
    BY PoolValues
  <2> DEFINE u == base + k + 1
             v == RamBase + u
  <2>5. InWindow(u) /\ Least(k + 1, n - 1) = k + 1 /\ base + (k + 1) = u /\ (RamBase + (base + k)) + 1 = v
    <3>1. Window \in Nat /\ RamBase \in Nat
      BY GuestAssumption, RamAssumption
    <3> QED BY <1>1, <3>1 DEF InWindow, Least
  <2> HIDE DEF u
  <2>6. v \in W!Cell
    BY <2>5, RamAddress
  <2> HIDE DEF v
  <2>7. Alu("ADD", m[T0], m[ONE]) = v
    <3>1. W!Wrap(v) = v
      BY <2>6, WordIs DEF W!Wrap, W!Cell
    <3> QED BY <2>4, <2>5, <3>1 DEF Alu
  <2> QED BY <2>1, <2>3, <2>5, <2>7 DEF v
<1>2. CASE ~(k < n - 1)
  <2>1. AdvanceSize(k, n) = 0 /\ Least(k + 1, n - 1) = k
    BY <1>2 DEF AdvanceSize, Least
  <2>2. p + 0 = p
    BY DEF Holds
  <2>3. Gets(c, i, p, m, p, m) /\ Alike(i, m, m, Plus(Low, T0))
    BY GetsItself DEF Alike
  <2> QED BY <2>1, <2>2, <2>3
<1> QED BY <1>1, <1>2

(* Blocks in a row of three parts.                                         *)
LEMMA RowOfThree ==
  ASSUME NEW a, NEW b, NEW d, NEW n1, NEW n2, NEW n3, Sized(a, n1), Sized(b, n2), Sized(d, n3)
  PROVE  LET s == a \o b \o d
         IN  /\ Sized(s, n1 + n2 + n3)
             /\ \A c, p : Holds(c, p, s) => Holds(c, p, a) /\ Holds(c, p + n1, b) /\ Holds(c, p + (n1 + n2), d)
<1>1. Sized(a \o b, n1 + n2)
  BY SizedJoin
<1>2. Sized(a \o b \o d, (n1 + n2) + n3)
  BY <1>1, SizedJoin
<1>3. ASSUME NEW c, NEW p, Holds(c, p, a \o b \o d)
      PROVE  Holds(c, p, a) /\ Holds(c, p + n1, b) /\ Holds(c, p + (n1 + n2), d)
  <2>1. Holds(c, p, a \o b) /\ Holds(c, p + (n1 + n2), d)
    BY <1>1, <1>3, SizedSplit
  <2> QED BY <2>1, SizedSplit
<1> QED BY <1>2, <1>3

LEMMA LoadPieceIs ==
  ASSUME NEW k, NEW n
  PROVE  \E e \in Nat :
           LET g == Gather(SH1, SH2, Span(0, BYTE), Span(BYTE * k, BYTE), BYTE)
               z == 2 + e + AdvanceSize(k, n)
           IN  /\ Len(g) = e /\ z \in 0 .. 6 + 7 * BYTE /\ Sized(LoadPiece(k, n), z)
               /\ \A c, p : Holds(c, p, LoadPiece(k, n)) =>
                    Holds(c, p, load_at32(SH1)) /\ Holds(c, p + 2, g) /\ Holds(c, p + (2 + e), Advance(k, n))
<1> DEFINE f == Span(0, BYTE)
           h == Span(BYTE * k, BYTE)
           g == Gather(SH1, SH2, f, h, BYTE)
           e == Len(g)
           a == AdvanceSize(k, n)
           s1 == load_at32(SH1)
           s3 == Advance(k, n)
           n1 == 2
<1>1. BYTE \in Nat
  BY GuestAssumption
<1> HIDE DEF f, h
<1>2. Sized(g, e) /\ e \in Nat /\ e <= 7 * BYTE
  BY <1>1, GatherSized
<1>3. Sized(s1, n1) /\ Sized(s3, a) /\ a \in 0 .. 3
  BY AtAre, AdvanceIs
<1>4. LoadPiece(k, n) = s1 \o g \o s3
  BY DEF LoadPiece, f, h
<1> HIDE DEF g, e, a, s1, s3, n1
<1>5. LET s == s1 \o g \o s3
      IN  /\ Sized(s, n1 + e + a)
          /\ \A c, p : Holds(c, p, s) => Holds(c, p, s1) /\ Holds(c, p + n1, g) /\ Holds(c, p + (n1 + e), s3)
  BY <1>2, <1>3, RowOfThree
<1>6. 2 + e + a \in 0 .. 6 + 7 * BYTE
  BY <1>1, <1>2, <1>3
<1> QED BY <1>2, <1>4, <1>5, <1>6 DEF g, e, a, s1, s3, n1, f, h

(* One byte more of a load.                                                *)
LoadInv(i, s, base, n, m, k) ==
  Has(i, m, s) /\ m[T0] = RamBase + (base + Least(k, n - 1)) /\ W!Bits(m[SH2]) = BytesBits(s.ram, base, k)

LEMMA ScratchWorks ==
  ASSUME NEW i
  PROVE  /\ Private(Scratch) /\ Patched(SH1) \subseteq Scratch /\ Plus(Low, SH1) \subseteq Scratch
         /\ Plus(Low, SH2) \subseteq Scratch /\ Plus(Low, T0) \subseteq Scratch /\ AddrTemps \subseteq Scratch
         /\ {SH1, SH2, T0} \subseteq Writable(i) \ Low /\ {SH1, SH2, T0} \subseteq NamesOf(i)
         /\ SH1 # OPERAND /\ SH2 # OPERAND /\ T0 # OPERAND /\ SH1 # SH2 /\ T0 # SH1 /\ T0 # SH2
<1>1. Private(Scratch)
  BY DEF Private, Scratch, T0, T1, T2, SH1, SH2, OPERAND, X, RAM, CSR
<1>2. {SH1, SH2, T0} \subseteq Writable(i) \ Low /\ {SH1, SH2, T0} \subseteq NamesOf(i)
  BY ScratchAre DEF Writable, Low
<1>3. /\ SH1 # OPERAND /\ SH2 # OPERAND /\ T0 # OPERAND /\ SH1 # SH2 /\ T0 # SH1 /\ T0 # SH2
  BY DEF SH1, SH2, T0, OPERAND
<1> QED BY <1>1, <1>2, <1>3 DEF Patched, Plus, Low, Scratch, AddrTemps

LEMMA RunsLoadPiece ==
  ASSUME NEW c, NEW i, NEW p, NEW m, NEW s, NEW n, Several(n), NEW k \in Nat, k < n,
         NEW base \in Nat, base + n <= Window, LoadInv(i, s, base, n, m, k), Holds(c, p, LoadPiece(k, n))
  PROVE  \E o : Gets(c, i, p, m, p + Len(LoadPiece(k, n)), o) /\ LoadInv(i, s, base, n, o, k + 1)
<1> DEFINE x == BYTE * k
           f == Span(0, BYTE)
           g == Span(x, BYTE)
           h == Gather(SH1, SH2, f, g, BYTE)
           a == AdvanceSize(k, n)
           b == base + k
           v == s.ram[b]
           B == BytesBits(s.ram, base, k)
<1>1. PICK e \in Nat : /\ Len(h) = e /\ Sized(LoadPiece(k, n), 2 + e + a) /\ 2 + e + a \in Nat
                       /\ Holds(c, p, load_at32(SH1)) /\ Holds(c, p + 2, h) /\ Holds(c, p + (2 + e), Advance(k, n))
  BY LoadPieceIs, GuestAssumption
<1>2. x \in Nat /\ x + BYTE <= Width /\ Aims(f, g, BYTE) /\ BYTE \in Nat \ {0} /\ n \in Nat
  BY LanesOfByte, GuestAssumption DEF Several
<1>3. Least(k, n - 1) = k /\ InWindow(b)
  BY <1>2, GuestAssumption DEF Least, InWindow
<1>4. Good(i, m) /\ s \in GuestStates /\ m[T0] = RamBase + b /\ W!Bits(m[SH2]) = B /\ Has(i, m, s)
  BY <1>3 DEF LoadInv, Has
<1>5. v \in Byte /\ m[RAM(b)] = v
  BY <1>3, <1>4, ByteLoaded DEF Has, InWindow
<1>6. W!Bits(v) \subseteq 0 .. BYTE - 1 /\ BytesBits(s.ram, base, k + 1) = B \cup Lifted(x, W!Bits(v))
  <2>1. W!Bits(v) \subseteq 0 .. BYTE - 1
    <3> HIDE DEF v
    <3> QED BY <1>5, ByteBits
  <2> QED BY <2>1, BytesStep
<1>7. PICK n1 : /\ Gets(c, i, p, m, p + 2, n1) /\ Alike(i, m, n1, Patched(SH1)) /\ n1[SH1] = m[RAM(b)]
  <2> HIDE DEF b, h, a
  <2>1. SH1 \in Writable(i) /\ SH1 # OPERAND
    BY ScratchWorks
  <2>2. Good(i, m) /\ InWindow(b) /\ m[T0] = RamBase + b /\ Holds(c, p, load_at32(SH1))
    BY <1>1, <1>3, <1>4
  <2> QED BY <2>1, <2>2, RunsLoadAt
<1>8. n1[SH1] = v /\ n1[SH2] = m[SH2] /\ Good(i, n1) /\ n1[T0] = m[T0]
  BY <1>5, <1>7, ScratchWorks DEF Alike, Patched, Gets
<1>9. Vacant(n1[SH2], g, BYTE)
  <2>1. \A j \in 1 .. BYTE : g[j] = x + (j - 1) /\ ~(x + (j - 1) < x)
    BY <1>2 DEF Span
  <2>2. \A y \in B : y \in Nat /\ y < x
    BY <1>2 DEF BytesBits
  <2> QED BY <1>4, <1>8, <2>1, <2>2 DEF Vacant
<1>10. Apart(SH1, SH2, f, g, BYTE)
  BY ScratchWorks DEF Apart
<1>11. Got(v, f, g, BYTE) = Lifted(x, W!Bits(v))
  <2> HIDE DEF x, v
  <2> QED BY <1>2, <1>6, ByteGot
<1> HIDE DEF f, g, x, b, a, B, v
<1>12. PICK n2 : /\ Gets(c, i, p + 2, n1, (p + 2) + Len(h), n2) /\ Alike(i, n1, n2, Plus(Low, SH2))
                 /\ Gains(n2[SH2], n1[SH2], Got(n1[SH1], f, g, BYTE))
  <2>1. SH1 \in NamesOf(i) \ Low /\ SH2 \in Writable(i) \ Low
    BY ScratchWorks
  <2>2. Good(i, n1) /\ BYTE \in Nat /\ Holds(c, p + 2, Gather(SH1, SH2, f, g, BYTE))
    BY <1>1, <1>2, <1>8
  <2> QED BY <1>2, <1>9, <1>10, <2>1, <2>2, RunsGather
<1> HIDE DEF h
<1>13. p \in Nat /\ (p + 2) + Len(h) = p + (2 + e) /\ (p + (2 + e)) + a = p + (2 + e + a) /\ a \in 0 .. 3
  <2>1. p \in Nat
    BY <1>1 DEF Holds
  <2>2. a \in 0 .. 3
    BY AdvanceIs DEF a
  <2> QED BY <1>1, <2>1, <2>2
<1>14. W!Bits(n2[SH2]) = BytesBits(s.ram, base, k + 1)
  BY <1>4, <1>6, <1>8, <1>11, <1>12 DEF Gains
<1>15. n2[T0] = RamBase + (base + k) /\ Good(i, n2)
  <2>1. T0 \in NamesOf(i) \ Plus(Low, SH2)
    BY ScratchWorks DEF Plus
  <2> QED BY <1>4, <1>8, <1>12, <2>1 DEF Alike, Gets, b
<1>16. PICK n3 : /\ Gets(c, i, p + (2 + e), n2, (p + (2 + e)) + a, n3) /\ Alike(i, n2, n3, Plus(Low, T0))
                 /\ n3[T0] = RamBase + (base + Least(k + 1, n - 1))
  <2> DEFINE q == p + (2 + e)
  <2>1. Holds(c, q, Advance(k, n)) /\ n \in Nat
    BY <1>1, <1>2
  <2> HIDE DEF q
  <2>2. \E o : /\ Gets(c, i, q, n2, q + AdvanceSize(k, n), o) /\ Alike(i, n2, o, Plus(Low, T0))
               /\ o[T0] = RamBase + (base + Least(k + 1, n - 1))
    <3>1. /\ Good(i, n2) /\ n \in Nat /\ k \in Nat /\ k < n /\ base \in Nat /\ base + n <= Window
          /\ n2[T0] = RamBase + (base + k) /\ Holds(c, q, Advance(k, n))
      BY <1>15, <2>1
    <3> QED BY ONLY <3>1, RunsAdvance
  <2> QED BY <2>2 DEF q, a
<1>17. Gets(c, i, p, m, p + Len(LoadPiece(k, n)), n3)
  <2>1. Gets(c, i, p, m, p + (2 + e), n2)
    BY <1>7, <1>12, <1>13, GetsOn
  <2>2. Gets(c, i, p, m, p + (2 + e + a), n3)
    BY <1>13, <1>16, <2>1, GetsOn
  <2> QED BY <1>1, <2>2 DEF Sized
<1>18. Has(i, n3, s)
  <2>1. Alike(i, m, n3, Scratch)
    BY <1>7, <1>12, <1>16, ScratchWorks DEF Alike
  <2> QED BY <1>4, <1>17, <2>1, ScratchWorks, HasStill DEF Gets
<1>19. n3[SH2] = n2[SH2]
  BY <1>16, ScratchWorks DEF Alike, Plus
<1> QED BY <1>14, <1>16, <1>17, <1>18, <1>19 DEF LoadInv

------------------------------------------------------------------------------
(* The block of a load of several bytes.                                   *)
LoadPieces(n) == [j \in 1 .. n |-> LoadPiece(j - 1, n)]
Signing(n, sign) == MayBe(sign, sign_extend32(SH2, BYTE * n - 1))

LEMMA LoadsAre ==
  ASSUME NEW rd, NEW rs1, NEW imm, NEW n \in Nat \ {0}, NEW sign
  PROVE  emit_load_bytes32(rd, rs1, imm, n, sign)
           = (emit_addr32(rs1, imm) \o mov32(Z, SH2)) \o FlattenSeq(LoadPieces(n)) \o Signing(n, sign) \o mov32(SH2, rd)
<1> DEFINE bytes == UpTo(0, n - 1)
           Bit0(k) == [j \in 1 .. Len(ByteLanes) |-> copybit32(SH1, ByteLanes[j], SH2, BYTE * k + ByteLanes[j])]
           Byte0(k) == load_at32(SH1) \o FlattenSeq(Bit0(k)) \o Advance(k, n)
<1>1. BYTE \in Nat /\ \A k \in 0 .. n - 1 : BYTE * k \in Nat
  <2>1. BYTE \in Nat
    BY GuestAssumption
  <2>2. ASSUME NEW k \in 0 .. n - 1 PROVE BYTE * k \in Nat
    BY <2>1, Z3
  <2> QED BY <2>1, <2>2
<1>2. bytes = Span(0, n) /\ Len(bytes) = n
  <2> DEFINE lo == 0
             hi == n - 1
  <2>1. lo \in Int /\ n \in Nat /\ hi = lo + n - 1
    OBVIOUS
  <2> HIDE DEF lo, hi
  <2>2. UpTo(lo, hi) = Span(lo, n) /\ Len(Span(lo, n)) = n
    BY <2>1, UpToIs
  <2> QED BY <2>2 DEF lo, hi
<1>3. \A j \in 1 .. n : bytes[j] = j - 1 /\ j - 1 \in 0 .. n - 1
  BY <1>2 DEF Span
<1>4. \A k \in 0 .. n - 1 : Byte0(k) = LoadPiece(k, n)
  <2> TAKE k \in 0 .. n - 1
  <2> DEFINE x == BYTE * k
  <2>1. x \in Nat
    BY <1>1
  <2> HIDE DEF x
  <2>2. FlattenSeq([j \in 1 .. Len(ByteLanes) |-> copybit32(SH1, ByteLanes[j], SH2, x + ByteLanes[j])])
          = Gather(SH1, SH2, Span(0, BYTE), Span(x, BYTE), BYTE)
    <3>1. Each(ByteLanes, LAMBDA j : copybit32(SH1, j, SH2, x + j)) = Gather(SH1, SH2, Span(0, BYTE), Span(x, BYTE), BYTE)
      BY <2>1, GatherByte
    <3> QED BY <3>1 DEF Each
  <2> QED BY <2>2 DEF LoadPiece, x
<1>5. emit_load_bytes32(rd, rs1, imm, n, sign)
        = emit_addr32(rs1, imm) \o mov32(Z, SH2) \o FlattenSeq([j \in 1 .. Len(bytes) |-> Byte0(bytes[j])])
          \o (IF sign THEN sign_extend32(SH2, BYTE * n - 1) ELSE <<>>) \o mov32(SH2, rd)
  BY DEF emit_load_bytes32, Each
<1> HIDE DEF bytes, Byte0
<1>6. [j \in 1 .. Len(bytes) |-> Byte0(bytes[j])] = LoadPieces(n)
  BY <1>2, <1>3, <1>4 DEF LoadPieces
<1> QED BY <1>5, <1>6 DEF Signing, MayBe

LEMMA SeveralSize ==
  ASSUME NEW n, Several(n), NEW b, b = 6 + 7 * BYTE
  PROVE  b \in Nat /\ b * n \in Nat /\ b * n <= 1300 /\ n <= Width
<1>1. BYTE \in Nat \ {0} /\ n \in Nat \ {0} /\ Width \in Nat /\ Width <= 100 /\ BYTE * n <= Width
  BY GuestAssumption, WidthAssumption, RoomAssumption DEF Several, MaxWidth
<1> DEFINE y == BYTE * n
<1>2. y \in Nat /\ n <= y /\ b * n = 6 * n + 7 * y
  <2>1. PICK r \in Nat : BYTE = r + 1
    <3>1. BYTE - 1 \in Nat /\ BYTE = (BYTE - 1) + 1
      BY <1>1
    <3> QED BY <3>1
  <2>2. y = r * n + n /\ r * n \in Nat
    BY <1>1, <2>1, Z3
  <2>3. b * n = 6 * n + 7 * y
    <3> HIDE DEF y
    <3>1. y = BYTE * n
      BY DEF y
    <3> QED BY <1>1, <3>1, Z3
  <2> DEFINE t == r * n
  <2> HIDE DEF t, y
  <2>4. y = t + n /\ t \in Nat
    BY <2>2 DEF t
  <2>5. y \in Nat /\ n <= y
    BY <1>1, <2>4
  <2> QED BY <2>3, <2>5
<1>3. y <= Width
  BY <1>1
<1> HIDE DEF y
<1> DEFINE z == b * n
<1> HIDE DEF z
<1>4. z = 6 * n + 7 * y
  BY <1>2 DEF z
<1>5. z \in Nat /\ z <= 1300 /\ n <= Width /\ b \in Nat
  BY <1>1, <1>2, <1>3, <1>4
<1> QED BY <1>5 DEF z

(* Parts of the size of a byte's, in a row.                                *)
Parts(s, n) == Len(s) = n /\ \A j \in 1 .. n : \E z \in 0 .. 6 + 7 * BYTE : Sized(s[j], z)

LEMMA PartsAre ==
  ASSUME NEW n, Several(n), NEW s, Parts(s, n)
  PROVE  \E off : /\ off \in [1 .. n + 1 -> Nat] /\ off[1] = 0 /\ off[n + 1] <= 1300
                  /\ Sized(FlattenSeq(s), off[n + 1])
                  /\ \A k \in Nat : k + 1 <= n => off[k + 2] = off[k + 1] + Len(s[k + 1]) /\ Len(s[k + 1]) \in Nat
                  /\ \A c, p : Holds(c, p, FlattenSeq(s)) =>
                       \A k \in Nat : k + 1 <= n => Holds(c, p + off[k + 1], s[k + 1])
<1> DEFINE size == [j \in 1 .. n |-> Len(s[j])]
           b == 6 + 7 * BYTE
<1>1. n \in Nat \ {0} /\ Len(s) = n
  BY DEF Several, Parts
<1>2. b \in Nat /\ b * n <= 1300 /\ b * n \in Nat
  BY SeveralSize
<1>3. \A j \in 1 .. n : size[j] \in 0 .. b /\ Sized(s[j], size[j])
  <2> TAKE j \in 1 .. n
  <2>1. PICK z \in 0 .. b : Sized(s[j], z)
    BY DEF Parts
  <2> HIDE DEF b
  <2> QED BY <2>1 DEF Sized
<1> HIDE DEF size, b
<1>4. PICK off : Offsets(off, s) /\ off[n + 1] <= b * n
  BY SMTT(40), <1>1, <1>2, <1>3, OffsetsExist
<1>5. /\ Sized(FlattenSeq(s), off[n + 1])
      /\ \A c, p : Holds(c, p, FlattenSeq(s)) => \A k \in 1 .. n : Holds(c, p + off[k], s[k])
  BY <1>1, <1>4, PiecesAre
<1>6. off \in [1 .. n + 1 -> Nat] /\ off[1] = 0 /\ \A j \in 1 .. n : Sized(s[j], off[j + 1] - off[j])
  BY <1>1, <1>4 DEF Offsets
<1>7. off[n + 1] <= 1300
  <2> DEFINE z == b * n
  <2> HIDE DEF z
  <2>1. off[n + 1] <= z /\ z <= 1300 /\ z \in Nat
    BY <1>2, <1>4 DEF z
  <2>2. off[n + 1] \in Nat
    BY <1>1, <1>6
  <2> QED BY <2>1, <2>2
<1>8. ASSUME NEW k \in Nat, k + 1 <= n
      PROVE  off[k + 2] = off[k + 1] + Len(s[k + 1]) /\ Len(s[k + 1]) \in Nat
  <2> DEFINE d == Len(s[k + 1])
  <2>1. k + 1 \in 1 .. n /\ (k + 1) + 1 = k + 2 /\ k + 1 \in 1 .. n + 1 /\ k + 2 \in 1 .. n + 1
    BY <1>1, <1>8
  <2>2. d = off[k + 2] - off[k + 1] /\ off[k + 1] \in Nat /\ off[k + 2] \in Nat
    BY <1>1, <1>6, <2>1 DEF Sized
  <2>3. d \in Nat
    BY <2>1 DEF Parts, Sized, Piece
  <2> HIDE DEF d
  <2>4. off[k + 2] = off[k + 1] + d
    BY <2>2, <2>3
  <2> QED BY <2>3, <2>4 DEF d
<1>9. ASSUME NEW c, NEW p, Holds(c, p, FlattenSeq(s)), NEW k \in Nat, k + 1 <= n
      PROVE  Holds(c, p + off[k + 1], s[k + 1])
  <2>1. k + 1 \in 1 .. n
    BY <1>1, <1>9
  <2> QED BY <1>5, <1>9, <2>1
<1> DEFINE P(o) == /\ o \in [1 .. n + 1 -> Nat] /\ o[1] = 0 /\ o[n + 1] <= 1300
                   /\ Sized(FlattenSeq(s), o[n + 1])
                   /\ \A k \in Nat : k + 1 <= n => o[k + 2] = o[k + 1] + Len(s[k + 1]) /\ Len(s[k + 1]) \in Nat
                   /\ \A c, p : Holds(c, p, FlattenSeq(s)) =>
                        \A k \in Nat : k + 1 <= n => Holds(c, p + o[k + 1], s[k + 1])
<1>10. P(off)
  <2>1. off \in [1 .. n + 1 -> Nat] /\ off[1] = 0
    BY ONLY <1>6
  <2>2. Sized(FlattenSeq(s), off[n + 1])
    BY ONLY <1>5
  <2>3. \A k \in Nat : k + 1 <= n => off[k + 2] = off[k + 1] + Len(s[k + 1]) /\ Len(s[k + 1]) \in Nat
    BY ONLY <1>8
  <2>4. \A c, p : Holds(c, p, FlattenSeq(s)) =>
          \A k \in Nat : k + 1 <= n => Holds(c, p + off[k + 1], s[k + 1])
    BY ONLY <1>9
  <2> QED BY ONLY <1>7, <2>1, <2>2, <2>3, <2>4
<1>11. \E o : P(o)
  <2> HIDE DEF P
  <2> QED BY ONLY <1>10
<1> QED BY ONLY Zenon, <1>11

\* From a memory of R[k] part k + 1 leads to one of R[k + 1].
LEMMA RunsParts ==
  ASSUME NEW c, NEW i, NEW p, NEW n, Several(n), NEW s, Parts(s, n), Holds(c, p, FlattenSeq(s)),
         NEW R, NEW m \in R[0], Good(i, m),
         \A r : \A k \in Nat : k + 1 <= n /\ Holds(c, r, s[k + 1]) =>
           \A l \in R[k] : Good(i, l) => \E o \in R[k + 1] : Gets(c, i, r, l, r + Len(s[k + 1]), o)
  PROVE  \E o \in R[n] : Gets(c, i, p, m, p + Len(FlattenSeq(s)), o)
<1>1. PICK off : /\ off \in [1 .. n + 1 -> Nat] /\ off[1] = 0
                 /\ Sized(FlattenSeq(s), off[n + 1])
                 /\ \A k \in Nat : k + 1 <= n => off[k + 2] = off[k + 1] + Len(s[k + 1]) /\ Len(s[k + 1]) \in Nat
                 /\ \A k \in Nat : k + 1 <= n => Holds(c, p + off[k + 1], s[k + 1])
  BY PartsAre
<1> DEFINE q == [k \in Nat |-> p + off[k + 1]]
<1>2. n \in Nat /\ p \in Nat /\ q[0] = p /\ q[n] = p + off[n + 1]
  BY <1>1 DEF Several, Holds
<1>3. ASSUME NEW k \in Nat, k + 1 <= n, NEW l \in R[k], Good(i, l)
      PROVE  \E o \in R[k + 1] : Gets(c, i, q[k], l, q[k + 1], o)
  <2> DEFINE r == p + off[k + 1]
             d == Len(s[k + 1])
  <2>1. Holds(c, r, s[k + 1])
    BY <1>1, <1>3
  <2>2. q[k] = r /\ q[k + 1] = r + d
    <3>1. (k + 1) + 1 = k + 2 /\ k + 1 \in 1 .. n + 1
      BY <1>2, <1>3
    <3>2. off[k + 2] = off[k + 1] + d /\ d \in Nat /\ off[k + 1] \in Nat
      BY <1>1, <1>3, <3>1
    <3>3. q[k] = p + off[k + 1] /\ q[k + 1] = p + off[k + 2]
      BY <1>3, <3>1
    <3> HIDE DEF d, q
    <3> QED BY <1>2, <3>2, <3>3
  <2> HIDE DEF r, q
  <2>3. \E o \in R[k + 1] : Gets(c, i, r, l, r + Len(s[k + 1]), o)
    BY <1>3, <2>1
  <2> QED BY <2>2, <2>3
<1> HIDE DEF q
<1>4. PICK o \in R[n] : Gets(c, i, q[0], m, q[n], o)
  BY <1>2, <1>3, RunsAgain
<1>5. off[n + 1] = Len(FlattenSeq(s))
  BY <1>1 DEF Sized
<1> QED BY <1>2, <1>4, <1>5

LEMMA LoadPiecesAre ==
  ASSUME NEW n, Several(n)
  PROVE  Parts(LoadPieces(n), n) /\ \A k \in Nat : k + 1 <= n => LoadPieces(n)[k + 1] = LoadPiece(k, n)
<1>1. n \in Nat /\ Len(LoadPieces(n)) = n /\ \A j \in 1 .. n : LoadPieces(n)[j] = LoadPiece(j - 1, n)
  BY DEF LoadPieces, Several
<1>2. ASSUME NEW k PROVE \E z \in 0 .. 6 + 7 * BYTE : Sized(LoadPiece(k, n), z)
  BY LoadPieceIs
<1>3. Parts(LoadPieces(n), n)
  BY <1>1, <1>2 DEF Parts
<1>4. ASSUME NEW k \in Nat, k + 1 <= n PROVE LoadPieces(n)[k + 1] = LoadPiece(k, n)
  <2>1. k + 1 \in 1 .. n /\ (k + 1) - 1 = k
    BY <1>1, <1>4
  <2> QED BY <1>1, <2>1
<1> QED BY <1>3, <1>4

LEMMA RunsLoads ==
  ASSUME NEW c, NEW i, NEW p, NEW m, NEW s, NEW n, Several(n), NEW base \in Nat, base + n <= Window,
         LoadInv(i, s, base, n, m, 0), Holds(c, p, FlattenSeq(LoadPieces(n)))
  PROVE  \E o : Gets(c, i, p, m, p + Len(FlattenSeq(LoadPieces(n))), o) /\ LoadInv(i, s, base, n, o, n)
<1> DEFINE u == LoadPieces(n)
           R == [k \in Nat |-> {l \in Memories(i) : LoadInv(i, s, base, n, l, k)}]
<1>1. n \in Nat /\ Parts(u, n) /\ \A k \in Nat : k + 1 <= n => u[k + 1] = LoadPiece(k, n)
  BY LoadPiecesAre DEF Several
<1>2. \A l : Good(i, l) => l \in Memories(i)
  BY DEF Good, Memories
<1>3. Good(i, m) /\ m \in R[0]
  BY <1>2 DEF LoadInv, Has
<1> HIDE DEF u
<1>4. ASSUME NEW r, NEW k \in Nat, k + 1 <= n, Holds(c, r, u[k + 1]), NEW l \in R[k], Good(i, l)
      PROVE  \E o \in R[k + 1] : Gets(c, i, r, l, r + Len(u[k + 1]), o)
  <2>1. LoadInv(i, s, base, n, l, k) /\ k < n /\ Holds(c, r, LoadPiece(k, n)) /\ u[k + 1] = LoadPiece(k, n)
    BY <1>1, <1>4
  <2> HIDE DEF R
  <2>2. PICK o : Gets(c, i, r, l, r + Len(LoadPiece(k, n)), o) /\ LoadInv(i, s, base, n, o, k + 1)
    BY <2>1, RunsLoadPiece
  <2>3. Good(i, o)
    BY <2>2 DEF Gets
  <2>4. o \in R[k + 1]
    BY <1>2, <2>2, <2>3 DEF R
  <2> QED BY <2>1, <2>2, <2>4
<1> HIDE DEF R
<1>5. Holds(c, p, FlattenSeq(u))
  BY DEF u
<1>6. PICK o \in R[n] : Gets(c, i, p, m, p + Len(FlattenSeq(u)), o)
  BY <1>1, <1>3, <1>4, <1>5, RunsParts
<1>7. LoadInv(i, s, base, n, o, n)
  BY <1>1, <1>6 DEF R
<1> QED BY <1>6, <1>7 DEF u

LEMMA SigningIs ==
  ASSUME NEW n, Several(n), NEW sign
  PROVE  \E x \in Nat : x <= 800 /\ Sized(Signing(n, sign), x)
<1>1. CASE sign
  <2> DEFINE sb == BYTE * n - 1
  <2>1. sb \in W!Lanes
    <3> DEFINE y == BYTE * n
    <3>1. y \in Nat \ {0}
      <4>1. BYTE \in Nat \ {0} /\ n \in Nat \ {0}
        BY GuestAssumption DEF Several
      <4>2. BYTE * n \in Nat /\ BYTE * n # 0
        BY <4>1, Z3
      <4> QED BY <4>2
    <3>2. y <= Width
      BY DEF Several
    <3> HIDE DEF y
    <3>3. y - 1 \in 0 .. Width - 1
      BY <3>1, <3>2, WidthAssumption
    <3> QED BY <3>3, CellIs DEF y
  <2> HIDE DEF sb
  <2>2. sign_extend32(SH2, sb) = Extend(SH2, sb) /\ Signs(sb) \in Nat /\ Signs(sb) <= Width
    BY <2>1, ExtendIs
  <2> DEFINE k == Signs(sb)
             g == Gather(SH2, SH2, Repeated(sb, k), Span(sb + 1, k), k)
             e == Len(g)
  <2>3. Sized(g, e) /\ e \in Nat /\ e <= 7 * k
    <3> HIDE DEF k
    <3>1. k \in Nat
      BY <2>2 DEF k
    <3> QED BY <3>1, GatherSized
  <2>4. e <= 800
    <3>1. Width \in Nat /\ Width <= 100 /\ k \in Nat /\ k <= Width
      BY <2>2, WidthAssumption, RoomAssumption DEF MaxWidth
    <3> HIDE DEF k, e
    <3> QED BY <2>3, <3>1
  <2>5. Signing(n, sign) = g
    BY <1>1, <2>2 DEF Signing, MayBe, Extend, sb
  <2> QED BY <2>3, <2>4, <2>5
<1>2. CASE ~sign
  <2>1. Signing(n, sign) = <<>>
    BY <1>2 DEF Signing, MayBe
  <2>2. Sized(<<>>, 0)
    BY DEF Sized, Piece
  <2> QED BY <2>1, <2>2
<1> QED BY <1>1, <1>2

HalfSign(i) == i.signed /\ i.f = "H"

LEMMA LoadsPieces ==
  ASSUME NEW i, i.kind = "load", i.f = "H" \/ i.f = "W", i.rd # 0, NEW n, n = BytesOf(i.f)
  PROVE  \E e, x \in Nat :
           LET c == emit_one32(i)
           IN  /\ Short(c) /\ Len(c) = e + x + 10
               /\ Len(FlattenSeq(LoadPieces(n))) = e /\ Len(Signing(n, HalfSign(i))) = x
               /\ Holds(c, 1, emit_addr32(X(i.rs1), IMM(0))) /\ Holds(c, 9, mov32(Z, SH2))
               /\ Holds(c, 10, FlattenSeq(LoadPieces(n))) /\ Holds(c, 10 + e, Signing(n, HalfSign(i)))
               /\ Holds(c, e + x + 10, mov32(SH2, X(i.rd)))
<1> DEFINE a1 == emit_addr32(X(i.rs1), IMM(0))
           a2 == mov32(Z, SH2)
           s1 == a1 \o a2
           s2 == FlattenSeq(LoadPieces(n))
           s3 == Signing(n, HalfSign(i))
           s4 == mov32(SH2, X(i.rd))
           c == emit_one32(i)
           n1 == 8 + 1
           n4 == 1
           e == Len(s2)
           x == Len(s3)
<1>1. Several(n)
  BY SeveralAre
<1>2. c = s1 \o s2 \o s3 \o s4
  <2>1. i.f # "B"
    OBVIOUS
  <2>2. c = emit_load_bytes32(X(i.rd), X(i.rs1), IMM(0), n, HalfSign(i))
    BY <2>1 DEF emit_one32, emit_load32, HalfSign
  <2> QED BY <1>1, <2>2, LoadsAre DEF Several
<1>3. Sized(s2, e) /\ e \in Nat /\ e <= 1300
  <2>1. Parts(LoadPieces(n), n)
    BY <1>1, LoadPiecesAre
  <2>2. PICK off : off \in [1 .. n + 1 -> Nat] /\ off[n + 1] <= 1300 /\ Sized(s2, off[n + 1])
    BY <1>1, <2>1, PartsAre
  <2>3. off[n + 1] \in Nat
    BY <1>1, <2>2 DEF Several
  <2> QED BY <2>2, <2>3 DEF Sized
<1>4. Sized(s3, x) /\ x \in Nat /\ x <= 800
  BY <1>1, SigningIs DEF Sized
<1>5. Sized(a1, 8) /\ Sized(a2, 1) /\ Sized(s4, n4)
  BY AddrIs, SizesAre
<1> HIDE DEF a1, a2, s2, s3, s4, c, e, x
<1>6. Sized(s1, n1)
  BY <1>5, SizedJoin
<1>7. /\ Sized(c, n1 + e + x + n4)
      /\ \A b, p : Holds(b, p, c) => /\ Holds(b, p, s1) /\ Holds(b, p + n1, s2)
                                     /\ Holds(b, p + (n1 + e), s3) /\ Holds(b, p + (n1 + e + x), s4)
  <2> HIDE DEF s1, n1, n4
  <2>2. LET s == s1 \o s2 \o s3 \o s4
        IN  /\ Sized(s, n1 + e + x + n4)
            /\ \A b, p : Holds(b, p, s) => /\ Holds(b, p, s1) /\ Holds(b, p + n1, s2)
                                           /\ Holds(b, p + (n1 + e), s3) /\ Holds(b, p + (n1 + e + x), s4)
    <3>1. Sized(s1, n1) /\ Sized(s2, e) /\ Sized(s3, x) /\ Sized(s4, n4)
      BY <1>3, <1>4, <1>5, <1>6
    <3> QED BY ONLY <3>1, RowOfFour
  <2> QED BY <1>2, <2>2
<1>8. n1 + e + x + n4 = e + x + 10 /\ 1 + n1 = 10 /\ 1 + (n1 + e) = 10 + e /\ 1 + (n1 + e + x) = e + x + 10 /\ e + x + 10 <= 9000
      /\ e + x + 10 \in Nat
  BY <1>3, <1>4
<1> HIDE DEF n1, n4
<1>9. Sized(c, e + x + 10)
  BY <1>7, <1>8
<1>10. Holds(c, 1, c) /\ Short(c) /\ Len(c) = e + x + 10
  BY <1>8, <1>9, WholeIs DEF Sized, Short
<1>11. Holds(c, 1, s1) /\ Holds(c, 10, s2) /\ Holds(c, 10 + e, s3) /\ Holds(c, e + x + 10, s4)
  <2>1. Holds(c, 1, s1) /\ Holds(c, 1 + n1, s2) /\ Holds(c, 1 + (n1 + e), s3) /\ Holds(c, 1 + (n1 + e + x), s4)
    BY <1>7, <1>10
  <2> QED BY <1>8, <2>1
<1>12. Holds(c, 1, a1) /\ Holds(c, 9, a2)
  <2>1. Holds(c, 1, a1) /\ Holds(c, 1 + 8, a2)
    BY <1>5, <1>11, SizedSplit
  <2> QED BY <2>1
<1> QED BY <1>3, <1>4, <1>10, <1>11, <1>12 DEF a1, a2, s2, s3, s4, c, e, x

(* What the pieces have made of the bytes, and what the sign makes of it.  *)
LEMMA WordLoaded ==
  ASSUME NEW s \in GuestStates, NEW base \in Nat, NEW n, Several(n), base + n <= Window,
         NEW w \in W!Cell, W!Bits(w) = BytesBits(s.ram, base, n)
  PROVE  w = Loaded(s.ram, base, n) /\ w \in 0 .. 2 ^ (BYTE * n) - 1
<1>1. w = Loaded(s.ram, base, n)
  <2>1. W!CellOf[W!Bits(w)] = w
    BY CellOfBits
  <2> QED BY <2>1 DEF Loaded, BytesBits
<1> DEFINE y == BYTE * n
<1>2. y \in Nat
  <2>1. BYTE \in Nat /\ n \in Nat
    BY GuestAssumption DEF Several
  <2> QED BY <2>1, Z3
<1>3. y <= Width
  BY DEF Several
<1>4. W!Bits(w) \subseteq 0 .. y - 1
  BY DEF BytesBits
<1> HIDE DEF y
<1>5. y \in 0 .. Width
  BY <1>2, <1>3, WidthAssumption
<1>6. w \in 0 .. 2 ^ y - 1
  BY <1>4, <1>5, BitsBound
<1> QED BY <1>1, <1>6 DEF y

LEMMA SeveralSign ==
  ASSUME NEW n, Several(n), NEW sb, sb = BYTE * n - 1
  PROVE  sb \in W!Lanes /\ \A v : SignMakes(v, sb) = SignExtended(v, n)
<1> DEFINE y == BYTE * n
<1>1. y \in Nat \ {0}
  <2>1. BYTE \in Nat \ {0} /\ n \in Nat \ {0}
    BY GuestAssumption DEF Several
  <2>2. BYTE * n \in Nat /\ BYTE * n # 0
    BY <2>1, Z3
  <2> QED BY <2>2
<1>2. y <= Width
  BY DEF Several
<1> HIDE DEF y
<1>3. y - 1 \in 0 .. Width - 1 /\ (y - 1) + 1 = y
  BY <1>1, <1>2, WidthAssumption
<1>4. sb = y - 1
  BY DEF y
<1>5. \A v : SignMakes(v, y - 1) = SignExtended(v, n)
  BY <1>3 DEF SignMakes, SignExtended, y
<1> QED BY <1>3, <1>4, <1>5, CellIs

LEMMA WholeWord ==
  ASSUME NEW v \in W!Cell, NEW n, BYTE * n = Width
  PROVE  SignExtended(v, n) = v
<1>1. v \in 0 .. W!Modulus - 1 /\ W!Modulus \in Nat \ {0} /\ 2 ^ Width = W!Modulus
  BY CellIs, WordIs DEF W!Modulus
<1> DEFINE M == W!Modulus
           y == v - M
<1> HIDE DEF M, y
<1>2. y \in Int /\ y + M = v /\ v \in 0 .. M - 1 /\ M \in Nat \ {0}
  BY <1>1 DEF M, y
<1>3. y % M = v
  BY <1>2
<1>4. W!Wrap(v - 2 ^ Width) = v
  BY <1>1, <1>3 DEF W!Wrap, M, y
<1> QED BY <1>4 DEF SignExtended

(* lh, lhu and lw: byte after byte, and the sign of a half.                *)
LEMMA MeansLoads ==
  ASSUME NEW i, Lowerable(i), i.kind = "load", i.f = "H" \/ i.f = "W", i.rd # 0,
         NEW s \in GuestStates, Within(i, s)
  PROVE  Means(i, s)
<1> DEFINE c == emit_one32(i)
           m == Image(i, s)
           base == Base(i, s)
           n == BytesOf(i.f)
           y == FlattenSeq(LoadPieces(n))
           z == Signing(n, HalfSign(i))
<1>1. PICK e, x \in Nat : /\ Short(c) /\ Len(c) = e + x + 10 /\ Len(y) = e /\ Len(z) = x
                          /\ Holds(c, 1, emit_addr32(X(i.rs1), IMM(0))) /\ Holds(c, 9, mov32(Z, SH2))
                          /\ Holds(c, 10, y) /\ Holds(c, 10 + e, z) /\ Holds(c, e + x + 10, mov32(SH2, X(i.rd)))
  BY LoadsPieces
<1>2. Several(n) /\ (i.f = "W" => BYTE * n = Width)
  BY SeveralAre
<1>3. Has(i, m, s)
  BY HasImage
<1>4. Gets(c, i, 1, m, 1, m)
  BY <1>3, GetsItself DEF Has
<1>5. base + n <= Window
  BY DEF Within, Base
<1> HIDE DEF c, m, n
<1>6. PICK n1 : Gets(c, i, 1, m, 1 + 8, n1) /\ Has(i, n1, s) /\ n1[T0] = RamBase + base /\ InWindow(base)
  BY <1>1, <1>3, <1>4, HasAddr
<1> HIDE DEF base
<1>7. base \in Nat /\ Z \in NamesOf(i) /\ SH2 \in Writable(i) /\ SH2 \in NamesOf(i) /\ T0 \in NamesOf(i) /\ T0 # SH2 /\ Good(i, n1)
  BY <1>6, LowAre, ScratchWorks, GuestAssumption DEF InWindow, Has
<1> DEFINE n2 == Written(n1, SH2, n1[Z])
<1>8. Gets(c, i, 1, m, 10, n2)
  <2>1. Gets(c, i, 1, m, 9, n1)
    BY <1>6
  <2>2. Gets(c, i, 1, m, 9 + 1, n2)
    BY <1>1, <1>7, <2>1, MoveOn
  <2> QED BY <2>2
<1>9. n2[SH2] = 0 /\ n2[T0] = n1[T0] /\ Alike(i, n1, n2, {SH2})
  <2>1. n2[SH2] = n1[Z] /\ \A a \in NamesOf(i) : a # SH2 => n2[a] = n1[a]
    BY <1>6, <1>7, WrittenAfter
  <2> HIDE DEF n2
  <2>2. n1[Z] = 0
    BY <1>7, PoolValues
  <2> QED BY <1>7, <2>1, <2>2 DEF Alike
<1> HIDE DEF n2
<1>10. LoadInv(i, s, base, n, n2, 0)
  <2>1. Private({SH2})
    BY DEF Private, SH2, X, RAM, CSR
  <2>2. Has(i, n2, s)
    BY <1>6, <1>8, <1>9, <2>1, HasStill DEF Gets
  <2>3. Least(0, n - 1) = 0 /\ base + 0 = base
    BY <1>2, <1>7 DEF Least, Several
  <2>4. BytesBits(s.ram, base, 0) = {}
    <3>1. BYTE * 0 = 0
      BY GuestAssumption
    <3>2. 0 .. 0 - 1 = {}
      OBVIOUS
    <3> QED BY <3>1, <3>2 DEF BytesBits
  <2> QED BY <1>6, <1>9, <2>2, <2>3, <2>4, NoBits DEF LoadInv
<1>11. PICK n3 : Gets(c, i, 10, n2, 10 + Len(y), n3) /\ LoadInv(i, s, base, n, n3, n)
  <2> DEFINE p == 10
  <2>1. Holds(c, p, FlattenSeq(LoadPieces(n)))
    BY <1>1
  <2> HIDE DEF p
  <2>2. \E o : /\ Gets(c, i, p, n2, p + Len(FlattenSeq(LoadPieces(n))), o) /\ LoadInv(i, s, base, n, o, n)
    BY <1>2, <1>5, <1>7, <1>10, <2>1, RunsLoads
  <2> QED BY <2>2 DEF p
<1>12. Gets(c, i, 1, m, 10 + e, n3) /\ Has(i, n3, s) /\ Good(i, n3)
  BY <1>1, <1>8, <1>11, GetsOn DEF LoadInv, Has
<1> DEFINE v == n3[SH2]
<1>13. v \in W!Cell /\ v = Loaded(s.ram, base, n) /\ v \in 0 .. 2 ^ (BYTE * n) - 1
  <2>1. v \in W!Cell
    BY <1>7, <1>12, GoodTyped
  <2>2. W!Bits(v) = BytesBits(s.ram, base, n)
    BY <1>11 DEF LoadInv
  <2> HIDE DEF v
  <2> QED BY <1>2, <1>5, <1>7, <2>1, <2>2, WordLoaded
<1>14. PICK n4 : Gets(c, i, 1, m, e + x + 10, n4) /\ Has(i, n4, s) /\ n4[SH2] = LoadValue(i, s)
  <2>1. LoadValue(i, s) = IF i.signed THEN SignExtended(v, n) ELSE v
    BY <1>13 DEF LoadValue, n, base
  <2>2. CASE HalfSign(i)
    <3> DEFINE sb == BYTE * n - 1
               p == 10 + e
    <3>1. sb \in W!Lanes /\ SignMakes(v, sb) = SignExtended(v, n)
      BY <1>2, SeveralSign
    <3>2. z = sign_extend32(SH2, sb)
      BY <2>2 DEF Signing, MayBe
    <3>3. v \in 0 .. 2 ^ (sb + 1) - 1
      <4> DEFINE w == BYTE * n
      <4>1. w \in Int
        <5>1. BYTE \in Nat /\ n \in Nat
          BY <1>2, GuestAssumption DEF Several
        <5> QED BY <5>1, Z3
      <4> HIDE DEF w
      <4>2. (w - 1) + 1 = w
        BY <4>1
      <4> QED BY <1>13, <4>2 DEF w
    <3> HIDE DEF sb, p, z
    <3>4. SH2 \in Writable(i) \ Low
      BY ScratchWorks
    <3>5. Holds(c, p, sign_extend32(SH2, sb)) /\ n3[SH2] \in 0 .. 2 ^ (sb + 1) - 1
      BY <1>1, <3>2, <3>3 DEF p
    <3>6. PICK o : /\ Gets(c, i, p, n3, p + Len(sign_extend32(SH2, sb)), o) /\ Alike(i, n3, o, Plus(Low, SH2))
                   /\ o[SH2] = SignMakes(n3[SH2], sb)
      BY <1>12, <3>1, <3>4, <3>5, RunsExtend
    <3>7. p + Len(sign_extend32(SH2, sb)) = e + x + 10
      BY <1>1, <3>2 DEF p
    <3>8. Gets(c, i, 1, m, e + x + 10, o)
      BY <1>12, <3>6, <3>7, GetsOn DEF p
    <3>9. Private(Plus(Low, SH2))
      BY ScratchWorks DEF Private
    <3>10. Has(i, o, s)
      BY <1>12, <3>6, <3>8, <3>9, HasStill DEF Gets
    <3> QED BY <2>1, <2>2, <3>1, <3>6, <3>8, <3>10 DEF HalfSign
  <2>3. CASE ~HalfSign(i)
    <3>1. z = <<>>
      BY <2>3 DEF Signing, MayBe
    <3>2. x = 0
      BY <1>1, <3>1
    <3>3. 10 + e = e + x + 10
      BY <3>2
    <3>4. LoadValue(i, s) = v
      <4>1. CASE i.signed
        <5>1. i.f = "W"
          BY <2>3, <4>1 DEF HalfSign
        <5> HIDE DEF v
        <5>2. SignExtended(v, n) = v
          BY <1>2, <1>13, <5>1, WholeWord
        <5> QED BY <2>1, <4>1, <5>2
      <4>2. CASE ~i.signed
        BY <2>1, <4>2
      <4> QED BY <4>1, <4>2
    <3> QED BY <1>12, <3>3, <3>4
  <2> QED BY <2>2, <2>3
<1> HIDE DEF v, y, z
<1>15. (e + x + 10) + 1 = Len(c) + 1
  BY <1>1
<1>16. Execute(i, s) = Goes(s, Set(s.x, i.rd, n4[SH2]), Following)
  BY <1>14, LoadIs
<1> QED BY <1>1, <1>7, <1>14, <1>15, <1>16, RegEnds DEF c, m

------------------------------------------------------------------------------
(* Stores of several bytes.                                                *)
Byte32(a, k)       == mov32(Z, SH1) \o Gather(a, SH1, Span(BYTE * k, BYTE), Span(0, BYTE), BYTE)
StorePiece(a, k, n) == Byte32(a, k) \o store_at32(SH1) \o Advance(k, n)
StorePieces(a, n)  == [j \in 1 .. n |-> StorePiece(a, j - 1, n)]

LEMMA StoresAre ==
  ASSUME NEW a, NEW rs1, NEW imm, NEW n \in Nat \ {0}
  PROVE  emit_store_bytes32(a, rs1, imm, n) = emit_addr32(rs1, imm) \o FlattenSeq(StorePieces(a, n))
<1> DEFINE bytes == UpTo(0, n - 1)
           Bit0(k) == [j \in 1 .. Len(ByteLanes) |-> copybit32(a, BYTE * k + ByteLanes[j], SH1, ByteLanes[j])]
           Byte0(k) == (mov32(Z, SH1) \o FlattenSeq(Bit0(k))) \o store_at32(SH1) \o Advance(k, n)
<1>1. BYTE \in Nat /\ \A k \in 0 .. n - 1 : BYTE * k \in Nat
  <2>1. BYTE \in Nat
    BY GuestAssumption
  <2>2. ASSUME NEW k \in 0 .. n - 1 PROVE BYTE * k \in Nat
    BY <2>1, Z3
  <2> QED BY <2>1, <2>2
<1>2. bytes = Span(0, n) /\ Len(bytes) = n
  <2> DEFINE lo == 0
             hi == n - 1
  <2>1. lo \in Int /\ n \in Nat /\ hi = lo + n - 1
    OBVIOUS
  <2> HIDE DEF lo, hi
  <2>2. UpTo(lo, hi) = Span(lo, n) /\ Len(Span(lo, n)) = n
    BY <2>1, UpToIs
  <2> QED BY <2>2 DEF lo, hi
<1>3. \A j \in 1 .. n : bytes[j] = j - 1 /\ j - 1 \in 0 .. n - 1
  BY <1>2 DEF Span
<1>4. \A k \in 0 .. n - 1 : Byte0(k) = StorePiece(a, k, n)
  <2> TAKE k \in 0 .. n - 1
  <2> DEFINE x == BYTE * k
  <2>1. x \in Nat
    BY <1>1
  <2> HIDE DEF x
  <2>2. FlattenSeq([j \in 1 .. Len(ByteLanes) |-> copybit32(a, x + ByteLanes[j], SH1, ByteLanes[j])])
          = Gather(a, SH1, Span(x, BYTE), Span(0, BYTE), BYTE)
    <3>1. Each(ByteLanes, LAMBDA j : copybit32(a, x + j, SH1, j)) = Gather(a, SH1, Span(x, BYTE), Span(0, BYTE), BYTE)
      BY <2>1, GatherByte
    <3> QED BY <3>1 DEF Each
  <2> QED BY <2>2 DEF StorePiece, Byte32, x
<1>5. emit_store_bytes32(a, rs1, imm, n)
        = emit_addr32(rs1, imm) \o FlattenSeq([j \in 1 .. Len(bytes) |-> Byte0(bytes[j])])
  BY DEF emit_store_bytes32, extract_byte32, Each
<1> HIDE DEF bytes, Byte0
<1>6. [j \in 1 .. Len(bytes) |-> Byte0(bytes[j])] = StorePieces(a, n)
  BY <1>2, <1>3, <1>4 DEF StorePieces
<1> QED BY <1>5, <1>6

LEMMA StorePieceIs ==
  ASSUME NEW a, NEW k, NEW n
  PROVE  \E e \in Nat :
           LET g == Gather(a, SH1, Span(BYTE * k, BYTE), Span(0, BYTE), BYTE)
               z == 1 + e + 2 + AdvanceSize(k, n)
           IN  /\ Len(g) = e /\ z \in 0 .. 6 + 7 * BYTE /\ Sized(StorePiece(a, k, n), z)
               /\ \A c, p : Holds(c, p, StorePiece(a, k, n)) =>
                    /\ Holds(c, p, mov32(Z, SH1)) /\ Holds(c, p + 1, g)
                    /\ Holds(c, p + (1 + e), store_at32(SH1)) /\ Holds(c, p + (1 + e + 2), Advance(k, n))
<1> DEFINE f == Span(BYTE * k, BYTE)
           h == Span(0, BYTE)
           g == Gather(a, SH1, f, h, BYTE)
           e == Len(g)
           d == AdvanceSize(k, n)
           s1 == mov32(Z, SH1)
           s3 == store_at32(SH1)
           s4 == Advance(k, n)
           n1 == 1
           n3 == 2
<1>1. BYTE \in Nat
  BY GuestAssumption
<1> HIDE DEF f, h
<1>2. Sized(g, e) /\ e \in Nat /\ e <= 7 * BYTE
  BY <1>1, GatherSized
<1>3. Sized(s1, n1) /\ Sized(s3, n3) /\ Sized(s4, d) /\ d \in 0 .. 3
  BY AtAre, AdvanceIs, SizesAre
<1>4. StorePiece(a, k, n) = s1 \o g \o s3 \o s4
  BY DEF StorePiece, Byte32, f, h
<1> HIDE DEF g, e, d, s1, s3, s4, n1, n3
<1>5. LET s == s1 \o g \o s3 \o s4
      IN  /\ Sized(s, n1 + e + n3 + d)
          /\ \A c, p : Holds(c, p, s) => /\ Holds(c, p, s1) /\ Holds(c, p + n1, g)
                                         /\ Holds(c, p + (n1 + e), s3) /\ Holds(c, p + (n1 + e + n3), s4)
  BY <1>2, <1>3, RowOfFour
<1>6. 1 + e + 2 + d \in 0 .. 6 + 7 * BYTE
  BY <1>1, <1>2, <1>3
<1> QED BY <1>2, <1>4, <1>5, <1>6 DEF g, e, d, s1, s3, s4, n1, n3, f, h

(* Byte k of a word.                                                       *)
ByteOf(v, k) == (v \div 2 ^ (BYTE * k)) % 2 ^ BYTE

LEMMA ByteOfIs ==
  ASSUME NEW n, Several(n), NEW k \in Nat, k < n, NEW v \in W!Cell
  PROVE  /\ ByteOf(v, k) \in Byte /\ ByteOf(v, k) \in W!Cell
         /\ W!Bits(ByteOf(v, k)) = Got(v, Span(BYTE * k, BYTE), Span(0, BYTE), BYTE)
<1> DEFINE x == BYTE * k
           w == v \div 2 ^ x
<1>1. x \in Nat /\ x + BYTE <= Width /\ BYTE \in Nat \ {0} /\ x \in 0 .. Width /\ BYTE \in 0 .. Width
  <2>1. x \in Nat /\ x + BYTE <= Width
    BY LanesOfByte
  <2> HIDE DEF x
  <2> QED BY <2>1, GuestAssumption, WidthAssumption
<1> HIDE DEF x
<1>2. w \in W!Cell /\ W!Bits(w) = {i \in W!Lanes : i + x \in W!Bits(v)}
  BY <1>1, DivBits
<1> HIDE DEF w
<1>3. /\ w % 2 ^ BYTE \in 0 .. 2 ^ BYTE - 1 /\ w % 2 ^ BYTE \in W!Cell
      /\ W!Bits(w % 2 ^ BYTE) = {i \in W!Bits(w) : i < BYTE}
  BY <1>1, <1>2, ModBits
<1> DEFINE f == Span(x, BYTE)
           g == Span(0, BYTE)
<1>4. \A j \in 1 .. BYTE : f[j] = (j - 1) + x /\ g[j] = j - 1 /\ j - 1 \in W!Lanes /\ j - 1 < BYTE
  BY <1>1, CellIs, WidthAssumption DEF Span
<1>5. \A i \in W!Lanes : i < BYTE => i + 1 \in 1 .. BYTE /\ (i + 1) - 1 = i
  BY <1>1, CellIs, WidthAssumption
<1> HIDE DEF f, g
<1>6. Got(v, f, g, BYTE) = {g[j] : j \in {j \in 1 .. BYTE : f[j] \in W!Bits(v)}}
  BY DEF Got, Bit
<1>7. {i \in W!Bits(w) : i < BYTE} \subseteq Got(v, f, g, BYTE)
  <2> SUFFICES ASSUME NEW i \in W!Bits(w), i < BYTE PROVE \E j \in 1 .. BYTE : f[j] \in W!Bits(v) /\ g[j] = i
    BY <1>6
  <2>1. i \in W!Lanes /\ i + x \in W!Bits(v)
    BY <1>2
  <2>2. i + 1 \in 1 .. BYTE /\ f[i + 1] = i + x /\ g[i + 1] = i
    BY <1>4, <1>5, <2>1
  <2> QED BY <2>1, <2>2
<1>8. Got(v, f, g, BYTE) \subseteq {i \in W!Bits(w) : i < BYTE}
  BY <1>2, <1>4, <1>6
<1>9. W!Bits(w % 2 ^ BYTE) = Got(v, f, g, BYTE)
  BY <1>3, <1>7, <1>8
<1> QED BY <1>3, <1>9 DEF ByteOf, Byte, w, x, f, g

(* The guest once the first k bytes are stored.                            *)
Partly(s, base, k, v) == [s EXCEPT !.ram = Stored(s.ram, base, k, v)]

LEMMA PartlyNone ==
  ASSUME NEW s \in GuestStates, NEW base \in Nat, NEW v \in W!Cell
  PROVE  Partly(s, base, 0, v) = s
<1>1. s.ram = [j \in DOMAIN s.ram |-> s.ram[j]] /\ base .. base + 0 - 1 = {}
  BY DEF GuestStates
<1>2. Stored(s.ram, base, 0, v) = s.ram
  BY <1>1 DEF Stored
<1> QED BY <1>2 DEF Partly, GuestStates

LEMMA PartlyKeeps ==
  ASSUME NEW s \in GuestStates, NEW base \in Nat, NEW k \in Nat, NEW v \in W!Cell
  PROVE  /\ Partly(s, base, k, v).x = s.x /\ Partly(s, base, k, v).csr = s.csr
         /\ Partly(s, base, k, v).ram = Stored(s.ram, base, k, v)
BY DEF Partly, GuestStates

LEMMA PartlyMore ==
  ASSUME NEW s \in GuestStates, NEW base \in Nat, NEW k \in Nat, NEW v \in W!Cell
  PROVE  RamSet(Partly(s, base, k, v), base + k, ByteOf(v, k)) = Partly(s, base, k + 1, v)
<1> DEFINE u == Stored(s.ram, base, k, v)
           w == Stored(s.ram, base, k + 1, v)
           D == DOMAIN s.ram
           Put0(j) == (v \div 2 ^ (BYTE * (j - base))) % 2 ^ BYTE
<1>1. u = [j \in D |-> IF j \in base .. base + k - 1 THEN Put0(j) ELSE s.ram[j]]
  BY DEF Stored
<1>2. w = [j \in D |-> IF j \in base .. base + (k + 1) - 1 THEN Put0(j) ELSE s.ram[j]]
  BY DEF Stored
<1>3. Put0(base + k) = ByteOf(v, k)
  <2>1. (base + k) - base = k
    OBVIOUS
  <2> QED BY <2>1 DEF ByteOf
<1> HIDE DEF Put0, u, w
<1>4. ASSUME NEW j \in D
      PROVE  /\ j \in base .. base + (k + 1) - 1 <=> j \in base .. base + k - 1 \/ j = base + k
             /\ ~(base + k \in base .. base + k - 1)
  <2>1. D = 0 .. Window - 1
    BY DEF GuestStates
  <2>2. Window \in Nat
    BY GuestAssumption
  <2> HIDE DEF D
  <2> QED BY <2>1, <2>2
<1>5. [u EXCEPT ![base + k] = ByteOf(v, k)] = w
  BY <1>1, <1>2, <1>3, <1>4
<1> HIDE DEF D
<1>6. [Partly(s, base, k, v).ram EXCEPT ![base + k] = ByteOf(v, k)] = w
  BY <1>5, PartlyKeeps DEF u
<1> QED BY <1>6 DEF RamSet, Partly, GuestStates, w

StoreInv(i, s, base, n, m, k, v) ==
  Has(i, m, Partly(s, base, k, v)) /\ m[T0] = RamBase + (base + Least(k, n - 1))

LEMMA RunsStorePiece ==
  ASSUME NEW c, NEW i, NEW p, NEW m, NEW s \in GuestStates, NEW n, Several(n), NEW k \in Nat, k < n,
         NEW base \in Nat, base + n <= Window, NEW r \in Regs, NEW v, v = s.x[r],
         StoreInv(i, s, base, n, m, k, v), Holds(c, p, StorePiece(X(r), k, n))
  PROVE  \E o : Gets(c, i, p, m, p + Len(StorePiece(X(r), k, n)), o) /\ StoreInv(i, s, base, n, o, k + 1, v)
<1> DEFINE x == BYTE * k
           f == Span(x, BYTE)
           g == Span(0, BYTE)
           h == Gather(X(r), SH1, f, g, BYTE)
           a == AdvanceSize(k, n)
           b == base + k
           t == Partly(s, base, k, v)
           y == StorePiece(X(r), k, n)
<1>0. v \in W!Cell
  BY DEF GuestStates
<1>1. PICK e \in Nat : /\ Len(h) = e /\ Sized(y, 1 + e + 2 + a)
                       /\ Holds(c, p, mov32(Z, SH1)) /\ Holds(c, p + 1, h)
                       /\ Holds(c, p + (1 + e), store_at32(SH1)) /\ Holds(c, p + (1 + e + 2), Advance(k, n))
  BY StorePieceIs
<1>2. x \in Nat /\ Aims(f, g, BYTE) /\ BYTE \in Nat \ {0} /\ n \in Nat
  BY LanesOfByte, GuestAssumption DEF Several
<1>3. Least(k, n - 1) = k /\ InWindow(b)
  BY <1>2, GuestAssumption DEF Least, InWindow
<1>4. Good(i, m) /\ m[T0] = RamBase + b /\ Has(i, m, t)
  BY <1>3 DEF StoreInv, Has
<1>5. m[X(r)] = v /\ v \in W!Cell /\ X(r) \in NamesOf(i) \ Low /\ X(r) # SH1 /\ X(r) # T0
  <2> HIDE DEF t
  <2>4. t.x = s.x
    <3>1. v \in W!Cell
      BY <1>0
    <3> QED BY <3>1, PartlyKeeps DEF t
  <2>1. m[X(r)] = v
    BY <1>4, <2>4 DEF Has
  <2>2. X(r) \in NamesOf(i) \ Low
    <3>1. X(r) \in NamesOf(i)
      BY GuestCellsAre DEF Source
    <3> QED BY <3>1 DEF X, Low, T1, T2
  <2>3. X(r) # SH1 /\ X(r) # T0
    BY DEF X, SH1, T0
  <2> QED BY <1>4, <2>1, <2>2, <2>3, GoodTyped
<1>6. /\ SH1 \in Writable(i) /\ SH1 \in NamesOf(i) /\ SH1 \notin Low /\ SH1 # OPERAND /\ T0 \in NamesOf(i) /\ T0 # SH1
      /\ Z \in NamesOf(i) /\ T0 \notin Low /\ T0 # OPERAND
  BY ScratchWorks, LowAre
<1>7. p \in Nat /\ a \in 0 .. 3
  <2>1. p \in Nat
    BY <1>1 DEF Holds
  <2> QED BY <2>1, AdvanceIs
<1>8. ByteOf(v, k) \in Byte /\ ByteOf(v, k) \in W!Cell /\ W!Bits(ByteOf(v, k)) = Got(v, f, g, BYTE)
  BY <1>5, ByteOfIs
<1> HIDE DEF f, g, x, b, a, t, y
<1> DEFINE n1 == Written(m, SH1, m[Z])
<1>9. Gets(c, i, p, m, p + 1, n1)
  <2>1. Gets(c, i, p, m, p, m) /\ Holds(c, p, mov32(Z, SH1))
    BY <1>1, <1>4, <1>7, GetsItself
  <2> QED BY <1>6, <2>1, MoveOn
<1>10. n1[SH1] = 0 /\ \A j \in NamesOf(i) : j # SH1 => n1[j] = m[j]
  <2>1. Gets(c, i, p, m, p, m)
    BY <1>4, GetsItself
  <2>2. n1[SH1] = m[Z] /\ \A j \in NamesOf(i) : j # SH1 => n1[j] = m[j]
    BY <1>6, <2>1, WrittenAfter
  <2> QED BY <1>4, <2>2, PoolValues
<1> HIDE DEF n1
<1>11. Vacant(n1[SH1], g, BYTE) /\ Apart(X(r), SH1, f, g, BYTE) /\ n1[X(r)] = v /\ Good(i, n1)
  <2>1. X(r) \in NamesOf(i)
    BY <1>5
  <2> QED BY <1>5, <1>9, <1>10, <2>1, NoBits DEF Vacant, Apart, Gets
<1>12. PICK n2 : /\ Gets(c, i, p + 1, n1, (p + 1) + Len(h), n2) /\ Alike(i, n1, n2, Plus(Low, SH1))
                 /\ Gains(n2[SH1], n1[SH1], Got(n1[X(r)], f, g, BYTE))
  <2>1. X(r) \in NamesOf(i) \ Low /\ SH1 \in Writable(i) \ Low /\ BYTE \in Nat
    BY <1>2, <1>5, <1>6
  <2>2. Holds(c, p + 1, Gather(X(r), SH1, f, g, BYTE))
    BY <1>1
  <2> QED BY <1>2, <1>11, <2>1, <2>2, RunsGather
<1> HIDE DEF h
<1>13. n2[SH1] = ByteOf(v, k) /\ Good(i, n2) /\ n2[T0] = RamBase + b
  <2>1. Good(i, n2)
    BY <1>12 DEF Gets
  <2>2. n2[SH1] \in W!Cell
    BY <1>6, <2>1, GoodTyped
  <2>3. W!Bits(n2[SH1]) = W!Bits(ByteOf(v, k))
    BY <1>8, <1>10, <1>11, <1>12, NoBits DEF Gains
  <2>4. n2[T0] = n1[T0]
    BY <1>6, <1>12 DEF Alike, Plus
  <2> QED BY <1>4, <1>6, <1>8, <1>10, <2>1, <2>2, <2>3, <2>4, SameBits
<1>14. (p + 1) + Len(h) = p + (1 + e) /\ (p + (1 + e)) + 2 = p + (1 + e + 2) /\ (p + (1 + e + 2)) + a = p + (1 + e + 2 + a)
  BY <1>1, <1>7
<1>15. PICK n3 : /\ Gets(c, i, p + (1 + e), n2, (p + (1 + e)) + 2, n3) /\ Alike(i, n2, n3, Patched(RAM(b)))
                 /\ n3[RAM(b)] = n2[SH1]
  <2> DEFINE q == p + (1 + e)
  <2>1. Holds(c, q, store_at32(SH1)) /\ SH1 \in NamesOf(i) /\ SH1 # OPERAND
    BY <1>1, <1>6
  <2> HIDE DEF q
  <2>2. \E o : /\ Gets(c, i, q, n2, q + 2, o) /\ Alike(i, n2, o, Patched(RAM(b))) /\ o[RAM(b)] = n2[SH1]
    BY <1>3, <1>13, <2>1, RunsStoreAt
  <2> QED BY <2>2 DEF q
<1>16. n3[T0] = RamBase + (base + k) /\ Good(i, n3)
  <2>1. T0 # RAM(b)
    BY DEF T0, RAM
  <2> QED BY <1>6, <1>13, <1>15, <2>1 DEF Alike, Patched, Gets, b
<1>17. PICK n4 : /\ Gets(c, i, p + (1 + e + 2), n3, (p + (1 + e + 2)) + a, n4) /\ Alike(i, n3, n4, Plus(Low, T0))
                 /\ n4[T0] = RamBase + (base + Least(k + 1, n - 1))
  <2> DEFINE q == p + (1 + e + 2)
  <2>1. Holds(c, q, Advance(k, n)) /\ n \in Nat
    BY <1>1, <1>2
  <2> HIDE DEF q
  <2>2. \E o : /\ Gets(c, i, q, n3, q + AdvanceSize(k, n), o) /\ Alike(i, n3, o, Plus(Low, T0))
               /\ o[T0] = RamBase + (base + Least(k + 1, n - 1))
    <3>1. /\ Good(i, n3) /\ n \in Nat /\ k \in Nat /\ k < n /\ base \in Nat /\ base + n <= Window
          /\ n3[T0] = RamBase + (base + k) /\ Holds(c, q, Advance(k, n))
      BY <1>16, <2>1
    <3> QED BY ONLY <3>1, RunsAdvance
  <2> QED BY <2>2 DEF q, a
<1>18. Gets(c, i, p, m, p + Len(y), n4)
  <2>1. Gets(c, i, p, m, p + (1 + e), n2)
    BY <1>9, <1>12, <1>14, GetsOn
  <2>2. Gets(c, i, p, m, p + (1 + e + 2), n3)
    BY <1>14, <1>15, <2>1, GetsOn
  <2>3. Gets(c, i, p, m, p + (1 + e + 2 + a), n4)
    BY <1>14, <1>17, <2>2, GetsOn
  <2> QED BY <1>1, <2>3 DEF Sized
<1>19. Alike(i, m, n4, Plus(Scratch, RAM(b)))
  <2>1. Alike(i, m, n1, Scratch)
    BY <1>10 DEF Alike, Scratch
  <2>2. Plus(Low, SH1) \subseteq Scratch /\ Plus(Low, T0) \subseteq Scratch /\ Patched(RAM(b)) \subseteq Plus(Scratch, RAM(b))
    BY ScratchWorks DEF Patched, Plus, Scratch
  <2> QED BY <1>12, <1>15, <1>17, <2>1, <2>2 DEF Alike, Plus
<1>20. n4[RAM(b)] = ByteOf(v, k)
  <2>1. RAM(b) \in NamesOf(i)
    BY <1>3, GuestCellsAre DEF InWindow, Writable
  <2>2. RAM(b) \notin Plus(Low, T0)
    BY DEF Plus, Low, RAM, T0, T1, T2
  <2> QED BY <1>13, <1>15, <1>17, <2>1, <2>2 DEF Alike
<1>21. Has(i, n4, RamSet(t, b, n4[RAM(b)]))
  <2>1. Good(i, n4) /\ n4[RAM(b)] \in Byte /\ Private(Scratch)
    BY <1>8, <1>18, <1>20, ScratchWorks DEF Gets
  <2> QED BY <1>3, <1>4, <1>19, <2>1, HasRam
<1>22. RamSet(t, b, ByteOf(v, k)) = Partly(s, base, k + 1, v)
  <2>1. RamSet(Partly(s, base, k, v), base + k, ByteOf(v, k)) = Partly(s, base, k + 1, v)
    BY <1>5, PartlyMore
  <2> QED BY <2>1 DEF t, b
<1> QED BY <1>17, <1>18, <1>20, <1>21, <1>22 DEF StoreInv, y

LEMMA StorePiecesAre ==
  ASSUME NEW a, NEW n, Several(n)
  PROVE  /\ Parts(StorePieces(a, n), n)
         /\ \A k \in Nat : k + 1 <= n => StorePieces(a, n)[k + 1] = StorePiece(a, k, n)
<1>1. /\ n \in Nat /\ Len(StorePieces(a, n)) = n
      /\ \A j \in 1 .. n : StorePieces(a, n)[j] = StorePiece(a, j - 1, n)
  BY DEF StorePieces, Several
<1>2. ASSUME NEW k PROVE \E z \in 0 .. 6 + 7 * BYTE : Sized(StorePiece(a, k, n), z)
  BY StorePieceIs
<1>3. Parts(StorePieces(a, n), n)
  BY <1>1, <1>2 DEF Parts
<1>4. ASSUME NEW k \in Nat, k + 1 <= n PROVE StorePieces(a, n)[k + 1] = StorePiece(a, k, n)
  <2>1. k + 1 \in 1 .. n /\ (k + 1) - 1 = k
    BY <1>1, <1>4
  <2> QED BY <1>1, <2>1
<1> QED BY <1>3, <1>4

LEMMA RunsStores ==
  ASSUME NEW c, NEW i, NEW p, NEW m, NEW s \in GuestStates, NEW n, Several(n), NEW base \in Nat, base + n <= Window,
         NEW r \in Regs, NEW v, v = s.x[r],
         StoreInv(i, s, base, n, m, 0, v), Holds(c, p, FlattenSeq(StorePieces(X(r), n)))
  PROVE  \E o : Gets(c, i, p, m, p + Len(FlattenSeq(StorePieces(X(r), n))), o) /\ StoreInv(i, s, base, n, o, n, v)
<1> DEFINE u == StorePieces(X(r), n)
           R == [k \in Nat |-> {l \in Memories(i) : StoreInv(i, s, base, n, l, k, v)}]
<1>1. n \in Nat /\ Parts(u, n) /\ \A k \in Nat : k + 1 <= n => u[k + 1] = StorePiece(X(r), k, n)
  BY StorePiecesAre DEF Several
<1>2. \A l : Good(i, l) => l \in Memories(i)
  BY DEF Good, Memories
<1>3. Good(i, m) /\ m \in R[0]
  BY <1>2 DEF StoreInv, Has
<1> HIDE DEF u
<1>4. ASSUME NEW g, NEW k \in Nat, k + 1 <= n, Holds(c, g, u[k + 1]), NEW l \in R[k], Good(i, l)
      PROVE  \E o \in R[k + 1] : Gets(c, i, g, l, g + Len(u[k + 1]), o)
  <2>1. StoreInv(i, s, base, n, l, k, v) /\ k < n /\ Holds(c, g, StorePiece(X(r), k, n)) /\ u[k + 1] = StorePiece(X(r), k, n)
    BY <1>1, <1>4
  <2> HIDE DEF R
  <2>2. PICK o : Gets(c, i, g, l, g + Len(StorePiece(X(r), k, n)), o) /\ StoreInv(i, s, base, n, o, k + 1, v)
    BY <2>1, RunsStorePiece
  <2>3. Good(i, o)
    BY <2>2 DEF Gets
  <2>4. o \in R[k + 1]
    BY <1>2, <2>2, <2>3 DEF R
  <2> QED BY <2>1, <2>2, <2>4
<1> HIDE DEF R
<1>5. Holds(c, p, FlattenSeq(u))
  BY DEF u
<1>6. PICK o \in R[n] : Gets(c, i, p, m, p + Len(FlattenSeq(u)), o)
  BY <1>1, <1>3, <1>4, <1>5, RunsParts
<1>7. StoreInv(i, s, base, n, o, n, v)
  BY <1>1, <1>6 DEF R
<1> QED BY <1>6, <1>7 DEF u

LEMMA StoresPieces ==
  ASSUME NEW i, i.kind = "store", i.f = "H" \/ i.f = "W", NEW n, n = BytesOf(i.f)
  PROVE  \E e \in Nat :
           LET c == emit_one32(i)
               y == FlattenSeq(StorePieces(X(i.rs2), n))
           IN  /\ Short(c) /\ Len(c) = 8 + e /\ Len(y) = e
               /\ Holds(c, 1, emit_addr32(X(i.rs1), IMM(0))) /\ Holds(c, 9, y)
<1> DEFINE s1 == emit_addr32(X(i.rs1), IMM(0))
           s2 == FlattenSeq(StorePieces(X(i.rs2), n))
           c == emit_one32(i)
           e == Len(s2)
<1>1. Several(n)
  BY SeveralAre
<1>2. c = s1 \o s2
  <2>1. i.f # "B"
    OBVIOUS
  <2>2. c = emit_store_bytes32(X(i.rs2), X(i.rs1), IMM(0), n)
    BY <2>1 DEF emit_one32, emit_store32
  <2> QED BY <1>1, <2>2, StoresAre DEF Several
<1>3. Sized(s2, e) /\ e \in Nat /\ e <= 1300
  <2>1. Parts(StorePieces(X(i.rs2), n), n)
    BY <1>1, StorePiecesAre
  <2>2. PICK off : off \in [1 .. n + 1 -> Nat] /\ off[n + 1] <= 1300 /\ Sized(s2, off[n + 1])
    BY <1>1, <2>1, PartsAre
  <2>3. off[n + 1] \in Nat
    BY <1>1, <2>2 DEF Several
  <2> QED BY <2>2, <2>3 DEF Sized
<1>4. Sized(s1, 8)
  BY AddrIs
<1> HIDE DEF s1, s2, c, e
<1>5. Sized(c, 8 + e)
  <2> DEFINE z == 8
  <2> HIDE DEF z
  <2>1. Sized(s1, z) /\ Sized(s2, e)
    BY <1>3, <1>4 DEF z
  <2>2. Sized(s1 \o s2, z + e)
    BY ONLY <2>1, SizedJoin
  <2> QED BY <1>2, <2>2 DEF z
<1>6. Holds(c, 1, c) /\ Short(c) /\ Len(c) = 8 + e
  BY <1>3, <1>5, WholeIs DEF Sized, Short
<1>7. Holds(c, 1, s1) /\ Holds(c, 1 + 8, s2)
  <2> DEFINE z == 8
             o == 1
  <2> HIDE DEF z, o
  <2>1. Sized(s1, z) /\ Sized(s2, e) /\ Holds(c, o, s1 \o s2)
    BY <1>2, <1>3, <1>4, <1>6 DEF z, o
  <2>2. Holds(c, o, s1) /\ Holds(c, o + z, s2)
    BY ONLY <2>1, SizedSplit
  <2> QED BY <2>2 DEF z, o
<1> QED BY <1>3, <1>6, <1>7 DEF s1, s2, c, e

(* sh and sw: byte after byte of the register, from the address on, and no *)
(* other byte of RAM.                                                      *)
LEMMA MeansStores ==
  ASSUME NEW i, Lowerable(i), i.kind = "store", i.f = "H" \/ i.f = "W", NEW s \in GuestStates, Within(i, s)
  PROVE  Means(i, s)
<1> DEFINE c == emit_one32(i)
           m == Image(i, s)
           base == Base(i, s)
           n == BytesOf(i.f)
           r == i.rs2
           v == s.x[r]
           y == FlattenSeq(StorePieces(X(r), n))
<1>1. PICK e \in Nat : /\ Short(c) /\ Len(c) = 8 + e /\ Len(y) = e
                       /\ Holds(c, 1, emit_addr32(X(i.rs1), IMM(0))) /\ Holds(c, 9, y)
  BY StoresPieces
<1>2. Several(n) /\ r \in Regs /\ v \in W!Cell
  BY SeveralAre DEF Lowerable, GuestStates
<1>3. Has(i, m, s)
  BY HasImage
<1>4. Gets(c, i, 1, m, 1, m)
  BY <1>3, GetsItself DEF Has
<1>5. base + n <= Window
  BY DEF Within, Base
<1> HIDE DEF c, m, n
<1>6. PICK n1 : Gets(c, i, 1, m, 1 + 8, n1) /\ Has(i, n1, s) /\ n1[T0] = RamBase + base /\ InWindow(base)
  BY <1>1, <1>3, <1>4, HasAddr
<1> HIDE DEF base
<1>7. base \in Nat
  BY <1>6, GuestAssumption DEF InWindow
<1>8. StoreInv(i, s, base, n, n1, 0, v)
  <2> HIDE DEF v
  <2>1. Partly(s, base, 0, v) = s
    BY <1>2, <1>7, PartlyNone
  <2>2. Least(0, n - 1) = 0 /\ base + 0 = base
    BY <1>2, <1>7 DEF Least, Several
  <2> QED BY <1>6, <2>1, <2>2 DEF StoreInv
<1>9. PICK n2 : Gets(c, i, 9, n1, 9 + Len(y), n2) /\ StoreInv(i, s, base, n, n2, n, v)
  <2> DEFINE p == 9
  <2>1. Holds(c, p, FlattenSeq(StorePieces(X(r), n))) /\ v = s.x[r]
    BY <1>1
  <2> HIDE DEF p, v, r
  <2>2. \E o : Gets(c, i, p, n1, p + Len(FlattenSeq(StorePieces(X(r), n))), o) /\ StoreInv(i, s, base, n, o, n, v)
    BY <1>2, <1>5, <1>7, <1>8, <2>1, RunsStores
  <2> QED BY <2>2 DEF p, r
<1> DEFINE q == 9 + e
           t == Partly(s, base, n, v)
<1>10. Gets(c, i, 1, m, q, n2) /\ Has(i, n2, t) /\ q = Len(c) + 1
  <2>1. Gets(c, i, 1, m, 9, n1) /\ 9 + Len(y) = q /\ q = Len(c) + 1
    BY <1>1, <1>6
  <2> HIDE DEF q, y
  <2> QED BY <1>9, <2>1, GetsOn DEF StoreInv
<1>11. t.x = s.x /\ t.csr = s.csr /\ t.ram = Stored(s.ram, base, n, v)
  <2> HIDE DEF v
  <2> QED BY <1>2, <1>7, PartlyKeeps DEF Several
<1>12. t.ram = Stored(s.ram, Base(i, s), BytesOf(i.f), s.x[i.rs2])
  BY <1>11 DEF base, n
<1> HIDE DEF q, t, v, y
<1> QED BY <1>1, <1>10, <1>11, <1>12, StoreEnds DEF c, m

------------------------------------------------------------------------------
(* Shifts by a register: a loop that counts down to zero.                  *)
LEMMA PowerAtLeast == \A k \in 0 .. Width : 2 ^ k >= k + 1
<1> DEFINE S == {k \in Nat : k <= Width => 2 ^ k >= k + 1}
<1>1. 0 \in S
  <2>1. 2 ^ 0 = 1
    OBVIOUS
  <2> QED BY <2>1
<1>2. ASSUME NEW k \in Nat, k \in S PROVE k + 1 \in S
  <2> SUFFICES ASSUME k + 1 <= Width PROVE 2 ^ (k + 1) >= (k + 1) + 1
    OBVIOUS
  <2>1. k \in 0 .. Width /\ k <= Width /\ k + 1 \in 0 .. Width
    BY WidthAssumption
  <2> DEFINE x == 2 ^ k
             y == 2 ^ (k + 1)
  <2>2. y = 2 * x /\ x \in Nat /\ x >= k + 1
    BY <1>2, <2>1, PowerAssumption, PowerIs
  <2> HIDE DEF x, y
  <2>3. y >= (k + 1) + 1
    BY <2>2
  <2> QED BY <2>3 DEF y
<1>3. Nat \subseteq S
  <2> HIDE DEF S
  <2> QED BY <1>1, <1>2, AllNaturals
<1> QED BY <1>3, WidthAssumption

\* A shift amount is no negative word.
LEMMA LaneIs ==
  ASSUME NEW k \in W!Lanes
  PROVE  k \in Nat /\ k \in W!Cell /\ ~(k >= W!SignBit) /\ W!Wrap(k - 0) = k
<1>1. k \in 0 .. Width - 1 /\ Width - 1 \in 0 .. Width
  BY CellIs, WidthAssumption
<1> DEFINE x == 2 ^ (Width - 1)
<1>2. x >= Width /\ W!SignBit = x /\ x \in Nat
  <2>1. x >= (Width - 1) + 1
    BY <1>1, PowerAtLeast
  <2>2. x \in Nat
    BY <1>1, PowerIs
  <2> HIDE DEF x
  <2>3. x >= Width
    BY <2>1, <2>2, WidthAssumption
  <2> QED BY <2>2, <2>3 DEF W!SignBit, x
<1>3. k \in W!Cell
  <2> HIDE DEF x
  <2>1. x \in W!Cell
    BY <1>2, WordIs DEF W!Cell
  <2> QED BY <1>1, <1>2, <2>1, WordIs, WidthAssumption DEF W!Cell
<1>4. W!Wrap(k - 0) = k
  <2>1. k \in 0 .. W!Modulus - 1 /\ W!Modulus \in Nat \ {0} /\ k - 0 = k
    BY <1>1, <1>3, WordIs DEF W!Cell
  <2> DEFINE M == W!Modulus
  <2> HIDE DEF M
  <2>2. k % M = k
    BY <2>1 DEF M
  <2> QED BY <2>1, <2>2 DEF W!Wrap, M
<1> HIDE DEF x
<1> QED BY <1>1, <1>2, <1>3, <1>4, WidthAssumption

\* The mask leaves the amount that a shift is by.
LEMMA ShiftAmount ==
  ASSUME NEW v \in W!Cell
  PROVE  /\ W!Select(0, v, Width - 1) = v % Width /\ v % Width \in W!Lanes
         /\ \A u, f : f \in Shifts => Alu(f, u, v) = Alu(f, u, v % Width)
<1>1. PICK n \in 0 .. Width : Width = 2 ^ n
  BY GuestAssumption
<1>2. W!Select(0, v, Width - 1) = v % Width
  <2> DEFINE k == Width - 1
  <2>1. k = 2 ^ n - 1
    BY <1>1
  <2> HIDE DEF k
  <2>2. W!Select(0, v, k) = v % 2 ^ n
    BY <2>1, WordMask
  <2> QED BY <1>1, <2>2 DEF k
<1>3. v \in Nat /\ Width \in Nat \ {0}
  BY CellIs, WordIs, WidthAssumption DEF W!Cell
<1>4. v % Width \in 0 .. Width - 1 /\ (v % Width) % Width = v % Width
  BY <1>3
<1>5. Power(v % Width) = Power(v)
  BY <1>4 DEF Power
<1>6. ASSUME NEW u, NEW f, f \in Shifts PROVE Alu(f, u, v) = Alu(f, u, v % Width)
  <2> DEFINE w == v % Width
  <2>1. Power(w) = Power(v)
    BY <1>5
  <2> HIDE DEF w
  <2>2. Alu(f, u, v) = Alu(f, u, w)
    BY <1>6, <2>1 DEF Alu, Shifts
  <2> QED BY <2>2 DEF w
<1> QED BY <1>2, <1>4, <1>6, CellIs

\* The block begins with the amount in D and the value in E.
Both(D, E) == {D, E}
LEMMA RunsAmount ==
  ASSUME NEW c, NEW i, NEW m, Good(i, m), NEW a \in NamesOf(i), NEW b \in NamesOf(i),
         NEW D \in Writable(i), NEW E \in Writable(i), a # D, D # E, D # Z, D # M1F,
         Holds(c, 1, mov32(b, D)), Holds(c, 2, mux32op(Z, D, M1F)), Holds(c, 3, mov32(a, E))
  PROVE  \E o : /\ Gets(c, i, 1, m, 4, o) /\ Alike(i, m, o, Both(D, E))
                /\ o[D] = m[b] % Width /\ o[D] \in W!Lanes /\ o[E] = m[a]
<1> DEFINE n1 == Written(m, D, m[b])
           n2 == Written(n1, D, W!Select(n1[Z], n1[D], n1[M1F]))
           n3 == Written(n2, E, n2[a])
<1>1. /\ Z \in NamesOf(i) /\ M1F \in NamesOf(i) /\ D \in NamesOf(i) /\ E \in NamesOf(i)
      /\ m[Z] = 0 /\ m[M1F] = Width - 1 /\ m[b] \in W!Cell
  BY LowAre, MemoryCells, MemoryValues, PoolValues, GoodTyped DEF Writable, NamesOf
<1>2. Gets(c, i, 1, m, 1, m)
  BY GetsItself
<1>3. Gets(c, i, 1, m, 2, n1)
  <2>1. Gets(c, i, 1, m, 1 + 1, n1)
    BY <1>1, <1>2, MoveOn
  <2> QED BY <2>1
<1>4. n1[D] = m[b] /\ \A x \in NamesOf(i) : x # D => n1[x] = m[x]
  BY <1>1, <1>2, WrittenAfter
<1> HIDE DEF n1
<1>5. Gets(c, i, 1, m, 3, n2)
  <2>1. Gets(c, i, 1, m, 2 + 1, n2)
    BY <1>1, <1>3, MuxOn
  <2> QED BY <2>1
<1>6. n2[D] = m[b] % Width /\ \A x \in NamesOf(i) : x # D => n2[x] = m[x]
  <2>1. n2[D] = W!Select(n1[Z], n1[D], n1[M1F]) /\ \A x \in NamesOf(i) : x # D => n2[x] = n1[x]
    BY <1>1, <1>3, WrittenAfter
  <2>2. n1[Z] = 0 /\ n1[D] = m[b] /\ n1[M1F] = Width - 1
    BY <1>1, <1>4
  <2> DEFINE v == m[b]
  <2>3. v \in W!Cell
    BY <1>1
  <2> HIDE DEF v, n2
  <2>4. W!Select(0, v, Width - 1) = v % Width
    BY <2>3, ShiftAmount
  <2> QED BY <1>4, <2>1, <2>2, <2>4 DEF v
<1> HIDE DEF n2
<1>7. Gets(c, i, 1, m, 4, n3)
  <2>1. Gets(c, i, 1, m, 3 + 1, n3)
    BY <1>5, MoveOn
  <2> QED BY <2>1
<1>8. n3[E] = m[a] /\ \A x \in NamesOf(i) : x # E => n3[x] = n2[x]
  <2>1. n3[E] = n2[a] /\ \A x \in NamesOf(i) : x # E => n3[x] = n2[x]
    BY <1>1, <1>5, WrittenAfter
  <2> QED BY <1>6, <2>1
<1> HIDE DEF n3
<1>9. m[b] % Width \in W!Lanes
  BY <1>1, ShiftAmount
<1>10. n3[D] = m[b] % Width
  BY <1>1, <1>6, <1>8
<1>11. Alike(i, m, n3, Both(D, E))
  BY <1>6, <1>8 DEF Alike, Both
<1> QED BY <1>7, <1>8, <1>9, <1>10, <1>11

\* The test at the head of the loop.
LEMMA RunsTest ==
  ASSUME NEW c, NEW i, NEW p, NEW m, Good(i, m), NEW D \in Writable(i), m[D] \in W!Lanes,
         NEW L, Holds(c, p, leq32(Z, D, L))
  PROVE  \E o : /\ Alike(i, m, o, {}) /\ (m[D] = 0 => Gets(c, i, p, m, To(p, L), o))
                /\ (m[D] # 0 => Gets(c, i, p, m, p + 1, o))
<1> DEFINE v == m[D]
           o == Written(m, D, v)
<1>1. D \in NamesOf(i) /\ Z \in NamesOf(i) /\ m[Z] = 0 /\ Gets(c, i, p, m, p, m)
  BY LowAre, PoolValues, GetsItself DEF Writable
<1>2. v \in Nat /\ ~(v >= W!SignBit) /\ W!Wrap(v - 0) = v
  <2> HIDE DEF v
  <2>1. v \in W!Lanes
    BY DEF v
  <2> QED BY <2>1, LaneIs
<1>3. v = W!Wrap(m[D] - m[Z])
  BY <1>1, <1>2
<1>4. Alike(i, m, o, {})
  BY <1>1, WrittenAfter DEF Alike
<1> HIDE DEF v, o
<1>5. Gets(c, i, p, m, Branches(v, p, L), o)
  BY <1>1, <1>3, LeqOn DEF o
<1>6. (v = 0 => Branches(v, p, L) = To(p, L)) /\ (v # 0 => Branches(v, p, L) = p + 1)
  BY <1>2 DEF Branches
<1> QED BY <1>4, <1>5, <1>6 DEF v

\* And its end: one less, and back to the head.
Only(D) == {D}

LEMMA RunsBack ==
  ASSUME NEW c, NEW i, NEW p, NEW m, Good(i, m), NEW D \in Writable(i), m[D] \in W!Lanes, m[D] # 0,
         Holds(c, p, subnb32(ONE, D)), NEW q, q = p + 1, NEW L, Holds(c, q, jump32(L))
  PROVE  \E o : Gets(c, i, p, m, To(q, L), o) /\ Alike(i, m, o, Only(D)) /\ o[D] = m[D] - 1
<1> DEFINE v == m[D]
           w == v - 1
           o == Written(m, D, w)
<1>1. D \in NamesOf(i) /\ ONE \in NamesOf(i) /\ m[ONE] = 1 /\ Gets(c, i, p, m, p, m)
  BY LowAre, PoolValues, GetsItself DEF Writable
<1>2. W!Wrap(v - 1) = w
  <2>1. v \in 0 .. Width - 1 /\ v # 0
    BY CellIs
  <2> HIDE DEF v
  <2>2. w \in W!Lanes
    BY <2>1, CellIs, WidthAssumption
  <2>3. W!Wrap(w - 0) = w /\ w \in Nat
    BY <2>2, LaneIs
  <2>4. w - 0 = w
    BY <2>3
  <2> QED BY <2>3, <2>4
<1>3. o[D] = w /\ Alike(i, m, o, Only(D))
  BY <1>1, WrittenAfter DEF Alike, Only
<1>4. W!Wrap(m[D] - m[ONE]) = w
  BY <1>1, <1>2
<1> HIDE DEF v, w, o
<1>5. Gets(c, i, p, m, p + 1, o)
  BY <1>1, <1>4, SubOn DEF o
<1>6. Gets(c, i, p, m, To(q, L), o)
  BY <1>5, JumpOn
<1> QED BY <1>3, <1>6 DEF v, w

\* One place more.
LEMMA ShiftAgain ==
  ASSUME NEW v \in W!Cell, NEW f \in Shifts, NEW j \in Nat, j + 1 \in W!Lanes
  PROVE  Alu(f, v, j) \in W!Cell /\ Alu(f, Alu(f, v, j), 1) = Alu(f, v, j + 1)
<1> DEFINE one == 1
           k == j + 1
<1>1. W!Lanes = 0 .. Width - 1 /\ one \in W!Lanes /\ j \in W!Lanes /\ k \in W!Lanes /\ Width \in Nat
      /\ j \in 0 .. Width - 1 /\ Width > 1
  BY CellIs, WidthAssumption
<1>2. CASE f = "SLL"
  <2> DEFINE w == Doubled(v, j)
  <2>1. w \in W!Cell /\ Alu("ADD", w, w) = Doubled(v, k)
    BY <1>1, DoubledIs
  <2>2. Alu("SLL", v, j) = w /\ Alu("SLL", v, k) = Doubled(v, k)
    <3>1. Power(j) = 2 ^ j /\ Power(k) = 2 ^ k
      BY <1>1, PowerBelow
    <3> QED BY <3>1 DEF Alu, Doubled
  <2>3. Alu("SLL", w, one) = Alu("ADD", w, w)
    <3>1. Power(one) = 2
      <4>1. one % Width = 1 /\ 2 ^ 1 = 2
        BY <1>1
      <4> QED BY <4>1 DEF Power
    <3>2. w * 2 = w + w
      <4>1. w \in Nat
        BY <2>1, WordIs DEF W!Cell
      <4> HIDE DEF w
      <4> QED BY <4>1
    <3> QED BY <3>1, <3>2 DEF Alu
  <2> HIDE DEF w, k
  <2> QED BY <1>2, <2>1, <2>2, <2>3 DEF k
<1>3. CASE f = "SRL"
  <2> DEFINE w == Alu("SRL", v, j)
  <2>1. w \in W!Cell /\ W!Bits(w) = {d \in W!Lanes : d + j \in W!Bits(v)}
    BY <1>1, SrlBits
  <2> HIDE DEF w, one, k
  <2>2. Alu("SRL", w, one) \in W!Cell /\ W!Bits(Alu("SRL", w, one)) = {d \in W!Lanes : d + one \in W!Bits(w)}
    BY <1>1, <2>1, SrlBits
  <2>3. Alu("SRL", v, k) \in W!Cell /\ W!Bits(Alu("SRL", v, k)) = {d \in W!Lanes : d + k \in W!Bits(v)}
    BY <1>1, SrlBits
  <2>4. ASSUME NEW d \in W!Lanes PROVE d + one \in W!Bits(w) <=> d + k \in W!Bits(v)
    <3>1. (d + one) + j = d + k
      BY <1>1 DEF one, k
    <3>2. W!Bits(v) \subseteq W!Lanes
      BY CellOfBits
    <3>3. d + k \in W!Lanes => d + one \in W!Lanes
      BY <1>1 DEF one, k
    <3> QED BY <2>1, <3>1, <3>2, <3>3
  <2>5. Alu("SRL", w, one) = Alu("SRL", v, k)
    BY <2>2, <2>3, <2>4, SameBits
  <2> QED BY <1>3, <2>1, <2>5 DEF w, one, k
<1>4. CASE f = "SRA"
  <2> DEFINE w == Alu("SRA", v, j)
  <2>1. w \in W!Cell /\ W!Bits(w) = {d \in W!Lanes : Least(d + j, Top) \in W!Bits(v)}
    BY <1>1, SraBits
  <2> HIDE DEF w, one, k
  <2>2. /\ Alu("SRA", w, one) \in W!Cell
        /\ W!Bits(Alu("SRA", w, one)) = {d \in W!Lanes : Least(d + one, Top) \in W!Bits(w)}
    BY <1>1, <2>1, SraBits
  <2>3. /\ Alu("SRA", v, k) \in W!Cell
        /\ W!Bits(Alu("SRA", v, k)) = {d \in W!Lanes : Least(d + k, Top) \in W!Bits(v)}
    BY <1>1, SraBits
  <2>4. ASSUME NEW d \in W!Lanes PROVE Least(d + one, Top) \in W!Bits(w) <=> Least(d + k, Top) \in W!Bits(v)
    <3>1. Least(d + one, Top) \in W!Lanes /\ Least(Least(d + one, Top) + j, Top) = Least(d + k, Top)
      BY <1>1 DEF one, k, Least, Top
    <3> QED BY <2>1, <3>1
  <2>5. Alu("SRA", w, one) = Alu("SRA", v, k)
    BY <2>2, <2>3, <2>4, SameBits
  <2> QED BY <1>4, <2>1, <2>5 DEF w, one, k
<1> QED BY <1>2, <1>3, <1>4 DEF Shifts

(* The body of the loop, at 5, shifts E by one and leaves D alone.         *)
ShiftsOnce(c, i, s, f, D, E, e) ==
  \A l : Has(i, l, s) =>
    \E o : Gets(c, i, 5, l, 5 + e, o) /\ Has(i, o, s) /\ o[D] = l[D] /\ o[E] = Alu(f, l[E], 1)

\* A memory of the loop's head after j rounds.
LoopInv(i, s, f, D, E, v, k, l, j) == Has(i, l, s) /\ l[D] = k - j /\ l[E] = Alu(f, v, j)

LEMMA RunsRound ==
  ASSUME NEW c, NEW i, NEW s, NEW f \in Shifts, NEW D \in Writable(i), NEW E \in Writable(i), D # E,
         Private(Only(D)), NEW e \in Nat, ShiftsOnce(c, i, s, f, D, E, e), NEW L, NEW B,
         Holds(c, 4, leq32(Z, D, L)), Holds(c, 5 + e, subnb32(ONE, D)),
         Holds(c, 6 + e, jump32(B)), To(6 + e, B) = 4,
         NEW v \in W!Cell, NEW k \in W!Lanes, NEW j \in Nat, j + 1 <= k,
         NEW l, LoopInv(i, s, f, D, E, v, k, l, j)
  PROVE  \E o : Gets(c, i, 4, l, 4, o) /\ LoopInv(i, s, f, D, E, v, k, o, j + 1)
<1> DEFINE b == 5 + e
           q == 6 + e
           a == 4
<1>1. D \in NamesOf(i) /\ E \in NamesOf(i) /\ Has(i, l, s) /\ Good(i, l)
  BY DEF Writable, LoopInv, Has
<1>2. k \in 0 .. Width - 1 /\ j + 1 \in W!Lanes /\ k - j \in W!Lanes /\ k - j # 0
      /\ (k - j) - 1 = k - (j + 1) /\ b \in Nat /\ q = b + 1 /\ a + 1 = 5
  BY CellIs, WidthAssumption
<1>3. l[D] = k - j /\ l[E] = Alu(f, v, j)
  BY DEF LoopInv
<1>4. Holds(c, a, leq32(Z, D, L)) /\ Holds(c, b, subnb32(ONE, D)) /\ Holds(c, q, jump32(B)) /\ To(q, B) = a
  OBVIOUS
<1> HIDE DEF b, q, a
<1>5. PICK o1 : Gets(c, i, a, l, a + 1, o1) /\ Alike(i, l, o1, {})
  <2>1. l[D] \in W!Lanes /\ l[D] # 0
    BY <1>2, <1>3
  <2> QED BY <1>1, <1>4, <2>1, RunsTest
<1>6. Has(i, o1, s) /\ o1[D] = l[D] /\ o1[E] = l[E]
  <2>1. Private({})
    BY ScratchIsPrivate
  <2> QED BY <1>1, <1>5, <2>1, HasStill DEF Gets, Alike
<1>7. PICK o2 : Gets(c, i, 5, o1, b, o2) /\ Has(i, o2, s) /\ o2[D] = o1[D] /\ o2[E] = Alu(f, o1[E], 1)
  BY <1>6 DEF ShiftsOnce, b
<1>8. PICK o3 : Gets(c, i, b, o2, To(q, B), o3) /\ Alike(i, o2, o3, Only(D)) /\ o3[D] = o2[D] - 1
  <2>1. o2[D] \in W!Lanes /\ o2[D] # 0 /\ Good(i, o2)
    BY <1>2, <1>3, <1>6, <1>7 DEF Has
  <2>2. Holds(c, b, subnb32(ONE, D)) /\ q = b + 1 /\ Holds(c, q, jump32(B))
    BY <1>2, <1>4
  <2>3. \E o : Gets(c, i, b, o2, To(q, B), o) /\ Alike(i, o2, o, Only(D)) /\ o[D] = o2[D] - 1
    BY <2>1, <2>2, RunsBack
  <2> QED BY <2>3
<1>9. Gets(c, i, a, l, a, o3)
  <2>1. Gets(c, i, a, l, b, o2)
    BY <1>2, <1>5, <1>7, GetsOn
  <2> QED BY <1>4, <1>8, <2>1, GetsOn
<1>10. Has(i, o3, s)
  BY <1>7, <1>8, HasStill DEF Gets
<1>11. o3[D] = k - (j + 1) /\ o3[E] = Alu(f, v, j + 1)
  <2>1. o3[E] = o2[E]
    BY <1>1, <1>8 DEF Alike, Only
  <2>2. Alu(f, Alu(f, v, j), 1) = Alu(f, v, j + 1)
    BY <1>2, ShiftAgain
  <2>3. o3[D] = (k - j) - 1
    BY <1>3, <1>6, <1>7, <1>8
  <2> QED BY <1>2, <1>3, <1>6, <1>7, <2>1, <2>2, <2>3
<1> QED BY <1>9, <1>10, <1>11 DEF LoopInv, a

\* As often as the amount says.
LEMMA RunsCounted ==
  ASSUME NEW c, NEW i, NEW s, NEW f \in Shifts, NEW D \in Writable(i), NEW E \in Writable(i), D # E,
         Private(Only(D)), NEW e \in Nat, ShiftsOnce(c, i, s, f, D, E, e), NEW L, NEW B,
         Holds(c, 4, leq32(Z, D, L)), To(4, L) = 7 + e, Holds(c, 5 + e, subnb32(ONE, D)),
         Holds(c, 6 + e, jump32(B)), To(6 + e, B) = 4,
         NEW m, Has(i, m, s), m[D] \in W!Lanes, m[E] \in W!Cell
  PROVE  \E o : Gets(c, i, 4, m, 7 + e, o) /\ Has(i, o, s) /\ o[E] = Alu(f, m[E], m[D])
<1> DEFINE v == m[E]
           k == m[D]
           q == [j \in Nat |-> 4]
           R == [j \in Nat |-> {l \in Memories(i) : LoopInv(i, s, f, D, E, v, k, l, j)}]
           z == 7 + e
<1>1. v \in W!Cell /\ k \in W!Lanes /\ k \in Nat
  BY CellIs, WidthAssumption
<1>2. \A l : Has(i, l, s) => Good(i, l) /\ l \in Memories(i)
  BY DEF Has, Good, Memories
<1>3. LoopInv(i, s, f, D, E, v, k, m, 0)
  <2>1. k - 0 = k
    BY <1>1
  <2>2. Alu(f, v, 0) = v
    <3> HIDE DEF v
    <3> QED BY <1>1, ShiftByNone
  <2> QED BY <2>1, <2>2 DEF LoopInv
<1> HIDE DEF v, k
<1>4. Good(i, m) /\ m \in R[0]
  BY <1>2, <1>3
<1>5. ASSUME NEW j \in Nat, j + 1 <= k, NEW l \in R[j], Good(i, l)
      PROVE  \E o \in R[j + 1] : Gets(c, i, q[j], l, q[j + 1], o)
  <2>1. LoopInv(i, s, f, D, E, v, k, l, j) /\ q[j] = 4 /\ q[j + 1] = 4
    BY <1>5
  <2>2. PICK o : Gets(c, i, 4, l, 4, o) /\ LoopInv(i, s, f, D, E, v, k, o, j + 1)
    <3> HIDE DEF q, R, z
    <3> QED BY <1>1, <1>5, <2>1, RunsRound
  <2>3. o \in R[j + 1]
    BY <1>2, <2>2 DEF LoopInv
  <2> QED BY <2>1, <2>2, <2>3
<1>6. PICK l \in R[k] : Gets(c, i, q[0], m, q[k], l)
  <2> HIDE DEF q, R
  <2> QED BY <1>1, <1>4, <1>5, RunsAgain
<1>7. Gets(c, i, 4, m, 4, l) /\ Has(i, l, s) /\ l[D] = 0 /\ l[E] = Alu(f, v, k)
  BY <1>1, <1>6 DEF LoopInv
<1> DEFINE a == 4
<1>8. Good(i, l) /\ Holds(c, a, leq32(Z, D, L)) /\ To(a, L) = z /\ l[D] = 0 /\ l[D] \in W!Lanes
      /\ E \in NamesOf(i)
  BY <1>2, <1>7, CellIs, WidthAssumption DEF Writable
<1> HIDE DEF a, q, R, z
<1>9. PICK o : Alike(i, l, o, {}) /\ Gets(c, i, a, l, z, o)
  <2>1. PICK o : Alike(i, l, o, {}) /\ (l[D] = 0 => Gets(c, i, a, l, To(a, L), o))
    BY <1>8, RunsTest
  <2> QED BY <1>8, <2>1
<1>10. Has(i, o, s) /\ o[E] = l[E]
  <2>1. Private({})
    BY ScratchIsPrivate
  <2> QED BY <1>7, <1>8, <1>9, <2>1, HasStill DEF Gets, Alike
<1>11. Gets(c, i, a, m, z, o)
  BY <1>7, <1>9, GetsOn DEF a
<1> QED BY <1>7, <1>10, <1>11 DEF a, z, v, k

\* The block around the body.
Counted(a, b, D, E, L, g, B, d) ==
  mov32(b, D) \o mux32op(Z, D, M1F) \o mov32(a, E) \o leq32(Z, D, L) \o g
  \o subnb32(ONE, D) \o jump32(B) \o mov32(E, d)

LEMMA CountedIs ==
  ASSUME NEW a, NEW b, NEW D, NEW E, NEW L, NEW g, NEW B, NEW d, NEW e \in Nat, e <= 8000, Sized(g, e),
         NEW c, c = Counted(a, b, D, E, L, g, B, d)
  PROVE  /\ Short(c) /\ (7 + e) + 1 = Len(c) + 1
         /\ Holds(c, 1, mov32(b, D)) /\ Holds(c, 2, mux32op(Z, D, M1F)) /\ Holds(c, 3, mov32(a, E))
         /\ Holds(c, 4, leq32(Z, D, L)) /\ Holds(c, 5, g) /\ Holds(c, 5 + e, subnb32(ONE, D))
         /\ Holds(c, 6 + e, jump32(B)) /\ Holds(c, 7 + e, mov32(E, d))
<1> DEFINE s1 == mov32(b, D)
           s2 == mux32op(Z, D, M1F)
           s3 == mov32(a, E)
           s4 == leq32(Z, D, L)
           s6 == subnb32(ONE, D)
           s7 == jump32(B)
           s8 == mov32(E, d)
           u == s1 \o s2 \o s3 \o s4
           w == u \o g \o s6 \o s7
           y == w \o s8
           four == 4
           one == 1
           k == four + e + one + one
<1>1. Single(s1) /\ Single(s2) /\ Single(s3) /\ Single(s4)
  BY EmittersAreSingle
<1>2. Sized(s6, one) /\ Sized(s7, one) /\ Sized(s8, one)
  BY SizesAre
<1>3. c = y
  BY DEF Counted
<1> HIDE DEF s1, s2, s3, s4, s6, s7, s8
<1>4. /\ Sized(u, four)
      /\ \A x, p : Holds(x, p, u) =>
           Holds(x, p, s1) /\ Holds(x, p + 1, s2) /\ Holds(x, p + 2, s3) /\ Holds(x, p + 3, s4)
  BY <1>1, Row4 DEF Sized
<1>5. k = 6 + e /\ four + e + one = 5 + e /\ four + e = 4 + e /\ four = 4 /\ one = 1
  OBVIOUS
<1> HIDE DEF u, four, one, k
<1>6. /\ Sized(w, k)
      /\ \A x, p : Holds(x, p, w) =>
           /\ Holds(x, p, u) /\ Holds(x, p + four, g)
           /\ Holds(x, p + (four + e), s6) /\ Holds(x, p + (four + e + one), s7)
  <2> DEFINE h == e
  <2>1. Sized(u, four) /\ Sized(g, h) /\ Sized(s6, one) /\ Sized(s7, one)
    BY <1>2, <1>4
  <2> HIDE DEF w, y, h
  <2>2. LET q == u \o g \o s6 \o s7
        IN  /\ Sized(q, four + h + one + one)
            /\ \A x, p : Holds(x, p, q) =>
                 /\ Holds(x, p, u) /\ Holds(x, p + four, g)
                 /\ Holds(x, p + (four + h), s6) /\ Holds(x, p + (four + h + one), s7)
    BY ONLY <2>1, RowOfFour
  <2> QED BY <2>2 DEF k, w, h
<1> HIDE DEF w
<1>7. Sized(y, k + one)
  BY <1>2, <1>6, SizedJoin
<1>8. Piece(y)
  BY <1>7 DEF Sized
<1>9. Holds(c, one, y)
  BY <1>3, <1>5, <1>8, WholeIs
<1>10. Holds(c, one, w) /\ Holds(c, one + k, s8)
  BY <1>2, <1>6, <1>9, SizedSplit
<1>11. /\ Holds(c, one, u) /\ Holds(c, one + four, g)
       /\ Holds(c, one + (four + e), s6) /\ Holds(c, one + (four + e + one), s7)
  BY <1>6, <1>10
<1>12. Holds(c, one, s1) /\ Holds(c, one + 1, s2) /\ Holds(c, one + 2, s3) /\ Holds(c, one + 3, s4)
  BY <1>4, <1>11
<1>13. Len(c) = k + one
  BY <1>3, <1>7 DEF Sized
<1>14. one + 1 = 2 /\ one + 2 = 3 /\ one + 3 = 4 /\ one + four = 5 /\ one + (four + e) = 5 + e
       /\ one + (four + e + one) = 6 + e /\ one + k = 7 + e /\ k + one = 7 + e
  BY <1>5
<1>15. Short(c) /\ (7 + e) + 1 = Len(c) + 1
  BY <1>13, <1>14 DEF Short
<1>16. Holds(c, 1, s1) /\ Holds(c, 2, s2) /\ Holds(c, 3, s3) /\ Holds(c, 4, s4)
  BY <1>5, <1>12, <1>14
<1>17. Holds(c, 5, g) /\ Holds(c, 5 + e, s6) /\ Holds(c, 6 + e, s7) /\ Holds(c, 7 + e, s8)
  BY <1>10, <1>11, <1>14
<1> QED BY <1>15, <1>16, <1>17 DEF s1, s2, s3, s4, s6, s7, s8

(* The block of a register shift, when its body shifts by one.             *)
Counts(i, s, c, D, E, g, e, L, B) ==
  /\ D \in Writable(i) /\ E \in Writable(i) /\ D \in Scratch /\ E \in Scratch /\ D # E
  /\ e \in Nat /\ e <= 8000 /\ Sized(g, e) /\ L = e + 3 /\ B = -(e + 2)
  /\ c = emit_one32(i) /\ c = Counted(X(i.rs1), X(i.rs2), D, E, L, g, B, X(i.rd))
  /\ ShiftsOnce(c, i, s, i.f, D, E, e)

LEMMA MeansCounted ==
  ASSUME NEW i, Lowerable(i), i.kind = "op", i.f \in Shifts, i.rd # 0, NEW s \in GuestStates,
         NEW D, NEW E, NEW e, NEW g, NEW c, NEW L, NEW B, Counts(i, s, c, D, E, g, e, L, B)
  PROVE  Means(i, s)
<1>0. /\ D \in Writable(i) /\ E \in Writable(i) /\ D \in Scratch /\ E \in Scratch /\ D # E
      /\ e \in Nat /\ e <= 8000 /\ Sized(g, e) /\ L = e + 3 /\ B = -(e + 2)
      /\ c = emit_one32(i) /\ c = Counted(X(i.rs1), X(i.rs2), D, E, L, g, B, X(i.rd))
      /\ ShiftsOnce(c, i, s, i.f, D, E, e)
  BY DEF Counts
<1> DEFINE m == Image(i, s)
           a == X(i.rs1)
           b == X(i.rs2)
           r == 7 + e
           f == i.f
<1>1. i.rs1 \in Regs /\ i.rs2 \in Regs /\ f \in Shifts
  BY <1>0 DEF Lowerable
<1>2. a \in NamesOf(i) /\ b \in NamesOf(i) /\ a # D
  BY <1>0, <1>1, GuestCellsAre DEF Source, Scratch
<1>3. D # Z /\ D # M1F /\ Private(Only(D)) /\ Private(Both(D, E))
  BY <1>0, GuestCellsAre DEF Private, Scratch, Only, Both, Z, M1F, T0, T1, T2, SH1, SH2, OPERAND
<1>4. To(4, L) = r /\ To(6 + e, B) = 4
  BY <1>0 DEF To, HALT
<1>5. Has(i, m, s)
  BY <1>0, HasImage
<1>6. c = Counted(a, b, D, E, L, g, B, X(i.rd))
  BY <1>0
<1> HIDE DEF m, a, b, f
<1>7. /\ Short(c) /\ r + 1 = Len(c) + 1
      /\ Holds(c, 1, mov32(b, D)) /\ Holds(c, 2, mux32op(Z, D, M1F)) /\ Holds(c, 3, mov32(a, E))
      /\ Holds(c, 4, leq32(Z, D, L)) /\ Holds(c, 5, g) /\ Holds(c, 5 + e, subnb32(ONE, D))
      /\ Holds(c, 6 + e, jump32(B)) /\ Holds(c, 7 + e, mov32(E, X(i.rd)))
  BY <1>0, <1>6, CountedIs
<1>8. Good(i, m)
  BY <1>0, <1>5 DEF Has
<1>9. PICK n : /\ Gets(c, i, 1, m, 4, n) /\ Alike(i, m, n, Both(D, E))
               /\ n[D] = m[b] % Width /\ n[D] \in W!Lanes /\ n[E] = m[a]
  BY <1>0, <1>2, <1>3, <1>7, <1>8, RunsAmount
<1>10. Has(i, n, s)
  BY <1>0, <1>3, <1>5, <1>9, HasStill DEF Gets
<1>11. m[a] = s.x[i.rs1] /\ m[b] = s.x[i.rs2] /\ m[a] \in W!Cell /\ m[b] \in W!Cell
  BY <1>0, <1>1, <1>5 DEF Has, a, b, GuestStates
<1>12. PICK l : Gets(c, i, 4, n, r, l) /\ Has(i, l, s) /\ l[E] = Alu(f, n[E], n[D])
  <2>1. ShiftsOnce(c, i, s, f, D, E, e) /\ Has(i, n, s) /\ n[D] \in W!Lanes /\ n[E] \in W!Cell
    BY <1>0, <1>9, <1>10, <1>11 DEF f
  <2>2. \E o : Gets(c, i, 4, n, 7 + e, o) /\ Has(i, o, s) /\ o[E] = Alu(f, n[E], n[D])
    BY <1>0, <1>1, <1>3, <1>4, <1>7, <2>1, RunsCounted
  <2> QED BY <2>2
<1>13. Gets(c, i, 1, m, r, l)
  BY <1>0, <1>9, <1>12, GetsOn
<1>14. l[E] = Alu(f, s.x[i.rs1], s.x[i.rs2])
  <2> DEFINE u == m[a]
             v == m[b]
  <2>1. v \in W!Cell
    BY <1>0, <1>11
  <2> HIDE DEF u, v
  <2>2. Alu(f, u, v) = Alu(f, u, v % Width)
    BY <1>0, <1>1, <2>1, ShiftAmount
  <2> QED BY <1>9, <1>11, <1>12, <2>2 DEF u, v
<1>15. Execute(i, s) = Goes(s, Set(s.x, i.rd, l[E]), Following)
  BY <1>0, <1>14 DEF Execute, f
<1>16. Holds(c, r, mov32(E, X(i.rd))) /\ E \in NamesOf(i)
  BY <1>0, <1>7 DEF Writable
<1>17. Short(c) /\ r + 1 = Len(c) + 1 /\ Gets(c, i, 1, Image(i, s), r, l) /\ Has(i, l, s)
  BY <1>0, <1>7, <1>12, <1>13 DEF m
<1> HIDE DEF r
<1>18. /\ Lowerable(i) /\ i.rd # 0 /\ s \in GuestStates /\ c = emit_one32(i)
       /\ Short(c) /\ r + 1 = Len(c) + 1 /\ Gets(c, i, 1, Image(i, s), r, l) /\ Has(i, l, s)
       /\ E \in NamesOf(i) /\ Execute(i, s) = Goes(s, Set(s.x, i.rd, l[E]), Following)
       /\ Holds(c, r, mov32(E, X(i.rd)))
  BY <1>0, <1>15, <1>16, <1>17
<1> QED BY ONLY <1>18, RegEnds

LEMMA ShiftOnce == \A w \in W!Cell : Alu("SLL", w, 1) = Alu("ADD", w, w)
<1> SUFFICES ASSUME NEW w \in W!Cell PROVE Alu("SLL", w, 1) = Alu("ADD", w, w)
  OBVIOUS
<1>1. Power(1) = 2
  <2>1. 1 % Width = 1 /\ 2 ^ 1 = 2
    BY WidthAssumption
  <2> QED BY <2>1 DEF Power
<1>2. w * 2 = w + w
  <2>1. w \in Nat
    BY WordIs DEF W!Cell
  <2> QED BY <2>1
<1> QED BY <1>1, <1>2 DEF Alu

(* sll: the loop doubles T0.                                               *)
LEMMA DoublesOnce ==
  ASSUME NEW c, NEW i, NEW s, NEW e, e = 3, Holds(c, 5, AddBy(T0, T0, T1)), NEW f, f = "SLL"
  PROVE  ShiftsOnce(c, i, s, f, T2, T0, e)
<1> SUFFICES ASSUME NEW l, Has(i, l, s)
             PROVE  \E o : Gets(c, i, 5, l, 5 + e, o) /\ Has(i, o, s) /\ o[T2] = l[T2] /\ o[T0] = Alu(f, l[T0], 1)
  BY DEF ShiftsOnce
<1> DEFINE p == 5
<1>1. /\ T0 \in Writable(i) \ {T1} /\ T0 \in NamesOf(i) \ {T1} /\ T1 \in Low /\ T2 \in NamesOf(i)
      /\ T2 # T1 /\ T2 # T0 /\ Good(i, l) /\ Holds(c, p, AddBy(T0, T0, T1)) /\ p + 3 = 5 + e
  BY ScratchAre DEF Low, Writable, Has, T0, T1, T2
<1> HIDE DEF p
<1>2. PICK o : /\ Gets(c, i, p, l, p + 3, o) /\ Alike(i, l, o, Plus({T1}, T0))
               /\ o[T0] = Alu("ADD", l[T0], l[T0])
  BY <1>1, RunsAddBy
<1>3. Private(Plus({T1}, T0))
  BY GuestCellsAre DEF Private, Scratch, Plus
<1>4. Has(i, o, s)
  BY <1>2, <1>3, HasStill DEF Gets
<1>5. o[T2] = l[T2]
  BY <1>1, <1>2 DEF Alike, Plus
<1>6. l[T0] \in W!Cell
  BY <1>1, GoodTyped
<1>7. o[T0] = Alu(f, l[T0], 1)
  BY <1>2, <1>6, ShiftOnce
<1>8. Gets(c, i, 5, l, 5 + e, o)
  BY <1>1, <1>2 DEF p
<1> QED BY <1>4, <1>5, <1>7, <1>8

LEMMA MeansSll ==
  ASSUME NEW i, Lowerable(i), i.kind = "op", i.f = "SLL", i.rd # 0, NEW s \in GuestStates
  PROVE  Means(i, s)
<1> DEFINE c == emit_one32(i)
           g == AddBy(T0, T0, T1)
           e == 3
           L == e + 3
           B == -(e + 2)
           a == X(i.rs1)
           b == X(i.rs2)
           d == X(i.rd)
<1>1. c = shift_left_reg32(a, b, d)
  BY DEF emit_one32, emit_alu32
<1>2. dbl32(T0) = g /\ Sized(g, e)
  BY AddByIs DEF dbl32, AddBy, Sized
<1>3. c = Counted(a, b, T2, T0, L, g, B, d)
  <2>1. L = 6 /\ B = -5
    OBVIOUS
  <2> HIDE DEF g, L, B, c
  <2> QED BY <1>1, <1>2, <2>1 DEF shift_left_reg32, Counted
<1>4. e \in Nat /\ e <= 8000 /\ e = 3
  OBVIOUS
<1>5. T2 \in Writable(i) /\ T0 \in Writable(i) /\ T2 \in Scratch /\ T0 \in Scratch /\ T2 # T0 /\ i.f \in Shifts
  BY ScratchAre DEF Scratch, Shifts, T0, T2
<1> HIDE DEF c, g, e, L, B
<1>6. Holds(c, 5, g)
  BY <1>2, <1>3, <1>4, CountedIs
<1>7. ShiftsOnce(c, i, s, i.f, T2, T0, e)
  <2>1. Holds(c, 5, AddBy(T0, T0, T1))
    BY <1>6 DEF g
  <2> QED BY <1>4, <2>1, DoublesOnce
<1>8. /\ c = emit_one32(i) /\ c = Counted(X(i.rs1), X(i.rs2), T2, T0, L, g, B, X(i.rd))
      /\ L = e + 3 /\ B = -(e + 2)
  BY <1>3 DEF c, L, B
<1>9. Counts(i, s, c, T2, T0, g, e, L, B)
  BY <1>2, <1>4, <1>5, <1>7, <1>8 DEF Counts
<1> QED BY <1>5, <1>9, MeansCounted

(* srl and sra: the body is that of a shift by the immediate 1.            *)
OneRight(f) == emit_shift_imm32(f, SH1, SH1, 1)
OneMoved(f) == Moved(SH1, 1, Kept(f, 1))

LEMMA OneRightIs ==
  ASSUME NEW f \in Rights
  PROVE  \E h \in Nat : /\ h <= 7990 /\ Sized(OneRight(f), 2 + h) /\ Len(OneMoved(f)) = h
                        /\ \A c, p : Holds(c, p, OneRight(f)) =>
                             /\ Holds(c, p, mov32(Z, T0)) /\ Holds(c, p + 1, OneMoved(f))
                             /\ Holds(c, p + (1 + h), mov32(T0, SH1))
<1> DEFINE k == 1
           n == Kept(f, k)
           g == Moved(SH1, k, n)
           c0 == emit_shift_imm32(f, SH1, SH1, k)
           s1 == mov32(Z, T0)
           s3 == mov32(T0, SH1)
           one == 1
<1>1. n \in 0 .. Width /\ Width \in Nat /\ k \in W!Lanes /\ k # 0
  BY CellIs, WidthAssumption DEF Kept
<1>2. PICK h \in Nat : Sized(g, h) /\ h <= 7 * n
  <2>1. n \in Nat
    BY <1>1
  <2> HIDE DEF n, k
  <2>2. PICK off : /\ Offsets(off, Copies(SH1, T0, Sources(k, n), Targets(n), n)) /\ off[n + 1] <= 7 * n
                   /\ Len(Copies(SH1, T0, Sources(k, n), Targets(n), n)) = n
                   /\ Sized(Gather(SH1, T0, Sources(k, n), Targets(n), n), off[n + 1])
    BY <2>1, CopiesAre
  <2>3. off[n + 1] \in Nat
    BY <2>1, <2>2 DEF Offsets
  <2> QED BY <2>2, <2>3 DEF Moved
<1>3. c0 = s1 \o g \o s3
  <2> HIDE DEF k
  <2> QED BY <1>1, ShiftRightIs DEF n
<1>4. Sized(s1, one) /\ Sized(s3, one) /\ h <= 7990 /\ Len(g) = h
  BY <1>1, <1>2, SizesAre, RoomAssumption DEF MaxWidth, Sized
<1>5. OneRight(f) = c0 /\ OneMoved(f) = g
  BY DEF OneRight, OneMoved
<1>6. one = 1 /\ one + h + one = 2 + h
  BY <1>2
<1> HIDE DEF c0, s1, g, s3, n, one
<1>7. /\ Sized(c0, one + h + one)
      /\ \A c, p : Holds(c, p, c0) => Holds(c, p, s1) /\ Holds(c, p + one, g) /\ Holds(c, p + (one + h), s3)
  <2> DEFINE z == h
  <2>1. Sized(s1, one) /\ Sized(g, z) /\ Sized(s3, one)
    BY <1>2, <1>4
  <2> HIDE DEF z
  <2>2. LET x == s1 \o g \o s3
        IN  /\ Sized(x, one + z + one)
            /\ \A c, p : Holds(c, p, x) => Holds(c, p, s1) /\ Holds(c, p + one, g) /\ Holds(c, p + (one + z), s3)
    BY ONLY <2>1, RowOfThree
  <2> QED BY <1>3, <2>2 DEF z
<1> QED BY <1>2, <1>4, <1>5, <1>6, <1>7 DEF s1, s3

LEMMA RightOnce ==
  ASSUME NEW c, NEW i, NEW s, NEW f \in Rights, NEW h \in Nat, Len(OneMoved(f)) = h,
         Holds(c, 5, mov32(Z, T0)), Holds(c, 6, OneMoved(f)), Holds(c, 6 + h, mov32(T0, SH1)),
         NEW e, e = 2 + h
  PROVE  ShiftsOnce(c, i, s, f, SH2, SH1, e)
<1> SUFFICES ASSUME NEW l, Has(i, l, s)
             PROVE  \E o : Gets(c, i, 5, l, 5 + e, o) /\ Has(i, o, s) /\ o[SH2] = l[SH2] /\ o[SH1] = Alu(f, l[SH1], 1)
  BY DEF ShiftsOnce
<1> DEFINE k == 1
           n == Kept(f, k)
           a == SH1
           g == Moved(a, k, n)
           p == 5
           q == 6
           m1 == Written(l, T0, l[Z])
           r == q + h
<1>1. /\ T0 \in Writable(i) \ Low /\ T0 \in NamesOf(i) /\ Z \in NamesOf(i) /\ Good(i, l)
      /\ a \in NamesOf(i) \ Low /\ a # T0 /\ a \in Writable(i)
      /\ SH2 \in NamesOf(i) /\ SH2 \notin Plus(Low, T0) /\ SH2 # a
  BY ScratchAre, LowAre DEF Writable, Low, Plus, Has, T0, T1, T2, SH1, SH2
<1>2. k \in W!Lanes /\ g = OneMoved(f) /\ p + 1 = q /\ Len(g) = h
  BY CellIs, WidthAssumption DEF OneMoved
<1>3. Holds(c, p, mov32(Z, T0)) /\ Holds(c, q, g) /\ Holds(c, r, mov32(T0, a)) /\ r + 1 = 5 + e
  BY <1>2
<1>4. Gets(c, i, p, l, p, l)
  BY <1>1, GetsItself
<1> HIDE DEF k, n, a, g, p, q
<1>5. Gets(c, i, p, l, q, m1)
  <2>1. Gets(c, i, p, l, p + 1, m1)
    BY <1>1, <1>3, <1>4, MoveOn
  <2> QED BY <1>2, <2>1
<1>6. m1[T0] = 0 /\ m1[a] = l[a] /\ Alike(i, l, m1, Plus(Low, T0)) /\ Good(i, m1)
  <2>1. l[Z] = 0 /\ Good(i, m1)
    BY <1>1, <1>5, PoolValues DEF Gets
  <2>2. \A x \in NamesOf(i) : m1[x] = IF x = T0 THEN l[Z] ELSE l[x]
    BY <1>1, <1>4, WrittenAfter
  <2> QED BY <1>1, <2>1, <2>2 DEF Alike, Plus
<1> HIDE DEF m1
<1>7. PICK o1 : /\ Gets(c, i, q, m1, q + Len(g), o1) /\ Alike(i, m1, o1, Plus(Low, T0))
                /\ o1[T0] = Alu(f, m1[a], k)
  <2>1. Holds(c, q, Moved(a, k, n))
    BY <1>3 DEF g
  <2>2. n = Kept(f, k)
    BY DEF n
  <2> QED BY <1>1, <1>2, <1>6, <2>1, <2>2, RunsMoved DEF g
<1> DEFINE o2 == Written(o1, a, o1[T0])
<1>8. Gets(c, i, p, l, r, o1)
  BY <1>2, <1>5, <1>7, GetsOn DEF r
<1>9. Gets(c, i, p, l, r + 1, o2)
  BY <1>1, <1>3, <1>8, MoveOn
<1>10. o2[a] = o1[T0] /\ \A x \in NamesOf(i) : x # a => o2[x] = o1[x]
  BY <1>1, <1>8, WrittenAfter
<1> HIDE DEF o2
<1>11. Alike(i, l, o1, Plus(Low, T0))
  BY <1>6, <1>7, AlikeOn
<1>12. Alike(i, l, o2, Scratch)
  BY <1>10, <1>11 DEF Alike, Plus, Low, Scratch, a
<1>13. Has(i, o2, s)
  <2>1. Private(Scratch)
    BY ScratchWorks
  <2> QED BY <1>9, <1>12, <2>1, HasStill DEF Gets
<1>14. o2[SH2] = l[SH2] /\ o2[a] = Alu(f, l[a], k)
  BY <1>1, <1>6, <1>7, <1>10, <1>11 DEF Alike
<1>15. Gets(c, i, 5, l, 5 + e, o2)
  BY <1>3, <1>9 DEF p
<1>16. Has(i, o2, s) /\ o2[SH2] = l[SH2] /\ o2[SH1] = Alu(f, l[SH1], 1)
  BY <1>13, <1>14 DEF a, k
<1> QED BY <1>15, <1>16

LEMMA MeansRight ==
  ASSUME NEW i, Lowerable(i), i.kind = "op", i.f \in Rights, i.rd # 0, NEW s \in GuestStates
  PROVE  Means(i, s)
<1> DEFINE c == emit_one32(i)
           g == OneRight(i.f)
           a == X(i.rs1)
           b == X(i.rs2)
           d == X(i.rd)
<1>1. PICK h \in Nat : /\ h <= 7990 /\ Sized(g, 2 + h) /\ Len(OneMoved(i.f)) = h
                       /\ \A x, p : Holds(x, p, g) =>
                            /\ Holds(x, p, mov32(Z, T0)) /\ Holds(x, p + 1, OneMoved(i.f))
                            /\ Holds(x, p + (1 + h), mov32(T0, SH1))
  BY OneRightIs
<1> DEFINE e == 2 + h
           L == e + 3
           B == -(e + 2)
<1>2. c = shift_right_reg32(a, b, d, i.f = "SRA")
  BY DEF emit_one32, emit_alu32, Rights
<1>3. shift_right32(SH1, SH1, 1, i.f = "SRA") = g
  BY DEF OneRight, emit_shift_imm32, Rights
<1>4. Len(g) = e /\ e \in Nat /\ e <= 8000 /\ e = 2 + h
  BY <1>1 DEF Sized
<1> HIDE DEF g, e, c
<1>5. c = Counted(a, b, SH2, SH1, L, g, B, d)
  <2>1. Len(g) + 3 = L /\ -(Len(g) + 2) = B
    BY <1>4
  <2> HIDE DEF L, B
  <2> QED BY <1>2, <1>3, <2>1 DEF shift_right_reg32, Counted
<1> HIDE DEF L, B
<1>6. Sized(g, e)
  BY <1>1, <1>4
<1>7. Holds(c, 5, g)
  BY <1>4, <1>5, <1>6, CountedIs
<1>8. Holds(c, 5, mov32(Z, T0)) /\ Holds(c, 6, OneMoved(i.f)) /\ Holds(c, 6 + h, mov32(T0, SH1))
  <2>1. Holds(c, 5, mov32(Z, T0)) /\ Holds(c, 5 + 1, OneMoved(i.f)) /\ Holds(c, 5 + (1 + h), mov32(T0, SH1))
    BY <1>1, <1>7
  <2>2. 5 + 1 = 6 /\ 5 + (1 + h) = 6 + h
    OBVIOUS
  <2> QED BY <2>1, <2>2
<1>9. ShiftsOnce(c, i, s, i.f, SH2, SH1, e)
  <2>1. i.f \in Rights /\ h \in Nat /\ Len(OneMoved(i.f)) = h /\ e = 2 + h
    BY <1>1, <1>4
  <2> QED BY ONLY <1>8, <2>1, RightOnce
<1>10. SH2 \in Writable(i) /\ SH1 \in Writable(i) /\ SH2 \in Scratch /\ SH1 \in Scratch /\ SH2 # SH1
       /\ i.f \in Shifts
  BY ScratchAre DEF Scratch, Shifts, Rights, SH1, SH2
<1>11. c = emit_one32(i) /\ L = e + 3 /\ B = -(e + 2)
  BY DEF c, L, B
<1>12. Counts(i, s, c, SH2, SH1, g, e, L, B)
  BY <1>4, <1>5, <1>6, <1>9, <1>10, <1>11 DEF Counts
<1> QED BY <1>10, <1>12, MeansCounted

(* sll, srl and sra.                                                       *)
LEMMA MeansShift ==
  ASSUME NEW i, Lowerable(i), i.kind = "op", i.f \in Shifts, NEW s \in GuestStates
  PROVE  Means(i, s)
<1>1. CASE i.rd = 0
  <2>1. emit_one32(i) = <<>> /\ Execute(i, s) = Goes(s, s.x, Following)
    BY <1>1 DEF emit_one32, Execute, Set
  <2> QED BY <2>1, MeansNothing
<1>2. CASE i.rd # 0
  BY <1>2, MeansSll, MeansRight DEF Shifts, Rights
<1> QED BY <1>1, <1>2

------------------------------------------------------------------------------
(* write: a loop that puts a byte at a time.                               *)
LEMMA PutSized == \A a : Sized(put32(a), 1)
BY InsnIsSingle DEF put32, Sized, Single

WriteBody ==
  emit_addr32(SH1, Z) \o mov32(T0, OPERAND) \o put32(DEREF) \o addcell32(SH1, ONE) \o subnb32(ONE, SH2)

LEMMA WriteBodyIs ==
  /\ Sized(WriteBody, 14)
  /\ \A c, p : Holds(c, p, WriteBody) =>
       /\ Holds(c, p, emit_addr32(SH1, Z)) /\ Holds(c, p + 8, mov32(T0, OPERAND))
       /\ Holds(c, p + 9, put32(DEREF)) /\ Holds(c, p + 10, addcell32(SH1, ONE))
       /\ Holds(c, p + 13, subnb32(ONE, SH2))
<1> DEFINE s1 == emit_addr32(SH1, Z)
           s2 == mov32(T0, OPERAND)
           s3 == put32(DEREF)
           s4 == addcell32(SH1, ONE)
           s5 == subnb32(ONE, SH2)
           u == s1 \o s2 \o s3 \o s4
           w == u \o s5
           n1 == 8
           n2 == 1
           n4 == 3
           n == n1 + n2 + n2 + n4
<1>1. Sized(s1, n1) /\ Sized(s2, n2) /\ Sized(s3, n2) /\ Sized(s4, n4) /\ Sized(s5, n2)
  BY AddrIs, SizesAre, PutSized
<1>2. WriteBody = w
  BY DEF WriteBody
<1>3. n1 + n2 = 9 /\ n1 + n2 + n2 = 10 /\ n = 13 /\ n + n2 = 14 /\ n1 = 8
  OBVIOUS
<1> HIDE DEF s1, s2, s3, s4, s5, n1, n2, n4
<1>4. LET q == s1 \o s2 \o s3 \o s4
      IN  /\ Sized(q, n1 + n2 + n2 + n4)
          /\ \A x, p : Holds(x, p, q) =>
               /\ Holds(x, p, s1) /\ Holds(x, p + n1, s2)
               /\ Holds(x, p + (n1 + n2), s3) /\ Holds(x, p + (n1 + n2 + n2), s4)
  <2> HIDE DEF u, w, n
  <2> QED BY ONLY <1>1, RowOfFour
<1>5. Sized(u, n)
  BY <1>4
<1> HIDE DEF u, n
<1>6. Sized(w, n + n2)
  BY <1>1, <1>5, SizedJoin
<1>7. ASSUME NEW c, NEW p, Holds(c, p, w) PROVE Holds(c, p, u) /\ Holds(c, p + n, s5)
  BY <1>1, <1>5, <1>7, SizedSplit
<1> HIDE DEF w
<1>8. ASSUME NEW c, NEW p, Holds(c, p, w)
      PROVE  /\ Holds(c, p, s1) /\ Holds(c, p + 8, s2) /\ Holds(c, p + 9, s3) /\ Holds(c, p + 10, s4)
             /\ Holds(c, p + 13, s5)
  <2>1. Holds(c, p, u) /\ Holds(c, p + n, s5)
    BY <1>7, <1>8
  <2>2. /\ Holds(c, p, s1) /\ Holds(c, p + n1, s2) /\ Holds(c, p + (n1 + n2), s3)
        /\ Holds(c, p + (n1 + n2 + n2), s4)
    BY <1>4, <2>1 DEF u
  <2> QED BY <1>3, <2>1, <2>2
<1> QED BY <1>2, <1>3, <1>6, <1>8 DEF s1, s2, s3, s4, s5

LEMMA WriteIs ==
  LET c == emit_write_dyn32
  IN  /\ Len(c) = 22
      /\ Holds(c, 1, mov32(X(2), SH1)) /\ Holds(c, 2, mov32(X(3), SH2))
      /\ Holds(c, 3, eq32(SH2, Z, 20)) /\ Holds(c, 8, WriteBody) /\ Holds(c, 22, jump32(-19))
<1> DEFINE s1 == mov32(X(2), SH1)
           s2 == mov32(X(3), SH2)
           s3 == eq32(SH2, Z, 20)
           s5 == jump32(-19)
           b == WriteBody
           c == emit_write_dyn32
           u == s1 \o s2 \o s3
           y == u \o b \o s5
           n1 == 1
           n3 == 5
           n5 == 14
           n == n1 + n1 + n3
<1>1. Sized(s1, n1) /\ Sized(s2, n1) /\ Sized(s3, n3) /\ Sized(b, n5) /\ Sized(s5, n1)
  BY SizesAre, WriteBodyIs
<1>2. c = y
  <2>1. Len(b) = 14 /\ Len(b) + 6 = 20 /\ -(Len(b) + 5) = -19
    BY <1>1 DEF Sized
  <2> QED BY <2>1 DEF emit_write_dyn32, WriteBody
<1>3. n = 7 /\ n + n5 + n1 = 22 /\ n1 = 1 /\ n1 + n1 = 2 /\ n1 + (n1 + n1) = 3 /\ n1 + n = 8
      /\ n1 + (n + n5) = 22
  OBVIOUS
<1> HIDE DEF s1, s2, s3, s5, b, c, n1, n3, n5
<1>4. LET q == s1 \o s2 \o s3
      IN  /\ Sized(q, n1 + n1 + n3)
          /\ \A x, p : Holds(x, p, q) => Holds(x, p, s1) /\ Holds(x, p + n1, s2) /\ Holds(x, p + (n1 + n1), s3)
  <2> HIDE DEF u, y, n
  <2> QED BY ONLY <1>1, RowOfThree
<1>5. Sized(u, n)
  BY <1>4
<1> HIDE DEF u, n
<1>6. LET q == u \o b \o s5
      IN  /\ Sized(q, n + n5 + n1)
          /\ \A x, p : Holds(x, p, q) => Holds(x, p, u) /\ Holds(x, p + n, b) /\ Holds(x, p + (n + n5), s5)
  <2> HIDE DEF y
  <2> QED BY ONLY <1>1, <1>5, RowOfThree
<1>7. Sized(y, n + n5 + n1) /\ Piece(y)
  BY <1>6 DEF Sized
<1> HIDE DEF y
<1>8. Holds(c, n1, y)
  BY <1>2, <1>3, <1>7, WholeIs
<1>9. Holds(c, n1, u) /\ Holds(c, n1 + n, b) /\ Holds(c, n1 + (n + n5), s5)
  BY <1>6, <1>8 DEF y
<1>10. Holds(c, n1, s1) /\ Holds(c, n1 + n1, s2) /\ Holds(c, n1 + (n1 + n1), s3)
  BY <1>4, <1>9 DEF u
<1>11. Len(c) = 22
  BY <1>2, <1>3, <1>7 DEF Sized
<1> QED BY <1>3, <1>9, <1>10, <1>11 DEF s1, s2, s3, s5, b, c

------------------------------------------------------------------------------
(* What the loop of write puts, a byte a round.                            *)
Output(s, n) == [k \in 1 .. n |-> s.ram[At(s.x[2], k - 1)]]

LEMMA PutStep ==
  ASSUME NEW c, NEW p, NEW m, NEW a, NEW o, Holds(c, p, put32(a))
  PROVE  StepOf(c, St(m, p, o)) = St(m, p + 1, Append(o, m[CellIn(m, a)]))
<1> DEFINE r == [op |-> "put", a |-> a, b |-> Z, mask |-> Z, to |-> 1]
           s == St(m, p, o)
<1>1. p \in Nat \ {0} /\ Len(c) \in Nat /\ p <= Len(c) /\ c[p] = r
  BY HoldsInsn DEF put32, Insn
<1>2. ~(p > Len(c)) /\ r.op = "put" /\ r.a = a
  BY <1>1
<1>3. s.pc = p /\ s.mem = m /\ s.puts = o
  BY DEF St
<1> HIDE DEF r, s
<1>4. StepOf(c, s) = St(m, To(p, 1), Append(o, m[CellIn(m, a)]))
  BY <1>1, <1>2, <1>3 DEF StepOf
<1> QED BY <1>4, ToNext DEF s

LEMMA NextMod ==
  ASSUME NEW v \in Nat, NEW p \in Nat \ {0}
  PROVE  v % p \in 0 .. p - 1 /\ (v % p) % p = v % p /\ ((v % p) + 1) % p = (v + 1) % p
<1> DEFINE q == v \div p
           r == v % p
           y == v + 1
<1>1. q \in Nat /\ r \in 0 .. p - 1 /\ v = p * q + r /\ y \in Nat
  <2>1. v \div p \in Nat /\ v % p \in 0 .. p - 1 /\ v = p * (v \div p) + (v % p)
    BY ONLY DivMod, v \in Nat, p \in Nat \ {0}
  <2> QED BY <2>1
<1>2. r % p = r
  BY <1>1
<1>3. y \div p \in Nat /\ y = p * (y \div p) + (y % p)
  BY <1>1, DivMod
<1> HIDE DEF q, r, y
<1>4. CASE r + 1 < p
  <2> DEFINE k == r + 1
  <2>1. k \in Nat /\ k < p /\ k % p = k /\ y = p * q + k
    BY <1>1, <1>4 DEF y
  <2> HIDE DEF k
  <2>2. y \div p = q
    BY <1>1, <2>1, DivUnique
  <2>3. y % p = k
    <3> DEFINE a == p * q
               b == y % p
    <3>1. a \in Nat /\ y = a + k /\ y = a + b /\ b \in Int
      BY <1>1, <1>3, <2>1, <2>2
    <3> HIDE DEF a, b
    <3> QED BY <2>1, <3>1 DEF b
  <2> QED BY <1>1, <1>2, <2>1, <2>3 DEF r, y, k
<1>5. CASE r + 1 = p
  <2>1. p % p = 0
    OBVIOUS
  <2> DEFINE k == q + 1
             z == 0
  <2>2. k \in Nat /\ z \in Nat /\ z < p /\ y = p * k + z
    <3>1. p * k = p * q + p
      BY <1>1
    <3> QED BY <1>1, <1>5, <3>1 DEF y
  <2> HIDE DEF k, z
  <2>3. y \div p = k
    BY <2>2, DivUnique
  <2>4. y % p = z
    <3> DEFINE a == p * k
               b == y % p
    <3>1. a \in Nat /\ y = a + z /\ y = a + b /\ b \in Int
      BY <1>1, <1>3, <2>2, <2>3
    <3> HIDE DEF a, b
    <3> QED BY <2>2, <3>1 DEF b
  <2> QED BY <1>1, <1>2, <1>5, <2>1, <2>4 DEF r, y, z
<1> QED BY <1>1, <1>4, <1>5, <1>2 DEF r

LEMMA WrapAgain ==
  ASSUME NEW v \in Nat
  PROVE  /\ W!Wrap(v) \in W!Cell /\ At(W!Wrap(v), 0) = W!Wrap(v) % Window
         /\ Alu("ADD", W!Wrap(v), 1) = W!Wrap(v + 1)
<1> DEFINE M == W!Modulus
           w == v % M
<1>1. M \in Nat \ {0}
  BY WordIs
<1>2. W!Wrap(v) = w /\ W!Wrap(w + 0) = (w + 0) % M /\ W!Wrap(w + 1) = (w + 1) % M /\ W!Wrap(v + 1) = (v + 1) % M
  BY DEF W!Wrap
<1>3. W!Wrap(v) \in W!Cell
  BY WrapTyped
<1> HIDE DEF M
<1>4. w \in 0 .. M - 1 /\ w % M = w /\ (w + 1) % M = (v + 1) % M
  BY <1>1, NextMod
<1>5. w + 0 = w
  BY <1>4
<1> HIDE DEF w
<1> QED BY <1>2, <1>3, <1>4, <1>5 DEF Alu, At

\* Where the operand of the put comes from.
LEMMA WriteFetches ==
  ASSUME NEW i, NEW s, NEW c, c = emit_write_dyn32, NEW l, Has(i, l, s), l[SH2] # 0
  PROVE  \E n : /\ Gets(c, i, 3, l, 17, n) /\ Has(i, n, s) /\ n[SH1] = l[SH1] /\ n[SH2] = l[SH2]
                /\ InWindow(At(l[SH1], 0)) /\ CellIn(n, DEREF) = RAM(At(l[SH1], 0))
<1> DEFINE a == 3
           b == 8
           h == 16
           L == 20
           g == At(l[SH1], 0)
<1>1. /\ Holds(c, a, eq32(SH2, Z, L)) /\ Holds(c, b, emit_addr32(SH1, Z)) /\ Holds(c, h, mov32(T0, OPERAND))
      /\ a + 5 = b /\ b + 8 = h /\ h + 1 = 17 /\ L \in Int
  <2>1. Holds(c, 3, eq32(SH2, Z, 20)) /\ Holds(c, 8, WriteBody)
    BY WriteIs
  <2>2. Holds(c, 8, emit_addr32(SH1, Z)) /\ Holds(c, 8 + 8, mov32(T0, OPERAND))
    BY <2>1, WriteBodyIs
  <2> QED BY <2>1, <2>2
<1>2. /\ SH1 \in NamesOf(i) \ AddrTemps /\ SH2 \in NamesOf(i) \ AddrTemps /\ Z \in NamesOf(i) \ AddrTemps
      /\ Z \in Source(i) /\ SH1 \notin Temps /\ SH2 \notin Temps /\ SH1 # OPERAND /\ SH2 # OPERAND
  BY ScratchAre, ConstantsAre, MemoryCells DEF Source, AddrTemps, Temps
<1>3. Good(i, l) /\ l[Z] = 0
  BY PoolValues DEF Has
<1>4. Private(Temps) /\ Private(AddrTemps) /\ Private(Only(OPERAND))
  BY GuestCellsAre DEF Private, Temps, AddrTemps, Only, Scratch
<1> HIDE DEF a, b, h, L, g
<1>5. PICK n1 : Gets(c, i, a, l, b, n1) /\ Alike(i, l, n1, Temps)
  <2>1. PICK n : Gets(c, i, a, l, IF l[SH2] = l[Z] THEN To(a, L) ELSE a + 5, n) /\ Alike(i, l, n, Temps)
    BY <1>1, <1>2, <1>3, RunsEqual
  <2>2. (IF l[SH2] = l[Z] THEN To(a, L) ELSE a + 5) = b
    BY <1>1, <1>3
  <2> QED BY <2>1, <2>2
<1>6. Good(i, n1) /\ n1[Z] = 0 /\ n1[SH1] = l[SH1] /\ n1[SH2] = l[SH2] /\ Has(i, n1, s)
  BY <1>2, <1>4, <1>5, HasStill, PoolValues DEF Gets, Alike
<1>7. PICK n2 : /\ Gets(c, i, b, n1, b + 8, n2) /\ Alike(i, n1, n2, AddrTemps)
                /\ n2[T0] = RamBase + At(n1[SH1], n1[Z]) /\ InWindow(At(n1[SH1], n1[Z]))
  BY <1>1, <1>2, <1>6, RunsAddr
<1>8. /\ Gets(c, i, b, n1, h, n2) /\ Good(i, n2) /\ n2[SH1] = l[SH1] /\ n2[SH2] = l[SH2] /\ Has(i, n2, s)
      /\ n2[T0] = RamBase + g /\ InWindow(g)
  BY <1>1, <1>2, <1>4, <1>6, <1>7, HasStill DEF Gets, Alike, g
<1> DEFINE n3 == Through(n2, g)
<1>9. /\ Gets(c, i, h, n2, h + 1, n3) /\ CellIn(n3, DEREF) = RAM(g)
      /\ \A x \in NamesOf(i) : x # OPERAND => n3[x] = n2[x]
  BY <1>1, <1>8, PatchRuns
<1> HIDE DEF n3
<1>10. Alike(i, n2, n3, Only(OPERAND)) /\ Good(i, n3)
  BY <1>9 DEF Alike, Only, Gets
<1>11. n3[SH1] = l[SH1] /\ n3[SH2] = l[SH2] /\ Has(i, n3, s)
  BY <1>2, <1>4, <1>8, <1>9, <1>10, HasStill
<1>12. Gets(c, i, a, l, 17, n3)
  <2>1. Gets(c, i, a, l, h, n2)
    BY <1>5, <1>8, GetsOn
  <2>2. Gets(c, i, h, n2, 17, n3)
    BY <1>1, <1>9
  <2> QED BY <2>1, <2>2, GetsOn
<1> QED BY <1>8, <1>9, <1>11, <1>12 DEF a, g

\* On to the next byte, and back to the head of the loop.
LEMMA WriteAdvances ==
  ASSUME NEW i, NEW s, NEW c, c = emit_write_dyn32, NEW n, Has(i, n, s)
  PROVE  \E o : /\ Gets(c, i, 18, n, 3, o) /\ Has(i, o, s)
                /\ o[SH1] = Alu("ADD", n[SH1], 1) /\ o[SH2] = W!Wrap(n[SH2] - 1)
<1> DEFINE a == 18
           b == 21
           h == 22
           B == -19
<1>1. /\ Holds(c, a, addcell32(SH1, ONE)) /\ Holds(c, b, subnb32(ONE, SH2)) /\ Holds(c, h, jump32(B))
      /\ a + 3 = b /\ b + 1 = h /\ To(h, B) = 3
  <2>1. Holds(c, 22, jump32(-19)) /\ Holds(c, 8, WriteBody)
    BY WriteIs
  <2>2. Holds(c, 8 + 10, addcell32(SH1, ONE)) /\ Holds(c, 8 + 13, subnb32(ONE, SH2))
    BY <2>1, WriteBodyIs
  <2>3. To(22, -19) = 3
    BY DEF To, HALT
  <2> QED BY <2>1, <2>2, <2>3
<1>2. /\ SH1 \in Writable(i) \ {T2} /\ ONE \in NamesOf(i) \ {T2} /\ SH2 \in Writable(i) /\ SH1 \in NamesOf(i)
      /\ SH2 \in NamesOf(i) /\ SH1 # SH2 /\ SH2 # T2 /\ ONE \in NamesOf(i)
  BY ScratchAre, LowAre DEF Writable, Low
<1>3. Good(i, n) /\ n[ONE] = 1
  BY PoolValues DEF Has
<1>4. Private(Plus({T2}, SH1)) /\ Private(Only(SH2))
  BY GuestCellsAre DEF Private, Plus, Only, Scratch
<1> HIDE DEF a, b, h, B
<1>5. PICK n1 : /\ Gets(c, i, a, n, a + 3, n1) /\ Alike(i, n, n1, Plus({T2}, SH1))
                /\ n1[SH1] = Alu("ADD", n[SH1], n[ONE])
  BY <1>1, <1>2, <1>3, RunsSum
<1>6. /\ Gets(c, i, a, n, b, n1) /\ Good(i, n1) /\ n1[SH1] = Alu("ADD", n[SH1], 1) /\ n1[SH2] = n[SH2]
      /\ n1[ONE] = 1 /\ Has(i, n1, s)
  BY <1>1, <1>2, <1>3, <1>4, <1>5, HasStill, PoolValues DEF Gets, Alike, Plus
<1> DEFINE v == W!Wrap(n1[SH2] - n1[ONE])
           o == Written(n1, SH2, v)
<1>7. Gets(c, i, a, n, b + 1, o)
  BY <1>1, <1>2, <1>6, SubOn
<1>8. o[SH2] = v /\ \A x \in NamesOf(i) : x # SH2 => o[x] = n1[x]
  BY <1>2, <1>6, WrittenAfter
<1>9. v = W!Wrap(n[SH2] - 1)
  BY <1>6
<1> HIDE DEF v, o
<1>10. Gets(c, i, a, n, To(h, B), o)
  BY <1>1, <1>7, JumpOn
<1>11. Has(i, o, s) /\ o[SH1] = n1[SH1]
  <2>1. Good(i, o) /\ Alike(i, n1, o, Only(SH2))
    BY <1>7, <1>8 DEF Gets, Alike, Only
  <2> QED BY <1>2, <1>4, <1>6, <1>8, <2>1, HasStill
<1> QED BY <1>1, <1>6, <1>8, <1>9, <1>10, <1>11 DEF a

\* The memory at the head of the loop when n bytes are out.
WriteInv(i, s, l, n) == Has(i, l, s) /\ l[SH1] = W!Wrap(s.x[2] + n) /\ l[SH2] = s.x[3] - n

\* The registers that write takes its buffer and its count from.
Buffers == {2, 3} \subseteq Regs

LEMMA BufferIs ==
  ASSUME Buffers, NEW s \in GuestStates
  PROVE  s.x[2] \in W!Cell /\ s.x[3] \in W!Cell /\ s.x[2] \in Nat /\ s.x[3] \in Nat
<1>1. s.x \in [Regs -> W!Cell] /\ 2 \in Regs /\ 3 \in Regs
  BY DEF Buffers, GuestStates
<1>2. s.x[2] \in W!Cell /\ s.x[3] \in W!Cell
  BY <1>1
<1> QED BY <1>2, WordIs DEF W!Cell

LEMMA OutputGrows ==
  ASSUME NEW s, NEW n \in Nat
  PROVE  Output(s, n + 1) = Append(Output(s, n), s.ram[At(s.x[2], n)])
<1> DEFINE f(k) == s.ram[At(s.x[2], k - 1)]
           u == [k \in 1 .. n |-> f(k)]
           v == [k \in 1 .. n + 1 |-> f(k)]
<1>1. f(n + 1) = s.ram[At(s.x[2], n)]
  <2>1. (n + 1) - 1 = n
    OBVIOUS
  <2> QED BY <2>1
<1> HIDE DEF f
<1>2. v = Append(u, f(n + 1))
  OBVIOUS
<1> QED BY <1>1, <1>2 DEF Output, f

LEMMA WriteRound ==
  ASSUME Buffers, NEW i, NEW s, NEW c, c = emit_write_dyn32, NEW n \in Nat, NEW l, WriteInv(i, s, l, n),
         n + 1 <= s.x[3]
  PROVE  \E o : /\ Reaches(c, St(l, 3, Output(s, n)), St(o, 3, Output(s, n + 1)))
                /\ WriteInv(i, s, o, n + 1)
<1> DEFINE a == s.x[2]
           k == s.x[3]
           g == At(l[SH1], 0)
           u == Output(s, n)
           p == 3
           q == 17
           r == 18
<1>1. Has(i, l, s) /\ l[SH1] = W!Wrap(a + n) /\ l[SH2] = k - n
  BY DEF WriteInv
<1>2. a \in W!Cell /\ k \in W!Cell /\ a \in Nat /\ k \in Nat /\ a + n \in Nat
  BY <1>1, BufferIs DEF Has
<1>3. g = At(a, n) /\ Alu("ADD", l[SH1], 1) = W!Wrap(a + (n + 1))
  <2>1. At(W!Wrap(a + n), 0) = W!Wrap(a + n) % Window /\ Alu("ADD", W!Wrap(a + n), 1) = W!Wrap((a + n) + 1)
    BY <1>2, WrapAgain
  <2>2. (a + n) + 1 = a + (n + 1)
    BY <1>2
  <2> QED BY <1>1, <2>1, <2>2 DEF At
<1>4. l[SH2] # 0 /\ W!Wrap(l[SH2] - 1) = k - (n + 1)
  <2> DEFINE w == k - (n + 1)
             M == W!Modulus
  <2>1. l[SH2] # 0 /\ l[SH2] - 1 = w
    BY <1>1, <1>2
  <2>2. k \in 0 .. M - 1 /\ M \in Nat \ {0}
    BY <1>2, WordIs DEF W!Cell
  <2> HIDE DEF M
  <2>3. w \in 0 .. M - 1
    BY <1>2, <2>2
  <2> HIDE DEF w
  <2>4. w % M = w
    BY <2>2, <2>3
  <2> QED BY <2>1, <2>4 DEF w, M, W!Wrap
<1> HIDE DEF a, k, g, u, p, q, r
<1>5. PICK m : /\ Gets(c, i, 3, l, 17, m) /\ Has(i, m, s) /\ m[SH1] = l[SH1] /\ m[SH2] = l[SH2]
               /\ InWindow(At(l[SH1], 0)) /\ CellIn(m, DEREF) = RAM(At(l[SH1], 0))
  BY <1>1, <1>4, WriteFetches
<1> DEFINE t == Append(u, m[RAM(g)])
<1>6. StepOf(c, St(m, q, u)) = St(m, r, t)
  <2>1. Holds(c, q, put32(DEREF)) /\ q + 1 = r
    <3>1. Holds(c, 8, WriteBody)
      BY WriteIs
    <3>2. Holds(c, 8 + 9, put32(DEREF)) /\ 8 + 9 = 17 /\ 17 + 1 = 18
      BY <3>1, WriteBodyIs
    <3> QED BY <3>2 DEF q, r
  <2>2. CellIn(m, DEREF) = RAM(g)
    BY <1>5 DEF g
  <2> QED BY <2>1, <2>2, PutStep
<1>7. t = Output(s, n + 1)
  <2>1. m[RAM(g)] = s.ram[g]
    BY <1>5 DEF Has, InWindow, g
  <2> QED BY <1>3, <2>1, OutputGrows DEF u, a
<1> HIDE DEF t
<1>8. PICK o : /\ Gets(c, i, 18, m, 3, o) /\ Has(i, o, s)
               /\ o[SH1] = Alu("ADD", m[SH1], 1) /\ o[SH2] = W!Wrap(m[SH2] - 1)
  BY <1>5, WriteAdvances
<1>9. WriteInv(i, s, o, n + 1)
  BY <1>3, <1>4, <1>5, <1>8 DEF WriteInv, a, k
<1>10. Reaches(c, St(l, p, u), St(o, p, t))
  <2>1. Reaches(c, St(l, p, u), St(m, q, u))
    BY <1>5 DEF Gets, p, q
  <2>2. Reaches(c, St(l, p, u), St(m, r, t))
    BY <1>6, <2>1, ReachesStep
  <2>3. Reaches(c, St(m, r, t), St(o, p, t))
    BY <1>8 DEF Gets, p, r
  <2> QED BY <2>2, <2>3, ReachesOn
<1> QED BY <1>7, <1>9, <1>10 DEF p, u

LEMMA WriteLoops ==
  ASSUME Buffers, NEW i, NEW s, NEW c, c = emit_write_dyn32, NEW m, Reaches(c, m, m),
         NEW l, WriteInv(i, s, l, 0), Reaches(c, m, St(l, 3, <<>>))
  PROVE  \A n \in Nat : n <= s.x[3] =>
           \E o : WriteInv(i, s, o, n) /\ Reaches(c, m, St(o, 3, Output(s, n)))
<1> DEFINE S == {n \in Nat : n <= s.x[3] =>
                   \E o : WriteInv(i, s, o, n) /\ Reaches(c, m, St(o, 3, Output(s, n)))}
<1>1. 0 \in S
  <2>1. Output(s, 0) = <<>>
    BY DEF Output
  <2> QED BY <2>1
<1>2. ASSUME NEW n \in Nat, n \in S PROVE n + 1 \in S
  <2> SUFFICES ASSUME n + 1 <= s.x[3]
               PROVE  \E o : WriteInv(i, s, o, n + 1) /\ Reaches(c, m, St(o, 3, Output(s, n + 1)))
    OBVIOUS
  <2>1. s.x[3] \in Nat
    BY BufferIs DEF WriteInv, Has
  <2>2. PICK o : WriteInv(i, s, o, n) /\ Reaches(c, m, St(o, 3, Output(s, n)))
    BY <1>2, <2>1
  <2>3. PICK z : /\ Reaches(c, St(o, 3, Output(s, n)), St(z, 3, Output(s, n + 1)))
                 /\ WriteInv(i, s, z, n + 1)
    BY <2>2, WriteRound
  <2>4. Reaches(c, m, St(z, 3, Output(s, n + 1)))
    BY <2>2, <2>3, ReachesOn
  <2> QED BY <2>3, <2>4
<1> HIDE DEF S
<1>3. \A n \in Nat : n \in S
  BY <1>1, <1>2, AllNaturals
<1> QED BY <1>3 DEF S

(* write puts the bytes of its buffer, one after the other and round the   *)
(* end of the window, and leaves the guest as it was.                      *)
LEMMA MeansWrite ==
  ASSUME NEW i, Lowerable(i), i.kind = "write", NEW s \in GuestStates
  PROVE  Means(i, s)
<1> DEFINE c == emit_one32(i)
           m == Image(i, s)
           k == s.x[3]
           o == Output(s, k)
           p == 3
           L == 20
           q == 23
           x2 == X(2)
           x3 == X(3)
           u == 1
           v == 2
<1>1. i.rs1 = 2 /\ i.rs2 = 3 /\ Buffers
  BY DEF Lowerable, Buffers
<1>2. c = emit_write_dyn32
  BY DEF emit_one32
<1>3. Len(c) = 22 /\ Short(c) /\ q = Len(c) + 1
  BY <1>2, WriteIs DEF Short
<1>4. /\ Holds(c, u, mov32(x2, SH1)) /\ Holds(c, v, mov32(x3, SH2)) /\ Holds(c, p, eq32(SH2, Z, L))
      /\ u + 1 = v /\ v + 1 = p /\ To(p, L) = q /\ L \in Int
  <2>1. To(3, 20) = 23
    BY DEF To, HALT
  <2> QED BY <1>2, <2>1, WriteIs
<1>5. Has(i, m, s) /\ Good(i, m) /\ m[x2] = s.x[2] /\ m[x3] = k
  BY <1>1, HasImage DEF Has, Buffers
<1>6. /\ x2 \in NamesOf(i) /\ x3 \in NamesOf(i) /\ SH1 \in Writable(i) /\ SH2 \in Writable(i)
      /\ SH1 \in NamesOf(i) /\ SH2 \in NamesOf(i) /\ SH1 # SH2 /\ x3 # SH1 /\ Z \in Source(i)
  BY <1>1, GuestCellsAre, ScratchAre, ConstantsAre DEF Buffers, Writable, Scratch
<1>7. s.x[2] \in W!Cell /\ k \in Nat /\ s.x[2] + 0 = s.x[2] /\ k - 0 = k
  BY <1>1, BufferIs
<1>8. Private(Both(SH1, SH2)) /\ Private(Temps)
  BY GuestCellsAre, ScratchIsPrivate DEF Private, Both, Scratch
<1> HIDE DEF c, m, k, p, L, q, x2, x3, u, v
<1> DEFINE m1 == Written(m, SH1, m[x2])
           m2 == Written(m1, SH2, m1[x3])
<1>9. Gets(c, i, u, m, v, m1) /\ m1[SH1] = m[x2] /\ \A x \in NamesOf(i) : x # SH1 => m1[x] = m[x]
  <2>1. Gets(c, i, u, m, u, m)
    BY <1>5, GetsItself
  <2>2. Gets(c, i, u, m, u + 1, m1)
    BY <1>4, <1>6, <2>1, MoveOn
  <2>3. m1[SH1] = m[x2] /\ \A x \in NamesOf(i) : x # SH1 => m1[x] = m[x]
    BY <1>6, <2>1, WrittenAfter
  <2> QED BY <1>4, <2>2, <2>3
<1> HIDE DEF m1
<1>10. Gets(c, i, u, m, p, m2) /\ m2[SH2] = m1[x3] /\ \A x \in NamesOf(i) : x # SH2 => m2[x] = m1[x]
  <2>1. Gets(c, i, u, m, v + 1, m2)
    BY <1>4, <1>6, <1>9, MoveOn
  <2>2. m2[SH2] = m1[x3] /\ \A x \in NamesOf(i) : x # SH2 => m2[x] = m1[x]
    BY <1>6, <1>9, WrittenAfter
  <2> QED BY <1>4, <2>1, <2>2
<1> HIDE DEF m2
<1>11. WriteInv(i, s, m2, 0)
  <2>1. Alike(i, m, m2, Both(SH1, SH2)) /\ Good(i, m2)
    BY <1>9, <1>10 DEF Alike, Both, Gets
  <2>2. Has(i, m2, s)
    BY <1>5, <1>8, <2>1, HasStill
  <2>3. m2[SH1] = s.x[2] /\ m2[SH2] = k
    BY <1>5, <1>6, <1>9, <1>10
  <2>4. W!Wrap(s.x[2] + 0) = s.x[2]
    <3> DEFINE a == s.x[2]
    <3>1. a \in 0 .. W!Modulus - 1 /\ W!Modulus \in Nat \ {0} /\ a + 0 = a
      BY <1>7, WordIs DEF W!Cell
    <3> HIDE DEF a
    <3>2. a % W!Modulus = a
      BY <3>1
    <3> QED BY <3>1, <3>2 DEF a, W!Wrap
  <2> QED BY <1>7, <2>2, <2>3, <2>4 DEF WriteInv, k
<1> DEFINE b == St(m, u, <<>>)
<1>12. Reaches(c, b, St(m2, p, <<>>)) /\ Reaches(c, b, b)
  BY <1>10, ReachesItself DEF Gets
<1> HIDE DEF b, o
<1>13. PICK n : WriteInv(i, s, n, k) /\ Reaches(c, b, St(n, p, Output(s, k)))
  <2>1. \A j \in Nat : j <= s.x[3] =>
          \E z : WriteInv(i, s, z, j) /\ Reaches(c, b, St(z, 3, Output(s, j)))
    BY <1>1, <1>2, <1>11, <1>12, WriteLoops DEF p
  <2> QED BY <1>7, <2>1 DEF k, p
<1>14. Has(i, n, s) /\ n[SH2] = 0 /\ Good(i, n) /\ n[Z] = 0
  <2>1. Has(i, n, s) /\ n[SH2] = 0
    BY <1>7, <1>13 DEF WriteInv, k
  <2> QED BY <2>1, PoolValues DEF Has
<1>15. PICK z : Gets(c, i, p, n, q, z) /\ Alike(i, n, z, Temps)
  <2>1. PICK z : Gets(c, i, p, n, IF n[SH2] = n[Z] THEN To(p, L) ELSE p + 5, z) /\ Alike(i, n, z, Temps)
    BY <1>4, <1>6, <1>14, RunsEqual
  <2>2. (IF n[SH2] = n[Z] THEN To(p, L) ELSE p + 5) = q
    BY <1>4, <1>14
  <2> QED BY <2>1, <2>2
<1>16. Has(i, z, s) /\ Good(i, z)
  BY <1>8, <1>14, <1>15, HasStill DEF Gets
<1>17. Reaches(c, b, St(z, q, o))
  <2>1. Reaches(c, St(n, p, o), St(z, q, o))
    BY <1>15 DEF Gets
  <2> QED BY <1>13, <2>1, ReachesOn DEF o
<1>18. Shown(c, z, q, o) = Execute(i, s)
  <2>1. WhereIn(c, q) = Following
    BY <1>3, WhereFollows
  <2>2. s.x \in [Regs -> W!Cell] /\ s.ram \in [0 .. Window - 1 -> Byte] /\ s.csr \in [CsrNames -> W!Cell]
    BY DEF GuestStates
  <2>3. /\ [r \in Regs |-> z[X(r)]] = s.x
        /\ [j \in 0 .. Window - 1 |-> z[RAM(j)]] = s.ram
        /\ [j \in CsrNames |-> z[CSR(j)]] = s.csr
    BY <1>16, <2>2 DEF Has
  <2>4. Execute(i, s) = [Goes(s, s.x, Following) EXCEPT !.out = o]
    BY <1>1 DEF Execute, Output, o, k
  <2>5. Execute(i, s) = [x |-> s.x, ram |-> s.ram, csr |-> s.csr, out |-> o, at |-> Following]
    <3> DEFINE e == Goes(s, s.x, Following)
    <3>1. e = [x |-> s.x, ram |-> s.ram, csr |-> s.csr, out |-> <<>>, at |-> Following]
      BY DEF Goes
    <3> HIDE DEF e
    <3>2. [e EXCEPT !.out = o] = [x |-> s.x, ram |-> s.ram, csr |-> s.csr, out |-> o, at |-> Following]
      BY <3>1
    <3> QED BY <2>4, <3>2 DEF e
  <2> QED BY <2>1, <2>3, <2>5 DEF Shown
<1>19. q > Len(c)
  BY <1>3, WhereFollows
<1>20. \A j \in Constants(i) : z[j] = Pool(i)[j]
  BY <1>16 DEF Good
<1> QED BY <1>17, <1>18, <1>19, <1>20 DEF Means, Right, b, c, m, u

------------------------------------------------------------------------------
(* An indirect jump of which the image knows at most one target, or no     *)
(* indirect jump.                                                          *)
OneTarget(i) == i.kind = "jalr" => OneKnown(i)

LEMMA BlockMeans ==
  ASSUME NEW i, Lowerable(i), OneTarget(i), NEW s \in GuestStates, Within(i, s)
  PROVE  Means(i, s)
<1>1. CASE i.kind \in {"nop", "const", "mv", "jal", "exit"}
  BY <1>1, MeansNop, MeansConst, MeansMv, MeansJal, MeansExit
<1>2. CASE i.kind = "branch" /\ i.f \in Conditions
  BY <1>2, MeansBEQ, MeansBNE, MeansBLT, MeansBGE, MeansBLTU, MeansBGEU DEF Conditions
<1>3. CASE i.kind \in {"op", "opimm"} /\ i.f \in Alus
  BY <1>3, MeansOp, MeansOpImm
<1>4. CASE i.kind = "jalr"
  BY <1>4, MeansJalr DEF OneTarget
<1>5. CASE i.kind \in {"op", "opimm"} /\ i.f \in Shifts
  BY <1>5, MeansShift, MeansShiftImm
<1>6. CASE i.kind = "load"
  <2>1. (i.f = "B" \/ i.f = "H" \/ i.f = "W") /\ i.signed \in BOOLEAN
    BY <1>6 DEF Lowerable
  <2>2. CASE i.rd = 0
    BY <1>6, <2>2, MeansLoadNone
  <2>3. CASE i.rd # 0 /\ i.f = "B" /\ i.signed
    BY <1>6, <2>3, MeansLoadSignedByte
  <2>4. CASE i.rd # 0 /\ i.f = "B" /\ ~i.signed
    BY <1>6, <2>4, MeansLoadByte
  <2>5. CASE i.rd # 0 /\ (i.f = "H" \/ i.f = "W")
    BY <1>6, <2>5, MeansLoads
  <2> QED BY <2>1, <2>2, <2>3, <2>4, <2>5
<1>7. CASE i.kind = "store"
  <2>1. i.f = "B" \/ i.f = "H" \/ i.f = "W"
    BY <1>7 DEF Lowerable
  <2> QED BY <1>7, <2>1, MeansStoreByte, MeansStores
<1>8. CASE i.kind \in {"safepoint", "csr", "ret", "mret", "write"}
  BY <1>8, MeansSafepoint, MeansCsr, MeansRet, MeansMret, MeansWrite
<1>9. Decoded(i)
  BY DEF Lowerable
<1> QED BY <1>1, <1>2, <1>3, <1>4, <1>5, <1>6, <1>7, <1>8, <1>9 DEF Decoded

(* Where a block has got to, it has got to from its image.                 *)
Begun == /\ insn \in Insns /\ start \in Starts(insn)
         /\ Reaches(emit_one32(insn), St(Image(insn, start), 1, <<>>), St(mem, pc, puts))

LEMMA BegunHolds == BlockSpec => []Begun
<1>1. BlockInit => Begun
  <2> SUFFICES ASSUME BlockInit PROVE Begun
    OBVIOUS
  <2>1. St(Image(insn, start), 1, <<>>) = St(mem, pc, puts)
    BY DEF BlockInit
  <2> QED BY <2>1, ReachesItself DEF BlockInit, Begun
<1>2. Begun /\ [BlockNext]_blockVars => Begun'
  <2> SUFFICES ASSUME Begun, [BlockNext]_blockVars PROVE Begun'
    OBVIOUS
  <2>1. CASE BlockNext
    <3> DEFINE c == emit_one32(insn)
               s == St(Image(insn, start), 1, <<>>)
               t == St(mem, pc, puts)
    <3>1. insn' = insn /\ start' = start /\ St(mem', pc', puts') = StepOf(Code[insn], t)
      BY <2>1, BlockStep
    <3>2. Code[insn] = c /\ Reaches(c, s, t)
      BY DEF Begun, Code
    <3> HIDE DEF c, s, t
    <3>3. Reaches(c, s, St(mem', pc', puts'))
      BY <3>1, <3>2, ReachesStep
    <3>4. Reaches(emit_one32(insn'), St(Image(insn', start'), 1, <<>>), St(mem', pc', puts'))
      BY <3>1, <3>3 DEF c, s
    <3> QED BY <3>1, <3>4 DEF Begun
  <2>2. CASE UNCHANGED blockVars
    BY <2>2 DEF Begun, blockVars
  <2> QED BY <2>1, <2>2
<1> QED BY <1>1, <1>2, PTL DEF BlockSpec

(* ImplementsISA: whatever is in the scratch cells and however the         *)
(* registers alias, a block can only end in the guest state the ISA gives  *)
(* its instruction, with the constants as they were.  The exception is an  *)
(* indirect jump with several targets, whose block goes wrong.             *)
THEOREM BlockImplementsISA == BlockSpec => [](OneTarget(insn) => ImplementsISA)
<1>1. Begun => (OneTarget(insn) => ImplementsISA)
  <2> SUFFICES ASSUME Begun, OneTarget(insn), Ended
               PROVE  GuestNow = Execute(insn, start) /\ PoolIsConstant
    BY DEF ImplementsISA
  <2> DEFINE c == emit_one32(insn)
             s == St(Image(insn, start), 1, <<>>)
             t == St(mem, pc, puts)
  <2>1. Lowerable(insn) /\ start \in GuestStates /\ Within(insn, start)
    BY InsnAssumption DEF Begun
  <2>2. PICK n, q, o : /\ Reaches(c, s, St(n, q, o)) /\ q > Len(c)
                       /\ Right(insn, start, n, q, o)
    BY <2>1, BlockMeans DEF Means
  <2>3. Reaches(c, s, t) /\ pc > Len(c) /\ Code[insn] = c
    BY DEF Begun, Ended, Code
  <2>4. St(n, q, o) = t
    <3>1. t.pc = pc /\ St(n, q, o).pc = q
      BY DEF St
    <3> HIDE DEF c, s, t
    <3> QED BY <2>2, <2>3, <3>1, Deterministic
  <2>5. n = mem /\ q = pc /\ o = puts
    BY <2>4 DEF St
  <2>6. GuestNow = Shown(c, mem, pc, puts)
    <3>1. Where = WhereIn(c, pc)
      BY <2>3 DEF Where, WhereIn
    <3> QED BY <3>1 DEF GuestNow, Shown
  <2> QED BY <2>2, <2>5, <2>6 DEF Right, PoolIsConstant
<1> QED BY <1>1, BegunHolds, PTL

(* So an image in which every indirect jump has one target is translated   *)
(* right.                                                                  *)
THEOREM ImageImplementsISA ==
  ASSUME \A i \in Insns : OneTarget(i)
  PROVE  BlockSpec => []ImplementsISA
<1>1. Begun => OneTarget(insn)
  BY DEF Begun
<1>2. BlockSpec => [](OneTarget(insn) => ImplementsISA)
  BY BlockImplementsISA
<1> QED BY <1>1, <1>2, BegunHolds, PTL
==============================================================================
