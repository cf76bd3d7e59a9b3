-------------------------------- MODULE PageProofs ----------------------------
(***************************************************************************)
(* The page: class Forth's handling of output (Transcript) and the widget  *)
(* (EditorView), which are proved about one after the other.               *)
(*                                                                         *)
(* For any lines the user types, any number of them in flight and any cut  *)
(* of the output into turns: what user lines print, but for byte 13, is on *)
(* its way to the page in order, a rest withholds no text, and an error    *)
(* that no line was interpreted after is repaired at every rest.           *)
(* The invariant relates the image to what drain() would make of the whole *)
(* output buffer (Drained), so that neither a byte printed nor a turn ended*)
(* changes the side of the boot that the program is on.                    *)
(*                                                                         *)
(* For any lines, pastes and number of machines: what EditorView feeds a    *)
(* Forth is in order, whatever is typed, reset or unticked meanwhile.       *)
(***************************************************************************)
EXTENDS Transcript, EditorView, SequenceTheorems, WellFoundedInduction, TLAPS

------------------------------------------------------------------------------
(* Induction on the natural numbers, for a set of them.                    *)
LEMMA AllNaturals ==
  ASSUME NEW S, 0 \in S, \A n \in Nat : n \in S => n + 1 \in S
  PROVE  Nat \subseteq S
<1> SUFFICES ASSUME Nat \ S # {} PROVE FALSE
  OBVIOUS
<1>1. PICK m \in Nat \ S : \A k \in Nat \ S : ~(<<k, m>> \in OpToRel(<, Nat))
  BY NatLessThanWellFounded, WFMin, Zenon
<1>2. m - 1 \in Nat /\ m - 1 < m /\ (m - 1) + 1 = m
  <2>1. m # 0 /\ m \in Nat
    BY <1>1
  <2> QED BY <2>1
<1>3. m - 1 \notin S
  BY <1>1, <1>2
<1>4. <<m - 1, m>> \in OpToRel(<, Nat)
  BY <1>1, <1>2 DEF OpToRel
<1> QED BY <1>1, <1>2, <1>3, <1>4

(* d is what drain() has made of state s after each byte of q.             *)
Draining(d, s, q, k) ==
  d = [i \in 0 .. k |-> IF i = 0 THEN s ELSE DrainByte(d[i - 1], q[i])]

(* There is such a function for every number of bytes. *)
LEMMA DrainingExists ==
  ASSUME NEW s, NEW q
  PROVE  \A k \in Nat : \E d : Draining(d, s, q, k)
<1> DEFINE S == {k \in Nat : \E d : Draining(d, s, q, k)}
<1>1. 0 \in S
  <2>1. Draining([i \in 0 .. 0 |-> s], s, q, 0)
    BY DEF Draining
  <2> QED BY <2>1
<1>2. ASSUME NEW k \in Nat, k \in S PROVE k + 1 \in S
  <2>1. PICK d : Draining(d, s, q, k)
    BY <1>2
  <2> DEFINE e == [i \in 0 .. k + 1 |-> IF i = k + 1 THEN DrainByte(d[k], q[k + 1]) ELSE d[i]]
  <2>2. \A i \in 0 .. k : d[i] = IF i = 0 THEN s ELSE DrainByte(d[i - 1], q[i])
    BY <2>1 DEF Draining
  <2>3. \A i \in 0 .. k + 1 : e[i] = IF i = 0 THEN s ELSE DrainByte(e[i - 1], q[i])
    <3> SUFFICES ASSUME NEW i \in 0 .. k + 1
                 PROVE  e[i] = IF i = 0 THEN s ELSE DrainByte(e[i - 1], q[i])
      OBVIOUS
    <3>1. CASE i = 0
      BY <2>2, <3>1
    <3>2. CASE i = k + 1
      BY <3>2
    <3>3. CASE i # 0 /\ i # k + 1
      <4>1. i \in 0 .. k /\ i - 1 \in 0 .. k /\ i - 1 # k + 1
        BY <3>3
      <4> QED BY <2>2, <3>3, <4>1
    <3> QED BY <3>1, <3>2, <3>3
  <2>4. Draining(e, s, q, k + 1)
    <3>1. e = [i \in 0 .. k + 1 |-> e[i]]
      OBVIOUS
    <3> HIDE DEF e
    <3> QED BY <2>3, <3>1 DEF Draining
  <2> HIDE DEF e
  <2> QED BY <2>4
<1> HIDE DEF S
<1>3. Nat \subseteq S
  BY <1>1, <1>2, AllNaturals
<1> QED BY <1>3 DEF S

(* It depends on the bytes so far only.                                    *)
LEMMA DrainingAgrees ==
  ASSUME NEW s, NEW p, NEW q, NEW k \in Nat, NEW m \in Nat, k <= m,
         NEW d, NEW e, Draining(d, s, p, k), Draining(e, s, q, m), \A i \in 1 .. k : p[i] = q[i]
  PROVE  d[k] = e[k]
<1> DEFINE S == {n \in Nat : n <= k => d[n] = e[n]}
<1>1. /\ \A i \in 0 .. k : d[i] = IF i = 0 THEN s ELSE DrainByte(d[i - 1], p[i])
      /\ \A i \in 0 .. m : e[i] = IF i = 0 THEN s ELSE DrainByte(e[i - 1], q[i])
  BY DEF Draining
<1>2. 0 \in S
  BY <1>1
<1>3. ASSUME NEW n \in Nat, n \in S PROVE n + 1 \in S
  <2> SUFFICES ASSUME n + 1 <= k PROVE d[n + 1] = e[n + 1]
    OBVIOUS
  <2>1. n + 1 \in 0 .. k /\ n + 1 \in 0 .. m /\ n + 1 \in 1 .. k /\ (n + 1) - 1 = n /\ n + 1 # 0 /\ n <= k
    OBVIOUS
  <2>2. d[n] = e[n]
    BY <1>3, <2>1
  <2> QED BY <1>1, <2>1, <2>2
<1> HIDE DEF S
<1>4. Nat \subseteq S
  BY <1>2, <1>3, AllNaturals
<1> QED BY <1>4 DEF S

(* drain() of the bytes q from state s.                                    *)
DrainOf(s, q) ==
  LET d[i \in 0 .. Len(q)] ==
        IF i = 0 THEN s
        ELSE CHOOSE r \in {DrainByte(t, q[i]) : t \in {d[i - 1]}} : TRUE
  IN  d[Len(q)]

Before == [booting |-> booting, inFrame |-> inFrame, frame |-> frame,
           text |-> text, gotGraphics |-> gotGraphics]

(* drain() of out_buf, before a step and after it. *)
LEMMA DrainedIsDrainOf ==
  Drained = DrainOf(Before, out) /\ Drained' = DrainOf(Before', out')
BY DEF Drained, DrainOf, Before

(* The loop of drain() is the function that goes byte by byte. *)
LEMMA DrainOfIs ==
  ASSUME NEW s, NEW q, Len(q) \in Nat
  PROVE  \E d : Draining(d, s, q, Len(q)) /\ DrainOf(s, q) = d[Len(q)]
<1> DEFINE F(d) == [i \in 0 .. Len(q) |->
                      IF i = 0 THEN s
                      ELSE CHOOSE r \in {DrainByte(t, q[i]) : t \in {d[i - 1]}} : TRUE]
           D == CHOOSE d : d = F(d)
<1>1. \A x, b : (CHOOSE r \in {DrainByte(t, b) : t \in {x}} : TRUE) = DrainByte(x, b)
  <2> SUFFICES ASSUME NEW x, NEW b
               PROVE  (CHOOSE r \in {DrainByte(t, b) : t \in {x}} : TRUE) = DrainByte(x, b)
    OBVIOUS
  <2>1. {DrainByte(t, b) : t \in {x}} = {DrainByte(x, b)}
    OBVIOUS
  <2> HIDE DEF F, D
  <2> QED BY <2>1
<1>2. ASSUME NEW d PROVE F(d) = [i \in 0 .. Len(q) |-> IF i = 0 THEN s ELSE DrainByte(d[i - 1], q[i])]
  BY <1>1, Zenon
<1>3. \E d : d = F(d)
  <2>1. PICK d : Draining(d, s, q, Len(q))
    BY DrainingExists
  <2>2. d = F(d)
    <3> HIDE DEF F
    <3> QED BY <1>2, <2>1, Zenon DEF Draining
  <2> HIDE DEF F
  <2> QED BY <2>2
<1>4. D = F(D)
  <2> HIDE DEF F
  <2> QED BY <1>3
<1>5. Draining(D, s, q, Len(q))
  <2> HIDE DEF D, F
  <2> QED BY <1>2, <1>4 DEF Draining
<1>6. DrainOf(s, q) = D[Len(q)]
  BY Zenon DEF DrainOf
<1> QED BY <1>5, <1>6

(* No byte changes nothing. *)
LEMMA DrainNone ==
  ASSUME NEW s
  PROVE  DrainOf(s, <<>>) = s
<1>1. PICK d : Draining(d, s, <<>>, 0) /\ DrainOf(s, <<>>) = d[0]
  BY DrainOfIs
<1> QED BY <1>1 DEF Draining

(* One more byte is one more turn of the loop. *)
LEMMA DrainMore ==
  ASSUME NEW s, NEW q \in Seq(Symbols), NEW b \in Symbols
  PROVE  DrainOf(s, Append(q, b)) = DrainByte(DrainOf(s, q), b)
<1> DEFINE k == Len(q)
           p == Append(q, b)
<1>1. k \in Nat /\ Len(p) = k + 1 /\ p[k + 1] = b /\ \A i \in 1 .. k : q[i] = p[i]
  OBVIOUS
<1>2. PICK d : Draining(d, s, q, k) /\ DrainOf(s, q) = d[k]
  BY <1>1, DrainOfIs
<1>3. PICK e : Draining(e, s, p, k + 1) /\ DrainOf(s, p) = e[k + 1]
  <2> HIDE DEF p, k
  <2> QED BY <1>1, DrainOfIs
<1> HIDE DEF p, k
<1>4. d[k] = e[k]
  BY <1>1, <1>2, <1>3, DrainingAgrees
<1>5. e[k + 1] = DrainByte(e[k], b)
  BY <1>1, <1>3 DEF Draining
<1> QED BY <1>2, <1>3, <1>4, <1>5 DEF p

States == [booting : BOOLEAN, inFrame : BOOLEAN, frame : {"", "G", "garbled", "other"},
           text : Seq(Symbols), gotGraphics : BOOLEAN]

(* Concatenation of outputs is associative. *)
LEMMA Associates ==
  \A x, y, z \in Seq(Symbols) : (x \o y) \o z = x \o (y \o z)
BY ConcatAssociative

(* A byte at the end of what follows is a byte at the end. *)
LEMMA AppendAfter ==
  ASSUME NEW u \in Seq(Symbols), NEW v \in Seq(Symbols), NEW e \in Symbols
  PROVE  u \o Append(v, e) = Append(u \o v, e)
<1>1. <<e>> \in Seq(Symbols) /\ u \o v \in Seq(Symbols)
  OBVIOUS
<1>2. Append(v, e) = v \o <<e>> /\ Append(u \o v, e) = (u \o v) \o <<e>>
  BY <1>1, AppendIsConcat
<1>3. (u \o v) \o <<e>> = u \o (v \o <<e>>)
  BY <1>1, Associates, Zenon
<1> QED BY <1>2, <1>3

(* f is what Legible has made of q after each byte.                         *)
Spelling(f, q) ==
  f = [i \in 0 .. Len(q) |->
         IF i = 0 THEN <<>> ELSE IF q[i] = "cr" THEN f[i - 1] ELSE Append(f[i - 1], q[i])]

(* After boot and outside a frame, a byte is text or it is dropped. *)
LEMMA AfterBootByte ==
  ASSUME NEW s \in States, s.booting = FALSE, s.inFrame = FALSE, NEW b
  PROVE  DrainByte(s, b) = [s EXCEPT !.text = IF b = "cr" THEN s.text ELSE Append(s.text, b)]
<1>1. CASE b = "cr"
  BY <1>1 DEF DrainByte, States
<1>2. CASE b # "cr"
  BY <1>2 DEF DrainByte
<1> QED BY <1>1, <1>2

(* There is such a function: the text drain() makes of q after boot. *)
LEMMA SpellingExists ==
  ASSUME NEW q \in Seq(Symbols)
  PROVE  \E f : Spelling(f, q)
<1> DEFINE s == [booting |-> FALSE, inFrame |-> FALSE, frame |-> "", text |-> <<>>,
                 gotGraphics |-> FALSE]
           k == Len(q)
<1>1. s \in States /\ s.booting = FALSE /\ s.inFrame = FALSE /\ s.text = <<>>
  <2>1. <<>> \in Seq(Symbols)
    OBVIOUS
  <2> QED BY <2>1 DEF States
<1>2. k \in Nat /\ \A i \in 1 .. k : q[i] \in Symbols
  OBVIOUS
<1> HIDE DEF s, k
<1>3. PICK d : Draining(d, s, q, k)
  BY <1>2, DrainingExists
<1>4. \A i \in 0 .. k : d[i] = IF i = 0 THEN s ELSE DrainByte(d[i - 1], q[i])
  BY <1>3 DEF Draining
<1> DEFINE After(i) == d[i] \in States /\ d[i].booting = FALSE /\ d[i].inFrame = FALSE
           S == {i \in Nat : i <= k => After(i)}
<1>5. 0 \in S
  BY <1>1, <1>2, <1>4
<1>6. ASSUME NEW i \in Nat, i \in S PROVE i + 1 \in S
  <2> HIDE DEF After
  <2> SUFFICES ASSUME i + 1 <= k PROVE After(i + 1)
    OBVIOUS
  <2> USE DEF After
  <2>1. i + 1 \in 0 .. k /\ i + 1 \in 1 .. k /\ (i + 1) - 1 = i /\ i + 1 # 0 /\ i <= k
    BY <1>2
  <2>2. After(i) /\ d[i + 1] = DrainByte(d[i], q[i + 1]) /\ q[i + 1] \in Symbols
    BY <1>2, <1>4, <1>6, <2>1
  <2>3. d[i].text \in Seq(Symbols) /\ Append(d[i].text, q[i + 1]) \in Seq(Symbols)
    <3>1. d[i].text \in Seq(Symbols)
      BY <2>2 DEF States
    <3> QED BY <2>2, <3>1
  <2> DEFINE x == d[i]
             b == q[i + 1]
             u == IF b = "cr" THEN x.text ELSE Append(x.text, b)
  <2>4. d[i + 1] = [x EXCEPT !.text = u] /\ u \in Seq(Symbols) /\ x \in States
          /\ x.booting = FALSE /\ x.inFrame = FALSE
    BY <2>2, <2>3, AfterBootByte
  <2> HIDE DEF x, u
  <2> QED BY <2>4 DEF States
<1>7. Nat \subseteq S
  <2> HIDE DEF S
  <2> QED BY <1>5, <1>6, AllNaturals
<1>8. \A i \in 0 .. k : After(i)
  <2> HIDE DEF After
  <2> QED BY <1>2, <1>7
<1> HIDE DEF S
<1> DEFINE f == [i \in 0 .. k |-> d[i].text]
<1>9. ASSUME NEW i \in 0 .. k
      PROVE  f[i] = IF i = 0 THEN <<>> ELSE IF q[i] = "cr" THEN f[i - 1] ELSE Append(f[i - 1], q[i])
  <2>1. CASE i = 0
    BY <1>1, <1>4, <2>1
  <2>2. CASE i # 0
    <3>1. i - 1 \in 0 .. k /\ f[i - 1] = d[i - 1].text /\ f[i] = d[i].text /\ d[i] = DrainByte(d[i - 1], q[i])
      BY <1>2, <1>4, <2>2
    <3> DEFINE x == d[i - 1]
               u == IF q[i] = "cr" THEN x.text ELSE Append(x.text, q[i])
    <3>2. After(i - 1)
      BY <1>8, <3>1
    <3>3. d[i] = [x EXCEPT !.text = u] /\ x \in States
      BY <3>1, <3>2, AfterBootByte
    <3>4. d[i].text = u
      <4> HIDE DEF x, u
      <4> QED BY <3>3 DEF States
    <3> QED BY <2>2, <3>1, <3>4
  <2> QED BY <2>1, <2>2
<1>10. Spelling(f, q)
  <2>1. f = [i \in 0 .. k |-> f[i]]
    OBVIOUS
  <2> HIDE DEF f
  <2>2. f = [i \in 0 .. k |->
               IF i = 0 THEN <<>> ELSE IF q[i] = "cr" THEN f[i - 1] ELSE Append(f[i - 1], q[i])]
    BY <1>9, <2>1
  <2> QED BY <2>2 DEF Spelling, k
<1> HIDE DEF f
<1> QED BY <1>10

(* Legible goes byte by byte. *)
LEMMA LegibleIs ==
  ASSUME NEW q \in Seq(Symbols)
  PROVE  \E f : Spelling(f, q) /\ Legible(q) = f[Len(q)]
<1> DEFINE F(f) == [i \in 0 .. Len(q) |->
                      IF i = 0 THEN <<>>
                      ELSE IF q[i] = "cr" THEN f[i - 1] ELSE Append(f[i - 1], q[i])]
           D == CHOOSE f : f = F(f)
<1>1. \E f : f = F(f)
  BY SpellingExists DEF Spelling
<1>2. D = F(D)
  <2> HIDE DEF F
  <2> QED BY <1>1
<1>3. Spelling(D, q)
  <2> HIDE DEF D
  <2> QED BY <1>2 DEF Spelling
<1>4. Legible(q) = D[Len(q)]
  BY Zenon DEF Legible
<1> QED BY <1>3, <1>4

(* After boot and outside a frame, every byte but 13 is text.               *)
LEMMA AfterBoot ==
  ASSUME NEW s \in States, s.booting = FALSE, s.inFrame = FALSE,
         NEW q \in Seq(Symbols)
  PROVE  DrainOf(s, q) = [s EXCEPT !.text = s.text \o Legible(q)]
<1> DEFINE k == Len(q)
<1>1. k \in Nat /\ \A i \in 1 .. k : q[i] \in Symbols
  OBVIOUS
<1>2. PICK d : Draining(d, s, q, k) /\ DrainOf(s, q) = d[k]
  BY <1>1, DrainOfIs
<1>3. PICK f : Spelling(f, q) /\ Legible(q) = f[k]
  BY LegibleIs
<1>4. /\ \A i \in 0 .. k : d[i] = IF i = 0 THEN s ELSE DrainByte(d[i - 1], q[i])
      /\ \A i \in 0 .. k :
           f[i] = IF i = 0 THEN <<>> ELSE IF q[i] = "cr" THEN f[i - 1] ELSE Append(f[i - 1], q[i])
  BY <1>2, <1>3 DEF Draining, Spelling
<1> HIDE DEF k
<1> DEFINE Same(i) == f[i] \in Seq(Symbols) /\ d[i] = [s EXCEPT !.text = s.text \o f[i]]
           S == {i \in Nat : i <= k => Same(i)}
<1>5. 0 \in S
  <2>1. d[0] = s /\ f[0] = <<>> /\ <<>> \in Seq(Symbols)
    BY <1>1, <1>4
  <2>2. s.text \in Seq(Symbols) /\ s.text \o <<>> = s.text
    BY ConcatEmptySeq DEF States
  <2> QED BY <2>1, <2>2 DEF States
<1>6. ASSUME NEW i \in Nat, i \in S PROVE i + 1 \in S
  <2> HIDE DEF Same
  <2> SUFFICES ASSUME i + 1 <= k PROVE Same(i + 1)
    OBVIOUS
  <2> USE DEF Same
  <2>1. i + 1 \in 0 .. k /\ i + 1 \in 1 .. k /\ (i + 1) - 1 = i /\ i + 1 # 0 /\ i <= k
    BY <1>1
  <2> DEFINE b == q[i + 1]
             v == f[i]
  <2>2. /\ v \in Seq(Symbols) /\ d[i] = [s EXCEPT !.text = s.text \o v] /\ b \in Symbols
        /\ d[i + 1] = DrainByte(d[i], b)
        /\ f[i + 1] = IF b = "cr" THEN v ELSE Append(v, b)
    BY <1>1, <1>4, <1>6, <2>1
  <2> HIDE DEF b, v
  <2>3. s.text \in Seq(Symbols) /\ s.text \o v \in Seq(Symbols)
    <3>1. s.text \in Seq(Symbols)
      BY DEF States
    <3> QED BY <2>2, <3>1
  <2>4. d[i] \in States /\ d[i].booting = FALSE /\ d[i].inFrame = FALSE /\ d[i].text = s.text \o v
    BY <2>2, <2>3 DEF States
  <2>5. d[i + 1] = [d[i] EXCEPT !.text = IF b = "cr" THEN d[i].text ELSE Append(d[i].text, b)]
    BY <2>2, <2>4, AfterBootByte
  <2>6. CASE b = "cr"
    <3>1. f[i + 1] = v /\ d[i + 1] = [d[i] EXCEPT !.text = d[i].text]
      BY <2>2, <2>5, <2>6
    <3>2. d[i + 1] = d[i]
      BY <2>4, <3>1 DEF States
    <3> QED BY <2>2, <3>1, <3>2
  <2>7. CASE b # "cr"
    <3>1. f[i + 1] = Append(v, b) /\ f[i + 1] \in Seq(Symbols)
      BY <2>2, <2>7
    <3>2. Append(s.text \o v, b) = s.text \o Append(v, b)
      BY <2>2, <2>3, AppendAfter
    <3>3. d[i + 1] = [d[i] EXCEPT !.text = Append(s.text \o v, b)]
      BY <2>4, <2>5, <2>7
    <3>4. d[i + 1] = [s EXCEPT !.text = s.text \o f[i + 1]]
      BY <2>2, <3>1, <3>2, <3>3 DEF States
    <3> QED BY <3>1, <3>4
  <2> QED BY <2>6, <2>7
<1>7. Nat \subseteq S
  <2> HIDE DEF S
  <2> QED BY <1>5, <1>6, AllNaturals
<1>8. Same(k)
  <2> HIDE DEF Same
  <2>1. k \in Nat /\ k <= k
    BY <1>1
  <2> QED BY <1>7, <2>1
<1> QED BY <1>2, <1>3, <1>8 DEF k
------------------------------------------------------------------------------
(* The invariant. *)

(* Types. *)
Typed ==
  /\ lines \in Seq(AllLines) /\ todo \in Seq(Symbols) /\ out \in Seq(Symbols)
  /\ tail \in Seq(Symbols) /\ owed \in Seq(Symbols)
  /\ Before \in States /\ Drained \in States
  /\ broken \in BOOLEAN /\ reporter \in BOOLEAN /\ sawError \in BOOLEAN
  /\ js \in {"turn", "frame", "rest"}

(* What is still queued of the prelude, and then only what the user typed. *)
Ahead(p) ==
  /\ Len(lines) >= Len(p)
  /\ \A i \in DOMAIN lines : IF i <= Len(p) THEN lines[i] = p[i] ELSE lines[i] \in UserLines

(* drain() is booting and not inside a frame. *)
Plain == Drained.booting /\ ~Drained.inFrame

(* The boot, in the order of the prelude: define, install, announce.  Nothing
   of it is owed to the page, and the frame is told apart from the text. *)
Boots ==
  /\ owed = <<>> /\ js # "rest" /\ ~Drained.gotGraphics
  /\ \/ Plain /\ Ahead(PRELUDE) /\ current = "def" /\ todo = <<>>
     \/ Plain /\ Ahead(<<"install", "announce">>) /\ current = "def" /\ todo \in {<<"ok">>, <<>>}
     \/ Plain /\ Ahead(<<"announce">>) /\ current = "install" /\ todo = <<>> /\ reporter
     \/ /\ Ahead(<<>>) /\ current = "announce" /\ reporter
        /\ \/ Plain /\ todo = <<"start", "G", "end">>
           \/ Drained.inFrame /\ Drained.booting /\ Drained.frame = "" /\ todo = <<"G", "end">>
           \/ Drained.inFrame /\ Drained.booting /\ Drained.frame = "G" /\ todo = <<"end">>

(* The boot is over: the rest of the output is the user's, byte for byte. *)
Booted ==
  /\ \A i \in DOMAIN lines : lines[i] \in UserLines \cup {RECOVERY}
  /\ todo # <<>> => current \in UserLines
  /\ Drained.gotGraphics /\ ~Drained.booting /\ ~Drained.inFrame
  /\ owed = Drained.text

(* The frame that ends a good boot has been drained or is still to be. *)
Boot == ~broken => /\ Boots \/ Booted
                   /\ gotGraphics => ~booting /\ ~inFrame

(* After a good boot nothing is taken for a frame, with the prelude's words or
   without them. *)
Framed == Drained.gotGraphics => ~Drained.booting /\ ~Drained.inFrame

(* The reporter is out only while the report is being printed, half of it is in
   the tail, it has been seen, or "+ok" is on its way; or a line that did not
   throw has come after the error. *)
Mending ==
  \/ Overtaken
  \/ /\ js # "rest" /\ current = "bad"
     /\ \/ todo = REPORT
        \/ /\ todo = <<"err2">>
           /\ Len(tail \o Drained.text) > 0 /\ (tail \o Drained.text)[Len(tail \o Drained.text)] = "err1"
        \/ todo = <<>> /\ SawErrorNow
  \/ js # "rest" /\ lines # <<>> /\ lines[1] = RECOVERY

Repaired == ~broken /\ Booted => reporter \/ Mending

------------------------------------------------------------------------------
(* What the operators and the steps do. *)

(* A line is the user's or it is the driver's. *)
LEMMA LineKinds ==
  /\ UserLines \cap {"def", "install", "announce", RECOVERY} = {}
  /\ AllLines = UserLines \cup {"def", "install", "announce", RECOVERY}
<1>1. Range(PRELUDE) = {"def", "install", "announce"}
  BY DEF Range, PRELUDE
<1> QED BY <1>1, ParameterAssumption DEF AllLines, RECOVERY

(* ERROR_REPORT is matched by the last two symbols. *)
LEMMA Suffixed ==
  ASSUME NEW u \in Seq(Symbols)
  PROVE  IsSuffix(REPORT, u) <=> Len(u) >= 2 /\ u[Len(u) - 1] = "err1" /\ u[Len(u)] = "err2"
<1> DEFINE r == Reverse(REPORT)
           v == Reverse(u)
<1>1. r \in Seq(Symbols) /\ Len(r) = 2 /\ r[1] = "err2" /\ r[2] = "err1"
  BY DEF Reverse, REPORT, Symbols
<1>2. /\ v \in Seq(Symbols) /\ Len(v) = Len(u)
      /\ Len(u) >= 2 => v[1] = u[Len(u)] /\ v[2] = u[Len(u) - 1]
  BY DEF Reverse
<1> HIDE DEF r, v
<1>3. IsSuffix(REPORT, u) <=> Len(v) >= 2 /\ SubSeq(r, 1, 2) = SubSeq(v, 1, 2)
  <2>1. IsSuffix(REPORT, u) <=> Len(r) <= Len(v) /\ SubSeq(r, 1, Len(r)) = SubSeq(v, 1, Len(r))
    BY DEF IsSuffix, IsPrefix, r, v
  <2> QED BY <1>1, <1>2, <2>1
<1>4. ASSUME Len(v) >= 2 PROVE SubSeq(r, 1, 2) = SubSeq(v, 1, 2) <=> r[1] = v[1] /\ r[2] = v[2]
  <2>1. /\ SubSeq(r, 1, 2) \in Seq(Symbols) /\ Len(SubSeq(r, 1, 2)) = 2
        /\ SubSeq(r, 1, 2)[1] = r[1] /\ SubSeq(r, 1, 2)[2] = r[2]
    <3>1. r \in Seq(Symbols) /\ Len(r) >= 2
      BY <1>1
    <3> QED BY <3>1
  <2>2. /\ SubSeq(v, 1, 2) \in Seq(Symbols) /\ Len(SubSeq(v, 1, 2)) = 2
        /\ SubSeq(v, 1, 2)[1] = v[1] /\ SubSeq(v, 1, 2)[2] = v[2]
    BY <1>2, <1>4
  <2> DEFINE x == SubSeq(r, 1, 2)
             y == SubSeq(v, 1, 2)
  <2> HIDE DEF x, y
  <2>3. ASSUME r[1] = v[1], r[2] = v[2] PROVE x = y
    <3>1. \A i \in 1 .. Len(x) : x[i] = y[i]
      BY <2>1, <2>2, <2>3 DEF x, y
    <3> QED BY <2>1, <2>2, <3>1, SeqEqual DEF x, y
  <2> QED BY <2>1, <2>2, <2>3 DEF x, y
<1> QED BY <1>1, <1>2, <1>3, <1>4

(* The rolling tail keeps the last two symbols. *)
LEMMA LastTwo ==
  ASSUME NEW u \in Seq(Symbols)
  PROVE  /\ LastFew(u) \in Seq(Symbols)
         /\ Len(LastFew(u)) = IF Len(u) > 2 THEN 2 ELSE Len(u)
         /\ Len(u) > 0 => LastFew(u)[Len(LastFew(u))] = u[Len(u)]
         /\ Len(u) > 1 => LastFew(u)[Len(LastFew(u)) - 1] = u[Len(u) - 1]
<1>1. CASE Len(u) > 2
  <2>1. LastFew(u) = SubSeq(u, Len(u) - 1, Len(u))
    BY <1>1 DEF LastFew, ERROR_TAIL_KEEP
  <2> QED BY <1>1, <2>1
<1>2. CASE Len(u) <= 2
  <2>1. LastFew(u) = SubSeq(u, 1, Len(u))
    <3>1. ~(Len(u) > 2) /\ Len(u) \in Nat
      BY <1>2
    <3> QED BY <3>1 DEF LastFew, ERROR_TAIL_KEEP
  <2>2. SubSeq(u, 1, Len(u)) = u
    OBVIOUS
  <2> QED BY <1>2, <2>1, <2>2
<1> QED BY <1>1, <1>2

(* A step that leaves the buffer and the driver alone leaves alone what is drained. *)
LEMMA Kept ==
  ASSUME UNCHANGED <<out, driver>>
  PROVE  Drained' = Drained /\ Before' = Before
BY DrainedIsDrainOf DEF driver, Before

(* One byte printed is one byte more to drain. *)
LEMMA Printed ==
  ASSUME Typed, ImagePrints
  PROVE  /\ Head(todo) \in Symbols /\ todo # <<>> /\ Before' = Before
         /\ Drained' = DrainByte(Drained, Head(todo))
<1>1. Head(todo) \in Symbols /\ todo # <<>> /\ out' = Append(out, Head(todo)) /\ out \in Seq(Symbols)
  BY DEF Typed, ImagePrints
<1>2. Before' = Before
  BY DEF ImagePrints, driver, Before
<1>3. Drained' = DrainOf(Before, Append(out, Head(todo)))
  BY <1>1, <1>2, DrainedIsDrainOf
<1> QED BY <1>1, <1>2, <1>3, DrainMore, DrainedIsDrainOf

(* A turn drains the buffer and changes nothing else that drain() sees. *)
LEMMA Turned ==
  ASSUME DrainTurn, Typed
  PROVE  /\ Drained' = Before'
         /\ Drained'.booting = booting' /\ Drained'.inFrame = Drained.inFrame
         /\ Drained'.frame = Drained.frame /\ Drained'.text = text'
         /\ Drained'.gotGraphics = Drained.gotGraphics
<1>1. out' = <<>> /\ Drained' = DrainOf(Before', out')
  BY DrainedIsDrainOf DEF DrainTurn
<1>2. Drained' = Before'
  BY <1>1, DrainNone
<1> QED BY <1>2 DEF Before, DrainTurn

(* drain() stays within the states of the driver. *)
LEMMA DrainByteType ==
  ASSUME NEW s \in States, NEW b \in Symbols
  PROVE  DrainByte(s, b) \in States
<1>1. InFrame(s.frame, b) \in {"", "G", "garbled", "other"}
  BY DEF InFrame
<1>2. Append(s.text, b) \in Seq(Symbols) /\ <<>> \in Seq(Symbols)
  <2>1. s.text \in Seq(Symbols)
    BY DEF States
  <2> QED BY <2>1
<1> QED BY <1>1, <1>2 DEF DrainByte, ReadAddresses, States

(* The constructor's state, with nothing to drain. *)
LEMMA TypedInit ==
  ASSUME Init
  PROVE  Typed /\ Drained = Before
<1>1. Before \in States
  <2>1. <<>> \in Seq(Symbols)
    OBVIOUS
  <2> QED BY <2>1 DEF Init, Before, States
<1>2. Drained = Before
  BY DrainNone, DrainedIsDrainOf DEF Init
<1>3. PRELUDE \in Seq(AllLines)
  BY LineKinds DEF PRELUDE
<1>4. <<>> \in Seq(Symbols)
  OBVIOUS
<1> QED BY <1>1, <1>2, <1>3, <1>4 DEF Init, Typed

(* What a line leaves to be printed. *)
LEMMA InterpretType ==
  ASSUME NEW line, Interpret(line), reporter \in BOOLEAN, broken \in BOOLEAN
  PROVE  todo' \in Seq(Symbols) /\ reporter' \in BOOLEAN /\ broken' \in BOOLEAN
<1>1. \A x, y, z \in Symbols : <<>> \in Seq(Symbols) /\ <<x>> \in Seq(Symbols) /\ <<x, y>> \in Seq(Symbols)
                               /\ <<x, y, z>> \in Seq(Symbols)
  OBVIOUS
<1>2. {"x", "cr", "ok", "start", "end", "G", "err1", "err2"} \subseteq Symbols
  BY DEF Symbols
<1>3. <<>> \o REPORT \in Seq(Symbols) /\ <<"start", "G">> \o REPORT \in Seq(Symbols)
  BY <1>2 DEF REPORT
<1> QED BY <1>1, <1>2, <1>3 DEF Interpret, Quietly, Throws

(* A turn keeps the types. *)
LEMMA TurnType ==
  ASSUME Typed, DrainTurn, booting' \in BOOLEAN, text' \in Seq(Symbols), tail' \in Seq(Symbols),
         owed' \in Seq(Symbols), sawError' \in BOOLEAN, js' \in {"turn", "frame", "rest"},
         lines' \in Seq(AllLines), UNCHANGED <<todo, broken, reporter>>
  PROVE  Typed'
<1>1. Before' \in States
  BY DEF Before, States, DrainTurn, Typed
<1> QED BY <1>1, Turned DEF Typed, DrainTurn

(* The tail and the rest of what is owed are sequences of symbols. *)
LEMMA RolledType ==
  ASSUME Typed, NEW t \in Seq(Symbols)
  PROVE  Rolled(t) \in Seq(Symbols) /\ SubSeq(owed, Len(t) + 1, Len(owed)) \in Seq(Symbols)
<1>1. tail \in Seq(Symbols) /\ owed \in Seq(Symbols)
  BY DEF Typed
<1>2. tail \o t \in Seq(Symbols)
  BY <1>1
<1>3. SubSeq(owed, Len(t) + 1, Len(owed)) \in Seq(Symbols)
  BY <1>1
<1> QED BY <1>2, <1>3, LastTwo DEF Rolled

(* Every step keeps the types. *)
LEMMA TypedKeeps ==
  ASSUME Typed, [Next]_vars
  PROVE  Typed'
<1> USE DEF Typed
<1>0. Drained.text \in Seq(Symbols) /\ Drained.booting \in BOOLEAN
  BY DEF States
<1>1. CASE ImageReads
  <2>1. lines' \in Seq(AllLines)
    BY <1>1 DEF ImageReads
  <2>2. todo' \in Seq(Symbols) /\ reporter' \in BOOLEAN /\ broken' \in BOOLEAN
    BY <1>1, InterpretType DEF ImageReads
  <2> QED BY <1>1, <2>1, <2>2, Kept DEF ImageReads, driver
<1>2. CASE ImagePrints
  <2>1. todo' \in Seq(Symbols) /\ out' \in Seq(Symbols) /\ owed' \in Seq(Symbols)
    BY <1>2, Printed DEF ImagePrints
  <2>2. Drained' \in States
    BY <1>2, Printed, DrainByteType
  <2> QED BY <1>2, <2>1, <2>2, Printed DEF ImagePrints, driver
<1>3. ASSUME NEW b \in BOOLEAN, Emit(b, Drained.text)
      PROVE  text' \in Seq(Symbols) /\ tail' \in Seq(Symbols) /\ owed' \in Seq(Symbols) /\ sawError' \in BOOLEAN
  <2>1. <<>> \in Seq(Symbols)
    OBVIOUS
  <2>2. text' \in Seq(Symbols) /\ tail' \in Seq(Symbols) /\ owed' \in Seq(Symbols)
    BY <1>0, <1>3, <2>1, RolledType DEF Emit
  <2>3. sawError' \in BOOLEAN
    BY <1>3 DEF Emit
  <2> QED BY <2>2, <2>3
<1>4. CASE TurnYields
  BY <1>0, <1>3, <1>4, TurnType DEF TurnYields, image
<1>5. CASE TurnRests
  <2>1. DrainTurn /\ booting' = FALSE /\ Emit(FALSE, Drained.text) /\ js' = "rest" /\ UNCHANGED image
    BY <1>5 DEF TurnRests, BootEnded
  <2> QED BY <2>1, <1>3, TurnType DEF image
<1>6. CASE TurnRepairs
  <2>1. text' \in Seq(Symbols) /\ tail' \in Seq(Symbols) /\ owed' \in Seq(Symbols) /\ sawError' \in BOOLEAN
    <3>1. <<>> \in Seq(Symbols)
      OBVIOUS
    <3> QED BY <1>0, <1>6, <3>1, RolledType DEF TurnRepairs, RepairTaken
  <2>2. lines' \in Seq(AllLines)
    BY <1>6, LineKinds DEF TurnRepairs
  <2> QED BY <1>0, <1>6, <2>1, <2>2, TurnType DEF TurnRepairs
<1>7. CASE Frame \/ UNCHANGED vars
  BY <1>7, Kept DEF Frame, vars, image, driver
<1>8. CASE Submit
  <2>1. lines' \in Seq(AllLines)
    BY <1>8, LineKinds DEF Submit
  <2> QED BY <1>8, <2>1, Kept DEF Submit, driver
<1> QED BY <1>1, <1>2, <1>4, <1>5, <1>6, <1>7, <1>8 DEF Next

------------------------------------------------------------------------------
(* The invariant holds. *)

(* The prelude is queued and nothing has been said. *)
LEMMA BootInit ==
  ASSUME Init
  PROVE  Boot /\ Repaired
<1>1. Drained = Before /\ Before.booting = TRUE /\ Before.inFrame = FALSE /\ Before.gotGraphics = FALSE
  BY TypedInit DEF Init, Before
<1>2. lines = PRELUDE /\ Len(PRELUDE) = 3
  BY DEF Init, PRELUDE
<1>3. Ahead(PRELUDE)
  <2>1. PRELUDE \in Seq({"def", "install", "announce"})
    BY DEF PRELUDE
  <2>2. \A i \in DOMAIN PRELUDE : i <= Len(PRELUDE) /\ PRELUDE[i] \in {"def", "install", "announce"}
    BY <2>1
  <2>3. Len(PRELUDE) >= Len(PRELUDE)
    BY <1>2
  <2> QED BY <1>2, <2>2, <2>3, LineKinds DEF Ahead
<1>4. Boots /\ ~Booted
  BY <1>1, <1>3 DEF Init, Boots, Booted, Plain
<1> QED BY <1>3, <1>4 DEF Boot, Repaired, Init

(* The image takes the first line. *)
LEMMA Reading ==
  ASSUME Typed, ImageReads
  PROVE  /\ Len(lines) \in Nat \ {0} /\ Len(lines') = Len(lines) - 1
         /\ DOMAIN lines = 1 .. Len(lines) /\ DOMAIN lines' = 1 .. Len(lines) - 1
         /\ \A i \in DOMAIN lines' : lines'[i] = lines[i + 1]
         /\ current' = lines[1] /\ Interpret(lines[1]) /\ todo = <<>>
         /\ Drained' = Drained /\ UNCHANGED <<owed, js, tail, text, sawError, booting, inFrame, gotGraphics>>
<1>1. lines \in Seq(AllLines) /\ lines # <<>> /\ lines' = Tail(lines) /\ Head(lines) = lines[1]
  BY DEF ImageReads, Typed
<1>2. /\ Len(lines) \in Nat \ {0} /\ Len(lines') = Len(lines) - 1
      /\ DOMAIN lines = 1 .. Len(lines) /\ DOMAIN lines' = 1 .. Len(lines) - 1
      /\ \A i \in DOMAIN lines' : lines'[i] = lines[i + 1]
  BY <1>1
<1> QED BY <1>1, <1>2, Kept DEF ImageReads, driver

(* What each kind of line does while the words of the prelude are there. *)
LEMMA Interprets ==
  ASSUME NEW line, Interpret(line), ~broken, ~broken'
  PROVE  /\ line = "def" => todo' \in {<<>>, <<"ok">>} /\ reporter' = reporter
         /\ line \in {"install", RECOVERY} => todo' = <<>> /\ reporter' = TRUE
         /\ line = "announce" => todo' = <<"start", "G", "end">> /\ reporter' = reporter
         /\ line = "bad" => todo' = REPORT
<1>1. <<>> \o REPORT = REPORT
  BY DEF REPORT
<1>2. /\ line = "def" => todo' \in {<<>>, <<"ok">>} /\ reporter' = reporter
      /\ line \in {"install", RECOVERY} => todo' = <<>> /\ reporter' = TRUE
      /\ line = "announce" => todo' = <<"start", "G", "end">> /\ reporter' = reporter
  BY DEF Interpret, Quietly, RECOVERY
<1>3. line = "bad" => todo' = REPORT
  BY <1>1 DEF Interpret, Throws, RECOVERY
<1> QED BY <1>2, <1>3

(* The invariant survives the image reading a line. *)
LEMMA ReadsKeep ==
  ASSUME Typed, Boot, Repaired, ImageReads, ~broken'
  PROVE  Boot' /\ Repaired'
<1>1. ~broken
  BY DEF ImageReads, Interpret, Typed
<1>2. /\ gotGraphics' => ~booting' /\ ~inFrame'
      /\ \A i \in DOMAIN lines' : i + 1 \in DOMAIN lines /\ lines'[i] = lines[i + 1]
  BY <1>1, Reading DEF Boot
<1>3. ASSUME Boots PROVE Boots' /\ ~Booted'
  <2>0. /\ owed' = <<>> /\ js' # "rest" /\ ~Drained'.gotGraphics /\ (Plain' <=> Plain) /\ ~Booted'
    BY <1>3, Reading DEF Boots, Booted, Plain
  <2>1. ASSUME Plain /\ Ahead(PRELUDE) /\ current = "def" PROVE Boots'
    <3>1. lines[1] = "def" /\ Ahead(<<"install", "announce">>)'
      BY <2>1, Reading DEF Ahead, PRELUDE
    <3>2. current' = "def" /\ todo' \in {<<"ok">>, <<>>}
      BY <1>1, <3>1, Reading, Interprets
    <3> QED BY <2>0, <2>1, <3>1, <3>2 DEF Boots
  <2>2. ASSUME Plain /\ Ahead(<<"install", "announce">>) /\ current = "def" PROVE Boots'
    <3>1. lines[1] = "install" /\ Ahead(<<"announce">>)'
      BY <2>2, Reading DEF Ahead
    <3>2. current' = "install" /\ todo' = <<>> /\ reporter'
      BY <1>1, <3>1, Reading, Interprets
    <3> QED BY <2>0, <2>2, <3>1, <3>2 DEF Boots
  <2>3. ASSUME Plain /\ Ahead(<<"announce">>) /\ current = "install" /\ reporter PROVE Boots'
    <3>1. lines[1] = "announce" /\ Ahead(<<>>)'
      BY <2>3, Reading DEF Ahead
    <3>2. current' = "announce" /\ todo' = <<"start", "G", "end">> /\ reporter'
      BY <1>1, <2>3, <3>1, Reading, Interprets
    <3> QED BY <2>0, <2>3, <3>1, <3>2 DEF Boots
  <2>4. Boots'
    <3>1. todo = <<>>
      BY Reading
    <3>2. <<"start", "G", "end">> # <<>> /\ <<"G", "end">> # <<>> /\ <<"end">> # <<>>
      OBVIOUS
    <3> QED BY <1>3, <2>1, <2>2, <2>3, <3>1, <3>2 DEF Boots
  <2> QED BY <2>0, <2>4
<1>4. ASSUME Booted PROVE Boot' /\ Repaired'
  <2>1. Booted'
    <3>1. current' \in UserLines \cup {RECOVERY}
      BY <1>4, Reading DEF Booted
    <3>2. todo' # <<>> => current' \in UserLines
      BY <1>1, <3>1, Reading, Interprets
    <3> QED BY <1>2, <1>4, <3>2, Reading DEF Booted
  <2>2. ~Boots'
    BY <2>1 DEF Boots, Booted
  <2>3. ASSUME ~reporter' PROVE Mending'
    <3>1. lines[1] \in UserLines
      <4>1. lines[1] # RECOVERY
        BY <1>1, <2>3, Reading, Interprets
      <4> QED BY <1>4, <4>1, Reading DEF Booted
    <3>2. current' = lines[1] /\ js' = "turn"
      BY Reading DEF ImageReads
    <3>3. CASE lines[1] = "bad"
      BY <1>1, <3>2, <3>3, Reading, Interprets DEF Mending
    <3>4. CASE lines[1] # "bad"
      BY <3>1, <3>2, <3>4 DEF Mending, Overtaken
    <3> QED BY <3>3, <3>4
  <2> QED BY <1>2, <2>1, <2>2, <2>3 DEF Boot, Repaired
<1>5. ASSUME Boots PROVE Boot' /\ Repaired'
  BY <1>1, <1>2, <1>3, <1>5 DEF Boot, Repaired
<1> QED BY <1>1, <1>4, <1>5 DEF Boot

(* The texts that are printed symbol by symbol. *)
LEMMA HeadsAndTails ==
  /\ Head(<<"start", "G", "end">>) = "start" /\ Tail(<<"start", "G", "end">>) = <<"G", "end">>
  /\ Head(<<"G", "end">>) = "G" /\ Tail(<<"G", "end">>) = <<"end">>
  /\ \A x : Head(<<x>>) = x /\ Tail(<<x>>) = <<>>
  /\ Head(REPORT) = "err1" /\ Tail(REPORT) = <<"err2">>
BY DEF REPORT

(* The second half of a report completes it in the rolling tail. *)
LEMMA ReportSeen ==
  ASSUME NEW u \in Seq(Symbols), Len(u) > 0, u[Len(u)] = "err1"
  PROVE  IsSuffix(REPORT, LastFew(Append(u, "err2")))
<1> DEFINE v == Append(u, "err2")
           f == LastFew(v)
<1>1. "err2" \in Symbols
  BY DEF Symbols
<1>2. v \in Seq(Symbols) /\ Len(v) \in Nat /\ Len(v) > 1 /\ v[Len(v)] = "err2" /\ v[Len(v) - 1] = "err1"
  BY <1>1
<1> HIDE DEF v
<1>3. /\ f \in Seq(Symbols) /\ Len(f) = (IF Len(v) > 2 THEN 2 ELSE Len(v))
      /\ f[Len(f)] = v[Len(v)] /\ f[Len(f) - 1] = v[Len(v) - 1]
  <2>1. Len(v) > 0
    BY <1>2
  <2> QED BY <1>2, <2>1, LastTwo
<1> HIDE DEF f
<1>4. Len(f) = 2
  <2> DEFINE n == Len(v)
  <2>1. n \in Nat /\ n > 1 /\ Len(f) = (IF n > 2 THEN 2 ELSE n)
    BY <1>2, <1>3
  <2> HIDE DEF n
  <2> QED BY <2>1
<1>5. f[Len(f)] = "err2" /\ f[Len(f) - 1] = "err1" /\ Len(f) >= 2
  BY <1>2, <1>3, <1>4
<1>6. IsSuffix(REPORT, f)
  BY <1>3, <1>5, Suffixed
<1> QED BY <1>6 DEF f, v

(* It survives the image printing a byte: the last byte of the frame ends the boot. *)
LEMMA PrintsKeep ==
  ASSUME Typed, Boot, Repaired, ImagePrints, ~broken'
  PROVE  Boot' /\ Repaired'
<1> DEFINE b == Head(todo)
           D == Drained
<1>1. /\ ~broken /\ todo' = Tail(todo) /\ todo # <<>> /\ js = "turn"
      /\ UNCHANGED <<lines, current, reporter, booting, inFrame, gotGraphics, tail, sawError, text, js>>
      /\ owed' = IF current \in UserLines /\ b # "cr" THEN Append(owed, b) ELSE owed
      /\ Drained' = DrainByte(D, b) /\ D \in States /\ b \in Symbols
  BY Printed DEF ImagePrints, driver, Typed
<1> HIDE DEF D, b
<1>2. (gotGraphics' => ~booting' /\ ~inFrame') /\ (\A p : Ahead(p)' <=> Ahead(p))
  BY <1>1 DEF Boot, Ahead
<1>3. ASSUME Boots 
      PROVE  \/ Boots' /\ ~Booted'
             \/ Booted' /\ ~Boots' /\ Ahead(<<>>) /\ reporter' /\ todo' = <<>>
  <2>1. owed = <<>> /\ js' # "rest" /\ ~D.gotGraphics
    BY <1>1, <1>3 DEF Boots, D
  <2>2. CASE Plain /\ Ahead(<<"install", "announce">>) /\ current = "def" /\ todo = <<"ok">>
    <3>1. b = "ok" /\ todo' = <<>> /\ owed' = <<>>
      BY <1>1, <2>1, <2>2, LineKinds DEF b
    <3>2. Plain' /\ ~Drained'.gotGraphics
      BY <1>1, <2>1, <2>2, <3>1 DEF Plain, DrainByte, States, D
    <3> QED BY <1>1, <1>2, <2>1, <2>2, <3>1, <3>2 DEF Boots, Booted
  <2>3. CASE Ahead(<<>>) /\ current = "announce" /\ reporter
    <3>1. owed' = <<>>
      BY <1>1, <2>1, <2>3, LineKinds
    <3>2. CASE Plain /\ todo = <<"start", "G", "end">>
      <4>1. b = "start" /\ todo' = <<"G", "end">>
        BY <1>1, <3>2, HeadsAndTails DEF b
      <4>2. Drained'.inFrame /\ Drained'.booting /\ Drained'.frame = "" /\ ~Drained'.gotGraphics
        BY <1>1, <2>1, <3>2, <4>1 DEF Plain, DrainByte, States, D
      <4> QED BY <1>1, <1>2, <2>1, <2>3, <3>1, <4>1, <4>2 DEF Boots, Booted
    <3>3. CASE D.inFrame /\ D.booting /\ D.frame = "" /\ todo = <<"G", "end">>
      <4>1. b = "G" /\ todo' = <<"end">>
        BY <1>1, <3>3, HeadsAndTails DEF b
      <4>2. Drained'.inFrame /\ Drained'.booting /\ Drained'.frame = "G" /\ ~Drained'.gotGraphics
        BY <1>1, <2>1, <3>3, <4>1 DEF DrainByte, InFrame, States
      <4> QED BY <1>1, <1>2, <2>1, <2>3, <3>1, <4>1, <4>2 DEF Boots, Booted
    <3>4. CASE D.inFrame /\ D.booting /\ D.frame = "G" /\ todo = <<"end">>
      <4>1. b = "end" /\ todo' = <<>>
        BY <1>1, <3>4, HeadsAndTails DEF b
      <4>2. /\ ~Drained'.inFrame /\ ~Drained'.booting /\ Drained'.gotGraphics
            /\ Drained'.text = <<>>
        BY <1>1, <2>1, <3>4, <4>1 DEF DrainByte, ReadAddresses, States
      <4>3. \A i \in DOMAIN lines : lines[i] \in UserLines
        <5>1. \A i \in DOMAIN lines : ~(i <= 0)
          BY DEF Typed
        <5> QED BY <2>3, <5>1 DEF Ahead
      <4> QED BY <1>1, <2>3, <3>1, <4>1, <4>2, <4>3 DEF Boots, Booted
    <3> QED BY <1>1, <1>3, <2>3, <3>2, <3>3, <3>4 DEF Boots, D
  <2> QED BY <1>1, <1>3, <2>2, <2>3 DEF Boots
<1>4. ASSUME Booted PROVE Booted' /\ ~Boots'
  <2>1. current \in UserLines /\ owed' = IF b = "cr" THEN owed ELSE Append(owed, b)
    BY <1>1, <1>4 DEF Booted
  <2> DEFINE u == IF b = "cr" THEN D.text ELSE Append(D.text, b)
  <2>2. Drained' = [D EXCEPT !.text = u] /\ owed' = u
    BY <1>1, <1>4, <2>1, AfterBootByte DEF Booted, D, States
  <2> HIDE DEF u
  <2> QED BY <1>1, <1>4, <2>1, <2>2 DEF Booted, Boots, D, States
<1>5. ASSUME Booted, ~reporter' PROVE Mending'
  <2>1. Mending
    BY <1>1, <1>5 DEF Repaired
  <2>2. CASE Overtaken
    BY <1>1, <2>2 DEF Mending, Overtaken
  <2>3. CASE js # "rest" /\ lines # <<>> /\ lines[1] = RECOVERY
    BY <1>1, <2>3 DEF Mending
  <2>4. CASE /\ js # "rest" /\ current = "bad"
             /\ \/ todo = REPORT
                \/ /\ todo = <<"err2">> /\ Len(tail \o D.text) > 0
                   /\ (tail \o D.text)[Len(tail \o D.text)] = "err1"
    <3>0. b # "cr"
      BY <1>1, <2>4, HeadsAndTails DEF b
    <3>1. /\ D.text \in Seq(Symbols) /\ tail \in Seq(Symbols) /\ D.booting = FALSE /\ D.inFrame = FALSE
          /\ Drained'.text = Append(D.text, b) /\ Drained'.booting = FALSE
      BY <1>1, <1>5, <3>0 DEF Booted, DrainByte, D, States, Typed
    <3>2. tail \o D.text \in Seq(Symbols) /\ tail' \o Drained'.text = Append(tail \o D.text, b)
      <4>1. tail \o Append(D.text, b) = Append(tail \o D.text, b)
        BY <1>1, <3>1, AppendAfter
      <4> QED BY <1>1, <3>1, <4>1
    <3>3. CASE todo = REPORT
      <4>1. b = "err1" /\ todo' = <<"err2">>
        BY <1>1, <3>3, HeadsAndTails DEF b
      <4>2. /\ Len(tail' \o Drained'.text) > 0
            /\ (tail' \o Drained'.text)[Len(tail' \o Drained'.text)] = "err1"
        BY <1>1, <3>2, <4>1
      <4> QED BY <1>1, <2>4, <4>1, <4>2 DEF Mending
    <3>4. CASE /\ todo = <<"err2">> /\ Len(tail \o D.text) > 0
               /\ (tail \o D.text)[Len(tail \o D.text)] = "err1"
      <4>1. b = "err2" /\ todo' = <<>>
        BY <1>1, <3>4, HeadsAndTails DEF b
      <4>2. IsSuffix(REPORT, LastFew(tail' \o Drained'.text))
        BY <3>2, <3>4, <4>1, ReportSeen
      <4>3. Drained'.text # <<>>
        BY <1>1, <3>1
      <4>4. SawErrorNow'
        BY <3>1, <4>2, <4>3 DEF SawErrorNow, Emits, Rolled
      <4> QED BY <1>1, <2>4, <4>1, <4>4 DEF Mending
    <3> QED BY <2>4, <3>3, <3>4
  <2> QED BY <1>1, <2>1, <2>2, <2>3, <2>4 DEF Mending, D
<1>6. ASSUME Boots, Booted' PROVE reporter'
  BY <1>3, <1>6
<1> QED BY <1>1, <1>2, <1>3, <1>4, <1>5, <1>6 DEF Boot, Repaired

------------------------------------------------------------------------------
(* Turns. *)

(* What a turn hands to the page, or keeps.                                *)
HandedOver(b) ==
  LET t == Drained.text
  IN  \/ /\ Emits(b, t) /\ text' = <<>>
         /\ tail' = IF IsSuffix(REPORT, Rolled(t)) THEN <<>> ELSE Rolled(t)
         /\ owed' = SubSeq(owed, Len(t) + 1, Len(owed))
      \/ ~Emits(b, t) /\ text' = t /\ tail' = tail /\ owed' = owed

(* emit() hands over its text, or keeps it. *)
LEMMA EmitHands ==
  ASSUME NEW b, Emit(b, Drained.text)
  PROVE  HandedOver(b)
BY DEF HandedOver, Emit

(* While booting, a turn hands over nothing. *)
LEMMA BootsTurn ==
  ASSUME Typed, Boots, DrainTurn, booting' = Drained.booting, HandedOver(Drained.booting),
         UNCHANGED image, js' # "rest"
  PROVE  Boots' /\ ~Booted' /\ ~gotGraphics'
<1>1. Drained.booting
  BY DEF Boots, Plain
<1>2. owed' = <<>>
  BY <1>1 DEF HandedOver, Emits, Boots
<1>3. (Plain' <=> Plain) /\ (\A p : Ahead(p)' <=> Ahead(p))
  BY Turned DEF Plain, Ahead, image
<1>4. /\ Drained'.inFrame = Drained.inFrame /\ Drained'.booting = Drained.booting
      /\ Drained'.frame = Drained.frame /\ Drained'.gotGraphics = Drained.gotGraphics
      /\ gotGraphics' = Drained.gotGraphics
  BY Turned DEF DrainTurn
<1>5. UNCHANGED <<current, todo, reporter>>
  BY DEF image
<1> QED BY <1>2, <1>3, <1>4, <1>5 DEF Boots, Booted

(* After boot, a turn hands over all that is owed. *)
LEMMA BootedTurn ==
  ASSUME Typed, Booted, DrainTurn, booting' = FALSE, HandedOver(FALSE),
         \A i \in DOMAIN lines' : lines'[i] \in UserLines \cup {RECOVERY},
         UNCHANGED <<current, todo>>
  PROVE  Booted' /\ ~Boots' /\ (gotGraphics' => ~booting' /\ ~inFrame')
<1>1. owed = Drained.text /\ owed \in Seq(Symbols)
  BY DEF Booted, Typed
<1>2. owed' = text'
  <2>1. SubSeq(owed, Len(owed) + 1, Len(owed)) = <<>>
    BY <1>1, SubSeqEmpty
  <2> QED BY <1>1, <2>1 DEF HandedOver
<1>3. /\ Drained'.text = text' /\ Drained'.booting = FALSE /\ Drained'.inFrame = Drained.inFrame
      /\ Drained'.gotGraphics = Drained.gotGraphics /\ inFrame' = Drained.inFrame
  BY Turned DEF DrainTurn
<1> QED BY <1>2, <1>3 DEF Booted, Boots

(* The image waits for a line only when the prelude is done. *)
LEMMA WaitingIsBooted ==
  ASSUME Boots \/ Booted, Waiting, Typed
  PROVE  Booted /\ ~Boots
<1>1. ~Boots
  <2>1. Len(lines) = 0
    BY DEF Waiting
  <2>2. <<"start", "G", "end">> # <<>> /\ <<"G", "end">> # <<>> /\ <<"end">> # <<>>
    OBVIOUS
  <2>3. ~Ahead(PRELUDE) /\ ~Ahead(<<"install", "announce">>) /\ ~Ahead(<<"announce">>)
    BY <2>1 DEF Ahead, PRELUDE
  <2> QED BY <2>2, <2>3 DEF Boots, Waiting
<1> QED BY <1>1

(* Half a report survives the turn that cuts it. *)
LEMMA HalfReportStays ==
  ASSUME Typed, HandedOver(FALSE), Len(tail \o Drained.text) > 0,
         (tail \o Drained.text)[Len(tail \o Drained.text)] = "err1"
  PROVE  Len(tail' \o text') > 0 /\ (tail' \o text')[Len(tail' \o text')] = "err1"
<1> DEFINE u == tail \o Drained.text
           f == LastFew(u)
<1>1. u \in Seq(Symbols) /\ Len(u) \in Nat /\ Drained.text \in Seq(Symbols) /\ tail \in Seq(Symbols)
  <2>1. Drained.text \in Seq(Symbols) /\ tail \in Seq(Symbols)
    BY DEF Typed, States
  <2> QED BY <2>1
<1>2. Len(u) > 0 /\ u[Len(u)] = "err1"
  OBVIOUS
<1>3. Rolled(Drained.text) = f
  BY DEF Rolled
<1> HIDE DEF u
<1>4. f \in Seq(Symbols) /\ Len(f) = (IF Len(u) > 2 THEN 2 ELSE Len(u)) /\ f[Len(f)] = "err1"
  BY <1>1, <1>2, LastTwo
<1> HIDE DEF f
<1>5. Len(f) > 0 /\ Len(f) \in Nat
  <2> DEFINE n == Len(u)
  <2>1. n \in Nat /\ n > 0 /\ Len(f) = (IF n > 2 THEN 2 ELSE n)
    BY <1>1, <1>2, <1>4
  <2> HIDE DEF n
  <2> QED BY <2>1
<1>6. ~IsSuffix(REPORT, f)
  BY <1>4, Suffixed
<1>7. CASE Emits(FALSE, Drained.text)
  <2>1. text' = <<>> /\ tail' = f
    BY <1>3, <1>6, <1>7 DEF HandedOver
  <2>2. tail' \o text' = f
    BY <1>4, <2>1, ConcatEmptySeq
  <2> QED BY <1>4, <1>5, <2>2
<1>8. CASE ~Emits(FALSE, Drained.text)
  <2>1. tail' \o text' = u
    BY <1>8 DEF HandedOver, u
  <2> QED BY <1>2, <2>1
<1> QED BY <1>7, <1>8

(* It survives a turn cut anywhere. *)
LEMMA YieldsKeep ==
  ASSUME Typed, Boot, Repaired, TurnYields, ~broken'
  PROVE  Boot' /\ Repaired'
<1>1. /\ ~broken /\ DrainTurn /\ UNCHANGED <<lines, current, todo, broken, reporter>>
      /\ booting' = Drained.booting /\ HandedOver(Drained.booting) /\ js' # "rest" /\ UNCHANGED image
      /\ Emit(Drained.booting, Drained.text)
  BY EmitHands DEF TurnYields, image
<1>2. CASE Boots
  BY <1>1, <1>2, BootsTurn DEF Boot, Repaired
<1>3. CASE Booted
  <2>1. ~Drained.booting /\ Drained.booting = FALSE
    BY <1>3 DEF Booted, Typed, States
  <2>2. Booted' /\ ~Boots' /\ (gotGraphics' => ~booting' /\ ~inFrame')
    <3>1. \A i \in DOMAIN lines' : lines'[i] \in UserLines \cup {RECOVERY}
      BY <1>1, <1>3 DEF Booted
    <3>2. HandedOver(FALSE) /\ booting' = FALSE
      BY <1>1, <2>1
    <3> QED BY <1>1, <1>3, <3>1, <3>2, BootedTurn
  <2>3. ASSUME ~reporter' PROVE Mending'
    <3>1. Mending
      BY <1>1, <1>3, <2>3 DEF Repaired
    <3>2. CASE Overtaken
      BY <1>1, <3>2 DEF Mending, Overtaken
    <3>3. CASE js # "rest" /\ lines # <<>> /\ lines[1] = RECOVERY
      BY <1>1, <3>3 DEF Mending
    <3>4. CASE current = "bad" /\ todo = REPORT
      BY <1>1, <3>4 DEF Mending
    <3>5. CASE current = "bad" /\ todo = <<"err2">> /\ Len(tail \o Drained.text) > 0
                 /\ (tail \o Drained.text)[Len(tail \o Drained.text)] = "err1"
      <4>1. Len(tail' \o text') > 0 /\ (tail' \o text')[Len(tail' \o text')] = "err1"
        BY <1>1, <2>1, <3>5, HalfReportStays
      <4> QED BY <1>1, <3>5, <4>1, Turned DEF Mending
    <3>6. CASE current = "bad" /\ todo = <<>> /\ SawErrorNow
      <4>1. sawError'
        BY <1>1, <3>6 DEF SawErrorNow, Emit
      <4> QED BY <1>1, <3>6, <4>1 DEF Mending, SawErrorNow
    <3> QED BY <3>1, <3>2, <3>3, <3>4, <3>5, <3>6 DEF Mending
  <2> QED BY <2>2, <2>3 DEF Boot, Repaired
<1> QED BY <1>1, <1>2, <1>3 DEF Boot

(* It survives coming to rest, where no error was seen. *)
LEMMA RestsKeep ==
  ASSUME Typed, Boot, Repaired, TurnRests, ~broken'
  PROVE  Boot' /\ Repaired'
<1>1. /\ ~broken /\ DrainTurn /\ UNCHANGED <<lines, current, todo, reporter>> /\ booting' = FALSE
      /\ HandedOver(FALSE) /\ Waiting /\ ~SawErrorNow
  BY EmitHands DEF TurnRests, BootEnded, image
<1>2. Booted /\ ~Boots
  BY <1>1, WaitingIsBooted DEF Boot
<1>3. Booted' /\ ~Boots' /\ (gotGraphics' => ~booting' /\ ~inFrame')
  <2>1. \A i \in DOMAIN lines' : lines'[i] \in UserLines \cup {RECOVERY}
    BY <1>1, <1>2 DEF Booted
  <2> QED BY <1>1, <1>2, <2>1, BootedTurn
<1>4. ASSUME ~reporter' PROVE Mending'
  <2>1. Mending
    BY <1>1, <1>2, <1>4 DEF Repaired
  <2>2. Overtaken
    BY <1>1, <2>1 DEF Waiting, Mending, REPORT
  <2> QED BY <1>1, <2>2 DEF Mending, Overtaken
<1> QED BY <1>3, <1>4 DEF Boot, Repaired

(* It survives the repair. *)
LEMMA RepairsKeep ==
  ASSUME Typed, Boot, Repaired, TurnRepairs, ~broken'
  PROVE  Boot' /\ Repaired'
<1>1. /\ ~broken /\ DrainTurn /\ UNCHANGED <<current, todo, reporter, js>> /\ booting' = Drained.booting
      /\ HandedOver(Drained.booting) /\ Waiting /\ lines' = <<RECOVERY>> /\ js = "turn"
  BY DEF TurnRepairs, HandedOver, DrainTurn
<1>2. Booted /\ ~Boots
  BY <1>1, WaitingIsBooted DEF Boot
<1>3. Booted' /\ ~Boots' /\ (gotGraphics' => ~booting' /\ ~inFrame')
  <2>1. \A i \in DOMAIN lines' : lines'[i] \in UserLines \cup {RECOVERY}
    BY <1>1
  <2>2. Drained.booting = FALSE
    BY <1>2 DEF Booted, Typed, States
  <2> QED BY <1>1, <1>2, <2>1, <2>2, BootedTurn
<1>4. Mending'
  <2>1. lines' # <<>> /\ lines'[1] = RECOVERY
    BY <1>1
  <2> QED BY <1>1, <2>1 DEF Mending
<1> QED BY <1>3, <1>4 DEF Boot, Repaired

(* It survives a frame. *)
LEMMA PausesKeep ==
  ASSUME Typed, Boot, Repaired, Frame \/ UNCHANGED vars, ~broken'
  PROVE  Boot' /\ Repaired'
<1>1. /\ UNCHANGED <<lines, current, todo, broken, reporter, owed, gotGraphics, booting, inFrame,
                     tail, sawError>>
      /\ Drained' = Drained /\ (js' # js => js' = "turn")
  BY Kept DEF Frame, vars, image, driver
<1>2. (Boots' <=> Boots) /\ (Booted' <=> Booted)
  <2>1. (Plain' <=> Plain) /\ (\A p : Ahead(p)' <=> Ahead(p)) /\ (js' # "rest" <=> js # "rest")
    BY <1>1 DEF Plain, Ahead, Frame, vars
  <2> QED BY <1>1, <2>1 DEF Boots, Booted
<1>3. Mending => Mending'
  <2>1. (SawErrorNow' <=> SawErrorNow) /\ (js' = "rest" <=> js = "rest")
    BY <1>1 DEF SawErrorNow, Rolled, Frame, vars
  <2> QED BY <1>1, <2>1 DEF Mending, Overtaken
<1> QED BY <1>1, <1>2, <1>3 DEF Boot, Repaired

(* It survives a line submitted, in the middle of the boot too. *)
LEMMA SubmitsKeep ==
  ASSUME Typed, Boot, Repaired, Submit, ~broken'
  PROVE  Boot' /\ Repaired'
<1>1. /\ ~broken /\ Drained' = Drained /\ js' = "turn" /\ js # "turn"
      /\ UNCHANGED <<current, todo, reporter, owed, gotGraphics, booting, inFrame>>
      /\ UNCHANGED <<tail, sawError>>
  BY Kept DEF Submit, driver
<1>2. PICK l \in UserLines : lines' = Append(lines, l)
  BY DEF Submit
<1>3. /\ Len(lines) \in Nat /\ DOMAIN lines = 1 .. Len(lines) /\ Len(lines') = Len(lines) + 1
      /\ DOMAIN lines' = 1 .. Len(lines) + 1
      /\ \A i \in DOMAIN lines : lines'[i] = lines[i] /\ lines'[Len(lines) + 1] = l
      /\ lines'[Len(lines) + 1] = l
  <2>1. lines \in Seq(AllLines) /\ l \in AllLines
    BY LineKinds DEF Typed
  <2> QED BY <1>2, <2>1
<1>4. \A p : Len(p) \in Nat /\ Ahead(p) => Ahead(p)'
  BY <1>3 DEF Ahead
<1>5. CASE Boots
  <2>1. Boots' /\ ~Booted'
    <3>1. /\ Len(PRELUDE) \in Nat /\ Len(<<"install", "announce">>) \in Nat
          /\ Len(<<"announce">>) \in Nat /\ Len(<<>>) \in Nat
      BY DEF PRELUDE
    <3>2. Plain' <=> Plain
      BY <1>1 DEF Plain
    <3> QED BY <1>1, <1>4, <1>5, <3>1, <3>2 DEF Boots, Booted
  <2> QED BY <1>1, <2>1 DEF Boot, Repaired
<1>6. CASE Booted
  <2>1. Booted' /\ ~Boots'
    <3>1. \A i \in DOMAIN lines' : lines'[i] \in UserLines \cup {RECOVERY}
      BY <1>3, <1>6 DEF Booted
    <3> QED BY <1>1, <1>6, <3>1 DEF Booted, Boots
  <2>2. ASSUME ~reporter' PROVE Mending'
    <3>1. Mending
      BY <1>1, <1>6, <2>2 DEF Repaired
    <3>2. SawErrorNow' <=> SawErrorNow
      BY <1>1 DEF SawErrorNow, Rolled
    <3>3. lines # <<>> => lines'[1] = lines[1] /\ lines' # <<>>
      <4>1. ASSUME lines # <<>> PROVE 1 \in DOMAIN lines
        BY <4>1 DEF Typed
      <4> QED BY <1>3, <4>1
    <3> QED BY <1>1, <3>1, <3>2, <3>3 DEF Mending, Overtaken
  <2> QED BY <1>1, <2>1, <2>2 DEF Boot, Repaired
<1> QED BY <1>1, <1>5, <1>6 DEF Boot

(* Every step keeps the invariant; of a broken prelude it says nothing. *)
LEMMA BootKeeps ==
  ASSUME Typed, Boot, Repaired, [Next]_vars
  PROVE  Boot' /\ Repaired'
<1>1. CASE broken'
  BY <1>1 DEF Boot, Repaired
<1>2. CASE ~broken'
  BY <1>2, ReadsKeep, PrintsKeep, YieldsKeep, RestsKeep, RepairsKeep, PausesKeep, SubmitsKeep DEF Next
<1> QED BY <1>1, <1>2

(* No step takes the frame up again after a good boot. *)
LEMMA FramedKeeps ==
  ASSUME Typed, Framed, [Next]_vars
  PROVE  Framed'
<1>1. Drained.booting \in BOOLEAN /\ Drained.inFrame \in BOOLEAN /\ Drained \in States
  BY DEF Typed, States
<1>2. CASE ImagePrints
  <2> DEFINE b == Head(todo)
             D == Drained
  <2>1. Drained' = DrainByte(D, b) /\ D \in States /\ (D.gotGraphics => ~D.booting /\ ~D.inFrame)
    BY <1>1, <1>2, Printed DEF Framed
  <2> HIDE DEF b, D
  <2> QED BY <2>1 DEF Framed, DrainByte, ReadAddresses, States
<1>3. CASE DrainTurn /\ (booting' = Drained.booting \/ booting' = FALSE)
  BY <1>3, Turned DEF Framed
<1>4. CASE Drained' = Drained
  BY <1>4 DEF Framed
<1>5. CASE TurnYields \/ TurnRepairs \/ TurnRests
  BY <1>3, <1>5 DEF TurnYields, TurnRepairs, TurnRests, BootEnded
<1>6. CASE ImageReads \/ Frame \/ Submit \/ UNCHANGED vars
  <2>1. UNCHANGED <<out, driver>>
    BY <1>6 DEF ImageReads, Frame, Submit, vars
  <2> QED BY <1>4, <2>1, Kept
<1> QED BY <1>2, <1>5, <1>6 DEF Next

------------------------------------------------------------------------------
(* The theorems. *)

(* In every reachable state the boot has reached one of the places Boots and
   Booted list, and a lost reporter is being mended or was overtaken. *)
THEOREM Invariance == Spec => [](Typed /\ Boot /\ Repaired /\ Framed)
<1>1. Init => Typed /\ Boot /\ Repaired /\ Framed
  <2> SUFFICES ASSUME Init PROVE Typed /\ Boot /\ Repaired /\ Framed
    OBVIOUS
  <2>1. Drained = Before /\ gotGraphics = FALSE
    BY TypedInit DEF Init
  <2>2. Framed
    BY <2>1 DEF Framed, Before
  <2> QED BY <2>2, TypedInit, BootInit
<1>2. Typed /\ Boot /\ Repaired /\ Framed /\ [Next]_vars => (Typed /\ Boot /\ Repaired /\ Framed)'
  BY TypedKeeps, BootKeeps, FramedKeeps
<1> QED BY <1>1, <1>2, PTL DEF Spec

(* drain() and emit() of class Forth lose, add and reorder none of the bytes user
   lines print after a good boot, framing bytes among them and byte 13 apart,
   however the output is cut into turns: what is owed is what is buffered. *)
THEOREM UserBytesReachThePage == Spec => []UserBytesShown
<1>1. Typed /\ Boot => UserBytesShown
  <2> SUFFICES ASSUME Typed, Boot, gotGraphics, ~broken PROVE owed = text \o Legible(out)
    BY DEF UserBytesShown
  <2>1. /\ Before \in States /\ out \in Seq(Symbols) /\ booting = FALSE /\ inFrame = FALSE
        /\ Before.text = text /\ Before.booting = booting /\ Before.inFrame = inFrame
        /\ Before.gotGraphics = gotGraphics
    <3>1. Before \in States /\ out \in Seq(Symbols) /\ ~booting /\ ~inFrame
      BY DEF Typed, Boot
    <3> QED BY <3>1 DEF Before, States
  <2>2. Drained = [Before EXCEPT !.text = Before.text \o Legible(out)]
    BY <2>1, AfterBoot, DrainedIsDrainOf
  <2>3. Drained.text = text \o Legible(out) /\ Drained.gotGraphics
    BY <2>1, <2>2 DEF States
  <2>4. Booted
    BY <2>3 DEF Boot, Boots
  <2> QED BY <2>3, <2>4 DEF Booted
<1> QED BY <1>1, Invariance, PTL

(* pumpLoop comes to rest with no text kept back and no output undrained, after
   a boot that failed as after one that worked; after one that worked it is not
   inside a frame either, so nothing printed later is swallowed. *)
THEOREM NothingIsWithheld == Spec => []NothingWithheld
<1>1. Init => NothingWithheld
  BY DEF Init, NothingWithheld
<1>2. NothingWithheld /\ Typed /\ Framed /\ [Next]_vars => NothingWithheld'
  <2> SUFFICES ASSUME NothingWithheld, Framed, [Next]_vars, js' = "rest"
               PROVE  text' = <<>> /\ out' = <<>> /\ (gotGraphics' => ~inFrame')
    BY DEF NothingWithheld
  <2>1. CASE TurnRests
    <3>1. text' = <<>> /\ out' = <<>>
      BY <2>1 DEF TurnRests, BootEnded, DrainTurn, Emit, Emits
    <3>2. gotGraphics' = Drained.gotGraphics /\ inFrame' = Drained.inFrame
      BY <2>1 DEF TurnRests, DrainTurn
    <3> QED BY <3>1, <3>2 DEF Framed
  <2>2. CASE UNCHANGED vars
    BY <2>2 DEF vars, driver, NothingWithheld
  <2>3. CASE Next /\ ~TurnRests
    BY <2>3 DEF Next, ImageReads, ImagePrints, TurnYields, TurnRepairs, DrainTurn, Frame, Submit
  <2> QED BY <2>1, <2>2, <2>3
<1> QED BY <1>1, <1>2, Invariance, PTL DEF Spec

(* pumpLoop never comes to rest with the reporter out because of the last line
   interpreted, with any number of lines in flight: its report is recognised
   however it is cut into turns, and "+ok" puts the reporter back.  Of an error
   that a later line has overtaken the theorem says nothing: the code may forget
   it. *)
THEOREM LastErrorRepaired == Spec => []RepairedAtRest
<1>1. Boot /\ Repaired => RepairedAtRest
  <2> SUFFICES ASSUME Boot, Repaired, js = "rest", gotGraphics, ~broken PROVE reporter \/ Overtaken
    BY DEF RepairedAtRest
  <2>1. Booted
    BY DEF Boot, Boots
  <2> QED BY <2>1 DEF Repaired, Mending
<1> QED BY <1>1, Invariance, PTL

------------------------------------------------------------------------------
(* The widget. *)
USE LineAssumption, BoundAssumption

Sent == [line : Lines \cup {Key, Source}, word : Nat]

TypeOK ==
  /\ machine \in Nat \ {0}
  /\ forthBooting \in BOOLEAN /\ running \in BOOLEAN
  /\ fed \in Seq(Sent)
  /\ fetching \subseteq 1 .. machine
  /\ busy \in BOOLEAN /\ stepping \in BOOLEAN /\ stepBox \in BOOLEAN
  /\ handler \in {"idle", "run", "step"}
  /\ script \in Seq(Lines)
  /\ step \in [line : Lines \cup {Key}, on : Nat, word : Nat]

(* stepping and step say the same, and only step() itself is in its loop.  *)
StepHeld ==
  /\ stepping <=> step # NoStep
  /\ handler = "step" => stepping /\ step.word < Words[step.line]
  /\ handler = "run" => ~stepping
  /\ stepping =>
       step.line \in Lines /\ step.on \in 1 .. machine /\ step.word <= Words[step.line]

(* While a line is in flight, the last code its machine was sent is the    *)
(* word step() sent last.                                                  *)
InStep ==
  stepping /\ ~Replaced /\ step.word > 0 =>
    \E j \in DOMAIN fed :
      LastCode(j) /\ fed[j] = [line |-> step.line, word |-> step.word]

(* The file a machine is still waiting for has not been submitted to it.   *)
NotYetFetched ==
  machine \in fetching => \A i \in DOMAIN fed : fed[i].line # Source

Inv ==
  /\ TypeOK /\ StepHeld /\ InStep /\ NotYetFetched
  /\ NoInterleaving /\ SuccessorClean /\ SourceOnce

------------------------------------------------------------------------------
(* The feed.  A key or the file leaves the code as it was; a word of code  *)
(* comes after all the code there is.                                      *)
FeedOK ==
  /\ fed \in Seq(Sent)
  /\ NoInterleaving /\ SuccessorClean

Appended(s) == fed' = Append(fed, s)

LEMMA Appending ==
  ASSUME fed \in Seq(Sent), NEW s \in Sent, Appended(s)
  PROVE  /\ fed' \in Seq(Sent)
         /\ DOMAIN fed = 1 .. Len(fed) /\ DOMAIN fed' = 1 .. Len(fed) + 1
         /\ Len(fed) \in Nat
         /\ \A i \in DOMAIN fed : fed'[i] = fed[i]
         /\ fed'[Len(fed) + 1] = s
BY AppendProperties DEF Appended

LEMMA DataIsNoCode ==
  ASSUME FeedOK, NEW s \in Sent, s.line \notin Lines, Appended(s)
  PROVE  /\ NoInterleaving' /\ SuccessorClean'
         /\ \A j \in DOMAIN fed : LastCode(j) => j \in DOMAIN fed' /\ fed'[j] = fed[j] /\ LastCode(j)'
<1>0. /\ DOMAIN fed = 1 .. Len(fed) /\ DOMAIN fed' = 1 .. Len(fed) + 1 /\ Len(fed) \in Nat
      /\ \A i \in DOMAIN fed : fed'[i] = fed[i]
      /\ fed'[Len(fed) + 1] = s
  BY Appending DEF FeedOK
<1> USE <1>0
<1>1. \A i \in DOMAIN fed : IsCode(i)' = IsCode(i)
  BY DEF IsCode
<1>2. ~(fed'[Len(fed) + 1].line \in Lines)
  OBVIOUS
<1>3. \A i, j \in DOMAIN fed' : Follows(i, j)' => i \in DOMAIN fed /\ j \in DOMAIN fed /\ Follows(i, j)
  BY <1>1, <1>2 DEF Follows, IsCode
<1>4. \A i \in DOMAIN fed' : FirstCode(i)' => i \in DOMAIN fed /\ FirstCode(i)
  BY <1>1, <1>2 DEF FirstCode, IsCode
<1>5. NoInterleaving'
  BY <1>3 DEF NoInterleaving, FeedOK
<1>6. SuccessorClean'
  BY <1>4 DEF SuccessorClean, FeedOK
<1>7. \A j \in DOMAIN fed : LastCode(j) => LastCode(j)'
  BY <1>1, <1>2 DEF LastCode, IsCode
<1> QED BY <1>5, <1>6, <1>7

(* The word that is sent is a line's first, or comes after the word before *)
(* it.                                                                     *)
InTurn(s) ==
  s.word > 1 => \E j \in DOMAIN fed : LastCode(j) /\ fed[j] = [s EXCEPT !.word = @ - 1]

LEMMA CodeInTurn ==
  ASSUME FeedOK, NEW s \in Sent, s.line \in Lines, InTurn(s), Appended(s)
  PROVE  /\ NoInterleaving' /\ SuccessorClean'
         /\ \E j \in DOMAIN fed' : LastCode(j)' /\ fed'[j] = s
<1>0. /\ DOMAIN fed = 1 .. Len(fed) /\ DOMAIN fed' = 1 .. Len(fed) + 1 /\ Len(fed) \in Nat
      /\ \A i \in DOMAIN fed : fed'[i] = fed[i]
      /\ fed'[Len(fed) + 1] = s
  BY Appending DEF FeedOK
<1> USE <1>0
<1>a. PICK new \in Nat : new = Len(fed) + 1
  OBVIOUS
<1> USE <1>a
<1>1. \A i \in DOMAIN fed : IsCode(i)' = IsCode(i)
  BY DEF IsCode
<1>2. \A j \in DOMAIN fed : Follows(new, j)' => LastCode(j)
  BY <1>1 DEF Follows, LastCode, IsCode
<1>3. \A i, j \in DOMAIN fed : Follows(i, j)' => Follows(i, j)
  BY <1>1 DEF Follows
<1>4. \A j \in DOMAIN fed' : ~Follows(j, new)' \/ j \in DOMAIN fed
  BY DEF Follows
<1>5. \A j, k \in DOMAIN fed : LastCode(j) /\ LastCode(k) => j = k
  BY DEF LastCode
<1>6. \A i \in DOMAIN fed : FirstCode(i)' => FirstCode(i)
  BY <1>1 DEF FirstCode
<1>7. FirstCode(new)' => s.word \in {0, 1}
  <2>1. \A j \in DOMAIN fed : LastCode(j) => ~FirstCode(new)'
    BY <1>1 DEF FirstCode, LastCode, IsCode
  <2> QED BY <2>1 DEF InTurn, Sent
<1>8. NoInterleaving'
  <2> SUFFICES ASSUME NEW i \in DOMAIN fed', NEW j \in DOMAIN fed',
                      Follows(i, j)', fed'[i].word > 1
               PROVE  fed'[j] = [fed'[i] EXCEPT !.word = @ - 1]
    BY DEF NoInterleaving, FeedOK
  <2>1. j \in DOMAIN fed
    BY DEF Follows
  <2>2. CASE i = new
    BY <1>2, <1>5, <2>1, <2>2 DEF InTurn
  <2>3. CASE i \in DOMAIN fed
    BY <1>3, <2>1, <2>3 DEF NoInterleaving, FeedOK
  <2> QED BY <2>2, <2>3
<1>9. SuccessorClean'
  BY <1>6, <1>7 DEF SuccessorClean, FeedOK
<1>10. LastCode(new)'
  BY DEF LastCode, IsCode
<1> QED BY <1>8, <1>9, <1>10

LEMMA NothingFed ==
  ASSUME fed' = <<>>
  PROVE  fed' \in Seq(Sent) /\ NoInterleaving' /\ SuccessorClean' /\ SourceOnce'
BY DEF NoInterleaving, SuccessorClean, SourceOnce

------------------------------------------------------------------------------
LEMMA InitInv == EditorInit => Inv
<1> SUFFICES ASSUME EditorInit PROVE Inv
  OBVIOUS
<1>1. NoStep \in [line : Lines \cup {Key}, on : Nat, word : Nat]
  BY DEF NoStep
<1>2. fed \in Seq(Sent) /\ fed = <<>> /\ script \in Seq(Lines)
  BY DEF EditorInit
<1>3. TypeOK
  <2>1. machine \in Nat \ {0} /\ fetching \subseteq 1 .. machine
    BY DEF EditorInit
  <2> QED BY <1>1, <1>2, <2>1 DEF EditorInit, TypeOK
<1>4. NoInterleaving /\ SuccessorClean /\ SourceOnce
  BY <1>2 DEF NoInterleaving, SuccessorClean, SourceOnce
<1>5. StepHeld /\ ~stepping
  BY DEF EditorInit, StepHeld
<1> QED BY <1>2, <1>3, <1>4, <1>5 DEF Inv, InStep, NotYetFetched

LEMMA SendType ==
  ASSUME TypeOK, NEW line \in Lines \cup {Key, Source}, NEW word \in Nat,
         NEW b \in BOOLEAN, Send(line, word, b)
  PROVE  /\ machine' = machine
         /\ forthBooting' \in BOOLEAN /\ running' \in BOOLEAN /\ busy' \in BOOLEAN
         /\ [line |-> line, word |-> word] \in Sent
         /\ Appended([line |-> line, word |-> word])
         /\ fed' \in Seq(Sent)
<1>1. [line |-> line, word |-> word] \in Sent
  BY DEF Sent
<1>2. Appended([line |-> line, word |-> word])
  BY DEF Send, Appended
<1> QED BY <1>1, <1>2, Appending DEF Send, AtRest, TypeOK

(* Sending what is no source keeps what is said of the source.             *)
LEMMA SourceKept ==
  ASSUME fed \in Seq(Sent), NEW s \in Sent, s.line # Source, Appended(s),
         SourceOnce
  PROVE  /\ SourceOnce'
         /\ (\A i \in DOMAIN fed : fed[i].line # Source) => \A i \in DOMAIN fed' : fed'[i].line # Source
BY Appending DEF SourceOnce

LEMMA ResetInv == Inv /\ Reset => Inv'
<1> SUFFICES ASSUME Inv, Reset PROVE Inv'
  OBVIOUS
<1> USE DEF Inv, Reset, StartBusy
<1>1. TypeOK'
  BY DEF TypeOK
<1>2. StepHeld' /\ ~(stepping /\ ~Replaced)'
  BY DEF StepHeld, Replaced, TypeOK, NoStep
<1>3. NotYetFetched' /\ InStep'
  BY <1>2 DEF NotYetFetched, InStep
<1> QED BY <1>1, <1>2, <1>3, NothingFed

(* What is left alone by every action that sends nothing.                  *)
FeedKept == UNCHANGED <<fed, machine>>

LEMMA FeedKeptInv ==
  ASSUME Inv, FeedKept
  PROVE  NoInterleaving' /\ SuccessorClean' /\ SourceOnce' /\ (\A j : LastCode(j)' = LastCode(j))
BY DEF Inv, FeedKept, NoInterleaving, SuccessorClean, SourceOnce, Follows, FirstCode, LastCode, IsCode

LEMMA QuietInv ==
  ASSUME Inv, FeedKept, TypeOK', StepHeld', fetching' \subseteq fetching,
         UNCHANGED <<step, stepping>> \/ ~stepping' \/ step'.word = 0
  PROVE  Inv'
<1> USE DEF FeedKept
<1>1. NotYetFetched'
  BY DEF Inv, NotYetFetched
<1>2. \A j : LastCode(j)' = LastCode(j)
  BY FeedKeptInv
<1>3. InStep'
  <2>1. CASE UNCHANGED <<step, stepping>>
    BY <1>2, <2>1 DEF Inv, InStep, Replaced
  <2>2. CASE ~stepping' \/ step'.word = 0
    BY <2>2 DEF InStep
  <2> QED BY <2>1, <2>2
<1> QED BY <1>1, <1>3, FeedKeptInv DEF Inv

LEMMA IdleInv == Inv /\ Idle => Inv'
<1> SUFFICES ASSUME Inv, Idle PROVE Inv'
  OBVIOUS
<1>1. TypeOK'
  BY DEF Inv, Idle, AtRest, TypeOK
<1>2. StepHeld' /\ FeedKept /\ UNCHANGED <<fetching, step, stepping>>
  BY DEF Inv, Idle, StepHeld, FeedKept, NoStep
<1> QED BY <1>1, <1>2, QuietInv

LEMMA FetchFailsInv == Inv /\ FetchFails => Inv'
BY QuietInv DEF Inv, FetchFails, TypeOK, StepHeld, FeedKept, forthVars, NoStep

LEMMA TickInv == Inv /\ Tick => Inv'
BY QuietInv DEF Inv, Tick, TypeOK, StepHeld, FeedKept, forthVars, NoStep

LEMMA FetchedInv == Inv /\ Fetched => Inv'
<1> SUFFICES ASSUME Inv, Fetched PROVE Inv'
  OBVIOUS
<1>1. PICK m \in fetching :
        /\ fetching' = fetching \ {m}
        /\ IF Mine(m) THEN Send(Source, 0, TRUE) ELSE UNCHANGED <<forthVars, busy>>
  BY DEF Fetched
<1>2. UNCHANGED <<stepping, stepBox, handler, script, step>>
  BY DEF Fetched
<1>3. CASE Mine(m)
  <2> DEFINE s == [line |-> Source, word |-> 0]
  <2>1. Send(Source, 0, TRUE)
    BY <1>1, <1>3
  <2>2. /\ machine' = machine /\ fed' \in Seq(Sent) /\ s \in Sent /\ Appended(s)
        /\ forthBooting' \in BOOLEAN /\ running' \in BOOLEAN /\ busy' \in BOOLEAN
    BY <2>1, SendType DEF Inv
  <2>3. TypeOK'
    BY <1>1, <1>2, <2>2 DEF Inv, TypeOK
  <2>4. StepHeld'
    BY <1>2, <2>2 DEF Inv, StepHeld, NoStep
  <2>5. /\ NoInterleaving' /\ SuccessorClean'
        /\ \A j \in DOMAIN fed : LastCode(j) => j \in DOMAIN fed' /\ fed'[j] = fed[j] /\ LastCode(j)'
    BY <2>2, DataIsNoCode DEF Inv, FeedOK, TypeOK
  <2>6. InStep'
    BY <1>2, <2>2, <2>5 DEF Inv, InStep, Replaced
  <2>7. machine \in fetching /\ machine' \notin fetching'
    BY <1>1, <1>3, <2>2 DEF Mine
  <2>8. SourceOnce'
    <3>1. /\ DOMAIN fed = 1 .. Len(fed) /\ DOMAIN fed' = 1 .. Len(fed) + 1
          /\ \A i \in DOMAIN fed : fed'[i] = fed[i]
      BY <2>2, Appending DEF Inv, TypeOK
    <3>2. \A i \in DOMAIN fed : fed[i].line # Source
      BY <2>7 DEF Inv, NotYetFetched
    <3> QED BY <3>1, <3>2 DEF SourceOnce
  <2> QED BY <2>3, <2>4, <2>5, <2>6, <2>7, <2>8 DEF Inv, NotYetFetched
<1>4. CASE ~Mine(m)
  BY <1>1, <1>2, <1>4, QuietInv DEF Inv, TypeOK, StepHeld, FeedKept, forthVars, NoStep
<1> QED BY <1>3, <1>4

LEMMA KeyToProgramInv == Inv /\ KeyToProgram => Inv'
<1> SUFFICES ASSUME Inv, KeyToProgram PROVE Inv'
  OBVIOUS
<1> DEFINE s == [line |-> Key, word |-> 0]
<1>1. Send(Key, 0, busy) /\ UNCHANGED <<fetching, stepping, stepBox, handler, script, step>>
  BY DEF KeyToProgram
<1>2. /\ machine' = machine /\ fed' \in Seq(Sent) /\ s \in Sent /\ Appended(s)
      /\ forthBooting' \in BOOLEAN /\ running' \in BOOLEAN /\ busy' \in BOOLEAN
  BY <1>1, SendType DEF Inv, TypeOK
<1>3. TypeOK'
  BY <1>1, <1>2 DEF Inv, TypeOK
<1>4. StepHeld'
  BY <1>1, <1>2 DEF Inv, StepHeld, NoStep
<1>5. /\ NoInterleaving' /\ SuccessorClean'
      /\ \A j \in DOMAIN fed : LastCode(j) => j \in DOMAIN fed' /\ fed'[j] = fed[j] /\ LastCode(j)'
  BY <1>2, DataIsNoCode DEF Inv, FeedOK, TypeOK
<1>6. InStep'
  BY <1>1, <1>2, <1>5 DEF Inv, InStep, Replaced
<1>7. SourceOnce' /\ NotYetFetched'
  BY <1>1, <1>2, SourceKept DEF Inv, TypeOK, NotYetFetched
<1> QED BY <1>3, <1>4, <1>5, <1>6, <1>7 DEF Inv

LEMMA EnterInv == Inv /\ Enter => Inv'
<1> SUFFICES ASSUME Inv, Enter PROVE Inv'
  OBVIOUS
<1>1. script' \in Seq(Lines)
  BY DEF Enter
<1> QED BY <1>1, QuietInv DEF Inv, Enter, Owned, TypeOK, StepHeld, FeedKept, forthVars, NoStep

LEMMA RunWholeInv == Inv /\ RunWhole => Inv'
<1> SUFFICES ASSUME Inv, RunWhole PROVE Inv'
  OBVIOUS
<1> DEFINE s == [line |-> Head(script), word |-> 0]
<1>1. /\ handler = "run" /\ script' = Tail(script) /\ Send(Head(script), 0, TRUE)
      /\ UNCHANGED <<fetching, stepping, stepBox, handler, step>>
  BY DEF RunWhole, SetBusy
<1>2. Head(script) \in Lines /\ script' \in Seq(Lines)
  BY <1>1, HeadTailProperties DEF Inv, TypeOK, RunWhole
<1>3. /\ machine' = machine /\ fed' \in Seq(Sent) /\ s \in Sent /\ Appended(s)
      /\ forthBooting' \in BOOLEAN /\ running' \in BOOLEAN /\ busy' \in BOOLEAN
  BY <1>1, <1>2, SendType DEF Inv
<1>4. TypeOK'
  BY <1>1, <1>2, <1>3 DEF Inv, TypeOK
<1>5. StepHeld' /\ ~stepping'
  BY <1>1, <1>3 DEF Inv, StepHeld, NoStep
<1>6. NoInterleaving' /\ SuccessorClean'
  BY <1>2, <1>3, CodeInTurn DEF Inv, FeedOK, TypeOK, InTurn
<1>7. SourceOnce' /\ NotYetFetched'
  BY <1>1, <1>2, <1>3, SourceKept DEF Inv, TypeOK, NotYetFetched
<1> QED BY <1>4, <1>5, <1>6, <1>7 DEF Inv, InStep

LEMMA RunStepInv == Inv /\ RunStep => Inv'
<1> SUFFICES ASSUME Inv, RunStep PROVE Inv'
  OBVIOUS
<1>1. Head(script) \in Lines /\ script' \in Seq(Lines)
  BY HeadTailProperties DEF Inv, TypeOK, RunStep
<1>2. Words[Head(script)] > 0 /\ Head(script) # Key
  BY <1>1
<1>3. step' = [line |-> Head(script), on |-> machine, word |-> 0]
  BY DEF RunStep
<1>4. TypeOK'
  BY <1>1, <1>3 DEF Inv, TypeOK, RunStep, forthVars
<1>5. StepHeld'
  BY <1>1, <1>2, <1>3 DEF Inv, StepHeld, TypeOK, RunStep, NoStep, forthVars
<1> QED BY <1>3, <1>4, <1>5, QuietInv DEF RunStep, FeedKept, forthVars

LEMMA RunDoneInv == Inv /\ RunDone => Inv'
BY QuietInv DEF Inv, RunDone, TypeOK, StepHeld, FeedKept, forthVars, NoStep

LEMMA StepLeavesInv == Inv /\ StepLeaves => Inv'
<1> SUFFICES ASSUME Inv, StepLeaves PROVE Inv'
  OBVIOUS
<1>1. NoStep \in [line : Lines \cup {Key}, on : Nat, word : Nat]
  BY DEF NoStep
<1>2. busy' \in BOOLEAN
  BY DEF Inv, TypeOK, StepLeaves
<1>3. TypeOK'
  BY <1>1, <1>2 DEF Inv, TypeOK, StepLeaves, forthVars
<1> QED BY <1>3, QuietInv DEF Inv, StepLeaves, StepHeld, FeedKept, forthVars

LEMMA StepWordInv == Inv /\ StepWord => Inv'
<1> SUFFICES ASSUME Inv, StepWord PROVE Inv'
  OBVIOUS
<1> DEFINE s == [line |-> step.line, word |-> step.word + 1]
<1>1. /\ handler = "step" /\ ~Replaced /\ Send(step.line, step.word + 1, busy)
      /\ step' = [step EXCEPT !.word = @ + 1] /\ handler' = "idle"
      /\ UNCHANGED <<fetching, stepping, stepBox, script>>
  BY DEF StepWord
<1>2. stepping /\ step.line \in Lines /\ step.word + 1 \in Nat /\ step.word \in Nat
  BY <1>1 DEF Inv, TypeOK, StepHeld
<1>3. /\ machine' = machine /\ fed' \in Seq(Sent) /\ s \in Sent /\ Appended(s)
      /\ forthBooting' \in BOOLEAN /\ running' \in BOOLEAN /\ busy' \in BOOLEAN
  BY <1>1, <1>2, SendType DEF Inv, TypeOK
<1>4. /\ step' \in [line : Lines \cup {Key}, on : Nat, word : Nat]
      /\ step'.line = step.line /\ step'.on = step.on /\ step'.word = step.word + 1
  BY <1>1, <1>2 DEF Inv, TypeOK
<1>5. TypeOK'
  BY <1>1, <1>3, <1>4 DEF Inv, TypeOK
<1>6. StepHeld'
  BY <1>1, <1>2, <1>3, <1>4 DEF Inv, StepHeld, NoStep
<1>7. InTurn(s)
  <2> SUFFICES ASSUME s.word > 1
               PROVE  \E j \in DOMAIN fed : LastCode(j) /\ fed[j] = [s EXCEPT !.word = @ - 1]
    BY DEF InTurn
  <2>1. step.word > 0 /\ [s EXCEPT !.word = @ - 1] = [line |-> step.line, word |-> step.word]
    BY <1>2
  <2> QED BY <1>1, <1>2, <2>1 DEF Inv, InStep
<1>8. /\ NoInterleaving' /\ SuccessorClean'
      /\ \E j \in DOMAIN fed' : LastCode(j)' /\ fed'[j] = s
  BY <1>2, <1>3, <1>7, CodeInTurn DEF Inv, FeedOK, TypeOK
<1>9. InStep'
  BY <1>4, <1>8 DEF InStep
<1>10. SourceOnce' /\ NotYetFetched'
  BY <1>1, <1>2, <1>3, SourceKept DEF Inv, TypeOK, NotYetFetched
<1> QED BY <1>5, <1>6, <1>8, <1>9, <1>10 DEF Inv

LEMMA PauseEndsInv == Inv /\ PauseEnds => Inv'
BY QuietInv DEF Inv, PauseEnds, Paused, MoreWords, TypeOK, StepHeld, FeedKept, forthVars, NoStep

LEMMA NextInv == Inv /\ [EditorNext]_editorVars => Inv'
<1> SUFFICES ASSUME Inv, [EditorNext]_editorVars PROVE Inv'
  OBVIOUS
<1>1. CASE UNCHANGED editorVars
  BY <1>1, QuietInv DEF Inv, editorVars, TypeOK, StepHeld, FeedKept, forthVars, NoStep
<1>2. CASE StepReplaced \/ StepUnticked \/ StepDone
  BY <1>2, StepLeavesInv DEF StepReplaced, StepUnticked, StepDone
<1> QED
  BY <1>1, <1>2, ResetInv, IdleInv, FetchedInv, FetchFailsInv, TickInv, KeyToProgramInv, EnterInv,
     RunWholeInv, RunStepInv, RunDoneInv, StepWordInv, PauseEndsInv DEF EditorNext

THEOREM EditorInvariance == EditorSpec => []Inv
BY InitInv, NextInv, PTL DEF EditorSpec

(* run awaits step: no two stepped lines, and no line typed or pasted,     *)
(* interleave their words.                                                 *)
THEOREM WordsStayTogether == EditorSpec => []NoInterleaving
BY EditorInvariance, PTL DEF Inv

(* step holds its machine: a machine never starts in the middle of a line  *)
(* that its predecessor was being fed.                                     *)
THEOREM SuccessorsStartClean == EditorSpec => []SuccessorClean
BY EditorInvariance, PTL DEF Inv

(* start: a late fetch is dropped by a later machine, and none is          *)
(* submitted twice.                                                        *)
THEOREM SourceSubmittedOnce == EditorSpec => []SourceOnce
BY EditorInvariance, PTL DEF Inv

(* step: a stepped line that is neither unticked nor replaced is fed to    *)
(* its last word.                                                          *)
THEOREM SteppedLinesAreWhole == EditorSpec => SteppedLinesFinish
<1> DEFINE Finishes ==
      stepping /\ ~stepping' /\ stepBox /\ ~Replaced =>
        \E j \in DOMAIN fed :
          LastCode(j) /\ fed[j] = [line |-> step.line, word |-> Words[step.line]]
<1>1. Inv /\ [EditorNext]_editorVars => Finishes
  <2> SUFFICES ASSUME Inv, [EditorNext]_editorVars, stepping, ~stepping', stepBox, ~Replaced
               PROVE  \E j \in DOMAIN fed :
                        LastCode(j) /\ fed[j] = [line |-> step.line, word |-> Words[step.line]]
    OBVIOUS
  <2>1. ~MoreWords
    BY DEF EditorNext, editorVars, forthVars, Reset, Idle, Fetched, FetchFails, Tick, KeyToProgram, Enter,
           RunWhole, RunStep, RunDone, StepWord, StepReplaced, PauseEnds, StepUnticked, StepDone
  <2>2. step.word = Words[step.line] /\ Words[step.line] > 0
    BY <2>1 DEF Inv, StepHeld, TypeOK, MoreWords
  <2> QED BY <2>2 DEF Inv, InStep
<1> QED BY <1>1, EditorInvariance, PTL DEF EditorSpec, SteppedLinesFinish
==============================================================================
