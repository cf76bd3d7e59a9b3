----------------------------- MODULE RvoptProofs -----------------------------
(***************************************************************************)
(* For every program, any options and any width: the immediates an image's *)
(* blocks take are those filled in for them, and as many as were counted.  *)
(* Then the logic that the proof of ImplementsISA in LoweringProofs runs   *)
(* blocks by, words and their bits, and the blocks that touch no memory.   *)
(***************************************************************************)
EXTENDS RvImage, Lowering, FiniteSetTheorems, SequenceTheorems, WellFoundedInduction, TLAPS

LEMMA AllNaturals ==
  ASSUME NEW S, 0 \in S, \A n \in Nat : n \in S => n + 1 \in S
  PROVE  Nat \subseteq S
<1> SUFFICES ASSUME Nat \ S # {} PROVE FALSE
  OBVIOUS
<1>1. PICK m \in Nat \ S : \A k \in Nat \ S : ~(<<k, m>> \in OpToRel(<, Nat))
  BY NatLessThanWellFounded, WFMin, Zenon
<1>2. m - 1 \in Nat /\ m - 1 < m /\ (m - 1) + 1 = m
  <2>1. m # 0 /\ m \in Nat
    BY <1>1
  <2> QED BY <2>1
<1>3. m - 1 \notin S
  BY <1>1, <1>2
<1>4. <<m - 1, m>> \in OpToRel(<, Nat)
  BY <1>1, <1>2 DEF OpToRel
<1> QED BY <1>1, <1>2, <1>3, <1>4

------------------------------------------------------------------------------
(* The passes over the program.  A pass is named, since what Scan visits   *)
(* with is an operator.                                                    *)
Passes == {"syscalls", "jalr", "entries", "smc", "folds"}

Visited(pass, reach, g, c, i) ==
  CASE pass = "syscalls" -> SyscallAt(g, c, i)
    [] pass = "jalr"     -> JalrAt(reach, g, c, i)
    [] pass = "entries"  -> EntryAt(reach, g, c, i)
    [] pass = "smc"      -> SmcAt(g, c, i)
    [] pass = "folds"    -> FoldAt(g, c, i)

Learnt(pass, g, c, i) ==
  IF pass = "folds" THEN FoldLearnt(g, c, i) ELSE cprop_update(c, g.code[i])

Visiting(pass, reach, b, i) ==
  LET c == IF i \in b.g.leader THEN Clear ELSE b.c
      g == Visited(pass, reach, b.g, c, i)
  IN  [g |-> g, c |-> Learnt(pass, g, c, i)]

(* a is what a pass has made of the graph, and knows, after each node.     *)
Scanning(a, pass, reach, graph, n) ==
  a = [i \in 0 .. n |-> IF i = 0 THEN [g |-> graph, c |-> Clear]
                        ELSE Visiting(pass, reach, a[i - 1], i)]

LEMMA ScanningExists ==
  ASSUME NEW pass, NEW reach, NEW graph
  PROVE  \A n \in Nat : \E a : Scanning(a, pass, reach, graph, n)
<1> DEFINE S == {n \in Nat : \E a : Scanning(a, pass, reach, graph, n)}
           begun == [g |-> graph, c |-> Clear]
<1>1. 0 \in S
  <2>1. Scanning([i \in 0 .. 0 |-> begun], pass, reach, graph, 0)
    BY DEF Scanning
  <2> QED BY <2>1
<1>2. ASSUME NEW n \in Nat, n \in S PROVE n + 1 \in S
  <2>1. PICK a : Scanning(a, pass, reach, graph, n)
    BY <1>2
  <2> DEFINE e == [i \in 0 .. n + 1 |->
                     IF i = n + 1 THEN Visiting(pass, reach, a[n], n + 1) ELSE a[i]]
  <2>2. \A i \in 0 .. n : a[i] = IF i = 0 THEN begun ELSE Visiting(pass, reach, a[i - 1], i)
    BY <2>1 DEF Scanning
  <2> HIDE DEF begun
  <2>3. \A i \in 0 .. n + 1 : e[i] = IF i = 0 THEN begun ELSE Visiting(pass, reach, e[i - 1], i)
    <3> SUFFICES ASSUME NEW i \in 0 .. n + 1
                 PROVE  e[i] = IF i = 0 THEN begun ELSE Visiting(pass, reach, e[i - 1], i)
      OBVIOUS
    <3>1. CASE i = 0
      BY <2>2, <3>1
    <3>2. CASE i = n + 1
      BY <3>2
    <3>3. CASE i # 0 /\ i # n + 1
      <4>1. i \in 0 .. n /\ i - 1 \in 0 .. n /\ i - 1 # n + 1
        BY <3>3
      <4> QED BY <2>2, <3>3, <4>1
    <3> QED BY <3>1, <3>2, <3>3
  <2>4. Scanning(e, pass, reach, graph, n + 1)
    <3>1. e = [i \in 0 .. n + 1 |-> e[i]]
      OBVIOUS
    <3> HIDE DEF e
    <3> QED BY <2>3, <3>1 DEF Scanning, begun
  <2> HIDE DEF e
  <2> QED BY <2>4
<1> HIDE DEF S
<1>3. Nat \subseteq S
  BY <1>1, <1>2, AllNaturals
<1> QED BY <1>3 DEF S

(* What a pass other than the folds leaves alone.                          *)
Keeps(g, h) == h.code = g.code /\ h.folds = g.folds

LEMMA VisitedKeeps ==
  ASSUME NEW pass \in Passes \ {"folds"}, NEW reach, NEW g, NEW c, NEW i
  PROVE  Keeps(g, Visited(pass, reach, g, c, i))
BY DEF Passes, Visited, Keeps, SyscallAt, JalrAt, EntryAt, SmcAt

LEMMA ScanningKeeps ==
  ASSUME NEW pass \in Passes \ {"folds"}, NEW reach, NEW graph, NEW n \in Nat,
         NEW a, Scanning(a, pass, reach, graph, n)
  PROVE  \A k \in 0 .. n : Keeps(graph, a[k].g)
<1> DEFINE S == {k \in Nat : k <= n => Keeps(graph, a[k].g)}
<1>1. \A i \in 0 .. n : a[i] = IF i = 0 THEN [g |-> graph, c |-> Clear]
                               ELSE Visiting(pass, reach, a[i - 1], i)
  BY DEF Scanning
<1>2. 0 \in S
  BY <1>1 DEF Keeps
<1>3. ASSUME NEW k \in Nat, k \in S PROVE k + 1 \in S
  <2> SUFFICES ASSUME k + 1 <= n PROVE Keeps(graph, a[k + 1].g)
    OBVIOUS
  <2>1. k + 1 \in 0 .. n /\ (k + 1) - 1 = k /\ k + 1 # 0 /\ k <= n
    OBVIOUS
  <2>2. a[k + 1] = Visiting(pass, reach, a[k], k + 1)
    BY <1>1, <2>1
  <2>3. PICK c : a[k + 1].g = Visited(pass, reach, a[k].g, c, k + 1)
    BY <2>2 DEF Visiting
  <2>4. Keeps(graph, a[k].g) /\ Keeps(a[k].g, a[k + 1].g)
    BY <1>3, <2>1, <2>3, VisitedKeeps
  <2> QED BY <2>4 DEF Keeps
<1> HIDE DEF S
<1>4. Nat \subseteq S
  BY <1>2, <1>3, AllNaturals
<1> QED BY <1>4 DEF S

(* Each pass is such a scan.                                               *)
LEMMA SyscallsKeep ==
  ASSUME NEW graph, Len(graph.code) \in Nat
  PROVE  Keeps(graph, analyze_syscalls(graph))
<1> DEFINE n == Len(graph.code)
           F(a) == [i \in 0 .. n |->
                      IF i = 0 THEN [g |-> graph, c |-> Clear]
                      ELSE LET before == a[i - 1]
                               c == IF i \in before.g.leader THEN Clear ELSE before.c
                               g == SyscallAt(before.g, c, i)
                           IN  [g |-> g, c |-> cprop_update(c, g.code[i])]]
           A == CHOOSE a : a = F(a)
<1>1. ASSUME NEW a PROVE Scanning(a, "syscalls", {}, graph, n) <=> a = F(a)
  BY DEF Scanning, Visiting, Visited, Learnt
<1>2. \E a : a = F(a)
  <2> HIDE DEF F
  <2> QED BY <1>1, ScanningExists
<1>3. analyze_syscalls(graph) = IF graph.code = <<>> THEN graph ELSE A[n].g
  BY Zenon DEF analyze_syscalls, Pass, Scan
<1>4. Scanning(A, "syscalls", {}, graph, n)
  <2>1. A = F(A)
    <3> HIDE DEF F
    <3> QED BY <1>2
  <2> HIDE DEF F, A
  <2> QED BY <1>1, <2>1
<1> HIDE DEF F, A
<1>5. Keeps(graph, A[n].g)
  <2>1. "syscalls" \in Passes \ {"folds"} /\ n \in 0 .. n
    BY DEF Passes
  <2> HIDE DEF n
  <2> QED BY <1>4, <2>1, ScanningKeeps
<1> QED BY <1>3, <1>5 DEF Keeps

LEMMA JalrKeeps ==
  ASSUME NEW graph, NEW reach, Len(graph.code) \in Nat
  PROVE  Keeps(graph, resolve_jalr(graph, reach))
<1> DEFINE n == Len(graph.code)
           F(a) == [i \in 0 .. n |->
                      IF i = 0 THEN [g |-> graph, c |-> Clear]
                      ELSE LET before == a[i - 1]
                               c == IF i \in before.g.leader THEN Clear ELSE before.c
                               g == JalrAt(reach, before.g, c, i)
                           IN  [g |-> g, c |-> cprop_update(c, g.code[i])]]
           A == CHOOSE a : a = F(a)
<1>1. ASSUME NEW a PROVE Scanning(a, "jalr", reach, graph, n) <=> a = F(a)
  BY DEF Scanning, Visiting, Visited, Learnt
<1>2. \E a : a = F(a)
  <2> HIDE DEF F
  <2> QED BY <1>1, ScanningExists
<1>3. resolve_jalr(graph, reach) = IF graph.code = <<>> THEN graph ELSE A[n].g
  BY Zenon DEF resolve_jalr, Pass, Scan
<1>4. Scanning(A, "jalr", reach, graph, n)
  <2>1. A = F(A)
    <3> HIDE DEF F
    <3> QED BY <1>2
  <2> HIDE DEF F, A
  <2> QED BY <1>1, <2>1
<1> HIDE DEF F, A
<1>5. Keeps(graph, A[n].g)
  <2>1. "jalr" \in Passes \ {"folds"} /\ n \in 0 .. n
    BY DEF Passes
  <2> HIDE DEF n
  <2> QED BY <1>4, <2>1, ScanningKeeps
<1> QED BY <1>3, <1>5 DEF Keeps

LEMMA EntriesKeep ==
  ASSUME NEW graph, NEW reach, Len(graph.code) \in Nat
  PROVE  Keeps(graph, collect_entry_targets(graph, reach))
<1> DEFINE n == Len(graph.code)
           F(a) == [i \in 0 .. n |->
                      IF i = 0 THEN [g |-> graph, c |-> Clear]
                      ELSE LET before == a[i - 1]
                               c == IF i \in before.g.leader THEN Clear ELSE before.c
                               g == EntryAt(reach, before.g, c, i)
                           IN  [g |-> g, c |-> cprop_update(c, g.code[i])]]
           A == CHOOSE a : a = F(a)
<1>1. ASSUME NEW a PROVE Scanning(a, "entries", reach, graph, n) <=> a = F(a)
  BY DEF Scanning, Visiting, Visited, Learnt
<1>2. \E a : a = F(a)
  <2> HIDE DEF F
  <2> QED BY <1>1, ScanningExists
<1>3. collect_entry_targets(graph, reach) = IF graph.code = <<>> THEN graph ELSE A[n].g
  BY Zenon DEF collect_entry_targets, Pass, Scan
<1>4. Scanning(A, "entries", reach, graph, n)
  <2>1. A = F(A)
    <3> HIDE DEF F
    <3> QED BY <1>2
  <2> HIDE DEF F, A
  <2> QED BY <1>1, <2>1
<1> HIDE DEF F, A
<1>5. Keeps(graph, A[n].g)
  <2>1. "entries" \in Passes \ {"folds"} /\ n \in 0 .. n
    BY DEF Passes
  <2> HIDE DEF n
  <2> QED BY <1>4, <2>1, ScanningKeeps
<1> QED BY <1>3, <1>5 DEF Keeps

LEMMA SmcKeeps ==
  ASSUME NEW graph, Len(graph.code) \in Nat
  PROVE  Keeps(graph, detect_smc(graph))
<1> DEFINE n == Len(graph.code)
           F(a) == [i \in 0 .. n |->
                      IF i = 0 THEN [g |-> graph, c |-> Clear]
                      ELSE LET before == a[i - 1]
                               c == IF i \in before.g.leader THEN Clear ELSE before.c
                               g == SmcAt(before.g, c, i)
                           IN  [g |-> g, c |-> cprop_update(c, g.code[i])]]
           A == CHOOSE a : a = F(a)
<1>1. ASSUME NEW a PROVE Scanning(a, "smc", {}, graph, n) <=> a = F(a)
  BY DEF Scanning, Visiting, Visited, Learnt
<1>2. \E a : a = F(a)
  <2> HIDE DEF F
  <2> QED BY <1>1, ScanningExists
<1>3. detect_smc(graph) = IF graph.code = <<>> THEN graph ELSE A[n].g
  BY Zenon DEF detect_smc, Pass, Scan
<1>4. Scanning(A, "smc", {}, graph, n)
  <2>1. A = F(A)
    <3> HIDE DEF F
    <3> QED BY <1>2
  <2> HIDE DEF F, A
  <2> QED BY <1>1, <2>1
<1> HIDE DEF F, A
<1>5. Keeps(graph, A[n].g)
  <2>1. "smc" \in Passes \ {"folds"} /\ n \in 0 .. n
    BY DEF Passes
  <2> HIDE DEF n
  <2> QED BY <1>4, <2>1, ScanningKeeps
<1> QED BY <1>3, <1>5 DEF Keeps

(* The folds mark immediate operations with a cell, and nothing else.      *)
FoldsOK(g) ==
  /\ DOMAIN g.folds = DOMAIN g.code
  /\ \A i \in DOMAIN g.code : g.folds[i] # Unknown => is_imm_alu(g.code[i]) /\ ~is_mv(g.code[i])

LEMMA FoldAtOK ==
  ASSUME NEW g, NEW c, NEW i, FoldsOK(g)
  PROVE  FoldsOK(FoldAt(g, c, i)) /\ FoldAt(g, c, i).code = g.code
BY DEF FoldsOK, FoldAt, is_imm_alu

LEMMA ScanningFolds ==
  ASSUME NEW graph, NEW n \in Nat, NEW a, Scanning(a, "folds", {}, graph, n), FoldsOK(graph)
  PROVE  FoldsOK(a[n].g) /\ a[n].g.code = graph.code
<1> DEFINE S == {k \in Nat : k <= n => FoldsOK(a[k].g) /\ a[k].g.code = graph.code}
<1>1. \A i \in 0 .. n : a[i] = IF i = 0 THEN [g |-> graph, c |-> Clear]
                               ELSE Visiting("folds", {}, a[i - 1], i)
  BY DEF Scanning
<1>2. 0 \in S
  BY <1>1
<1>3. ASSUME NEW k \in Nat, k \in S PROVE k + 1 \in S
  <2> SUFFICES ASSUME k + 1 <= n PROVE FoldsOK(a[k + 1].g) /\ a[k + 1].g.code = graph.code
    OBVIOUS
  <2>1. k + 1 \in 0 .. n /\ (k + 1) - 1 = k /\ k + 1 # 0 /\ k <= n
    OBVIOUS
  <2>2. a[k + 1] = Visiting("folds", {}, a[k], k + 1)
    BY <1>1, <2>1
  <2>3. PICK c : a[k + 1].g = FoldAt(a[k].g, c, k + 1)
    BY <2>2 DEF Visiting, Visited
  <2> QED BY <1>3, <2>1, <2>3, FoldAtOK
<1> HIDE DEF S
<1>4. Nat \subseteq S
  BY <1>2, <1>3, AllNaturals
<1> QED BY <1>4 DEF S

LEMMA FoldsComputed ==
  ASSUME NEW graph, Len(graph.code) \in Nat, FoldsOK(graph)
  PROVE  FoldsOK(compute_folds(graph)) /\ compute_folds(graph).code = graph.code
<1> DEFINE n == Len(graph.code)
           F(a) == [i \in 0 .. n |->
                      IF i = 0 THEN [g |-> graph, c |-> Clear]
                      ELSE LET before == a[i - 1]
                               c == IF i \in before.g.leader THEN Clear ELSE before.c
                               g == FoldAt(before.g, c, i)
                           IN  [g |-> g, c |-> FoldLearnt(g, c, i)]]
           A == CHOOSE a : a = F(a)
<1>1. ASSUME NEW a PROVE Scanning(a, "folds", {}, graph, n) <=> a = F(a)
  BY DEF Scanning, Visiting, Visited, Learnt
<1>2. \E a : a = F(a)
  <2> HIDE DEF F
  <2> QED BY <1>1, ScanningExists
<1>3. compute_folds(graph) = IF graph.code = <<>> THEN graph ELSE A[n].g
  BY Zenon DEF compute_folds, Scan
<1>4. Scanning(A, "folds", {}, graph, n)
  <2>1. A = F(A)
    <3> HIDE DEF F
    <3> QED BY <1>2
  <2> HIDE DEF F, A
  <2> QED BY <1>1, <2>1
<1> HIDE DEF F, A
<1>5. FoldsOK(A[n].g) /\ A[n].g.code = graph.code
  BY <1>4, ScanningFolds
<1> QED BY <1>3, <1>5

------------------------------------------------------------------------------
(* The rounds of the front end.                                            *)
LEMMA RoundKeeps ==
  ASSUME NEW g, Len(g.code) \in Nat
  PROVE  Keeps(g, Round(g))
<1> DEFINE g1 == WithLeaders(g)
           g2 == analyze_syscalls(g1)
           g3 == WithReach(g2)
           g4 == WithJumps(g3)
           g5 == WithEntries(g4)
           g6 == WithTrap(g5)
<1>1. Keeps(g, g1)
  BY DEF WithLeaders, Keeps
<1>2. Keeps(g, g2)
  <2> HIDE DEF g1
  <2> QED BY <1>1, SyscallsKeep DEF Keeps
<1>3. Keeps(g, g3)
  <2> HIDE DEF g2
  <2> QED BY <1>2 DEF Keeps, WithReach
<1>4. Keeps(g, g4)
  <2> HIDE DEF g3
  <2> QED BY <1>3, JalrKeeps DEF Keeps, WithJumps
<1>5. Keeps(g, g5)
  <2> HIDE DEF g4
  <2> QED BY <1>4, EntriesKeep DEF Keeps, WithEntries
<1>6. Keeps(g, g6)
  <2> HIDE DEF g5
  <2> QED BY <1>5 DEF Keeps, WithTrap
<1>7. Round(g) = [g6 EXCEPT !.changed = ~Same(g, g6)]
  BY Zenon DEF Round
<1> HIDE DEF g6
<1> QED BY <1>6, <1>7 DEF Keeps

Settled(g) == IF g.changed THEN Round(g) ELSE g

Settling(a, graph, n) ==
  a = [i \in 0 .. n |-> IF i = 0 THEN graph ELSE Settled(a[i - 1])]

LEMMA SettlingExists ==
  ASSUME NEW graph
  PROVE  \A n \in Nat : \E a : Settling(a, graph, n)
<1> DEFINE S == {n \in Nat : \E a : Settling(a, graph, n)}
<1>1. 0 \in S
  <2>1. Settling([i \in 0 .. 0 |-> graph], graph, 0)
    BY DEF Settling
  <2> QED BY <2>1
<1>2. ASSUME NEW n \in Nat, n \in S PROVE n + 1 \in S
  <2>1. PICK a : Settling(a, graph, n)
    BY <1>2
  <2> DEFINE e == [i \in 0 .. n + 1 |-> IF i = n + 1 THEN Settled(a[n]) ELSE a[i]]
  <2>2. \A i \in 0 .. n : a[i] = IF i = 0 THEN graph ELSE Settled(a[i - 1])
    BY <2>1 DEF Settling
  <2>3. \A i \in 0 .. n + 1 : e[i] = IF i = 0 THEN graph ELSE Settled(e[i - 1])
    <3> SUFFICES ASSUME NEW i \in 0 .. n + 1
                 PROVE  e[i] = IF i = 0 THEN graph ELSE Settled(e[i - 1])
      OBVIOUS
    <3>1. CASE i = 0
      BY <2>2, <3>1
    <3>2. CASE i = n + 1
      BY <3>2
    <3>3. CASE i # 0 /\ i # n + 1
      <4>1. i \in 0 .. n /\ i - 1 \in 0 .. n /\ i - 1 # n + 1
        BY <3>3
      <4> QED BY <2>2, <3>3, <4>1
    <3> QED BY <3>1, <3>2, <3>3
  <2>4. Settling(e, graph, n + 1)
    <3>1. e = [i \in 0 .. n + 1 |-> e[i]]
      OBVIOUS
    <3> HIDE DEF e
    <3> QED BY <2>3, <3>1 DEF Settling
  <2> HIDE DEF e
  <2> QED BY <2>4
<1> HIDE DEF S
<1>3. Nat \subseteq S
  BY <1>1, <1>2, AllNaturals
<1> QED BY <1>3 DEF S

LEMMA SettleKeeps ==
  ASSUME NEW graph, Len(graph.code) \in Nat
  PROVE  Keeps(graph, SettleFrom(graph))
<1> DEFINE F(a) == [n \in 0 .. MaxRounds |->
                      IF n = 0 THEN graph
                      ELSE LET g == a[n - 1] IN IF g.changed THEN Round(g) ELSE g]
           A == CHOOSE a : a = F(a)
           S == {k \in Nat : k <= MaxRounds => Keeps(graph, A[k])}
<1>1. ASSUME NEW a PROVE Settling(a, graph, MaxRounds) <=> a = F(a)
  BY DEF Settling, Settled
<1>2. \E a : a = F(a)
  <2> HIDE DEF F
  <2> QED BY <1>1, SettlingExists, RoundsAssumption
<1>3. SettleFrom(graph) = A[MaxRounds]
  BY Zenon DEF SettleFrom
<1>4. Settling(A, graph, MaxRounds)
  <2>1. A = F(A)
    <3> HIDE DEF F
    <3> QED BY <1>2
  <2> HIDE DEF F, A
  <2> QED BY <1>1, <2>1
<1> HIDE DEF F, A
<1>5. \A i \in 0 .. MaxRounds : A[i] = IF i = 0 THEN graph ELSE Settled(A[i - 1])
  BY <1>4 DEF Settling
<1>6. 0 \in S
  BY <1>5, RoundsAssumption DEF Keeps
<1>7. ASSUME NEW k \in Nat, k \in S PROVE k + 1 \in S
  <2> SUFFICES ASSUME k + 1 <= MaxRounds PROVE Keeps(graph, A[k + 1])
    OBVIOUS
  <2>1. k + 1 \in 0 .. MaxRounds /\ (k + 1) - 1 = k /\ k + 1 # 0 /\ k <= MaxRounds
    BY RoundsAssumption
  <2>2. A[k + 1] = Settled(A[k])
    BY <1>5, <2>1
  <2>3. Keeps(graph, A[k])
    BY <1>7, <2>1
  <2> QED BY <2>2, <2>3, RoundKeeps DEF Keeps, Settled
<1> HIDE DEF S
<1>8. Nat \subseteq S
  BY <1>6, <1>7, AllNaturals
<1> QED BY <1>3, <1>8, RoundsAssumption DEF S

LEMMA CompiledFolds ==
  ASSUME NEW code, NEW indirect, NEW timer, Len(code) \in Nat
  PROVE  \E g : /\ FoldsOK(g) /\ g.code = code
                /\ Compile(code, indirect, timer) = Judged(g)
<1> DEFINE g0 == decode_graph(code, indirect, timer)
           g1 == SettleFrom(g0)
           g2 == front_end(code, indirect, timer)
           g3 == compute_folds(g2)
           g4 == demote_writes(g3)
<1>1. g0.code = code /\ FoldsOK(g0)
  BY DEF decode_graph, FoldsOK
<1>2. g1.code = code /\ FoldsOK(g1)
  <2> HIDE DEF g0
  <2> QED BY <1>1, SettleKeeps DEF Keeps, FoldsOK
<1>3. g2.code = code /\ FoldsOK(g2)
  <2>1. g2 = detect_smc(g1)
    BY DEF front_end
  <2> HIDE DEF g1, g2
  <2> QED BY <1>2, <2>1, SmcKeeps DEF Keeps, FoldsOK
<1>4. g3.code = code /\ FoldsOK(g3)
  <2> HIDE DEF g2
  <2> QED BY <1>3, FoldsComputed
<1>5. g4.code = code /\ FoldsOK(g4)
  <2> HIDE DEF g3
  <2> QED BY <1>4 DEF demote_writes, FoldsOK
<1>6. Compile(code, indirect, timer) = Judged(g4)
  BY DEF Compile
<1> HIDE DEF g4
<1> QED BY <1>5, <1>6

------------------------------------------------------------------------------
(* The three predicates about immediates agree on every node.              *)
LEMMA OptIs ==
  ASSUME NEW b \in BOOLEAN, NEW v
  PROVE  Opt(b, v) \in Seq({v}) /\ Len(Opt(b, v)) = Flag(b)
<1>1. CASE b
  BY <1>1 DEF Opt, Flag
<1>2. CASE ~b
  BY <1>2 DEF Opt, Flag
<1> QED BY <1>1, <1>2

(* A fold belongs to an immediate operation that has a cell anyway.        *)
LEMMA NodeAgrees ==
  ASSUME NEW g, FoldsOK(g), NEW i \in DOMAIN g.code
  PROVE  ImmTaken(g, i) = ImmFilled(g, i) /\ ImmCounted(g, i) = Len(ImmFilled(g, i))
<1> DEFINE nd == g.code[i]
<1>1. CASE nd.kind = "opimm"
  <2>1. g.folds[i] # Unknown => is_imm_alu(nd) /\ ~is_mv(nd)
    BY DEF FoldsOK
  <2>2. CASE is_dead(nd)
    BY <1>1, <2>2 DEF ImmTaken, ImmFilled, ImmCounted, imm_op32, is_imm_alu, is_mem, is_dead, Opt
  <2>3. CASE ~is_dead(nd)
    BY <1>1, <2>1, <2>3 DEF ImmTaken, ImmFilled, ImmCounted, imm_op32, is_mem, Opt, Flag, imm_value32
  <2> QED BY <2>2, <2>3
<1>2. CASE nd.kind = "jalr"
  <2>1. ~is_dead(nd) /\ ~is_mem(nd)
    BY <1>2 DEF is_dead, is_addi, is_mem
  <2>2. CASE g.target[i] # NONE
    BY <1>2, <2>1, <2>2 DEF ImmTaken, ImmFilled, ImmCounted, by_entry, Opt, Flag
  <2>3. CASE g.target[i] = NONE /\ by_entry(g, i)
    BY <1>2, <2>1, <2>3 DEF ImmTaken, ImmFilled, ImmCounted, Opt, Flag
  <2>4. CASE g.target[i] = NONE /\ ~by_entry(g, i)
    BY <1>2, <2>1, <2>4 DEF ImmTaken, ImmFilled, ImmCounted, Opt
  <2> QED BY <2>2, <2>3, <2>4
<1>3. CASE nd.kind # "opimm" /\ nd.kind # "jalr"
  <2>1. g.folds[i] = Unknown
    BY <1>3 DEF FoldsOK, is_imm_alu
  <2> QED BY <1>3, <2>1 DEF ImmTaken, ImmFilled, ImmCounted, imm_op32, is_imm_alu, is_mem, is_dead,
                            is_addi, Opt, Flag, imm_value32, upper
<1> QED BY <1>1, <1>2, <1>3

(* What the cells can hold.                                                *)
ImmValues(g) ==
  UNION {{g.folds[i], g.code[i].imm, link(g.code[i]), imm_value32(g.code[i])} : i \in DOMAIN g.code}

LEMMA FilledIsSequence ==
  ASSUME NEW g, NEW i \in DOMAIN g.code
  PROVE  ImmFilled(g, i) \in Seq(ImmValues(g))
<1> DEFINE nd == g.code[i]
           V  == ImmValues(g)
<1>1. g.folds[i] \in V /\ nd.imm \in V /\ link(nd) \in V /\ imm_value32(nd) \in V
  BY DEF ImmValues
<1>2. ASSUME NEW b, NEW v \in V PROVE Opt(b, v) \in Seq(V)
  <2> HIDE DEF V
  <2>1. <<>> \in Seq(V) /\ <<v>> \in Seq(V)
    BY <1>2
  <2> QED BY <2>1 DEF Opt
<1>3. ASSUME NEW s \in Seq(V), NEW t \in Seq(V) PROVE s \o t \in Seq(V)
  <2> HIDE DEF V
  <2> QED BY <1>3
<1> HIDE DEF V
<1>4. ASSUME nd.kind = "jalr" /\ by_entry(g, i) PROVE ImmFilled(g, i) \in Seq(V)
  <2>1. ImmFilled(g, i) = Opt(nd.imm # 0, nd.imm) \o Opt(nd.rd # 0, link(nd))
    BY <1>4 DEF ImmFilled
  <2>2. Opt(nd.imm # 0, nd.imm) \in Seq(V) /\ Opt(nd.rd # 0, link(nd)) \in Seq(V)
    BY <1>1, <1>2
  <2> HIDE DEF nd
  <2> QED BY <1>3, <2>1, <2>2
<1>5. ASSUME nd.kind = "jalr" /\ ~by_entry(g, i) PROVE ImmFilled(g, i) \in Seq(V)
  <2>1. ImmFilled(g, i) = Opt(nd.rd # 0 /\ g.target[i] # NONE, link(nd))
    BY <1>5 DEF ImmFilled
  <2> QED BY <1>1, <1>2, <2>1
<1>6. ASSUME nd.kind # "jalr" PROVE ImmFilled(g, i) \in Seq(V)
  <2>1. ImmFilled(g, i) = Opt(imm_op32(nd), IF g.folds[i] # Unknown THEN g.folds[i] ELSE imm_value32(nd))
    BY <1>6 DEF ImmFilled
  <2> QED BY <1>1, <1>2, <2>1
<1> QED BY <1>4, <1>5, <1>6 DEF V

(* FlattenSeq is the running concatenation, and its length the running sum *)
(* of the lengths.                                                         *)
Flattening(f, seqs, n) ==
  f = [i \in 1 .. n |-> IF i = 1 THEN seqs[i] ELSE f[i - 1] \o seqs[i]]

LEMMA FlatteningExists ==
  ASSUME NEW seqs
  PROVE  \A n \in Nat : \E f : Flattening(f, seqs, n)
<1> DEFINE S == {n \in Nat : \E f : Flattening(f, seqs, n)}
<1>1. 0 \in S
  <2>1. Flattening([i \in 1 .. 0 |-> seqs], seqs, 0)
    BY DEF Flattening
  <2> QED BY <2>1
<1>2. ASSUME NEW n \in Nat, n \in S PROVE n + 1 \in S
  <2>1. PICK f : Flattening(f, seqs, n)
    BY <1>2
  <2> DEFINE last == IF n = 0 THEN seqs[1] ELSE f[n] \o seqs[n + 1]
             e == [i \in 1 .. n + 1 |-> IF i = n + 1 THEN last ELSE f[i]]
  <2>2. \A i \in 1 .. n : f[i] = IF i = 1 THEN seqs[i] ELSE f[i - 1] \o seqs[i]
    BY <2>1 DEF Flattening
  <2>3. \A i \in 1 .. n + 1 : e[i] = IF i = 1 THEN seqs[i] ELSE e[i - 1] \o seqs[i]
    <3> SUFFICES ASSUME NEW i \in 1 .. n + 1
                 PROVE  e[i] = IF i = 1 THEN seqs[i] ELSE e[i - 1] \o seqs[i]
      OBVIOUS
    <3>1. CASE i = 1
      <4>1. CASE n = 0
        BY <3>1, <4>1
      <4>2. CASE n # 0
        BY <2>2, <3>1, <4>2
      <4> QED BY <4>1, <4>2
    <3>2. CASE i = n + 1 /\ i # 1
      <4>1. n # 0 /\ i - 1 = n /\ n # n + 1 /\ n \in 1 .. n + 1
        BY <3>2
      <4>2. e[i] = f[n] \o seqs[n + 1] /\ e[i - 1] = f[n]
        BY <3>2, <4>1
      <4> HIDE DEF e
      <4> QED BY <3>2, <4>1, <4>2
    <3>3. CASE i # 1 /\ i # n + 1
      <4>1. i \in 1 .. n /\ i - 1 \in 1 .. n /\ i - 1 # n + 1 /\ i - 1 \in 1 .. n + 1
        BY <3>3
      <4>2. e[i] = f[i] /\ e[i - 1] = f[i - 1]
        BY <3>3, <4>1
      <4> HIDE DEF e
      <4> QED BY <2>2, <3>3, <4>1, <4>2
    <3> QED BY <3>1, <3>2, <3>3
  <2>4. Flattening(e, seqs, n + 1)
    <3>1. e = [i \in 1 .. n + 1 |-> e[i]]
      OBVIOUS
    <3> HIDE DEF e
    <3> QED BY <2>3, <3>1 DEF Flattening
  <2> HIDE DEF e
  <2> QED BY <2>4
<1> HIDE DEF S
<1>3. Nat \subseteq S
  BY <1>1, <1>2, AllNaturals
<1> QED BY <1>3 DEF S

LEMMA FlattenIs ==
  ASSUME NEW seqs, Len(seqs) \in Nat, Len(seqs) # 0
  PROVE  \E f : Flattening(f, seqs, Len(seqs)) /\ FlattenSeq(seqs) = f[Len(seqs)]
<1> DEFINE F(f) == [i \in 1 .. Len(seqs) |-> IF i = 1 THEN seqs[i] ELSE f[i - 1] \o seqs[i]]
           D == CHOOSE f : f = F(f)
<1>1. D = F(D)
  <2>1. PICK f : Flattening(f, seqs, Len(seqs))
    BY FlatteningExists
  <2>2. f = F(f)
    BY <2>1 DEF Flattening
  <2> HIDE DEF F
  <2> QED BY <2>2
<1>2. FlattenSeq(seqs) = D[Len(seqs)]
  <2>1. FlattenSeq(seqs) = IF Len(seqs) = 0 THEN seqs ELSE D[Len(seqs)]
    BY Zenon DEF FlattenSeq
  <2> HIDE DEF D
  <2> QED BY <2>1
<1>3. Flattening(D, seqs, Len(seqs))
  <2> HIDE DEF D
  <2> QED BY <1>1 DEF Flattening
<1> QED BY <1>2, <1>3

Counting(c, lens, n) == c = [i \in 0 .. n |-> IF i = 0 THEN 0 ELSE c[i - 1] + lens[i]]

LEMMA CountingExists ==
  ASSUME NEW lens
  PROVE  \A n \in Nat : \E c : Counting(c, lens, n)
<1> DEFINE S == {n \in Nat : \E c : Counting(c, lens, n)}
<1>1. 0 \in S
  <2>1. Counting([i \in 0 .. 0 |-> 0], lens, 0)
    BY DEF Counting
  <2> QED BY <2>1
<1>2. ASSUME NEW n \in Nat, n \in S PROVE n + 1 \in S
  <2>1. PICK c : Counting(c, lens, n)
    BY <1>2
  <2> DEFINE e == [i \in 0 .. n + 1 |-> IF i = n + 1 THEN c[n] + lens[n + 1] ELSE c[i]]
  <2>2. \A i \in 0 .. n : c[i] = IF i = 0 THEN 0 ELSE c[i - 1] + lens[i]
    BY <2>1 DEF Counting
  <2>3. \A i \in 0 .. n + 1 : e[i] = IF i = 0 THEN 0 ELSE e[i - 1] + lens[i]
    <3> SUFFICES ASSUME NEW i \in 0 .. n + 1
                 PROVE  e[i] = IF i = 0 THEN 0 ELSE e[i - 1] + lens[i]
      OBVIOUS
    <3>1. CASE i = 0
      BY <2>2, <3>1
    <3>2. CASE i = n + 1
      <4>1. i # 0 /\ i - 1 = n /\ n # n + 1 /\ n \in 0 .. n + 1
        BY <3>2
      <4>2. e[i] = c[n] + lens[n + 1] /\ e[i - 1] = c[n]
        BY <3>2, <4>1
      <4> HIDE DEF e
      <4> QED BY <3>2, <4>1, <4>2
    <3>3. CASE i # 0 /\ i # n + 1
      <4>1. i \in 0 .. n /\ i - 1 \in 0 .. n /\ i - 1 # n + 1
        BY <3>3
      <4> QED BY <2>2, <3>3, <4>1
    <3> QED BY <3>1, <3>2, <3>3
  <2>4. Counting(e, lens, n + 1)
    <3>1. e = [i \in 0 .. n + 1 |-> e[i]]
      OBVIOUS
    <3> HIDE DEF e
    <3> QED BY <2>3, <3>1 DEF Counting
  <2> HIDE DEF e
  <2> QED BY <2>4
<1> HIDE DEF S
<1>3. Nat \subseteq S
  BY <1>1, <1>2, AllNaturals
<1> QED BY <1>3 DEF S

LEMMA FlattenCounts ==
  ASSUME NEW V, NEW n \in Nat, NEW seqs \in [1 .. n -> Seq(V)],
         NEW c, Counting(c, [i \in 1 .. n |-> Len(seqs[i])], n)
  PROVE  Len(FlattenSeq(seqs)) = c[n]
<1>1. \A i \in 0 .. n : c[i] = IF i = 0 THEN 0 ELSE c[i - 1] + Len(seqs[i])
  <2> DEFINE lens == [i \in 1 .. n |-> Len(seqs[i])]
  <2>1. \A i \in 0 .. n : i # 0 => lens[i] = Len(seqs[i])
    OBVIOUS
  <2>2. Counting(c, lens, n)
    OBVIOUS
  <2> HIDE DEF lens
  <2>3. \A i \in 0 .. n : c[i] = IF i = 0 THEN 0 ELSE c[i - 1] + lens[i]
    BY <2>2 DEF Counting
  <2> QED BY <2>1, <2>3
<1>2. Len(seqs) = n
  OBVIOUS
<1>3. CASE n = 0
  <2>1. FlattenSeq(seqs) = seqs
    BY <1>2, <1>3 DEF FlattenSeq
  <2> QED BY <1>1, <1>2, <1>3, <2>1
<1>4. CASE n # 0
  <2>1. PICK f : Flattening(f, seqs, n) /\ FlattenSeq(seqs) = f[n]
    BY <1>2, <1>4, FlattenIs
  <2>2. \A i \in 1 .. n : f[i] = IF i = 1 THEN seqs[i] ELSE f[i - 1] \o seqs[i]
    BY <2>1 DEF Flattening
  <2> DEFINE S == {k \in Nat : k \in 1 .. n => f[k] \in Seq(V) /\ Len(f[k]) = c[k]}
  <2>3. 0 \in S
    OBVIOUS
  <2>4. ASSUME NEW k \in Nat, k \in S PROVE k + 1 \in S
    <3> SUFFICES ASSUME k + 1 \in 1 .. n PROVE f[k + 1] \in Seq(V) /\ Len(f[k + 1]) = c[k + 1]
      OBVIOUS
    <3>1. k \in 0 .. n /\ k + 1 \in 0 .. n /\ k + 1 # 0 /\ (k + 1) - 1 = k
      OBVIOUS
    <3>2. seqs[k + 1] \in Seq(V) /\ Len(seqs[k + 1]) \in Nat
      OBVIOUS
    <3>3. c[k + 1] = c[k] + Len(seqs[k + 1])
      BY <1>1, <3>1
    <3>4. CASE k = 0
      BY <1>1, <2>2, <3>1, <3>2, <3>3, <3>4
    <3>5. CASE k # 0
      <4>1. f[k] \in Seq(V) /\ Len(f[k]) = c[k] /\ Len(f[k]) \in Nat
        BY <2>4, <3>1, <3>5
      <4>2. f[k + 1] = f[k] \o seqs[k + 1]
        <5>1. k + 1 # 1 /\ k + 1 \in 1 .. n
          BY <3>5
        <5>2. f[k + 1] = f[(k + 1) - 1] \o seqs[k + 1]
          BY <2>2, <5>1, Zenon
        <5> QED BY <3>1, <5>2
      <4>3. ASSUME NEW s \in Seq(V), NEW t \in Seq(V)
            PROVE  s \o t \in Seq(V) /\ Len(s \o t) = Len(s) + Len(t)
        OBVIOUS
      <4>4. f[k] \o seqs[k + 1] \in Seq(V)
            /\ Len(f[k] \o seqs[k + 1]) = Len(f[k]) + Len(seqs[k + 1])
        BY <3>2, <4>1, <4>3
      <4> QED BY <3>3, <4>1, <4>2, <4>4
    <3> QED BY <3>4, <3>5
  <2> HIDE DEF S
  <2>5. Nat \subseteq S
    BY <2>3, <2>4, AllNaturals
  <2> QED BY <1>4, <2>1, <2>5 DEF S
<1> QED BY <1>3, <1>4

------------------------------------------------------------------------------
LEMMA PlanAgrees ==
  ASSUME NEW g, FoldsOK(g), NEW n \in Nat, n = Len(g.code), DOMAIN g.code = 1 .. n,
         NEW ok, NEW emitted
  PROVE  LET imm == PlanOf(g, ok, emitted).imm
         IN  imm.taken = imm.filled /\ imm.counted = Len(imm.filled)
<1> DEFINE seqs == [i \in 1 .. n |-> IF i \in emitted THEN ImmFilled(g, i) ELSE <<>>]
           lens == [i \in 1 .. n |-> Len(seqs[i])]
           F(c) == [i \in 0 .. Len(g.code) |->
                      IF i = 0 THEN 0 ELSE c[i - 1] + IF i \in emitted THEN ImmCounted(g, i) ELSE 0]
           C   == CHOOSE c : c = F(c)
           imm == PlanOf(g, ok, emitted).imm
<1>1. imm.filled = FlattenSeq(seqs)
  BY DEF PlanOf, Nodes
<1>2. imm.taken = FlattenSeq(seqs)
  <2>1. seqs = [i \in 1 .. n |-> IF i \in emitted THEN ImmTaken(g, i) ELSE <<>>]
    BY NodeAgrees
  <2> HIDE DEF seqs
  <2> QED BY <2>1 DEF PlanOf, Nodes
<1>3. imm.counted = C[n]
  <2>1. imm.counted = C[Len(g.code)]
    BY Zenon DEF PlanOf
  <2> HIDE DEF C, imm
  <2> QED BY <2>1
<1>4. ASSUME NEW c PROVE Counting(c, lens, n) <=> c = F(c)
  <2>1. \A i \in 0 .. n : i # 0 => lens[i] = IF i \in emitted THEN ImmCounted(g, i) ELSE 0
    <3>1. ASSUME NEW i \in 1 .. n PROVE Len(ImmFilled(g, i)) = ImmCounted(g, i)
      BY NodeAgrees
    <3>2. ASSUME NEW i \in 1 .. n PROVE lens[i] = IF i \in emitted THEN ImmCounted(g, i) ELSE 0
      <4>1. CASE i \in emitted
        <5>1. lens[i] = Len(ImmFilled(g, i))
          BY <4>1
        <5> HIDE DEF lens
        <5> QED BY <3>1, <4>1, <5>1
      <4>2. CASE i \notin emitted
        <5>1. lens[i] = Len(<<>>)
          BY <4>2
        <5>2. Len(<<>>) = 0
          OBVIOUS
        <5> HIDE DEF lens
        <5> QED BY <4>2, <5>1, <5>2
      <4> QED BY <4>1, <4>2
    <3>3. ASSUME NEW i \in 0 .. n, i # 0 PROVE i \in 1 .. n
      BY <3>3
    <3> HIDE DEF lens
    <3> QED BY <3>2, <3>3
  <2> HIDE DEF lens
  <2> QED BY <2>1 DEF Counting
<1>5. Counting(C, lens, n)
  <2>1. \E c : c = F(c)
    <3> HIDE DEF F, lens
    <3> QED BY <1>4, CountingExists
  <2>2. C = F(C)
    <3> HIDE DEF F
    <3> QED BY <2>1
  <2> HIDE DEF F, C, lens
  <2> QED BY <1>4, <2>2
<1>6. seqs \in [1 .. n -> Seq(ImmValues(g))]
  <2>1. <<>> \in Seq(ImmValues(g))
    OBVIOUS
  <2> QED BY <2>1, FilledIsSequence
<1> HIDE DEF seqs, C
<1>7. Len(FlattenSeq(seqs)) = C[n]
  BY <1>5, <1>6, FlattenCounts
<1> HIDE DEF imm
<1>8. imm.taken = imm.filled /\ imm.counted = Len(imm.filled)
  BY <1>1, <1>2, <1>3, <1>7
<1> QED BY <1>8 DEF imm

LEMMA LayoutInit == Init => LayoutAgrees
<1> SUFFICES ASSUME Init PROVE LayoutAgrees
  OBVIOUS
<1> DEFINE code == CodeOf(prog)
           n == Len(code)
<1>1. n \in Nat /\ DOMAIN code = 1 .. n
  BY CodeAssumption DEF Init
<1>2. plan = Compile(code, OptionsOf(prog).indirect, OptionsOf(prog).timer)
  BY DEF Init
<1>3. PICK g : FoldsOK(g) /\ g.code = code /\ plan = Judged(g)
  BY <1>1, <1>2, CompiledFolds
<1>4. plan = PlanOf(g, Supported(g), IF Supported(g) THEN g.reach ELSE {})
  BY <1>3 DEF Judged, Planned
<1> HIDE DEF n
<1> QED BY <1>1, <1>3, <1>4, PlanAgrees DEF LayoutAgrees, n

(* The three passes of rvopt that walk the immediates of a program, the    *)
(* one that sizes the pool, the one that fills it and emit_one32, agree,   *)
(* node by node: no block reads an immediate that is another's, whatever   *)
(* the program, the options and what was folded in it.                     *)
THEOREM LayoutSafe == Spec => []LayoutAgrees
<1>1. Init => LayoutAgrees
  BY LayoutInit
<1>2. LayoutAgrees /\ [Next]_vars => LayoutAgrees'
  <2> SUFFICES ASSUME LayoutAgrees, [Next]_vars PROVE LayoutAgrees'
    OBVIOUS
  <2>1. plan' = plan
    BY DEF Next, Safepoint, CellMove, Forward, StaticPut, Run, Stop, Continue, vars
  <2> QED BY <2>1 DEF LayoutAgrees
<1> QED BY <1>1, <1>2, PTL DEF Spec

------------------------------------------------------------------------------
LEMMA PowerIs == \A n \in 0 .. Width : 2 ^ n \in Nat \ {0}
<1> DEFINE S == {n \in Nat : n <= Width => 2 ^ n \in Nat \ {0}}
<1>1. 0 \in S
  OBVIOUS
<1>2. ASSUME NEW n \in Nat, n \in S PROVE n + 1 \in S
  <2> SUFFICES ASSUME n + 1 <= Width PROVE 2 ^ (n + 1) \in Nat \ {0}
    OBVIOUS
  <2>1. n \in 0 .. Width /\ n <= Width
    BY WidthAssumption
  <2>2. 2 ^ (n + 1) = 2 * 2 ^ n
    BY <2>1, PowerAssumption
  <2>3. 2 ^ n \in Nat \ {0}
    BY <1>2, <2>1
  <2> QED BY <2>2, <2>3
<1> HIDE DEF S
<1>3. Nat \subseteq S
  BY <1>1, <1>2, AllNaturals
<1> QED BY <1>3, WidthAssumption DEF S

LEMMA PowerSum == \A m, n \in Nat : m + n <= Width => 2 ^ (m + n) = 2 ^ m * 2 ^ n
<1> SUFFICES ASSUME NEW m \in Nat
             PROVE  \A n \in Nat : m + n <= Width => 2 ^ (m + n) = 2 ^ m * 2 ^ n
  OBVIOUS
<1> DEFINE S == {n \in Nat : m + n <= Width => 2 ^ (m + n) = 2 ^ m * 2 ^ n}
<1>1. 0 \in S
  <2> SUFFICES ASSUME m + 0 <= Width PROVE 2 ^ (m + 0) = 2 ^ m * 2 ^ 0
    OBVIOUS
  <2>1. 2 ^ m \in Nat /\ m + 0 = m /\ 2 ^ 0 = 1
    BY PowerIs, WidthAssumption
  <2> QED BY <2>1
<1>2. ASSUME NEW n \in Nat, n \in S PROVE n + 1 \in S
  <2> SUFFICES ASSUME m + (n + 1) <= Width PROVE 2 ^ (m + (n + 1)) = 2 ^ m * 2 ^ (n + 1)
    OBVIOUS
  <2>1. m \in 0 .. Width /\ n \in 0 .. Width /\ m + n \in 0 .. Width /\ m + (n + 1) = (m + n) + 1
    BY WidthAssumption
  <2>2. 2 ^ ((m + n) + 1) = 2 * 2 ^ (m + n) /\ 2 ^ (n + 1) = 2 * 2 ^ n
    BY <2>1, PowerAssumption
  <2>3. 2 ^ m \in Nat /\ 2 ^ n \in Nat
    BY <2>1, PowerIs
  <2>4. ASSUME NEW a \in Nat, NEW b \in Nat PROVE 2 * (a * b) = a * (2 * b)
    BY Z3
  <2>5. 2 ^ (m + n) = 2 ^ m * 2 ^ n
    BY <1>2, <2>1
  <2> QED BY <2>1, <2>2, <2>3, <2>4, <2>5
<1> HIDE DEF S
<1>3. Nat \subseteq S
  BY <1>1, <1>2, AllNaturals
<1> QED BY <1>3 DEF S

LEMMA WordIs ==
  /\ W!Modulus \in Nat /\ W!SignBit \in Nat
  /\ W!Modulus = 2 * W!SignBit /\ W!SignBit >= 16
  /\ W!Lanes = 0 .. Width - 1
<1>1. Width - 5 \in Nat /\ Width - 1 \in Nat /\ Width = (Width - 1) + 1 /\ Width - 1 = (Width - 5) + 4
  BY WidthAssumption
<1>2. 2 ^ (Width - 5) \in Nat \ {0} /\ 2 ^ (Width - 1) \in Nat
  BY <1>1, PowerIs, WidthAssumption
<1>3. 2 ^ Width = 2 * 2 ^ (Width - 1)
  BY <1>1, PowerAssumption, WidthAssumption
<1>4. 2 ^ (Width - 1) = 2 ^ (Width - 5) * 2 ^ 4
  <2>1. (Width - 5) + 4 <= Width /\ 4 \in Nat
    BY <1>1
  <2> QED BY <1>1, <2>1, PowerSum
<1>5. 2 ^ 4 = 16
  OBVIOUS
<1> QED BY <1>1, <1>2, <1>3, <1>4, <1>5 DEF W!Modulus, W!SignBit, W!Lanes

------------------------------------------------------------------------------
(* Division and remainders.                                                *)
LEMMA DivMod ==
  ASSUME NEW x \in Nat, NEW p \in Nat \ {0}
  PROVE  x \div p \in Nat /\ x % p \in 0 .. p - 1 /\ x = p * (x \div p) + (x % p)
BY Z3

LEMMA DivUnique ==
  ASSUME NEW q \in Nat, NEW r \in Nat, NEW p \in Nat \ {0}, r < p
  PROVE  (p * q + r) \div p = q
<1> DEFINE x == p * q + r
           y == x \div p
<1>1. x \in Nat
  BY Z3
<1>2. y \in Nat /\ x = p * y + (x % p) /\ x % p \in 0 .. p - 1
  BY <1>1, DivMod
<1> HIDE DEF y
<1>3. p * q + r = p * y + (x % p)
  BY <1>2
<1>4. CASE y < q
  <2>1. q = y + (q - y) /\ q - y \in Nat \ {0}
    BY <1>2, <1>4
  <2>2. ASSUME NEW z \in Nat \ {0} PROVE p * (y + z) >= p * y + p
    BY <1>2, Z3
  <2> QED BY <1>2, <1>3, <2>1, <2>2
<1>5. CASE y > q
  <2>1. y = q + (y - q) /\ y - q \in Nat \ {0}
    BY <1>2, <1>5
  <2>2. ASSUME NEW z \in Nat \ {0} PROVE p * (q + z) >= p * q + p
    BY Z3
  <2>3. p * y >= p * q + p /\ p * q \in Nat /\ p * y \in Nat
    BY <1>2, <2>1, <2>2
  <2> QED BY <1>2, <1>3, <2>3
<1> QED BY <1>2, <1>4, <1>5 DEF y

LEMMA DivShift ==
  ASSUME NEW x \in Nat, NEW p \in Nat \ {0}, NEW k \in Nat
  PROVE  (x + p * k) \div p = x \div p + k
<1> DEFINE q == x \div p
           r == x % p
<1>1. q \in Nat /\ r \in Nat /\ r < p /\ x = p * q + r
  BY DivMod
<1> HIDE DEF q, r
<1>2. x + p * k = p * (q + k) + r
  BY <1>1, Z3
<1>3. (p * (q + k) + r) \div p = q + k
  <2>1. q + k \in Nat
    BY <1>1
  <2> QED BY <1>1, <2>1, DivUnique
<1> QED BY <1>2, <1>3 DEF q

(* Dividing twice is dividing by the product.                              *)
LEMMA DivTwice ==
  ASSUME NEW x \in Nat, NEW p \in Nat \ {0}, NEW k \in Nat \ {0}
  PROVE  (x \div p) \div k = x \div (p * k)
<1> DEFINE q == x \div p
           r == x % p
           a == q \div k
           b == q % k
<1>1. q \in Nat /\ r \in Nat /\ r < p /\ x = p * q + r
  BY DivMod
<1>2. a \in Nat /\ b \in Nat /\ b <= k - 1 /\ q = k * a + b
  BY <1>1, DivMod
<1> HIDE DEF a, b, q, r
<1>3. x = (p * k) * a + (p * b + r)
  <2>1. p * (k * a + b) = (p * k) * a + p * b
    BY <1>2, Z3
  <2> QED BY <1>1, <1>2, <2>1
<1>4. p * b + r < p * k /\ p * b + r \in Nat /\ p * k \in Nat \ {0}
  <2>1. p * b <= p * (k - 1) /\ p * (k - 1) = p * k - p
    BY <1>2, Z3
  <2>2. p * b \in Nat /\ p * k \in Nat \ {0}
    BY <1>2, Z3
  <2> QED BY <1>1, <2>1, <2>2
<1>5. ((p * k) * a + (p * b + r)) \div (p * k) = a
  BY <1>2, <1>4, DivUnique
<1> QED BY <1>3, <1>5 DEF a, q

LEMMA Parity ==
  ASSUME NEW x \in Nat, NEW k \in Nat
  PROVE  (x + 2 * k) % 2 = x % 2 /\ (x + 1) % 2 = 1 - (x % 2) /\ x % 2 \in {0, 1}
BY Z3

------------------------------------------------------------------------------
(* Binary notation: bit i of v.                                            *)
BitOf(v, i) == (v \div 2 ^ i) % 2

LEMMA BitsAre == \A v : W!Bits(v) = {i \in 0 .. Width - 1 : BitOf(v, i) = 1}
BY DEF W!Bits, W!Lanes, BitOf

LEMMA BitValue == ASSUME NEW v \in Nat, NEW i \in 0 .. Width PROVE BitOf(v, i) \in {0, 1}
<1>1. v \div 2 ^ i \in Nat
  BY PowerIs, DivMod
<1> QED BY <1>1, Parity DEF BitOf

LEMMA BitAbove == ASSUME NEW i \in 0 .. Width, NEW v \in 0 .. 2 ^ i - 1 PROVE BitOf(v, i) = 0
<1> DEFINE p == 2 ^ i
<1>1. p \in Nat \ {0} /\ v \in Nat /\ v < p
  BY PowerIs
<1> HIDE DEF p
<1>2. p * 0 + v = v /\ (p * 0 + v) \div p = 0
  <2>1. (p * 0 + v) \div p = 0
    BY <1>1, DivUnique
  <2> QED BY <1>1, <2>1
<1>3. v \div p = 0
  BY <1>2
<1> QED BY <1>3 DEF BitOf, p

(* Adding a power of two leaves the bits below it alone.                   *)
LEMMA BitBelow ==
  ASSUME NEW v \in Nat, NEW n \in 0 .. Width, NEW i \in 0 .. n - 1
  PROVE  BitOf(v + 2 ^ n, i) = BitOf(v, i)
<1> DEFINE p == 2 ^ i
           h == 2 ^ (n - i - 1)
<1>1. i \in 0 .. Width /\ n - i - 1 \in 0 .. Width /\ n - i = (n - i - 1) + 1 /\ n - i \in Nat /\ n = i + (n - i)
  BY WidthAssumption
<1>2. p \in Nat \ {0} /\ h \in Nat
  BY <1>1, PowerIs
<1>3. 2 ^ (n - i) = 2 * h
  BY <1>1, PowerAssumption
<1>4. 2 ^ n = p * (2 * h)
  <2>1. i + (n - i) <= Width
    BY <1>1
  <2> QED BY <1>1, <1>3, <2>1, PowerSum
<1> HIDE DEF p, h
<1>5. (v + p * (2 * h)) \div p = v \div p + 2 * h
  <2>1. 2 * h \in Nat
    BY <1>2
  <2> QED BY <1>2, <2>1, DivShift
<1>6. v \div p \in Nat
  BY <1>2, DivMod
<1>7. (v \div p + 2 * h) % 2 = (v \div p) % 2
  BY <1>2, <1>6, Parity
<1> QED BY <1>4, <1>5, <1>7 DEF BitOf, p

LEMMA BitAdded ==
  ASSUME NEW b \in 0 .. Width - 1, NEW v \in Nat, BitOf(v, b) = 0
  PROVE  /\ BitOf(v + 2 ^ b, b) = 1
         /\ (v + 2 ^ b) \div 2 ^ (b + 1) = v \div 2 ^ (b + 1)
<1> DEFINE p == 2 ^ b
           y == v \div p
           s == v % p
           q == y \div 2
<1>1. p \in Nat \ {0} /\ 2 ^ (b + 1) = 2 * p
  BY PowerIs, PowerAssumption, WidthAssumption
<1>2. y \in Nat /\ s \in 0 .. p - 1 /\ v = p * y + s
  BY <1>1, DivMod
<1>3. q \in Nat /\ y = 2 * q
  <2>1. y % 2 = 0
    BY DEF BitOf
  <2> HIDE DEF y
  <2> QED BY <1>2, <2>1
<1>4. (v + p * 1) \div p = y + 1
  <2> DEFINE one == 1
  <2> HIDE DEF one, p
  <2>1. v \in Nat /\ p \in Nat \ {0} /\ one \in Nat
    BY <1>1 DEF one
  <2>2. (v + p * one) \div p = v \div p + one
    BY ONLY <2>1, DivShift
  <2> QED BY <2>2 DEF one
<1>5. BitOf(v + p, b) = 1
  <2>1. p * 1 = p
    BY <1>1
  <2>2. (y + 1) % 2 = 1
    <3> HIDE DEF q, y
    <3> QED BY <1>3
  <2> HIDE DEF y
  <2> QED BY <1>4, <2>1, <2>2 DEF BitOf
<1> HIDE DEF p, y, s, q
<1>6. v = (2 * p) * q + s /\ v + p = (2 * p) * q + (s + p)
  <2>1. p * (2 * q) = (2 * p) * q
    BY <1>1, <1>3, Z3
  <2> QED BY <1>1, <1>2, <1>3, <2>1
<1>7. 2 * p \in Nat \ {0} /\ s \in Nat /\ s + p \in Nat /\ s < 2 * p /\ s + p < 2 * p
  BY <1>1, <1>2
<1>8. PICK d \in Nat \ {0} : d = 2 * p
  BY <1>7
<1>9. (d * q + s) \div d = q /\ (d * q + (s + p)) \div d = q
  BY SMTT(40), <1>3, <1>7, <1>8, DivUnique
<1>10. v \div d = q /\ (v + p) \div d = q
  BY <1>6, <1>8, <1>9
<1> QED BY <1>1, <1>5, <1>8, <1>10 DEF p

LEMMA BitOthers ==
  ASSUME NEW b \in 0 .. Width - 1, NEW v \in Nat, BitOf(v, b) = 0,
         NEW i \in 0 .. Width - 1, i # b
  PROVE  BitOf(v + 2 ^ b, i) = BitOf(v, i)
<1>1. CASE i < b
  BY <1>1, BitBelow, WidthAssumption
<1>2. CASE i > b
  <2> DEFINE P == 2 ^ (b + 1)
             m == 2 ^ (i - (b + 1))
             w == v + 2 ^ b
  <2>1. b + 1 \in 0 .. Width /\ i - (b + 1) \in 0 .. Width /\ i = (b + 1) + (i - (b + 1)) /\ b \in 0 .. Width
    BY <1>2, WidthAssumption
  <2>2. P \in Nat \ {0} /\ m \in Nat \ {0} /\ w \in Nat
    BY <2>1, PowerIs
  <2>3. 2 ^ i = P * m
    <3>1. b + 1 \in Nat /\ i - (b + 1) \in Nat /\ (b + 1) + (i - (b + 1)) <= Width
      BY <2>1, WidthAssumption
    <3> QED BY <2>1, <3>1, PowerSum
  <2>4. w \div P = v \div P
    BY BitAdded
  <2> HIDE DEF P, m, w
  <2>5. w \div (P * m) = (w \div P) \div m /\ v \div (P * m) = (v \div P) \div m
    BY <2>2, DivTwice
  <2> QED BY <2>3, <2>4, <2>5 DEF BitOf, w
<1> QED BY <1>1, <1>2

(* A word is determined by its bits, and any bits are those of a word.     *)
Agree(x, y, n) == \A i \in 0 .. n - 1 : BitOf(x, i) = BitOf(y, i)

LEMMA TopBitIs ==
  ASSUME NEW n \in 0 .. Width - 1, NEW v \in 0 .. 2 ^ (n + 1) - 1
  PROVE  BitOf(v, n) = IF v >= 2 ^ n THEN 1 ELSE 0
<1> DEFINE p == 2 ^ n
<1>1. p \in Nat \ {0} /\ 2 ^ (n + 1) = 2 * p /\ n \in 0 .. Width
  BY PowerIs, PowerAssumption, WidthAssumption
<1>2. CASE v >= p
  <2>1. v - p \in Nat /\ v - p < p /\ v = p * 1 + (v - p) /\ 1 \in Nat
    BY <1>1, <1>2
  <2> HIDE DEF p
  <2>2. (p * 1 + (v - p)) \div p = 1
    BY <1>1, <2>1, DivUnique
  <2> QED BY <1>2, <2>1, <2>2 DEF BitOf, p
<1>3. CASE v < p
  <2>1. v \in 0 .. 2 ^ n - 1
    BY <1>1, <1>3
  <2> QED BY <1>1, <1>3, <2>1, BitAbove
<1> QED BY <1>1, <1>2, <1>3

LEMMA BitsDetermine == \A n \in 0 .. Width : \A x, y \in 0 .. 2 ^ n - 1 : Agree(x, y, n) => x = y
<1> DEFINE S == {n \in Nat : n <= Width => \A x, y \in 0 .. 2 ^ n - 1 : Agree(x, y, n) => x = y}
<1>1. 0 \in S
  <2>1. 2 ^ 0 = 1
    OBVIOUS
  <2> QED BY <2>1
<1>2. ASSUME NEW n \in Nat, n \in S PROVE n + 1 \in S
  <2> SUFFICES ASSUME n + 1 <= Width, NEW x \in 0 .. 2 ^ (n + 1) - 1, NEW y \in 0 .. 2 ^ (n + 1) - 1,
                      Agree(x, y, n + 1)
               PROVE  x = y
    OBVIOUS
  <2> DEFINE p == 2 ^ n
  <2>1. n \in 0 .. Width - 1 /\ n \in 0 .. Width /\ n <= Width
    BY WidthAssumption
  <2>2. p \in Nat \ {0} /\ 2 ^ (n + 1) = 2 * p
    BY <2>1, PowerIs, PowerAssumption
  <2>3. \A u, v \in 0 .. p - 1 : Agree(u, v, n) => u = v
    BY <1>2, <2>1
  <2>4. x >= p <=> y >= p
    <3>1. BitOf(x, n) = BitOf(y, n)
      BY DEF Agree
    <3> QED BY <2>1, <3>1, TopBitIs
  <2>5. CASE x < p
    <3>1. x \in 0 .. p - 1 /\ y \in 0 .. p - 1 /\ Agree(x, y, n)
      BY <2>2, <2>4, <2>5 DEF Agree
    <3> QED BY <2>3, <3>1
  <2>6. CASE x >= p
    <3>1. x - p \in 0 .. p - 1 /\ y - p \in 0 .. p - 1 /\ x = (x - p) + p /\ y = (y - p) + p
      BY <2>2, <2>4, <2>6
    <3>2. Agree(x - p, y - p, n)
      <4> SUFFICES ASSUME NEW i \in 0 .. n - 1 PROVE BitOf(x - p, i) = BitOf(y - p, i)
        BY DEF Agree
      <4>1. BitOf((x - p) + p, i) = BitOf(x - p, i) /\ BitOf((y - p) + p, i) = BitOf(y - p, i)
        <5>1. x - p \in Nat /\ y - p \in Nat
          BY <3>1
        <5> QED BY <2>1, <5>1, BitBelow
      <4>2. BitOf(x, i) = BitOf(y, i)
        BY DEF Agree
      <4> QED BY <3>1, <4>1, <4>2
    <3> QED BY <2>2, <2>3, <3>1, <3>2
  <2> QED BY <2>2, <2>5, <2>6
<1> HIDE DEF S
<1>3. Nat \subseteq S
  BY <1>1, <1>2, AllNaturals
<1> QED BY <1>3, WidthAssumption DEF S

LEMMA BitsOnto ==
  \A n \in 0 .. Width : \A B \in SUBSET (0 .. n - 1) :
    \E x \in 0 .. 2 ^ n - 1 : \A i \in 0 .. n - 1 : BitOf(x, i) = 1 <=> i \in B
<1> DEFINE Has(x, B, n) == \A i \in 0 .. n - 1 : BitOf(x, i) = 1 <=> i \in B
           S == {n \in Nat : n <= Width =>
                   \A B \in SUBSET (0 .. n - 1) : \E x \in 0 .. 2 ^ n - 1 : Has(x, B, n)}
<1>1. 0 \in S
  <2>1. 2 ^ 0 = 1
    OBVIOUS
  <2> QED BY <2>1
<1>2. ASSUME NEW n \in Nat, n \in S PROVE n + 1 \in S
  <2> SUFFICES ASSUME n + 1 <= Width, NEW B \in SUBSET (0 .. (n + 1) - 1)
               PROVE  \E x \in 0 .. 2 ^ (n + 1) - 1 : Has(x, B, n + 1)
    OBVIOUS
  <2> DEFINE p == 2 ^ n
  <2>1. n \in 0 .. Width - 1 /\ n \in 0 .. Width /\ n <= Width
    BY WidthAssumption
  <2>2. p \in Nat \ {0} /\ 2 ^ (n + 1) = 2 * p
    BY <2>1, PowerIs, PowerAssumption
  <2>3. PICK x \in 0 .. p - 1 : Has(x, B \ {n}, n)
    <3>1. B \ {n} \in SUBSET (0 .. n - 1)
      OBVIOUS
    <3> QED BY <1>2, <2>1, <3>1
  <2>4. CASE n \in B
    <3> DEFINE z == x + p
    <3>1. z \in 0 .. 2 ^ (n + 1) - 1 /\ z >= p /\ x \in Nat
      BY <2>2
    <3>2. BitOf(z, n) = 1
      BY <2>1, <3>1, TopBitIs
    <3>3. \A i \in 0 .. n - 1 : BitOf(z, i) = BitOf(x, i)
      BY <2>1, <3>1, BitBelow
    <3> HIDE DEF z
    <3>4. Has(z, B, n + 1)
      <4>1. \A i \in 0 .. (n + 1) - 1 : i = n \/ (i # n /\ i \in 0 .. n - 1)
        OBVIOUS
      <4> QED BY <2>3, <2>4, <3>2, <3>3, <4>1
    <3> QED BY <3>1, <3>4
  <2>5. CASE n \notin B
    <3>1. x \in 0 .. 2 ^ (n + 1) - 1 /\ x < p
      BY <2>2
    <3>2. BitOf(x, n) = 0
      BY <2>1, <2>2, <3>1, TopBitIs
    <3>3. Has(x, B, n + 1)
      <4>1. \A i \in 0 .. (n + 1) - 1 : i = n \/ (i # n /\ i \in 0 .. n - 1)
        OBVIOUS
      <4> QED BY <2>3, <2>5, <3>2, <4>1
    <3> QED BY <3>1, <3>3
  <2> QED BY <2>4, <2>5
<1> HIDE DEF S
<1>3. Nat \subseteq S
  BY <1>1, <1>2, AllNaturals
<1> QED BY <1>3, WidthAssumption DEF S

LEMMA CellIs == W!Cell = 0 .. 2 ^ Width - 1 /\ W!Lanes = 0 .. Width - 1
BY DEF W!Cell, W!Modulus, W!Lanes

LEMMA CellOfIs ==
  ASSUME NEW B \in SUBSET W!Lanes
  PROVE  W!CellOf[B] \in W!Cell /\ W!Bits(W!CellOf[B]) = B
<1>1. Width \in 0 .. Width /\ B \in SUBSET (0 .. Width - 1)
  BY WidthAssumption, CellIs
<1>2. PICK x \in 0 .. 2 ^ Width - 1 : \A i \in 0 .. Width - 1 : BitOf(x, i) = 1 <=> i \in B
  BY <1>1, BitsOnto
<1>3. x \in W!Cell /\ W!Bits(x) = B
  BY <1>1, <1>2, BitsAre, CellIs
<1> QED BY <1>3 DEF W!CellOf

LEMMA SameBits ==
  ASSUME NEW x \in W!Cell, NEW y \in W!Cell, W!Bits(x) = W!Bits(y)
  PROVE  x = y
<1>1. Width \in 0 .. Width /\ x \in 0 .. 2 ^ Width - 1 /\ y \in 0 .. 2 ^ Width - 1
  BY WidthAssumption, CellIs
<1>2. \A i \in 0 .. Width - 1 : BitOf(x, i) \in {0, 1} /\ BitOf(y, i) \in {0, 1}
  <2>1. x \in Nat /\ y \in Nat
    <3>1. 2 ^ Width \in Nat
      BY <1>1, PowerIs
    <3> QED BY <1>1, <3>1
  <2> QED BY <2>1, BitValue, WidthAssumption
<1>3. \A i \in 0 .. Width - 1 : BitOf(x, i) = 1 <=> BitOf(y, i) = 1
  BY BitsAre
<1>4. Agree(x, y, Width)
  BY <1>2, <1>3 DEF Agree
<1> QED BY <1>1, <1>4, BitsDetermine

LEMMA CellOfBits ==
  ASSUME NEW x \in W!Cell
  PROVE  W!Bits(x) \in SUBSET W!Lanes /\ W!CellOf[W!Bits(x)] = x
<1>1. W!Bits(x) \in SUBSET W!Lanes
  BY DEF W!Bits
<1> QED BY <1>1, CellOfIs, SameBits

LEMMA SignIsTop ==
  ASSUME NEW x \in W!Cell
  PROVE  Width - 1 \in W!Bits(x) <=> x >= W!SignBit
<1>1. Width - 1 \in 0 .. Width - 1 /\ (Width - 1) + 1 = Width
  BY WidthAssumption
<1>2. BitOf(x, Width - 1) = IF x >= 2 ^ (Width - 1) THEN 1 ELSE 0
  BY <1>1, CellIs, TopBitIs
<1> QED BY <1>1, <1>2, BitsAre DEF W!SignBit

LEMMA NoBits == 0 \in W!Cell /\ W!Bits(0) = {}
<1>1. 0 \in W!Cell
  BY WordIs DEF W!Cell
<1>2. \A i \in 0 .. Width - 1 : BitOf(0, i) = 0
  BY PowerIs, BitAbove, WidthAssumption
<1> QED BY <1>1, <1>2, BitsAre

LEMMA SetBitIs ==
  ASSUME NEW v \in W!Cell, NEW b \in W!Lanes, b \notin W!Bits(v)
  PROVE  v + 2 ^ b \in W!Cell /\ W!Bits(v + 2 ^ b) = W!Bits(v) \cup {b}
<1>0. b \in 0 .. Width - 1 /\ v \in Nat
  BY CellIs, WordIs DEF W!Cell
<1>1. BitOf(v, b) = 0
  <2>1. BitOf(v, b) \in {0, 1}
    BY <1>0, BitValue, WidthAssumption
  <2> QED BY <1>0, <2>1, BitsAre
<1>2. \A i \in 0 .. Width - 1 : BitOf(v + 2 ^ b, i) = IF i = b THEN 1 ELSE BitOf(v, i)
  BY <1>0, <1>1, BitAdded, BitOthers
<1>3. W!Bits(v + 2 ^ b) = W!Bits(v) \cup {b}
  BY <1>0, <1>2, BitsAre
<1>4. v + 2 ^ b < 2 ^ Width
  <2> DEFINE P == 2 ^ (b + 1)
             m == 2 ^ (Width - (b + 1))
             w == v + 2 ^ b
             q == v \div P
  <2>1. b + 1 \in 0 .. Width /\ Width - (b + 1) \in 0 .. Width /\ b \in 0 .. Width
        /\ (b + 1) + (Width - (b + 1)) = Width /\ b + 1 \in Nat /\ Width - (b + 1) \in Nat
    BY <1>0, WidthAssumption
  <2>2. P \in Nat \ {0} /\ m \in Nat \ {0} /\ w \in Nat
    BY <1>0, <2>1, PowerIs
  <2>3. 2 ^ Width = P * m
    <3>1. (b + 1) + (Width - (b + 1)) <= Width
      BY <2>1
    <3> QED BY <2>1, <3>1, PowerSum
  <2>4. w \div P = q
    BY <1>0, <1>1, BitAdded
  <2>5. v < P * m
    <3>1. v < 2 ^ Width
      BY CellIs, PowerIs, WidthAssumption
    <3> QED BY <2>3, <3>1
  <2>6. q \in Nat /\ v = P * q + (v % P) /\ v % P \in 0 .. P - 1 /\ w = P * q + (w % P) /\ w % P \in 0 .. P - 1
    BY <1>0, <2>2, <2>4, DivMod
  <2> HIDE DEF P, m, w, q
  <2>7. q <= m - 1
    <3> SUFFICES ASSUME q >= m PROVE FALSE
      BY <2>2, <2>6
    <3>1. P * q >= P * m
      <4>1. q - m \in Nat /\ q = m + (q - m)
        BY <2>2, <2>6
      <4>2. ASSUME NEW k \in Nat PROVE P * (m + k) >= P * m
        BY <2>2, Z3
      <4> QED BY <4>1, <4>2
    <3>2. P * q \in Nat /\ P * m \in Nat
      BY <2>2, <2>6, Z3
    <3> QED BY <2>5, <2>6, <3>1, <3>2
  <2>8. P * q + P <= P * m
    <3>1. (m - 1) - q \in Nat /\ m = (q + 1) + ((m - 1) - q)
      BY <2>2, <2>6, <2>7
    <3>2. ASSUME NEW k \in Nat PROVE P * q + P <= P * ((q + 1) + k)
      BY <2>2, <2>6, Z3
    <3> QED BY <3>1, <3>2
  <2>9. P * q \in Nat /\ P * m \in Nat
    BY <2>2, <2>6, Z3
  <2>10. w < P * m
    BY <2>2, <2>6, <2>8, <2>9
  <2> QED BY <2>3, <2>10 DEF w
<1>5. v + 2 ^ b \in Nat /\ 2 ^ Width \in Nat
  BY <1>0, PowerIs, WidthAssumption
<1> QED BY <1>3, <1>4, <1>5, CellIs

LEMMA PowerBits ==
  ASSUME NEW b \in W!Lanes
  PROVE  2 ^ b \in W!Cell /\ W!Bits(2 ^ b) = {b}
<1>1. 0 + 2 ^ b \in W!Cell /\ W!Bits(0 + 2 ^ b) = {} \cup {b}
  BY NoBits, SetBitIs
<1>2. 0 + 2 ^ b = 2 ^ b
  BY PowerIs, CellIs, WidthAssumption
<1> QED BY <1>1, <1>2

LEMMA ClearBitIs ==
  ASSUME NEW v \in W!Cell, NEW b \in W!Bits(v)
  PROVE  v - 2 ^ b \in W!Cell /\ W!Bits(v - 2 ^ b) = W!Bits(v) \ {b}
<1> DEFINE w == W!CellOf[W!Bits(v) \ {b}]
<1>1. W!Bits(v) \in SUBSET W!Lanes /\ b \in W!Lanes
  BY CellOfBits
<1>2. w \in W!Cell /\ W!Bits(w) = W!Bits(v) \ {b}
  BY <1>1, CellOfIs
<1> HIDE DEF w
<1>3. w + 2 ^ b \in W!Cell /\ W!Bits(w + 2 ^ b) = W!Bits(v)
  BY <1>1, <1>2, SetBitIs
<1>4. w + 2 ^ b = v
  BY <1>3, SameBits
<1>5. v - 2 ^ b = w
  <2>1. w \in Nat /\ 2 ^ b \in Nat
    BY <1>1, <1>2, PowerBits, WordIs DEF W!Cell
  <2> QED BY <1>4, <2>1
<1> QED BY <1>2, <1>5

------------------------------------------------------------------------------
(* The machine as a function, and what it gets to from a state.            *)
St(m, p, o) == [mem |-> m, pc |-> p, puts |-> o]
Written(m, d, v) == [m EXCEPT ![d] = v]

PointedIn(m)    == IF m[OPERAND] - RamBase \in 0 .. Window - 1 THEN RAM(m[OPERAND] - RamBase) ELSE Stray
CellIn(m, name) == IF name = DEREF THEN PointedIn(m) ELSE name
To(p, L)        == IF L >= HALT THEN L ELSE p + L

StepOf(c, s) ==
  LET i == c[s.pc]
      m == s.mem
      put(v) == Written(m, CellIn(m, i.b), v)
      r == W!Wrap(m[i.b] - m[i.a])
  IN  IF s.pc > Len(c) THEN s
      ELSE CASE i.op = "move" -> St(put(m[CellIn(m, i.a)]), To(s.pc, 1), s.puts)
             [] i.op = "mux"  -> St(put(W!Select(m[i.a], m[i.b], m[i.mask])), To(s.pc, 1), s.puts)
             [] i.op = "sub"  -> St(put(r), To(s.pc, IF r = 0 \/ W!Negative(r) THEN i.to ELSE 1), s.puts)
             [] i.op = "put"  -> St(m, To(s.pc, 1), Append(s.puts, m[CellIn(m, i.a)]))
             [] OTHER         -> s

Path(c, s, t, f, n) == f[0] = s /\ f[n] = t /\ \A k \in 1 .. n : f[k] = StepOf(c, f[k - 1])

Reaches(c, s, t) == \E n \in Nat : \E f : Path(c, s, t, f, n)

LEMMA ReachesItself == ASSUME NEW c, NEW s PROVE Reaches(c, s, s)
<1>1. Path(c, s, s, [k \in 0 .. 0 |-> s], 0)
  BY DEF Path
<1> QED BY <1>1 DEF Reaches

LEMMA ReachesStep == ASSUME NEW c, NEW s, NEW t, Reaches(c, s, t) PROVE Reaches(c, s, StepOf(c, t))
<1>n. PICK n \in Nat : \E f : Path(c, s, t, f, n)
  BY DEF Reaches
<1>1. PICK f : Path(c, s, t, f, n)
  BY <1>n
<1> DEFINE u == StepOf(c, t)
           g == [k \in 0 .. n + 1 |-> IF k = n + 1 THEN u ELSE f[k]]
<1>2. Path(c, s, u, g, n + 1)
  <2> HIDE DEF u
  <2>1. g[0] = s /\ g[n + 1] = u /\ g[n] = t
    BY <1>1 DEF Path
  <2>2. \A k \in 1 .. n : k \in 0 .. n + 1 /\ k - 1 \in 0 .. n + 1 /\ k # n + 1 /\ k - 1 # n + 1
    OBVIOUS
  <2>3. \A k \in 1 .. n : g[k] = StepOf(c, g[k - 1])
    BY <1>1, <2>2 DEF Path
  <2>4. g[n + 1] = StepOf(c, g[(n + 1) - 1])
    BY <2>1 DEF u
  <2> HIDE DEF g
  <2>5. \A k \in 1 .. n + 1 : g[k] = StepOf(c, g[k - 1])
    <3> TAKE k \in 1 .. n + 1
    <3>1. CASE k = n + 1
      BY <2>4, <3>1
    <3>2. CASE k \in 1 .. n
      BY <2>3, <3>2
    <3> QED BY <3>1, <3>2
  <2> QED BY <2>1, <2>5 DEF Path
<1> QED BY <1>2 DEF Reaches

LEMMA ReachesOn ==
  ASSUME NEW c, NEW s, NEW t, NEW u, Reaches(c, s, t), Reaches(c, t, u)
  PROVE  Reaches(c, s, u)
<1>n. PICK n \in Nat : \E f : Path(c, t, u, f, n)
  BY DEF Reaches
<1>1. PICK f : Path(c, t, u, f, n)
  BY <1>n
<1> DEFINE S == {k \in Nat : k <= n => Reaches(c, s, f[k])}
<1>2. 0 \in S
  BY <1>1 DEF Path
<1>3. ASSUME NEW k \in Nat, k \in S PROVE k + 1 \in S
  <2> SUFFICES ASSUME k + 1 <= n PROVE Reaches(c, s, f[k + 1])
    OBVIOUS
  <2>1. Reaches(c, s, f[k]) /\ k + 1 \in 1 .. n /\ (k + 1) - 1 = k
    BY <1>3
  <2>2. f[k + 1] = StepOf(c, f[k])
    BY <1>1, <2>1 DEF Path
  <2> QED BY <2>1, <2>2, ReachesStep
<1> HIDE DEF S
<1>4. Nat \subseteq S
  BY <1>2, <1>3, AllNaturals
<1>5. n \in S
  BY <1>4
<1> QED BY <1>1, <1>5 DEF S, Path

(* The machine is deterministic: it ends in one state.                     *)
LEMMA EndsAlike ==
  ASSUME NEW c, NEW s, NEW t, NEW u, NEW f, NEW n \in Nat, NEW g, NEW k \in Nat,
         Path(c, s, t, f, n), Path(c, s, u, g, k), n <= k, StepOf(c, t) = t
  PROVE  t = u
<1> DEFINE S == {i \in Nat : i <= n => f[i] = g[i]}
<1>1. 0 \in S
  BY DEF Path
<1>2. ASSUME NEW i \in Nat, i \in S PROVE i + 1 \in S
  <2> SUFFICES ASSUME i + 1 <= n PROVE f[i + 1] = g[i + 1]
    OBVIOUS
  <2>1. i + 1 \in 1 .. n /\ i + 1 \in 1 .. k /\ (i + 1) - 1 = i /\ f[i] = g[i]
    BY <1>2
  <2> QED BY <2>1 DEF Path
<1>3. Nat \subseteq S
  <2> HIDE DEF S
  <2> QED BY <1>1, <1>2, AllNaturals
<1>4. g[n] = t
  BY <1>3 DEF Path
<1> DEFINE R == {i \in Nat : n + i <= k => g[n + i] = t}
<1>5. 0 \in R
  BY <1>4
<1>6. ASSUME NEW i \in Nat, i \in R PROVE i + 1 \in R
  <2> SUFFICES ASSUME n + (i + 1) <= k PROVE g[n + (i + 1)] = t
    OBVIOUS
  <2>1. n + (i + 1) \in 1 .. k /\ (n + (i + 1)) - 1 = n + i /\ g[n + i] = t
    BY <1>6
  <2> QED BY <2>1 DEF Path
<1>7. Nat \subseteq R
  <2> HIDE DEF R
  <2> QED BY <1>5, <1>6, AllNaturals
<1>8. k - n \in Nat /\ n + (k - n) = k
  OBVIOUS
<1> QED BY <1>7, <1>8 DEF Path

LEMMA Deterministic ==
  ASSUME NEW c, NEW s, NEW t, NEW u, Reaches(c, s, t), Reaches(c, s, u),
         t.pc > Len(c), u.pc > Len(c)
  PROVE  t = u
<1>n. PICK n \in Nat : \E f : Path(c, s, t, f, n)
  BY DEF Reaches
<1>1. PICK f : Path(c, s, t, f, n)
  BY <1>n
<1>k. PICK k \in Nat : \E g : Path(c, s, u, g, k)
  BY DEF Reaches
<1>2. PICK g : Path(c, s, u, g, k)
  BY <1>k
<1>3. StepOf(c, t) = t /\ StepOf(c, u) = u
  BY DEF StepOf
<1>4. CASE n <= k
  BY <1>1, <1>2, <1>3, <1>4, EndsAlike
<1>5. CASE k <= n
  BY <1>1, <1>2, <1>3, <1>5, EndsAlike
<1> QED BY <1>4, <1>5

LEMMA BlockStep ==
  ASSUME BlockNext
  PROVE  /\ insn' = insn /\ start' = start
         /\ St(mem', pc', puts') = StepOf(Code[insn], St(mem, pc, puts))
<1> DEFINE s == St(mem, pc, puts)
           c == Code[insn]
<1>0. s.mem = mem /\ s.pc = pc /\ s.puts = puts
  BY DEF St
<1>1. ASSUME Move PROVE insn' = insn /\ start' = start /\ St(mem', pc', puts') = StepOf(c, s)
  BY <1>0, <1>1 DEF Move, Store, Goto, Ended, Fetch, CellOf, Pointed, StepOf, Written, CellIn, PointedIn, To
<1>2. ASSUME Mux PROVE insn' = insn /\ start' = start /\ St(mem', pc', puts') = StepOf(c, s)
  BY <1>0, <1>2 DEF Mux, Store, Goto, Ended, Fetch, CellOf, Pointed, StepOf, Written, CellIn, PointedIn, To
<1>3. ASSUME Subleq PROVE insn' = insn /\ start' = start /\ St(mem', pc', puts') = StepOf(c, s)
  BY <1>0, <1>3 DEF Subleq, Store, Goto, Ended, Fetch, CellOf, Pointed, StepOf, Written, CellIn, PointedIn, To
<1>4. ASSUME Put PROVE insn' = insn /\ start' = start /\ St(mem', pc', puts') = StepOf(c, s)
  BY <1>0, <1>4 DEF Put, Goto, Ended, Fetch, CellOf, Pointed, StepOf, Written, CellIn, PointedIn, To
<1> QED BY <1>1, <1>2, <1>3, <1>4 DEF BlockNext

------------------------------------------------------------------------------
(* Where an emitted piece stands in a block.                               *)
Piece(s) == Len(s) \in Nat /\ s = [k \in 1 .. Len(s) |-> s[k]]

Holds(c, p, s) ==
  /\ p \in Nat \ {0} /\ Len(c) \in Nat /\ Piece(s) /\ p + Len(s) <= Len(c) + 1
  /\ \A k \in 1 .. Len(s) : c[p + k - 1] = s[k]

LEMMA PieceOfSeq == ASSUME NEW s, Piece(s) PROVE s \in Seq({s[k] : k \in 1 .. Len(s)})
<1> DEFINE S == {s[k] : k \in 1 .. Len(s)}
<1>1. [k \in 1 .. Len(s) |-> s[k]] \in [1 .. Len(s) -> S]
  OBVIOUS
<1>2. \A n \in Nat : \A f \in [1 .. n -> S] : f \in Seq(S)
  OBVIOUS
<1> QED BY <1>1, <1>2 DEF Piece

LEMMA SeqIsPiece == ASSUME NEW S, NEW u \in Seq(S) PROVE Piece(u)
<1>1. Len(u) \in Nat /\ u \in [1 .. Len(u) -> S]
  BY SeqDef, LenProperties
<1> QED BY <1>1 DEF Piece

LEMMA PieceInsn == ASSUME NEW r PROVE Piece(<<r>>) /\ Len(<<r>>) = 1 /\ <<r>>[1] = r
BY DEF Piece

LEMMA PieceConcat ==
  ASSUME NEW s, NEW t, Piece(s), Piece(t)
  PROVE  /\ Piece(s \o t) /\ Len(s \o t) = Len(s) + Len(t)
         /\ \A k \in 1 .. Len(s) : (s \o t)[k] = s[k]
         /\ \A k \in 1 .. Len(t) : (s \o t)[Len(s) + k] = t[k]
<1> DEFINE S == {s[k] : k \in 1 .. Len(s)} \cup {t[k] : k \in 1 .. Len(t)}
<1>1. s \in Seq(S) /\ t \in Seq(S)
  <2>1. s \in Seq({s[k] : k \in 1 .. Len(s)}) /\ t \in Seq({t[k] : k \in 1 .. Len(t)})
    BY PieceOfSeq
  <2>2. \A U : U \subseteq S => Seq(U) \subseteq Seq(S)
    OBVIOUS
  <2> QED BY <2>1, <2>2
<1> HIDE DEF S
<1>2. s \o t \in Seq(S) /\ Len(s \o t) = Len(s) + Len(t)
  BY <1>1
<1>3. Piece(s \o t)
  BY <1>2, SeqIsPiece
<1>4. \A k \in 1 .. Len(s) : (s \o t)[k] = s[k]
  BY <1>1
<1>5. \A k \in 1 .. Len(t) : (s \o t)[Len(s) + k] = t[k]
  <2> TAKE k \in 1 .. Len(t)
  <2>1. Len(s) + k \in 1 .. Len(s) + Len(t) /\ Len(s) + k > Len(s) /\ (Len(s) + k) - Len(s) = k
    BY DEF Piece
  <2> QED BY <1>1, <2>1
<1> QED BY <1>2, <1>3, <1>4, <1>5

LEMMA HoldsSplit ==
  ASSUME NEW c, NEW p, NEW s, NEW t, Piece(s), Piece(t), Holds(c, p, s \o t)
  PROVE  Holds(c, p, s) /\ Holds(c, p + Len(s), t)
<1>1. /\ Len(s \o t) = Len(s) + Len(t) /\ Len(s) \in Nat /\ Len(t) \in Nat
      /\ \A k \in 1 .. Len(s) : (s \o t)[k] = s[k]
      /\ \A k \in 1 .. Len(t) : (s \o t)[Len(s) + k] = t[k]
  BY PieceConcat DEF Piece
<1>2. p \in Nat \ {0} /\ Len(c) \in Nat /\ p + (Len(s) + Len(t)) <= Len(c) + 1
      /\ \A k \in 1 .. Len(s) + Len(t) : c[p + k - 1] = (s \o t)[k]
  BY <1>1 DEF Holds
<1>3. Holds(c, p, s)
  <2>1. \A k \in 1 .. Len(s) : k \in 1 .. Len(s) + Len(t)
    BY <1>1
  <2> QED BY <1>1, <1>2, <2>1 DEF Holds
<1>4. Holds(c, p + Len(s), t)
  <2>1. \A k \in 1 .. Len(t) : Len(s) + k \in 1 .. Len(s) + Len(t) /\ p + (Len(s) + k) - 1 = (p + Len(s)) + k - 1
    BY <1>1, <1>2
  <2>2. \A k \in 1 .. Len(t) : c[(p + Len(s)) + k - 1] = t[k]
    BY <1>1, <1>2, <2>1
  <2> QED BY <1>1, <1>2, <2>2 DEF Holds
<1> QED BY <1>3, <1>4

------------------------------------------------------------------------------
(* The cells of a block, and what a block may count on.                    *)
Writable(i) == NamesOf(i) \ Constants(i)
Temps       == {T0, T1, T2}
Source(i)   == NamesOf(i) \ Temps

Good(i, m) == m \in [NamesOf(i) -> W!Cell] /\ \A k \in Constants(i) : m[k] = Pool(i)[k]

LEMMA ScratchAre ==
  ASSUME NEW i
  PROVE  /\ {T0, T1, T2, SH1, SH2} \subseteq Writable(i)
         /\ {SH1, SH2} \subseteq Source(i) \cap Writable(i)
         /\ T0 # T1 /\ T0 # T2 /\ T1 # T2
         /\ {SH1, SH2} \cap {T0, T1, T2} = {} /\ SH1 # SH2
<1>1. {T0, T1, T2, SH1, SH2} \subseteq Scratch
  BY DEF Scratch
<1>2. {T0, T1, T2, SH1, SH2} \cap Constants(i) = {}
  BY DEF Constants, T0, T1, T2, SH1, SH2, Z, NEG1, SGN, ONE, M1F, MFF, WINMASK, RAMBC, IMM, COUNT, MCAUSE, MASK, ADDR
<1>3. T0 # T1 /\ T0 # T2 /\ T1 # T2 /\ {SH1, SH2} \cap {T0, T1, T2} = {} /\ SH1 # SH2
  BY DEF T0, T1, T2, SH1, SH2
<1> QED BY <1>1, <1>2, <1>3 DEF Writable, Source, NamesOf, Temps

LEMMA ConstantsAre ==
  ASSUME NEW i
  PROVE  /\ {Z, NEG1, SGN, ONE, IMM(0), IMM(1), COUNT, MCAUSE} \subseteq Constants(i)
         /\ \A b \in W!Lanes : MASK(b) \in Constants(i)
         /\ \A a \in i.known \cup {i.pc} : ADDR(a) \in Constants(i)
         /\ Constants(i) \subseteq Source(i)
<1>1. Constants(i) \cap Scratch = {}
  BY DEF Constants, Scratch, T0, T1, T2, SH1, SH2, OPERAND, Z, NEG1, SGN, ONE, M1F, MFF, WINMASK, RAMBC, IMM, COUNT, MCAUSE, MASK, ADDR
<1> QED BY <1>1 DEF Constants, Source, NamesOf, Temps, Scratch

LEMMA GuestCellsAre ==
  ASSUME NEW i
  PROVE  /\ \A r \in Regs : X(r) \in Writable(i) \cap Source(i)
         /\ \A k \in 0 .. Window - 1 : RAM(k) \in Writable(i) \cap Source(i)
         /\ \A k \in CsrNames : CSR(k) \in Writable(i) \cap Source(i)
         /\ \A r, s : X(r) = X(s) <=> r = s
         /\ \A k, l : CSR(k) = CSR(l) <=> k = l
         /\ \A r, k : X(r) # RAM(k) /\ X(r) # CSR(k) /\ RAM(r) # CSR(k)
         /\ \A r : X(r) \notin Scratch /\ RAM(r) \notin Scratch /\ CSR(r) \notin Scratch
<1>1. \A r : X(r) \notin Constants(i) \cup Scratch /\ RAM(r) \notin Constants(i) \cup Scratch
             /\ CSR(r) \notin Constants(i) \cup Scratch
  BY DEF Constants, Scratch, X, RAM, CSR, T0, T1, T2, SH1, SH2, OPERAND, Z, NEG1, SGN, ONE, M1F, MFF, WINMASK, RAMBC, IMM, COUNT, MCAUSE, MASK, ADDR
<1>2. /\ \A r, s : X(r) = X(s) <=> r = s
      /\ \A k, l : CSR(k) = CSR(l) <=> k = l
      /\ \A r, k : X(r) # RAM(k) /\ X(r) # CSR(k) /\ RAM(r) # CSR(k)
  BY DEF X, RAM, CSR
<1>3. /\ \A r \in Regs : X(r) \in NamesOf(i)
      /\ \A k \in 0 .. Window - 1 : RAM(k) \in NamesOf(i)
      /\ \A k \in CsrNames : CSR(k) \in NamesOf(i)
  BY DEF NamesOf, RegCells, RamCells, CsrCells
<1> QED BY <1>1, <1>2, <1>3 DEF Writable, Source, Temps, Scratch

LEMMA NoDeref == ASSUME NEW i PROVE DEREF \notin NamesOf(i)
<1>1. DEREF \notin RegCells \cup RamCells \cup CsrCells
  BY DEF DEREF, RegCells, RamCells, CsrCells, X, RAM, CSR
<1>2. DEREF \notin Constants(i)
  BY DEF DEREF, Constants, Z, NEG1, SGN, ONE, M1F, MFF, WINMASK, RAMBC, IMM, COUNT, MCAUSE, MASK, ADDR
<1>3. DEREF \notin Scratch \cup {Stray}
  BY DEF DEREF, Scratch, Stray, T0, T1, T2, SH1, SH2, OPERAND
<1> QED BY <1>1, <1>2, <1>3 DEF NamesOf

LEMMA PoolIs ==
  ASSUME NEW i
  PROVE  /\ Pool(i)[Z] = 0 /\ Pool(i)[NEG1] = W!Modulus - 1 /\ Pool(i)[SGN] = W!SignBit
         /\ Pool(i)[ONE] = 1 /\ Pool(i)[IMM(0)] = i.imm /\ Pool(i)[IMM(1)] = W!Wrap(i.pc + 4)
         /\ Pool(i)[COUNT] = i.count /\ Pool(i)[MCAUSE] = i.mcause
         /\ \A b \in W!Lanes : Pool(i)[MASK(b)] = 2 ^ b
         /\ \A a \in i.known \cup {i.pc} : Pool(i)[ADDR(a)] = a
<1>1. /\ {Z, NEG1, SGN, ONE, IMM(0), IMM(1), COUNT, MCAUSE} \subseteq Constants(i)
      /\ \A b \in W!Lanes : MASK(b) \in Constants(i)
      /\ \A a \in i.known \cup {i.pc} : ADDR(a) \in Constants(i)
  BY ConstantsAre
<1>2. /\ Pool(i)[Z] = 0 /\ Pool(i)[NEG1] = W!Modulus - 1 /\ Pool(i)[SGN] = W!SignBit /\ Pool(i)[ONE] = 1
  BY <1>1 DEF Pool, Z, NEG1, SGN, ONE, M1F, MFF, WINMASK, RAMBC, IMM, COUNT, MCAUSE
<1>3. Pool(i)[IMM(0)] = i.imm /\ Pool(i)[IMM(1)] = W!Wrap(i.pc + 4)
  BY <1>1 DEF Pool, Z, NEG1, SGN, ONE, M1F, MFF, WINMASK, RAMBC, IMM, COUNT, MCAUSE
<1>4. Pool(i)[COUNT] = i.count /\ Pool(i)[MCAUSE] = i.mcause
  BY <1>1 DEF Pool, Z, NEG1, SGN, ONE, M1F, MFF, WINMASK, RAMBC, IMM, COUNT, MCAUSE
<1>5. ASSUME NEW b \in W!Lanes PROVE Pool(i)[MASK(b)] = 2 ^ b
  BY <1>1 DEF Pool, Z, NEG1, SGN, ONE, M1F, MFF, WINMASK, RAMBC, IMM, COUNT, MCAUSE, MASK
<1>6. ASSUME NEW a \in i.known \cup {i.pc} PROVE Pool(i)[ADDR(a)] = a
  BY <1>1 DEF Pool, Z, NEG1, SGN, ONE, M1F, MFF, WINMASK, RAMBC, IMM, COUNT, MCAUSE, ADDR
<1> QED BY <1>2, <1>3, <1>4, <1>5, <1>6

------------------------------------------------------------------------------
(* One instruction of a block at p takes the cells m to n and p to q.      *)
Gets(c, i, p, m, q, n) ==
  Good(i, n) /\ \A o : Reaches(c, St(m, p, o), St(n, q, o))

LEMMA GetsItself == ASSUME NEW c, NEW i, NEW p, NEW m, Good(i, m) PROVE Gets(c, i, p, m, p, m)
BY ReachesItself DEF Gets

LEMMA GetsOn ==
  ASSUME NEW c, NEW i, NEW p, NEW m, NEW q, NEW n, NEW r, NEW k,
         Gets(c, i, p, m, q, n), Gets(c, i, q, n, r, k)
  PROVE  Gets(c, i, p, m, r, k)
<1> SUFFICES ASSUME NEW o PROVE Reaches(c, St(m, p, o), St(k, r, o))
  BY DEF Gets
<1>1. Reaches(c, St(m, p, o), St(n, q, o)) /\ Reaches(c, St(n, q, o), St(k, r, o))
  BY DEF Gets
<1> QED BY <1>1, ReachesOn

LEMMA GetsStep ==
  ASSUME NEW c, NEW i, NEW p, NEW m, NEW q, NEW n, Good(i, n),
         \A o : StepOf(c, St(m, p, o)) = St(n, q, o)
  PROVE  Gets(c, i, p, m, q, n)
<1> SUFFICES ASSUME NEW o PROVE Reaches(c, St(m, p, o), St(n, q, o))
  BY DEF Gets
<1>1. Reaches(c, St(m, p, o), StepOf(c, St(m, p, o)))
  BY ReachesItself, ReachesStep
<1> QED BY <1>1

LEMMA WrapTyped == ASSUME NEW v \in Int PROVE W!Wrap(v) \in W!Cell
BY WordIs DEF W!Wrap, W!Cell

LEMMA SelectTyped == ASSUME NEW v, NEW w, NEW k PROVE W!Select(v, w, k) \in W!Cell
<1>1. (W!Bits(v) \ W!Bits(k)) \cup (W!Bits(w) \cap W!Bits(k)) \in SUBSET W!Lanes
  BY DEF W!Bits
<1> QED BY <1>1, CellOfIs DEF W!Select

LEMMA StoreGood ==
  ASSUME NEW i, NEW m, Good(i, m), NEW d \in Writable(i), NEW v \in W!Cell
  PROVE  Good(i, Written(m, d, v))
BY DEF Good, Writable, Written

LEMMA GoodTyped == ASSUME NEW i, NEW m, Good(i, m), NEW a \in NamesOf(i) PROVE m[a] \in W!Cell /\ m[a] \in Int
BY WordIs DEF Good, W!Cell

LEMMA HoldsInsn ==
  ASSUME NEW c, NEW p, NEW r, Holds(c, p, <<r>>)
  PROVE  p \in Nat \ {0} /\ Len(c) \in Nat /\ p <= Len(c) /\ c[p] = r
<1>1. Len(<<r>>) = 1 /\ 1 \in 1 .. 1 /\ <<r>>[1] = r
  OBVIOUS
<1>2. p \in Nat \ {0} /\ p + 1 - 1 = p
  BY DEF Holds
<1> QED BY <1>1, <1>2 DEF Holds

LEMMA ToNext == ASSUME NEW p PROVE To(p, 1) = p + 1
BY DEF To, HALT

(* What a step does, by the opcode.                                        *)
LEMMA StepIs ==
  ASSUME NEW c, NEW p, NEW m, NEW o, NEW r, ~(p > Len(c)), c[p] = r
  PROVE  /\ r.op = "move" =>
              StepOf(c, St(m, p, o)) =
                St(Written(m, CellIn(m, r.b), m[CellIn(m, r.a)]), To(p, 1), o)
         /\ r.op = "mux"  =>
              StepOf(c, St(m, p, o)) =
                St(Written(m, CellIn(m, r.b), W!Select(m[r.a], m[r.b], m[r.mask])), To(p, 1), o)
         /\ \A v : r.op = "sub" /\ v = W!Wrap(m[r.b] - m[r.a]) =>
              StepOf(c, St(m, p, o)) =
                St(Written(m, CellIn(m, r.b), v),
                   To(p, IF v = 0 \/ W!Negative(v) THEN r.to ELSE 1), o)
<1> SUFFICES ASSUME NEW s, s.pc = p, s.mem = m, s.puts = o
      PROVE  /\ r.op = "move" => StepOf(c, s) = St(Written(m, CellIn(m, r.b), m[CellIn(m, r.a)]), To(p, 1), o)
             /\ r.op = "mux"  => StepOf(c, s) = St(Written(m, CellIn(m, r.b), W!Select(m[r.a], m[r.b], m[r.mask])), To(p, 1), o)
             /\ \A v : r.op = "sub" /\ v = W!Wrap(m[r.b] - m[r.a]) => StepOf(c, s) = St(Written(m, CellIn(m, r.b), v),
                                    To(p, IF v = 0 \/ W!Negative(v) THEN r.to ELSE 1), o)
  <2>2. St(m, p, o).pc = p /\ St(m, p, o).mem = m /\ St(m, p, o).puts = o
    BY DEF St
  <2> QED BY <2>2
<1> QED BY DEF StepOf

(* An operand that is patched stands for the cell it points to.            *)
LEMMA MoveThrough ==
  ASSUME NEW c, NEW i, NEW p, NEW m, Good(i, m), NEW a, NEW d,
         CellIn(m, a) \in NamesOf(i), CellIn(m, d) \in Writable(i), Holds(c, p, mov32(a, d))
  PROVE  Gets(c, i, p, m, p + 1, Written(m, CellIn(m, d), m[CellIn(m, a)]))
<1> DEFINE r == [op |-> "move", a |-> a, b |-> d, mask |-> Z, to |-> 1]
           n == Written(m, CellIn(m, d), m[CellIn(m, a)])
<1>1. p \in Nat \ {0} /\ Len(c) \in Nat /\ p <= Len(c) /\ c[p] = r
  BY HoldsInsn DEF mov32, Insn
<1>3. \A o : StepOf(c, St(m, p, o)) = St(n, p + 1, o)
  <2> HIDE DEF n, r
  <2> TAKE o
  <2>1. ~(p > Len(c)) /\ r.op = "move" /\ r.a = a /\ r.b = d
    BY <1>1 DEF r
  <2>2. StepOf(c, St(m, p, o)) = St(Written(m, CellIn(m, r.b), m[CellIn(m, r.a)]), To(p, 1), o)
    BY <1>1, <2>1, StepIs
  <2> QED BY <2>1, <2>2, ToNext DEF n
<1>4. Good(i, n)
  BY StoreGood, GoodTyped
<1> QED BY <1>3, <1>4, GetsStep

LEMMA MoveRuns ==
  ASSUME NEW c, NEW i, NEW p, NEW m, Good(i, m),
         NEW a \in NamesOf(i), NEW d \in Writable(i), Holds(c, p, mov32(a, d))
  PROVE  Gets(c, i, p, m, p + 1, Written(m, d, m[a]))
<1>1. CellIn(m, a) = a /\ CellIn(m, d) = d
  BY NoDeref DEF Writable, CellIn
<1> QED BY <1>1, MoveThrough

LEMMA MuxRuns ==
  ASSUME NEW c, NEW i, NEW p, NEW m, Good(i, m),
         NEW a \in NamesOf(i), NEW d \in Writable(i), NEW k \in NamesOf(i),
         Holds(c, p, mux32op(a, d, k))
  PROVE  Gets(c, i, p, m, p + 1, Written(m, d, W!Select(m[a], m[d], m[k])))
<1> DEFINE r == [op |-> "mux", a |-> a, b |-> d, mask |-> k, to |-> 1]
           n == Written(m, d, W!Select(m[a], m[d], m[k]))
<1>1. p \in Nat \ {0} /\ Len(c) \in Nat /\ p <= Len(c) /\ c[p] = r
  BY HoldsInsn DEF mux32op, Insn
<1>2. d # DEREF
  BY NoDeref DEF Writable
<1>3. \A o : StepOf(c, St(m, p, o)) = St(n, p + 1, o)
  <2> HIDE DEF n, r
  <2> TAKE o
  <2>1. ~(p > Len(c)) /\ r.op = "mux" /\ r.a = a /\ r.b = d /\ r.mask = k /\ CellIn(m, d) = d
    BY <1>1, <1>2 DEF CellIn, r
  <2>2. StepOf(c, St(m, p, o)) = St(Written(m, CellIn(m, r.b), W!Select(m[r.a], m[r.b], m[r.mask])), To(p, 1), o)
    BY <1>1, <2>1, StepIs
  <2> QED BY <2>1, <2>2, ToNext DEF n
<1>4. Good(i, n)
  BY StoreGood, SelectTyped
<1> QED BY <1>3, <1>4, GetsStep

Branches(v, p, L) == IF v = 0 \/ v >= W!SignBit THEN To(p, L) ELSE p + 1

LEMMA LeqRuns ==
  ASSUME NEW c, NEW i, NEW p, NEW m, Good(i, m),
         NEW a \in NamesOf(i), NEW d \in Writable(i), NEW L, Holds(c, p, leq32(a, d, L))
  PROVE  LET v == W!Wrap(m[d] - m[a])
         IN  Gets(c, i, p, m, Branches(v, p, L), Written(m, d, v))
<1> DEFINE r == [op |-> "sub", a |-> a, b |-> d, mask |-> Z, to |-> L]
           v == W!Wrap(m[d] - m[a])
           n == Written(m, d, v)
<1>1. p \in Nat \ {0} /\ Len(c) \in Nat /\ p <= Len(c) /\ c[p] = r
  BY HoldsInsn DEF leq32, Insn
<1>2. d # DEREF
  BY NoDeref DEF Writable
<1>3. \A o : StepOf(c, St(m, p, o)) = St(n, Branches(v, p, L), o)
  <2> HIDE DEF n, v, r
  <2> TAKE o
  <2>1. ~(p > Len(c)) /\ r.op = "sub" /\ r.a = a /\ r.b = d /\ r.to = L /\ CellIn(m, d) = d
    BY <1>1, <1>2 DEF CellIn, r
  <2>2. W!Negative(v) <=> v >= W!SignBit
    BY DEF W!Negative
  <2>3. StepOf(c, St(m, p, o)) = St(n, To(p, IF v = 0 \/ W!Negative(v) THEN L ELSE 1), o)
    <3>1. v = W!Wrap(m[r.b] - m[r.a])
      BY <2>1 DEF v
    <3>2. StepOf(c, St(m, p, o)) = St(Written(m, CellIn(m, r.b), v), To(p, IF v = 0 \/ W!Negative(v) THEN r.to ELSE 1), o)
      BY <1>1, <2>1, <3>1, StepIs
    <3> QED BY <2>1, <3>2 DEF n
  <2> QED BY <2>2, <2>3, ToNext DEF Branches
<1>4. Good(i, n)
  <2>1. m[d] \in Int /\ m[a] \in Int
    BY GoodTyped DEF Writable
  <2>2. v \in W!Cell
    BY <2>1, WrapTyped
  <2> QED BY <2>2, StoreGood
<1> QED BY <1>3, <1>4, GetsStep

LEMMA SubRuns ==
  ASSUME NEW c, NEW i, NEW p, NEW m, Good(i, m),
         NEW a \in NamesOf(i), NEW d \in Writable(i), Holds(c, p, subnb32(a, d))
  PROVE  Gets(c, i, p, m, p + 1, Written(m, d, W!Wrap(m[d] - m[a])))
<1> DEFINE v == W!Wrap(m[d] - m[a])
<1>1. Gets(c, i, p, m, Branches(v, p, 1), Written(m, d, v))
  BY LeqRuns DEF subnb32
<1>2. Branches(v, p, 1) = p + 1
  BY ToNext DEF Branches
<1> QED BY <1>1, <1>2

LEMMA JumpRuns ==
  ASSUME NEW c, NEW i, NEW p, NEW m, Good(i, m), NEW L, Holds(c, p, jump32(L))
  PROVE  Gets(c, i, p, m, To(p, L), m)
<1> DEFINE r == [op |-> "sub", a |-> Z, b |-> Z, mask |-> Z, to |-> L]
<1>1. p \in Nat \ {0} /\ Len(c) \in Nat /\ p <= Len(c) /\ c[p] = r
  BY HoldsInsn DEF jump32, leq32, Insn
<1>2. Z # DEREF /\ Z \in NamesOf(i) /\ m[Z] = 0
  BY NoDeref, ConstantsAre, PoolIs DEF Source, Good
<1>3. W!Wrap(0 - 0) = 0
  BY WordIs DEF W!Wrap
<1>4. Written(m, Z, 0) = m
  BY <1>2 DEF Good, Written
<1>5. \A o : StepOf(c, St(m, p, o)) = St(m, To(p, L), o)
  <2> HIDE DEF r
  <2> TAKE o
  <2>1. ~(p > Len(c)) /\ r.op = "sub" /\ r.a = Z /\ r.b = Z /\ r.to = L /\ CellIn(m, Z) = Z
    BY <1>1, <1>2 DEF CellIn, r
  <2>2. 0 = W!Wrap(m[r.b] - m[r.a])
    BY <1>2, <1>3, <2>1
  <2>3. StepOf(c, St(m, p, o)) = St(Written(m, CellIn(m, r.b), 0), To(p, IF 0 = 0 \/ W!Negative(0) THEN r.to ELSE 1), o)
    BY <1>1, <2>1, <2>2, StepIs
  <2> QED BY <1>4, <2>1, <2>3
<1> QED BY <1>5, GetsStep

------------------------------------------------------------------------------
(* Several instructions in a row.                                          *)
Single(s) == Piece(s) /\ Len(s) = 1

LEMMA InsnIsSingle == \A op, a, b, mask, to : Single(Insn(op, a, b, mask, to))
BY PieceInsn DEF Insn, Single

LEMMA EmittersAreSingle ==
  /\ \A a, b : Single(mov32(a, b)) /\ Single(subnb32(a, b))
  /\ \A a, b, k : Single(mux32op(a, b, k)) /\ Single(leq32(a, b, k))
  /\ \A L : Single(jump32(L))
BY InsnIsSingle DEF mov32, subnb32, mux32op, leq32, jump32

LEMMA SplitLast ==
  ASSUME NEW s, NEW t, Piece(s), Single(t)
  PROVE  /\ Piece(s \o t) /\ Len(s \o t) = Len(s) + 1
         /\ \A c, p : Holds(c, p, s \o t) => Holds(c, p, s) /\ Holds(c, p + Len(s), t)
<1>1. Piece(t) /\ Len(t) = 1
  BY DEF Single
<1>2. Piece(s \o t) /\ Len(s \o t) = Len(s) + Len(t)
  BY <1>1, PieceConcat
<1>3. \A c, p : Holds(c, p, s \o t) => Holds(c, p, s) /\ Holds(c, p + Len(s), t)
  BY <1>1, HoldsSplit
<1> QED BY <1>1, <1>2, <1>3

LEMMA WrittenIs ==
  ASSUME NEW i, NEW m, Good(i, m), NEW d \in NamesOf(i), NEW v, NEW k \in NamesOf(i)
  PROVE  Written(m, d, v)[k] = IF k = d THEN v ELSE m[k]
BY DEF Good, Written

Plus(D, d) == D \cup {d}

Alike(i, m, n, D) == \A k \in NamesOf(i) \ D : n[k] = m[k]

LEMMA PoolValues ==
  ASSUME NEW i, NEW m, Good(i, m)
  PROVE  /\ m[Z] = 0 /\ m[NEG1] = W!Modulus - 1 /\ m[SGN] = W!SignBit /\ m[ONE] = 1
         /\ m[IMM(0)] = i.imm /\ m[IMM(1)] = W!Wrap(i.pc + 4)
         /\ m[COUNT] = i.count /\ m[MCAUSE] = i.mcause
         /\ \A b \in W!Lanes : m[MASK(b)] = 2 ^ b
         /\ \A a \in i.known \cup {i.pc} : m[ADDR(a)] = a
BY ConstantsAre, PoolIs DEF Good
(* The same after what has run before.                                     *)
LEMMA MoveOn ==
  ASSUME NEW c, NEW i, NEW p, NEW m, NEW q, NEW n, Gets(c, i, p, m, q, n),
         NEW a \in NamesOf(i), NEW d \in Writable(i), Holds(c, q, mov32(a, d))
  PROVE  Gets(c, i, p, m, q + 1, Written(n, d, n[a]))
<1>1. Good(i, n)
  BY DEF Gets
<1> QED BY <1>1, MoveRuns, GetsOn

LEMMA MuxOn ==
  ASSUME NEW c, NEW i, NEW p, NEW m, NEW q, NEW n, Gets(c, i, p, m, q, n),
         NEW a \in NamesOf(i), NEW d \in Writable(i), NEW k \in NamesOf(i),
         Holds(c, q, mux32op(a, d, k))
  PROVE  Gets(c, i, p, m, q + 1, Written(n, d, W!Select(n[a], n[d], n[k])))
<1>1. Good(i, n)
  BY DEF Gets
<1> QED BY <1>1, MuxRuns, GetsOn

LEMMA SubOn ==
  ASSUME NEW c, NEW i, NEW p, NEW m, NEW q, NEW n, Gets(c, i, p, m, q, n),
         NEW a \in NamesOf(i), NEW d \in Writable(i), Holds(c, q, subnb32(a, d))
  PROVE  Gets(c, i, p, m, q + 1, Written(n, d, W!Wrap(n[d] - n[a])))
<1>1. Good(i, n)
  BY DEF Gets
<1> QED BY <1>1, SubRuns, GetsOn

LEMMA LeqOn ==
  ASSUME NEW c, NEW i, NEW p, NEW m, NEW q, NEW n, Gets(c, i, p, m, q, n),
         NEW a \in NamesOf(i), NEW d \in Writable(i), NEW L, Holds(c, q, leq32(a, d, L)),
         NEW v, v = W!Wrap(n[d] - n[a])
  PROVE  Gets(c, i, p, m, Branches(v, q, L), Written(n, d, v))
<1>1. Good(i, n)
  BY DEF Gets
<1>2. Gets(c, i, q, n, Branches(v, q, L), Written(n, d, v))
  BY <1>1, LeqRuns
<1> QED BY <1>2, GetsOn

LEMMA JumpOn ==
  ASSUME NEW c, NEW i, NEW p, NEW m, NEW q, NEW n, Gets(c, i, p, m, q, n),
         NEW L, Holds(c, q, jump32(L))
  PROVE  Gets(c, i, p, m, To(q, L), n)
<1>1. Good(i, n)
  BY DEF Gets
<1> QED BY <1>1, JumpRuns, GetsOn

LEMMA WrittenAfter ==
  ASSUME NEW c, NEW i, NEW p, NEW m, NEW q, NEW n, Gets(c, i, p, m, q, n),
         NEW d \in NamesOf(i), NEW v, NEW k \in NamesOf(i)
  PROVE  Written(n, d, v)[k] = IF k = d THEN v ELSE n[k]
BY WrittenIs DEF Gets

(* Rows of single instructions.                                            *)
LEMMA Row2 ==
  ASSUME NEW s1, NEW s2,
         Single(s1), Single(s2)
  PROVE  /\ Piece(s1 \o s2) /\ Len(s1 \o s2) = 2
         /\ \A c, p : Holds(c, p, s1 \o s2) =>
              /\ Holds(c, p, s1) /\ Holds(c, p + 1, s2)
BY SplitLast DEF Single

LEMMA Row3 ==
  ASSUME NEW s1, NEW s2, NEW s3,
         Single(s1), Single(s2), Single(s3)
  PROVE  /\ Piece(s1 \o s2 \o s3) /\ Len(s1 \o s2 \o s3) = 3
         /\ \A c, p : Holds(c, p, s1 \o s2 \o s3) =>
              /\ Holds(c, p, s1) /\ Holds(c, p + 1, s2) /\ Holds(c, p + 2, s3)
<1> DEFINE u == s1 \o s2
<1>1. /\ Piece(u) /\ Len(u) = 2
      /\ \A c, p : Holds(c, p, u) =>
           /\ Holds(c, p, s1) /\ Holds(c, p + 1, s2)
  BY Row2
<1> HIDE DEF u
<1>2. /\ Piece(u \o s3) /\ Len(u \o s3) = 3
      /\ \A c, p : Holds(c, p, u \o s3) => Holds(c, p, u) /\ Holds(c, p + 2, s3)
  <2>1. Piece(u) /\ Single(s3)
    BY <1>1
  <2>2. /\ Piece(u \o s3) /\ Len(u \o s3) = Len(u) + 1
        /\ \A c, p : Holds(c, p, u \o s3) => Holds(c, p, u) /\ Holds(c, p + Len(u), s3)
    BY <2>1, SplitLast, Zenon
  <2> QED BY <1>1, <2>2
<1> QED BY <1>1, <1>2 DEF u

LEMMA Row4 ==
  ASSUME NEW s1, NEW s2, NEW s3, NEW s4,
         Single(s1), Single(s2), Single(s3), Single(s4)
  PROVE  /\ Piece(s1 \o s2 \o s3 \o s4) /\ Len(s1 \o s2 \o s3 \o s4) = 4
         /\ \A c, p : Holds(c, p, s1 \o s2 \o s3 \o s4) =>
              /\ Holds(c, p, s1) /\ Holds(c, p + 1, s2) /\ Holds(c, p + 2, s3) /\ Holds(c, p + 3, s4)
<1> DEFINE u == s1 \o s2 \o s3
<1>1. /\ Piece(u) /\ Len(u) = 3
      /\ \A c, p : Holds(c, p, u) =>
           /\ Holds(c, p, s1) /\ Holds(c, p + 1, s2) /\ Holds(c, p + 2, s3)
  BY Row3
<1> HIDE DEF u
<1>2. /\ Piece(u \o s4) /\ Len(u \o s4) = 4
      /\ \A c, p : Holds(c, p, u \o s4) => Holds(c, p, u) /\ Holds(c, p + 3, s4)
  <2>1. Piece(u) /\ Single(s4)
    BY <1>1
  <2>2. /\ Piece(u \o s4) /\ Len(u \o s4) = Len(u) + 1
        /\ \A c, p : Holds(c, p, u \o s4) => Holds(c, p, u) /\ Holds(c, p + Len(u), s4)
    BY <2>1, SplitLast, Zenon
  <2> QED BY <1>1, <2>2
<1> QED BY <1>1, <1>2 DEF u

LEMMA Row5 ==
  ASSUME NEW s1, NEW s2, NEW s3, NEW s4, NEW s5,
         Single(s1), Single(s2), Single(s3), Single(s4), Single(s5)
  PROVE  /\ Piece(s1 \o s2 \o s3 \o s4 \o s5) /\ Len(s1 \o s2 \o s3 \o s4 \o s5) = 5
         /\ \A c, p : Holds(c, p, s1 \o s2 \o s3 \o s4 \o s5) =>
              /\ Holds(c, p, s1) /\ Holds(c, p + 1, s2) /\ Holds(c, p + 2, s3) /\ Holds(c, p + 3, s4)
              /\ Holds(c, p + 4, s5)
<1> DEFINE u == s1 \o s2 \o s3 \o s4
<1>1. /\ Piece(u) /\ Len(u) = 4
      /\ \A c, p : Holds(c, p, u) =>
           /\ Holds(c, p, s1) /\ Holds(c, p + 1, s2) /\ Holds(c, p + 2, s3) /\ Holds(c, p + 3, s4)
  BY Row4
<1> HIDE DEF u
<1>2. /\ Piece(u \o s5) /\ Len(u \o s5) = 5
      /\ \A c, p : Holds(c, p, u \o s5) => Holds(c, p, u) /\ Holds(c, p + 4, s5)
  <2>1. Piece(u) /\ Single(s5)
    BY <1>1
  <2>2. /\ Piece(u \o s5) /\ Len(u \o s5) = Len(u) + 1
        /\ \A c, p : Holds(c, p, u \o s5) => Holds(c, p, u) /\ Holds(c, p + Len(u), s5)
    BY <2>1, SplitLast, Zenon
  <2> QED BY <1>1, <2>2
<1> QED BY <1>1, <1>2 DEF u

LEMMA Row6 ==
  ASSUME NEW s1, NEW s2, NEW s3, NEW s4, NEW s5, NEW s6,
         Single(s1), Single(s2), Single(s3), Single(s4), Single(s5), Single(s6)
  PROVE  /\ Piece(s1 \o s2 \o s3 \o s4 \o s5 \o s6) /\ Len(s1 \o s2 \o s3 \o s4 \o s5 \o s6) = 6
         /\ \A c, p : Holds(c, p, s1 \o s2 \o s3 \o s4 \o s5 \o s6) =>
              /\ Holds(c, p, s1) /\ Holds(c, p + 1, s2) /\ Holds(c, p + 2, s3) /\ Holds(c, p + 3, s4)
              /\ Holds(c, p + 4, s5) /\ Holds(c, p + 5, s6)
<1> DEFINE u == s1 \o s2 \o s3 \o s4 \o s5
<1>1. /\ Piece(u) /\ Len(u) = 5
      /\ \A c, p : Holds(c, p, u) =>
           /\ Holds(c, p, s1) /\ Holds(c, p + 1, s2) /\ Holds(c, p + 2, s3) /\ Holds(c, p + 3, s4)
           /\ Holds(c, p + 4, s5)
  BY Row5
<1> HIDE DEF u
<1>2. /\ Piece(u \o s6) /\ Len(u \o s6) = 6
      /\ \A c, p : Holds(c, p, u \o s6) => Holds(c, p, u) /\ Holds(c, p + 5, s6)
  <2>1. Piece(u) /\ Single(s6)
    BY <1>1
  <2>2. /\ Piece(u \o s6) /\ Len(u \o s6) = Len(u) + 1
        /\ \A c, p : Holds(c, p, u \o s6) => Holds(c, p, u) /\ Holds(c, p + Len(u), s6)
    BY <2>1, SplitLast, Zenon
  <2> QED BY <1>1, <2>2
<1> QED BY <1>1, <1>2 DEF u

LEMMA Row7 ==
  ASSUME NEW s1, NEW s2, NEW s3, NEW s4, NEW s5, NEW s6, NEW s7,
         Single(s1), Single(s2), Single(s3), Single(s4), Single(s5), Single(s6),
         Single(s7)
  PROVE  /\ Piece(s1 \o s2 \o s3 \o s4 \o s5 \o s6 \o s7) /\ Len(s1 \o s2 \o s3 \o s4 \o s5 \o s6 \o s7) = 7
         /\ \A c, p : Holds(c, p, s1 \o s2 \o s3 \o s4 \o s5 \o s6 \o s7) =>
              /\ Holds(c, p, s1) /\ Holds(c, p + 1, s2) /\ Holds(c, p + 2, s3) /\ Holds(c, p + 3, s4)
              /\ Holds(c, p + 4, s5) /\ Holds(c, p + 5, s6) /\ Holds(c, p + 6, s7)
<1> DEFINE u == s1 \o s2 \o s3 \o s4 \o s5 \o s6
<1>1. /\ Piece(u) /\ Len(u) = 6
      /\ \A c, p : Holds(c, p, u) =>
           /\ Holds(c, p, s1) /\ Holds(c, p + 1, s2) /\ Holds(c, p + 2, s3) /\ Holds(c, p + 3, s4)
           /\ Holds(c, p + 4, s5) /\ Holds(c, p + 5, s6)
  BY Row6
<1> HIDE DEF u
<1>2. /\ Piece(u \o s7) /\ Len(u \o s7) = 7
      /\ \A c, p : Holds(c, p, u \o s7) => Holds(c, p, u) /\ Holds(c, p + 6, s7)
  <2>1. Piece(u) /\ Single(s7)
    BY <1>1
  <2>2. /\ Piece(u \o s7) /\ Len(u \o s7) = Len(u) + 1
        /\ \A c, p : Holds(c, p, u \o s7) => Holds(c, p, u) /\ Holds(c, p + Len(u), s7)
    BY <2>1, SplitLast, Zenon
  <2> QED BY <1>1, <2>2
<1> QED BY <1>1, <1>2 DEF u

LEMMA Row8 ==
  ASSUME NEW s1, NEW s2, NEW s3, NEW s4, NEW s5, NEW s6, NEW s7, NEW s8,
         Single(s1), Single(s2), Single(s3), Single(s4), Single(s5), Single(s6),
         Single(s7), Single(s8)
  PROVE  /\ Piece(s1 \o s2 \o s3 \o s4 \o s5 \o s6 \o s7 \o s8) /\ Len(s1 \o s2 \o s3 \o s4 \o s5 \o s6 \o s7 \o s8) = 8
         /\ \A c, p : Holds(c, p, s1 \o s2 \o s3 \o s4 \o s5 \o s6 \o s7 \o s8) =>
              /\ Holds(c, p, s1) /\ Holds(c, p + 1, s2) /\ Holds(c, p + 2, s3) /\ Holds(c, p + 3, s4)
              /\ Holds(c, p + 4, s5) /\ Holds(c, p + 5, s6) /\ Holds(c, p + 6, s7) /\ Holds(c, p + 7, s8)
<1> DEFINE u == s1 \o s2 \o s3 \o s4 \o s5 \o s6 \o s7
<1>1. /\ Piece(u) /\ Len(u) = 7
      /\ \A c, p : Holds(c, p, u) =>
           /\ Holds(c, p, s1) /\ Holds(c, p + 1, s2) /\ Holds(c, p + 2, s3) /\ Holds(c, p + 3, s4)
           /\ Holds(c, p + 4, s5) /\ Holds(c, p + 5, s6) /\ Holds(c, p + 6, s7)
  BY Row7
<1> HIDE DEF u
<1>2. /\ Piece(u \o s8) /\ Len(u \o s8) = 8
      /\ \A c, p : Holds(c, p, u \o s8) => Holds(c, p, u) /\ Holds(c, p + 7, s8)
  <2>1. Piece(u) /\ Single(s8)
    BY <1>1
  <2>2. /\ Piece(u \o s8) /\ Len(u \o s8) = Len(u) + 1
        /\ \A c, p : Holds(c, p, u \o s8) => Holds(c, p, u) /\ Holds(c, p + Len(u), s8)
    BY <2>1, SplitLast, Zenon
  <2> QED BY <1>1, <2>2
<1> QED BY <1>1, <1>2 DEF u

LEMMA Row9 ==
  ASSUME NEW s1, NEW s2, NEW s3, NEW s4, NEW s5, NEW s6, NEW s7, NEW s8,
         NEW s9,
         Single(s1), Single(s2), Single(s3), Single(s4), Single(s5), Single(s6),
         Single(s7), Single(s8), Single(s9)
  PROVE  /\ Piece(s1 \o s2 \o s3 \o s4 \o s5 \o s6 \o s7 \o s8 \o s9) /\ Len(s1 \o s2 \o s3 \o s4 \o s5 \o s6 \o s7 \o s8 \o s9) = 9
         /\ \A c, p : Holds(c, p, s1 \o s2 \o s3 \o s4 \o s5 \o s6 \o s7 \o s8 \o s9) =>
              /\ Holds(c, p, s1) /\ Holds(c, p + 1, s2) /\ Holds(c, p + 2, s3) /\ Holds(c, p + 3, s4)
              /\ Holds(c, p + 4, s5) /\ Holds(c, p + 5, s6) /\ Holds(c, p + 6, s7) /\ Holds(c, p + 7, s8)
              /\ Holds(c, p + 8, s9)
<1> DEFINE u == s1 \o s2 \o s3 \o s4 \o s5 \o s6 \o s7 \o s8
<1>1. /\ Piece(u) /\ Len(u) = 8
      /\ \A c, p : Holds(c, p, u) =>
           /\ Holds(c, p, s1) /\ Holds(c, p + 1, s2) /\ Holds(c, p + 2, s3) /\ Holds(c, p + 3, s4)
           /\ Holds(c, p + 4, s5) /\ Holds(c, p + 5, s6) /\ Holds(c, p + 6, s7) /\ Holds(c, p + 7, s8)
  BY Row8
<1> HIDE DEF u
<1>2. /\ Piece(u \o s9) /\ Len(u \o s9) = 9
      /\ \A c, p : Holds(c, p, u \o s9) => Holds(c, p, u) /\ Holds(c, p + 8, s9)
  <2>1. Piece(u) /\ Single(s9)
    BY <1>1
  <2>2. /\ Piece(u \o s9) /\ Len(u \o s9) = Len(u) + 1
        /\ \A c, p : Holds(c, p, u \o s9) => Holds(c, p, u) /\ Holds(c, p + Len(u), s9)
    BY <2>1, SplitLast, Zenon
  <2> QED BY <1>1, <2>2
<1> QED BY <1>1, <1>2 DEF u

LEMMA Row10 ==
  ASSUME NEW s1, NEW s2, NEW s3, NEW s4, NEW s5, NEW s6, NEW s7, NEW s8,
         NEW s9, NEW s10,
         Single(s1), Single(s2), Single(s3), Single(s4), Single(s5), Single(s6),
         Single(s7), Single(s8), Single(s9), Single(s10)
  PROVE  /\ Piece(s1 \o s2 \o s3 \o s4 \o s5 \o s6 \o s7 \o s8 \o s9 \o s10) /\ Len(s1 \o s2 \o s3 \o s4 \o s5 \o s6 \o s7 \o s8 \o s9 \o s10) = 10
         /\ \A c, p : Holds(c, p, s1 \o s2 \o s3 \o s4 \o s5 \o s6 \o s7 \o s8 \o s9 \o s10) =>
              /\ Holds(c, p, s1) /\ Holds(c, p + 1, s2) /\ Holds(c, p + 2, s3) /\ Holds(c, p + 3, s4)
              /\ Holds(c, p + 4, s5) /\ Holds(c, p + 5, s6) /\ Holds(c, p + 6, s7) /\ Holds(c, p + 7, s8)
              /\ Holds(c, p + 8, s9) /\ Holds(c, p + 9, s10)
<1> DEFINE u == s1 \o s2 \o s3 \o s4 \o s5 \o s6 \o s7 \o s8 \o s9
<1>1. /\ Piece(u) /\ Len(u) = 9
      /\ \A c, p : Holds(c, p, u) =>
           /\ Holds(c, p, s1) /\ Holds(c, p + 1, s2) /\ Holds(c, p + 2, s3) /\ Holds(c, p + 3, s4)
           /\ Holds(c, p + 4, s5) /\ Holds(c, p + 5, s6) /\ Holds(c, p + 6, s7) /\ Holds(c, p + 7, s8)
           /\ Holds(c, p + 8, s9)
  BY Row9
<1> HIDE DEF u
<1>2. /\ Piece(u \o s10) /\ Len(u \o s10) = 10
      /\ \A c, p : Holds(c, p, u \o s10) => Holds(c, p, u) /\ Holds(c, p + 9, s10)
  <2>1. Piece(u) /\ Single(s10)
    BY <1>1
  <2>2. /\ Piece(u \o s10) /\ Len(u \o s10) = Len(u) + 1
        /\ \A c, p : Holds(c, p, u \o s10) => Holds(c, p, u) /\ Holds(c, p + Len(u), s10)
    BY <2>1, SplitLast, Zenon
  <2> QED BY <1>1, <2>2
<1> QED BY <1>1, <1>2 DEF u

LEMMA Row11 ==
  ASSUME NEW s1, NEW s2, NEW s3, NEW s4, NEW s5, NEW s6, NEW s7, NEW s8,
         NEW s9, NEW s10, NEW s11,
         Single(s1), Single(s2), Single(s3), Single(s4), Single(s5), Single(s6),
         Single(s7), Single(s8), Single(s9), Single(s10), Single(s11)
  PROVE  /\ Piece(s1 \o s2 \o s3 \o s4 \o s5 \o s6 \o s7 \o s8 \o s9 \o s10 \o s11) /\ Len(s1 \o s2 \o s3 \o s4 \o s5 \o s6 \o s7 \o s8 \o s9 \o s10 \o s11) = 11
         /\ \A c, p : Holds(c, p, s1 \o s2 \o s3 \o s4 \o s5 \o s6 \o s7 \o s8 \o s9 \o s10 \o s11) =>
              /\ Holds(c, p, s1) /\ Holds(c, p + 1, s2) /\ Holds(c, p + 2, s3) /\ Holds(c, p + 3, s4)
              /\ Holds(c, p + 4, s5) /\ Holds(c, p + 5, s6) /\ Holds(c, p + 6, s7) /\ Holds(c, p + 7, s8)
              /\ Holds(c, p + 8, s9) /\ Holds(c, p + 9, s10) /\ Holds(c, p + 10, s11)
<1> DEFINE u == s1 \o s2 \o s3 \o s4 \o s5 \o s6 \o s7 \o s8 \o s9 \o s10
<1>1. /\ Piece(u) /\ Len(u) = 10
      /\ \A c, p : Holds(c, p, u) =>
           /\ Holds(c, p, s1) /\ Holds(c, p + 1, s2) /\ Holds(c, p + 2, s3) /\ Holds(c, p + 3, s4)
           /\ Holds(c, p + 4, s5) /\ Holds(c, p + 5, s6) /\ Holds(c, p + 6, s7) /\ Holds(c, p + 7, s8)
           /\ Holds(c, p + 8, s9) /\ Holds(c, p + 9, s10)
  BY Row10
<1> HIDE DEF u
<1>2. /\ Piece(u \o s11) /\ Len(u \o s11) = 11
      /\ \A c, p : Holds(c, p, u \o s11) => Holds(c, p, u) /\ Holds(c, p + 10, s11)
  <2>1. Piece(u) /\ Single(s11)
    BY <1>1
  <2>2. /\ Piece(u \o s11) /\ Len(u \o s11) = Len(u) + 1
        /\ \A c, p : Holds(c, p, u \o s11) => Holds(c, p, u) /\ Holds(c, p + Len(u), s11)
    BY <2>1, SplitLast, Zenon
  <2> QED BY <1>1, <2>2
<1> QED BY <1>1, <1>2 DEF u

------------------------------------------------------------------------------
(* What the operations come to, on words.                                  *)
LEMMA WordAdd ==
  ASSUME NEW v \in W!Cell, NEW w \in W!Cell
  PROVE  W!Wrap(v - W!Wrap(0 - w)) = Alu("ADD", v, w)
<1>1. W!Wrap(0 - w) = IF w = 0 THEN 0 ELSE W!Modulus - w
  BY WordIs DEF W!Wrap, W!Cell
<1>2. w # 0 => W!Wrap(v - (W!Modulus - w)) = W!Wrap(v + w)
  BY WordIs DEF W!Wrap, W!Cell
<1>3. Alu("ADD", v, w) = W!Wrap(v + w) /\ v \in Nat /\ w \in Nat
  BY WordIs DEF Alu, W!Cell
<1> QED BY <1>1, <1>2, <1>3

LEMMA WordSub ==
  ASSUME NEW v \in W!Cell, NEW w \in W!Cell
  PROVE  W!Wrap(v - w) = Alu("SUB", v, w)
BY DEF Alu

LEMMA SelectBits ==
  ASSUME NEW v, NEW w, NEW k
  PROVE  W!Bits(W!Select(v, w, k)) = (W!Bits(v) \ W!Bits(k)) \cup (W!Bits(w) \cap W!Bits(k))
<1>1. (W!Bits(v) \ W!Bits(k)) \cup (W!Bits(w) \cap W!Bits(k)) \in SUBSET W!Lanes
  BY DEF W!Bits
<1> QED BY <1>1, CellOfIs DEF W!Select

LEMMA WordAnd ==
  ASSUME NEW v \in W!Cell, NEW w \in W!Cell
  PROVE  W!Select(0, v, w) = Alu("AND", v, w)
<1>1. (W!Bits(0) \ W!Bits(w)) \cup (W!Bits(v) \cap W!Bits(w)) = W!Bits(v) \cap W!Bits(w)
  BY NoBits
<1> QED BY <1>1 DEF Alu, W!Select

LEMMA WordOr ==
  ASSUME NEW v \in W!Cell, NEW w \in W!Cell
  PROVE  W!Select(v, w, w) = Alu("OR", v, w)
<1>1. (W!Bits(v) \ W!Bits(w)) \cup (W!Bits(w) \cap W!Bits(w)) = W!Bits(v) \cup W!Bits(w)
  OBVIOUS
<1> QED BY <1>1 DEF Alu, W!Select

LEMMA WordXor ==
  ASSUME NEW v \in W!Cell, NEW w \in W!Cell
  PROVE  W!Select(W!Select(v, 0, w), W!Select(w, 0, v), W!Select(w, 0, v)) = Alu("XOR", v, w)
<1> DEFINE x == W!Select(v, 0, w)
           y == W!Select(w, 0, v)
<1>1. W!Bits(x) = W!Bits(v) \ W!Bits(w) /\ W!Bits(y) = W!Bits(w) \ W!Bits(v)
  BY NoBits, SelectBits
<1>2. (W!Bits(x) \ W!Bits(y)) \cup (W!Bits(y) \cap W!Bits(y))
        = (W!Bits(v) \ W!Bits(w)) \cup (W!Bits(w) \ W!Bits(v))
  BY <1>1
<1> HIDE DEF x, y
<1>3. W!Select(x, y, y) = Alu("XOR", v, w)
  BY <1>2 DEF Alu, W!Select
<1> QED BY <1>3 DEF x, y

LEMMA WordSign ==
  /\ W!SignBit \in W!Cell /\ W!Bits(W!SignBit) = {Width - 1}
  /\ Width - 1 \in W!Lanes
<1>1. Width - 1 \in W!Lanes
  BY CellIs, WidthAssumption
<1> QED BY <1>1, PowerBits DEF W!SignBit

(* The sign of the borrow, less one, is at most zero unless v < w.         *)
LEMMA WordLess ==
  ASSUME NEW v \in W!Cell, NEW w \in W!Cell, NEW e, e = W!Wrap(v - w),
         NEW x, x = W!Select(0, W!Select(W!Select(e, w, w), W!Select(0, w, e), v), W!SignBit),
         NEW z, z = W!Wrap(W!Wrap(x - 1) - 0)
  PROVE  z = 0 \/ z >= W!SignBit <=> ~(v < w)
<1> DEFINE h == W!SignBit
           M == W!Modulus
           E == W!Bits(e)
           top == Width - 1
           s == W!Select(W!Select(e, w, w), W!Select(0, w, e), v)
<1>1. M = 2 * h /\ h \in Nat /\ h >= 16 /\ v \in 0 .. M - 1 /\ w \in 0 .. M - 1
  BY WordIs DEF W!Cell
<1>2. e = (IF v < w THEN v - w + M ELSE v - w) /\ e \in W!Cell
  BY <1>1 DEF W!Wrap, W!Cell
<1>3. W!Bits(s) = (((E \ W!Bits(w)) \cup W!Bits(w)) \ W!Bits(v))
                   \cup ((W!Bits(w) \cap E) \cap W!Bits(v))
  <2>1. W!Bits(W!Select(e, w, w)) = (E \ W!Bits(w)) \cup W!Bits(w)
    BY SelectBits
  <2>2. W!Bits(W!Select(0, w, e)) = W!Bits(w) \cap E
    BY SelectBits, NoBits
  <2> QED BY <2>1, <2>2, SelectBits
<1>4. top \in W!Bits(s) <=> v < w
  <2>1. /\ top \in W!Bits(v) <=> v >= h
        /\ top \in W!Bits(w) <=> w >= h
        /\ top \in E <=> e >= h
    BY <1>2, SignIsTop
  <2>2. v < w <=> ((e >= h \/ w >= h) /\ ~(v >= h)) \/ (w >= h /\ e >= h /\ v >= h)
    <3> HIDE DEF h, M
    <3> QED BY <1>1, <1>2
  <2> QED BY <1>3, <2>1, <2>2
<1>5. W!Bits(x) = W!Bits(s) \cap {top} /\ x \in W!Cell
  BY SelectBits, SelectTyped, NoBits, WordSign
<1>6. x = IF v < w THEN h ELSE 0
  <2>1. CASE v < w
    <3>1. W!Bits(x) = W!Bits(h)
      BY <1>4, <1>5, <2>1, WordSign
    <3> QED BY <1>5, <2>1, <3>1, SameBits, WordSign
  <2>2. CASE ~(v < w)
    <3>1. W!Bits(x) = W!Bits(0)
      BY <1>4, <1>5, <2>2, NoBits
    <3> QED BY <1>5, <2>2, <3>1, SameBits, NoBits
  <2> QED BY <2>1, <2>2
<1>7. W!Wrap(x - 1) = IF v < w THEN h - 1 ELSE M - 1
  BY <1>1, <1>6 DEF W!Wrap
<1>8. z = IF v < w THEN h - 1 ELSE M - 1
  BY <1>1, <1>7 DEF W!Wrap
<1> QED BY <1>1, <1>8

LEMMA WordFlip ==
  ASSUME NEW v \in W!Cell, NEW w \in W!Cell
  PROVE  W!Wrap(v - W!SignBit) < W!Wrap(w - W!SignBit) <=> Signed(v) < Signed(w)
<1>1. W!Modulus = 2 * W!SignBit /\ W!SignBit \in Nat /\ v \in 0 .. W!Modulus - 1 /\ w \in 0 .. W!Modulus - 1
  BY WordIs DEF W!Cell
<1>2. /\ W!Wrap(v - W!SignBit) = IF v >= W!SignBit THEN v - W!SignBit ELSE v + W!SignBit
      /\ W!Wrap(w - W!SignBit) = IF w >= W!SignBit THEN w - W!SignBit ELSE w + W!SignBit
  BY <1>1 DEF W!Wrap
<1>3. /\ Signed(v) = IF v >= W!SignBit THEN v - W!Modulus ELSE v
      /\ Signed(w) = IF w >= W!SignBit THEN w - W!Modulus ELSE w
  BY DEF Signed, W!Negative
<1> QED BY <1>1, <1>2, <1>3

(* A difference that is neither zero nor negative, or negative and still   *)
(* so one later, is not zero.                                              *)
LEMMA WordEqual ==
  ASSUME NEW v \in W!Cell, NEW w \in W!Cell, NEW e, e = W!Wrap(v - w), NEW z, z = W!Wrap(e - (W!Modulus - 1))
  PROVE  /\ v = w => e = 0
         /\ v = w => ~(z = 0 \/ z >= W!SignBit)
         /\ v # w /\ (e = 0 \/ e >= W!SignBit) => z = 0 \/ z >= W!SignBit
<1>1. W!Modulus = 2 * W!SignBit /\ W!SignBit \in Nat /\ W!SignBit >= 16
      /\ v \in 0 .. W!Modulus - 1 /\ w \in 0 .. W!Modulus - 1
  BY WordIs DEF W!Cell
<1>2. e = (IF v < w THEN v - w + W!Modulus ELSE v - w)
  BY <1>1 DEF W!Wrap
<1>3. z = (IF e = W!Modulus - 1 THEN 0 ELSE e + 1)
  BY <1>1, <1>2 DEF W!Wrap
<1> QED BY <1>1, <1>2, <1>3

(* A position counted from an instruction inside a piece.                  *)
LEMMA RelTo == ASSUME NEW p \in Nat, NEW k \in Nat, NEW L \in Int PROVE To(p + k, Rel(L, k)) = To(p, L)
BY DEF To, Rel, HALT

LEMMA RunsADD ==
  ASSUME NEW c, NEW i, NEW p, NEW m, Good(i, m), NEW a \in Source(i), NEW b \in Source(i),
         NEW d \in Writable(i) \cap Source(i),
         Holds(c, p, emit_alu32("ADD", a, b, d))
  PROVE  \E n : /\ Gets(c, i, p, m, p + 5, n) /\ Alike(i, m, n, Plus(Temps, d))
                /\ n[d] = Alu("ADD", m[a], m[b])
<1> DEFINE
     m1 == Written(m, T0, m[a])
     m2 == Written(m1, T1, m1[Z])
     m3 == Written(m2, T1, W!Wrap(m2[T1] - m2[b]))
     m4 == Written(m3, T0, W!Wrap(m3[T0] - m3[T1]))
     m5 == Written(m4, d, m4[T0])
<1>1. /\ Holds(c, p, mov32(a, T0))
      /\ Holds(c, p + 1, mov32(Z, T1))
      /\ Holds(c, p + 2, subnb32(b, T1))
      /\ Holds(c, p + 3, subnb32(T1, T0))
      /\ Holds(c, p + 4, mov32(T0, d))
  BY Row5, EmittersAreSingle DEF emit_alu32
<1>2. p \in Nat
      /\ (p + 1) + 1 = p + 2 /\ (p + 2) + 1 = p + 3 /\ (p + 3) + 1 = p + 4 /\ (p + 4) + 1 = p + 5
  <2>1. p \in Nat
    BY <1>1, HoldsInsn DEF mov32, Insn
  <2> QED BY <2>1
<1>3. /\ a \in NamesOf(i) /\ b \in NamesOf(i) /\ d \in NamesOf(i) /\ d \in Writable(i) /\ d \notin Temps
      /\ {T0, T1, T2} \subseteq Writable(i) /\ {T0, T1, T2} \subseteq NamesOf(i) /\ Temps = {T0, T1, T2}
      /\ T0 # T1 /\ T0 # T2 /\ T1 # T2 /\ d # T0 /\ Z \in Source(i) /\ Z \in NamesOf(i)
  BY ScratchAre, ConstantsAre DEF Writable, Source, Temps
<1> HIDE DEF m1, m2, m3, m4, m5
<1>4. Gets(c, i, p, m, p, m)
  BY GetsItself
<1>5. Gets(c, i, p, m, p + 1, m1)
  BY <1>1, <1>2, <1>3, <1>4, MoveOn DEF m1
<1>6. /\ \A x \in Source(i) : m1[x] = m[x]
      /\ m1[T0] = m[a]
  BY <1>3, <1>4, WrittenAfter DEF m1, Source
<1>7. Gets(c, i, p, m, p + 2, m2)
  BY <1>1, <1>2, <1>3, <1>5, MoveOn DEF m2
<1>8. /\ \A x \in Source(i) : m2[x] = m[x]
      /\ m2[T0] = m[a]
      /\ m2[T1] = m[Z]
  BY <1>3, <1>5, <1>6, WrittenAfter DEF m2, Source
<1>9. Gets(c, i, p, m, p + 3, m3)
  BY <1>1, <1>2, <1>3, <1>7, SubOn DEF m3
<1>10. /\ \A x \in Source(i) : m3[x] = m[x]
      /\ m3[T0] = m[a]
      /\ m3[T1] = W!Wrap(m[Z] - m[b])
  BY <1>3, <1>7, <1>8, WrittenAfter DEF m3, Source
<1>11. Gets(c, i, p, m, p + 4, m4)
  BY <1>1, <1>2, <1>3, <1>9, SubOn DEF m4
<1>12. /\ \A x \in Source(i) : m4[x] = m[x]
      /\ m4[T0] = W!Wrap(m[a] - W!Wrap(m[Z] - m[b]))
      /\ m4[T1] = W!Wrap(m[Z] - m[b])
  BY <1>3, <1>9, <1>10, WrittenAfter DEF m4, Source
<1>13. Gets(c, i, p, m, p + 5, m5)
  BY <1>1, <1>2, <1>3, <1>11, MoveOn DEF m5
<1>14. Alike(i, m, m5, Plus(Temps, d)) /\ m5[d] = W!Wrap(m[a] - W!Wrap(m[Z] - m[b]))
  BY <1>3, <1>11, <1>12, WrittenAfter DEF m5, Source, Alike, Plus
<1>15. W!Wrap(m[a] - W!Wrap(m[Z] - m[b])) = Alu("ADD", m[a], m[b])
  BY WordAdd, PoolValues, <1>3, GoodTyped
<1> QED BY <1>13, <1>14, <1>15

LEMMA RunsSUB ==
  ASSUME NEW c, NEW i, NEW p, NEW m, Good(i, m), NEW a \in Source(i), NEW b \in Source(i),
         NEW d \in Writable(i) \cap Source(i),
         Holds(c, p, emit_alu32("SUB", a, b, d))
  PROVE  \E n : /\ Gets(c, i, p, m, p + 3, n) /\ Alike(i, m, n, Plus(Temps, d))
                /\ n[d] = Alu("SUB", m[a], m[b])
<1> DEFINE
     m1 == Written(m, T0, m[a])
     m2 == Written(m1, T0, W!Wrap(m1[T0] - m1[b]))
     m3 == Written(m2, d, m2[T0])
<1>1. /\ Holds(c, p, mov32(a, T0))
      /\ Holds(c, p + 1, subnb32(b, T0))
      /\ Holds(c, p + 2, mov32(T0, d))
  BY Row3, EmittersAreSingle DEF emit_alu32
<1>2. p \in Nat
      /\ (p + 1) + 1 = p + 2 /\ (p + 2) + 1 = p + 3
  <2>1. p \in Nat
    BY <1>1, HoldsInsn DEF mov32, Insn
  <2> QED BY <2>1
<1>3. /\ a \in NamesOf(i) /\ b \in NamesOf(i) /\ d \in NamesOf(i) /\ d \in Writable(i) /\ d \notin Temps
      /\ {T0, T1, T2} \subseteq Writable(i) /\ {T0, T1, T2} \subseteq NamesOf(i) /\ Temps = {T0, T1, T2}
      /\ T0 # T1 /\ T0 # T2 /\ T1 # T2 /\ d # T0 /\ Z \in Source(i) /\ Z \in NamesOf(i)
  BY ScratchAre, ConstantsAre DEF Writable, Source, Temps
<1> HIDE DEF m1, m2, m3
<1>4. Gets(c, i, p, m, p, m)
  BY GetsItself
<1>5. Gets(c, i, p, m, p + 1, m1)
  BY <1>1, <1>2, <1>3, <1>4, MoveOn DEF m1
<1>6. /\ \A x \in Source(i) : m1[x] = m[x]
      /\ m1[T0] = m[a]
  BY <1>3, <1>4, WrittenAfter DEF m1, Source
<1>7. Gets(c, i, p, m, p + 2, m2)
  BY <1>1, <1>2, <1>3, <1>5, SubOn DEF m2
<1>8. /\ \A x \in Source(i) : m2[x] = m[x]
      /\ m2[T0] = W!Wrap(m[a] - m[b])
  BY <1>3, <1>5, <1>6, WrittenAfter DEF m2, Source
<1>9. Gets(c, i, p, m, p + 3, m3)
  BY <1>1, <1>2, <1>3, <1>7, MoveOn DEF m3
<1>10. Alike(i, m, m3, Plus(Temps, d)) /\ m3[d] = W!Wrap(m[a] - m[b])
  BY <1>3, <1>7, <1>8, WrittenAfter DEF m3, Source, Alike, Plus
<1>11. W!Wrap(m[a] - m[b]) = Alu("SUB", m[a], m[b])
  BY WordSub, PoolValues, <1>3, GoodTyped
<1> QED BY <1>9, <1>10, <1>11

LEMMA RunsAND ==
  ASSUME NEW c, NEW i, NEW p, NEW m, Good(i, m), NEW a \in Source(i), NEW b \in Source(i),
         NEW d \in Writable(i) \cap Source(i),
         Holds(c, p, emit_alu32("AND", a, b, d))
  PROVE  \E n : /\ Gets(c, i, p, m, p + 3, n) /\ Alike(i, m, n, Plus(Temps, d))
                /\ n[d] = Alu("AND", m[a], m[b])
<1> DEFINE
     m1 == Written(m, T0, m[a])
     m2 == Written(m1, T0, W!Select(m1[Z], m1[T0], m1[b]))
     m3 == Written(m2, d, m2[T0])
<1>1. /\ Holds(c, p, mov32(a, T0))
      /\ Holds(c, p + 1, mux32op(Z, T0, b))
      /\ Holds(c, p + 2, mov32(T0, d))
  BY Row3, EmittersAreSingle DEF emit_alu32
<1>2. p \in Nat
      /\ (p + 1) + 1 = p + 2 /\ (p + 2) + 1 = p + 3
  <2>1. p \in Nat
    BY <1>1, HoldsInsn DEF mov32, Insn
  <2> QED BY <2>1
<1>3. /\ a \in NamesOf(i) /\ b \in NamesOf(i) /\ d \in NamesOf(i) /\ d \in Writable(i) /\ d \notin Temps
      /\ {T0, T1, T2} \subseteq Writable(i) /\ {T0, T1, T2} \subseteq NamesOf(i) /\ Temps = {T0, T1, T2}
      /\ T0 # T1 /\ T0 # T2 /\ T1 # T2 /\ d # T0 /\ Z \in Source(i) /\ Z \in NamesOf(i)
  BY ScratchAre, ConstantsAre DEF Writable, Source, Temps
<1> HIDE DEF m1, m2, m3
<1>4. Gets(c, i, p, m, p, m)
  BY GetsItself
<1>5. Gets(c, i, p, m, p + 1, m1)
  BY <1>1, <1>2, <1>3, <1>4, MoveOn DEF m1
<1>6. /\ \A x \in Source(i) : m1[x] = m[x]
      /\ m1[T0] = m[a]
  BY <1>3, <1>4, WrittenAfter DEF m1, Source
<1>7. Gets(c, i, p, m, p + 2, m2)
  BY <1>1, <1>2, <1>3, <1>5, MuxOn DEF m2
<1>8. /\ \A x \in Source(i) : m2[x] = m[x]
      /\ m2[T0] = W!Select(m[Z], m[a], m[b])
  BY <1>3, <1>5, <1>6, WrittenAfter DEF m2, Source
<1>9. Gets(c, i, p, m, p + 3, m3)
  BY <1>1, <1>2, <1>3, <1>7, MoveOn DEF m3
<1>10. Alike(i, m, m3, Plus(Temps, d)) /\ m3[d] = W!Select(m[Z], m[a], m[b])
  BY <1>3, <1>7, <1>8, WrittenAfter DEF m3, Source, Alike, Plus
<1>11. W!Select(m[Z], m[a], m[b]) = Alu("AND", m[a], m[b])
  BY WordAnd, PoolValues, <1>3, GoodTyped
<1> QED BY <1>9, <1>10, <1>11

LEMMA RunsOR ==
  ASSUME NEW c, NEW i, NEW p, NEW m, Good(i, m), NEW a \in Source(i), NEW b \in Source(i),
         NEW d \in Writable(i) \cap Source(i),
         Holds(c, p, emit_alu32("OR", a, b, d))
  PROVE  \E n : /\ Gets(c, i, p, m, p + 3, n) /\ Alike(i, m, n, Plus(Temps, d))
                /\ n[d] = Alu("OR", m[a], m[b])
<1> DEFINE
     m1 == Written(m, T0, m[b])
     m2 == Written(m1, T0, W!Select(m1[a], m1[T0], m1[b]))
     m3 == Written(m2, d, m2[T0])
<1>1. /\ Holds(c, p, mov32(b, T0))
      /\ Holds(c, p + 1, mux32op(a, T0, b))
      /\ Holds(c, p + 2, mov32(T0, d))
  BY Row3, EmittersAreSingle DEF emit_alu32
<1>2. p \in Nat
      /\ (p + 1) + 1 = p + 2 /\ (p + 2) + 1 = p + 3
  <2>1. p \in Nat
    BY <1>1, HoldsInsn DEF mov32, Insn
  <2> QED BY <2>1
<1>3. /\ a \in NamesOf(i) /\ b \in NamesOf(i) /\ d \in NamesOf(i) /\ d \in Writable(i) /\ d \notin Temps
      /\ {T0, T1, T2} \subseteq Writable(i) /\ {T0, T1, T2} \subseteq NamesOf(i) /\ Temps = {T0, T1, T2}
      /\ T0 # T1 /\ T0 # T2 /\ T1 # T2 /\ d # T0 /\ Z \in Source(i) /\ Z \in NamesOf(i)
  BY ScratchAre, ConstantsAre DEF Writable, Source, Temps
<1> HIDE DEF m1, m2, m3
<1>4. Gets(c, i, p, m, p, m)
  BY GetsItself
<1>5. Gets(c, i, p, m, p + 1, m1)
  BY <1>1, <1>2, <1>3, <1>4, MoveOn DEF m1
<1>6. /\ \A x \in Source(i) : m1[x] = m[x]
      /\ m1[T0] = m[b]
  BY <1>3, <1>4, WrittenAfter DEF m1, Source
<1>7. Gets(c, i, p, m, p + 2, m2)
  BY <1>1, <1>2, <1>3, <1>5, MuxOn DEF m2
<1>8. /\ \A x \in Source(i) : m2[x] = m[x]
      /\ m2[T0] = W!Select(m[a], m[b], m[b])
  BY <1>3, <1>5, <1>6, WrittenAfter DEF m2, Source
<1>9. Gets(c, i, p, m, p + 3, m3)
  BY <1>1, <1>2, <1>3, <1>7, MoveOn DEF m3
<1>10. Alike(i, m, m3, Plus(Temps, d)) /\ m3[d] = W!Select(m[a], m[b], m[b])
  BY <1>3, <1>7, <1>8, WrittenAfter DEF m3, Source, Alike, Plus
<1>11. W!Select(m[a], m[b], m[b]) = Alu("OR", m[a], m[b])
  BY WordOr, PoolValues, <1>3, GoodTyped
<1> QED BY <1>9, <1>10, <1>11

LEMMA RunsXOR ==
  ASSUME NEW c, NEW i, NEW p, NEW m, Good(i, m), NEW a \in Source(i), NEW b \in Source(i),
         NEW d \in Writable(i) \cap Source(i),
         Holds(c, p, emit_alu32("XOR", a, b, d))
  PROVE  \E n : /\ Gets(c, i, p, m, p + 7, n) /\ Alike(i, m, n, Plus(Temps, d))
                /\ n[d] = Alu("XOR", m[a], m[b])
<1> DEFINE
     m1 == Written(m, T1, m[Z])
     m2 == Written(m1, T1, W!Select(m1[a], m1[T1], m1[b]))
     m3 == Written(m2, T2, m2[Z])
     m4 == Written(m3, T2, W!Select(m3[b], m3[T2], m3[a]))
     m5 == Written(m4, T0, m4[T2])
     m6 == Written(m5, T0, W!Select(m5[T1], m5[T0], m5[T2]))
     m7 == Written(m6, d, m6[T0])
<1>1. /\ Holds(c, p, mov32(Z, T1))
      /\ Holds(c, p + 1, mux32op(a, T1, b))
      /\ Holds(c, p + 2, mov32(Z, T2))
      /\ Holds(c, p + 3, mux32op(b, T2, a))
      /\ Holds(c, p + 4, mov32(T2, T0))
      /\ Holds(c, p + 5, mux32op(T1, T0, T2))
      /\ Holds(c, p + 6, mov32(T0, d))
  BY Row7, EmittersAreSingle DEF emit_alu32
<1>2. p \in Nat
      /\ (p + 1) + 1 = p + 2 /\ (p + 2) + 1 = p + 3 /\ (p + 3) + 1 = p + 4 /\ (p + 4) + 1 = p + 5
      /\ (p + 5) + 1 = p + 6 /\ (p + 6) + 1 = p + 7
  <2>1. p \in Nat
    BY <1>1, HoldsInsn DEF mov32, Insn
  <2> QED BY <2>1
<1>3. /\ a \in NamesOf(i) /\ b \in NamesOf(i) /\ d \in NamesOf(i) /\ d \in Writable(i) /\ d \notin Temps
      /\ {T0, T1, T2} \subseteq Writable(i) /\ {T0, T1, T2} \subseteq NamesOf(i) /\ Temps = {T0, T1, T2}
      /\ T0 # T1 /\ T0 # T2 /\ T1 # T2 /\ d # T0 /\ Z \in Source(i) /\ Z \in NamesOf(i)
  BY ScratchAre, ConstantsAre DEF Writable, Source, Temps
<1> HIDE DEF m1, m2, m3, m4, m5, m6, m7
<1>4. Gets(c, i, p, m, p, m)
  BY GetsItself
<1>5. Gets(c, i, p, m, p + 1, m1)
  BY <1>1, <1>2, <1>3, <1>4, MoveOn DEF m1
<1>6. /\ \A x \in Source(i) : m1[x] = m[x]
      /\ m1[T1] = m[Z]
  BY <1>3, <1>4, WrittenAfter DEF m1, Source
<1>7. Gets(c, i, p, m, p + 2, m2)
  BY <1>1, <1>2, <1>3, <1>5, MuxOn DEF m2
<1>8. /\ \A x \in Source(i) : m2[x] = m[x]
      /\ m2[T1] = W!Select(m[a], m[Z], m[b])
  BY <1>3, <1>5, <1>6, WrittenAfter DEF m2, Source
<1>9. Gets(c, i, p, m, p + 3, m3)
  BY <1>1, <1>2, <1>3, <1>7, MoveOn DEF m3
<1>10. /\ \A x \in Source(i) : m3[x] = m[x]
      /\ m3[T1] = W!Select(m[a], m[Z], m[b])
      /\ m3[T2] = m[Z]
  BY <1>3, <1>7, <1>8, WrittenAfter DEF m3, Source
<1>11. Gets(c, i, p, m, p + 4, m4)
  BY <1>1, <1>2, <1>3, <1>9, MuxOn DEF m4
<1>12. /\ \A x \in Source(i) : m4[x] = m[x]
      /\ m4[T1] = W!Select(m[a], m[Z], m[b])
      /\ m4[T2] = W!Select(m[b], m[Z], m[a])
  BY <1>3, <1>9, <1>10, WrittenAfter DEF m4, Source
<1>13. Gets(c, i, p, m, p + 5, m5)
  BY <1>1, <1>2, <1>3, <1>11, MoveOn DEF m5
<1>14. /\ \A x \in Source(i) : m5[x] = m[x]
      /\ m5[T1] = W!Select(m[a], m[Z], m[b])
      /\ m5[T2] = W!Select(m[b], m[Z], m[a])
      /\ m5[T0] = W!Select(m[b], m[Z], m[a])
  BY <1>3, <1>11, <1>12, WrittenAfter DEF m5, Source
<1>15. Gets(c, i, p, m, p + 6, m6)
  BY <1>1, <1>2, <1>3, <1>13, MuxOn DEF m6
<1>16. /\ \A x \in Source(i) : m6[x] = m[x]
      /\ m6[T1] = W!Select(m[a], m[Z], m[b])
      /\ m6[T2] = W!Select(m[b], m[Z], m[a])
      /\ m6[T0] = W!Select(W!Select(m[a], m[Z], m[b]), W!Select(m[b], m[Z], m[a]), W!Select(m[b], m[Z], m[a]))
  BY <1>3, <1>13, <1>14, WrittenAfter DEF m6, Source
<1>17. Gets(c, i, p, m, p + 7, m7)
  BY <1>1, <1>2, <1>3, <1>15, MoveOn DEF m7
<1>18. Alike(i, m, m7, Plus(Temps, d)) /\ m7[d] = W!Select(W!Select(m[a], m[Z], m[b]), W!Select(m[b], m[Z], m[a]), W!Select(m[b], m[Z], m[a]))
  BY <1>3, <1>15, <1>16, WrittenAfter DEF m7, Source, Alike, Plus
<1>19. W!Select(W!Select(m[a], m[Z], m[b]), W!Select(m[b], m[Z], m[a]), W!Select(m[b], m[Z], m[a])) = Alu("XOR", m[a], m[b])
  BY WordXor, PoolValues, <1>3, GoodTyped
<1> QED BY <1>17, <1>18, <1>19

(* Unsigned comparison.                                                    *)
LEMMA RunsLess ==
  ASSUME NEW c, NEW i, NEW p, NEW m, Good(i, m), NEW a \in Source(i), NEW b \in Source(i),
         NEW L \in Int, NEW Lge \in Int,
         Holds(c, p, ltu32(a, b, L, Lge))
  PROVE  \E n : /\ Gets(c, i, p, m, IF m[a] < m[b] THEN To(p, L) ELSE To(p, Lge), n)
                /\ Alike(i, m, n, Temps)
<1> DEFINE
     m1 == Written(m, T0, m[a])
     m2 == Written(m1, T0, W!Wrap(m1[T0] - m1[b]))
     m3 == Written(m2, T1, m2[b])
     m4 == Written(m3, T1, W!Select(m3[T0], m3[T1], m3[b]))
     m5 == Written(m4, T2, m4[b])
     m6 == Written(m5, T2, W!Select(m5[Z], m5[T2], m5[T0]))
     m7 == Written(m6, T2, W!Select(m6[T1], m6[T2], m6[a]))
     m8 == Written(m7, T2, W!Select(m7[Z], m7[T2], m7[SGN]))
     m9 == Written(m8, T2, W!Wrap(m8[T2] - m8[ONE]))
<1>1. /\ Holds(c, p, mov32(a, T0))
      /\ Holds(c, p + 1, subnb32(b, T0))
      /\ Holds(c, p + 2, mov32(b, T1))
      /\ Holds(c, p + 3, mux32op(T0, T1, b))
      /\ Holds(c, p + 4, mov32(b, T2))
      /\ Holds(c, p + 5, mux32op(Z, T2, T0))
      /\ Holds(c, p + 6, mux32op(T1, T2, a))
      /\ Holds(c, p + 7, mux32op(Z, T2, SGN))
      /\ Holds(c, p + 8, subnb32(ONE, T2))
      /\ Holds(c, p + 9, leq32(Z, T2, Rel(Lge, 9)))
      /\ Holds(c, p + 10, jump32(Rel(L, 10)))
  BY Row11, EmittersAreSingle DEF ltu32
<1>2. p \in Nat
      /\ (p + 1) + 1 = p + 2 /\ (p + 2) + 1 = p + 3 /\ (p + 3) + 1 = p + 4 /\ (p + 4) + 1 = p + 5
      /\ (p + 5) + 1 = p + 6 /\ (p + 6) + 1 = p + 7 /\ (p + 7) + 1 = p + 8 /\ (p + 8) + 1 = p + 9
      /\ (p + 9) + 1 = p + 10 /\ (p + 10) + 1 = p + 11
  <2>1. p \in Nat
    BY <1>1, HoldsInsn DEF mov32, Insn
  <2> QED BY <2>1
<1>3. /\ a \in NamesOf(i) /\ b \in NamesOf(i) /\ Temps = {T0, T1, T2}
      /\ {T0, T1, T2} \subseteq Writable(i) /\ {T0, T1, T2} \subseteq NamesOf(i)
      /\ T0 # T1 /\ T0 # T2 /\ T1 # T2
      /\ {Z, ONE, SGN, NEG1} \subseteq Source(i) /\ {Z, ONE, SGN, NEG1} \subseteq NamesOf(i)
  BY ScratchAre, ConstantsAre DEF Writable, Source, Temps
<1> HIDE DEF m1, m2, m3, m4, m5, m6, m7, m8, m9
<1>4. Gets(c, i, p, m, p, m)
  BY GetsItself
<1>5. Gets(c, i, p, m, p + 1, m1)
  BY <1>1, <1>2, <1>3, <1>4, MoveOn DEF m1
<1>6. /\ \A x \in Source(i) : m1[x] = m[x]
      /\ m1[T0] = m[a]
  BY <1>3, <1>4, WrittenAfter DEF m1, Source
<1>7. Gets(c, i, p, m, p + 2, m2)
  BY <1>1, <1>2, <1>3, <1>5, SubOn DEF m2
<1>8. /\ \A x \in Source(i) : m2[x] = m[x]
      /\ m2[T0] = W!Wrap(m[a] - m[b])
  BY <1>3, <1>5, <1>6, WrittenAfter DEF m2, Source
<1>9. Gets(c, i, p, m, p + 3, m3)
  BY <1>1, <1>2, <1>3, <1>7, MoveOn DEF m3
<1>10. /\ \A x \in Source(i) : m3[x] = m[x]
      /\ m3[T0] = W!Wrap(m[a] - m[b])
      /\ m3[T1] = m[b]
  BY <1>3, <1>7, <1>8, WrittenAfter DEF m3, Source
<1>11. Gets(c, i, p, m, p + 4, m4)
  BY <1>1, <1>2, <1>3, <1>9, MuxOn DEF m4
<1>12. /\ \A x \in Source(i) : m4[x] = m[x]
      /\ m4[T0] = W!Wrap(m[a] - m[b])
      /\ m4[T1] = W!Select(W!Wrap(m[a] - m[b]), m[b], m[b])
  BY <1>3, <1>9, <1>10, WrittenAfter DEF m4, Source
<1>13. Gets(c, i, p, m, p + 5, m5)
  BY <1>1, <1>2, <1>3, <1>11, MoveOn DEF m5
<1>14. /\ \A x \in Source(i) : m5[x] = m[x]
      /\ m5[T0] = W!Wrap(m[a] - m[b])
      /\ m5[T1] = W!Select(W!Wrap(m[a] - m[b]), m[b], m[b])
      /\ m5[T2] = m[b]
  BY <1>3, <1>11, <1>12, WrittenAfter DEF m5, Source
<1>15. Gets(c, i, p, m, p + 6, m6)
  BY <1>1, <1>2, <1>3, <1>13, MuxOn DEF m6
<1>16. /\ \A x \in Source(i) : m6[x] = m[x]
      /\ m6[T0] = W!Wrap(m[a] - m[b])
      /\ m6[T1] = W!Select(W!Wrap(m[a] - m[b]), m[b], m[b])
      /\ m6[T2] = W!Select(m[Z], m[b], W!Wrap(m[a] - m[b]))
  BY <1>3, <1>13, <1>14, WrittenAfter DEF m6, Source
<1>17. Gets(c, i, p, m, p + 7, m7)
  BY <1>1, <1>2, <1>3, <1>15, MuxOn DEF m7
<1>18. /\ \A x \in Source(i) : m7[x] = m[x]
      /\ m7[T0] = W!Wrap(m[a] - m[b])
      /\ m7[T1] = W!Select(W!Wrap(m[a] - m[b]), m[b], m[b])
      /\ m7[T2] = W!Select(W!Select(W!Wrap(m[a] - m[b]), m[b], m[b]), W!Select(m[Z], m[b], W!Wrap(m[a] - m[b])), m[a])
  BY <1>3, <1>15, <1>16, WrittenAfter DEF m7, Source
<1>19. Gets(c, i, p, m, p + 8, m8)
  BY <1>1, <1>2, <1>3, <1>17, MuxOn DEF m8
<1>20. /\ \A x \in Source(i) : m8[x] = m[x]
      /\ m8[T0] = W!Wrap(m[a] - m[b])
      /\ m8[T1] = W!Select(W!Wrap(m[a] - m[b]), m[b], m[b])
      /\ m8[T2] = W!Select(m[Z], W!Select(W!Select(W!Wrap(m[a] - m[b]), m[b], m[b]), W!Select(m[Z], m[b], W!Wrap(m[a] - m[b])), m[a]), m[SGN])
  BY <1>3, <1>17, <1>18, WrittenAfter DEF m8, Source
<1>21. Gets(c, i, p, m, p + 9, m9)
  BY <1>1, <1>2, <1>3, <1>19, SubOn DEF m9
<1>22. /\ \A x \in Source(i) : m9[x] = m[x]
      /\ m9[T0] = W!Wrap(m[a] - m[b])
      /\ m9[T1] = W!Select(W!Wrap(m[a] - m[b]), m[b], m[b])
      /\ m9[T2] = W!Wrap(W!Select(m[Z], W!Select(W!Select(W!Wrap(m[a] - m[b]), m[b], m[b]), W!Select(m[Z], m[b], W!Wrap(m[a] - m[b])), m[a]), m[SGN]) - m[ONE])
  BY <1>3, <1>19, <1>20, WrittenAfter DEF m9, Source
<1> DEFINE z == W!Wrap(m9[T2] - m9[Z])
           q == IF m[a] < m[b] THEN p + 10 ELSE To(p, Lge)
<1>23. z = 0 \/ z >= W!SignBit <=> ~(m[a] < m[b])
  <2> DEFINE e == W!Wrap(m[a] - m[b])
             x == W!Select(0, W!Select(W!Select(e, m[b], m[b]), W!Select(0, m[b], e), m[a]), W!SignBit)
  <2>1. m[Z] = 0 /\ m[ONE] = 1 /\ m[SGN] = W!SignBit /\ m[a] \in W!Cell /\ m[b] \in W!Cell
    BY <1>3, PoolValues, GoodTyped
  <2>2. m9[T2] = W!Wrap(x - 1) /\ m9[Z] = 0
    BY <1>3, <1>22, <2>1
  <2>3. z = W!Wrap(W!Wrap(x - 1) - 0)
    BY <2>2
  <2> HIDE DEF x, z
  <2>4. e = W!Wrap(m[a] - m[b])
    OBVIOUS
  <2> HIDE DEF e
  <2>5. x = W!Select(0, W!Select(W!Select(e, m[b], m[b]), W!Select(0, m[b], e), m[a]), W!SignBit)
    BY DEF x
  <2> QED BY <2>1, <2>3, <2>4, <2>5, WordLess
<1> HIDE DEF z
<1>24. Gets(c, i, p, m, q, Written(m9, T2, z))
  <2>1. Gets(c, i, p, m, Branches(z, p + 9, Rel(Lge, 9)), Written(m9, T2, z))
    BY <1>1, <1>3, <1>21, LeqOn DEF z
  <2>2. Branches(z, p + 9, Rel(Lge, 9)) = q
    BY <1>2, <1>23, RelTo DEF Branches
  <2> QED BY <2>1, <2>2
<1>25. Gets(c, i, p, m, IF m[a] < m[b] THEN To(p, L) ELSE To(p, Lge), Written(m9, T2, z))
  <2>1. CASE m[a] < m[b]
    <3>1. Gets(c, i, p, m, To(p + 10, Rel(L, 10)), Written(m9, T2, z))
      BY <1>1, <1>24, <2>1, JumpOn
    <3> QED BY <1>2, <2>1, <3>1, RelTo
  <2>2. CASE ~(m[a] < m[b])
    BY <1>24, <2>2
  <2> QED BY <2>1, <2>2
<1>26. Alike(i, m, Written(m9, T2, z), Temps)
  BY <1>3, <1>21, <1>22, WrittenAfter DEF Alike, Source
<1> QED BY <1>25, <1>26


LEMMA RunsEqual ==
  ASSUME NEW c, NEW i, NEW p, NEW m, Good(i, m), NEW a \in NamesOf(i), NEW b \in Source(i),
         NEW L \in Int,
         Holds(c, p, eq32(a, b, L))
  PROVE  \E n : /\ Gets(c, i, p, m, IF m[a] = m[b] THEN To(p, L) ELSE p + 5, n)
                /\ Alike(i, m, n, Temps)
<1> DEFINE
     m1 == Written(m, T0, m[a])
<1>1. /\ Holds(c, p, mov32(a, T0))
      /\ Holds(c, p + 1, leq32(b, T0, 2))
      /\ Holds(c, p + 2, jump32(3))
      /\ Holds(c, p + 3, leq32(NEG1, T0, 2))
      /\ Holds(c, p + 4, jump32(Rel(L, 4)))
  BY Row5, EmittersAreSingle DEF eq32, sle0_32
<1>2. p \in Nat
      /\ (p + 1) + 1 = p + 2 /\ (p + 2) + 1 = p + 3 /\ (p + 3) + 1 = p + 4 /\ (p + 4) + 1 = p + 5
  <2>1. p \in Nat
    BY <1>1, HoldsInsn DEF mov32, Insn
  <2> QED BY <2>1
<1>3. /\ a \in NamesOf(i) /\ b \in NamesOf(i) /\ Temps = {T0, T1, T2}
      /\ {T0, T1, T2} \subseteq Writable(i) /\ {T0, T1, T2} \subseteq NamesOf(i)
      /\ T0 # T1 /\ T0 # T2 /\ T1 # T2
      /\ {Z, ONE, SGN, NEG1} \subseteq Source(i) /\ {Z, ONE, SGN, NEG1} \subseteq NamesOf(i)
  BY ScratchAre, ConstantsAre DEF Writable, Source, Temps
<1> HIDE DEF m1
<1>4. Gets(c, i, p, m, p, m)
  BY GetsItself
<1>5. Gets(c, i, p, m, p + 1, m1)
  BY <1>1, <1>2, <1>3, <1>4, MoveOn DEF m1
<1>6. /\ \A x \in Source(i) : m1[x] = m[x]
      /\ m1[T0] = m[a]
  BY <1>3, <1>4, WrittenAfter DEF m1, Source
<1> DEFINE e == W!Wrap(m1[T0] - m1[b])
           m2 == Written(m1, T0, e)
           z == W!Wrap(m2[T0] - m2[NEG1])
           m3 == Written(m2, T0, z)
<1>7. e = W!Wrap(m[a] - m[b])
  BY <1>3, <1>6
<1>8. Gets(c, i, p, m, Branches(e, p + 1, 2), m2)
  BY <1>1, <1>2, <1>3, <1>5, LeqOn
<1>9. m2[T0] = e /\ \A x \in Source(i) : m2[x] = m[x]
  <2> HIDE DEF e
  <2> QED BY <1>3, <1>5, <1>6, WrittenAfter DEF Source
<1>10. z = W!Wrap(e - (W!Modulus - 1)) /\ m[a] \in W!Cell /\ m[b] \in W!Cell
  BY <1>3, <1>9, PoolValues, GoodTyped
<1>11. Alike(i, m, m2, Temps) /\ Alike(i, m, m3, Temps)
  <2> HIDE DEF e, z, m2
  <2>1. \A x \in Source(i) : m3[x] = m[x]
    BY <1>3, <1>8, <1>9, WrittenAfter DEF Source
  <2> QED BY <1>9, <2>1 DEF Alike, Source
<1> HIDE DEF e, z, m2, m3
<1>12. CASE e = 0 \/ e >= W!SignBit
  <2>1. Gets(c, i, p, m, p + 3, m2)
    BY <1>2, <1>8, <1>12 DEF Branches, To, HALT
  <2>2. Gets(c, i, p, m, Branches(z, p + 3, 2), m3)
    BY <1>1, <1>2, <1>3, <2>1, LeqOn DEF z, m3
  <2>3. CASE m[a] = m[b]
    <3>1. Gets(c, i, p, m, p + 4, m3)
      BY <1>2, <1>7, <1>10, <2>2, <2>3, WordEqual DEF Branches
    <3>2. Gets(c, i, p, m, To(p + 4, Rel(L, 4)), m3)
      BY <1>1, <3>1, JumpOn
    <3>3. To(p + 4, Rel(L, 4)) = To(p, L)
      BY <1>2, RelTo
    <3> QED BY <1>11, <2>3, <3>2, <3>3
  <2>4. CASE m[a] # m[b]
    <3>1. Branches(z, p + 3, 2) = p + 5
      BY <1>2, <1>7, <1>10, <1>12, <2>4, WordEqual DEF Branches, To, HALT
    <3> QED BY <1>11, <2>2, <2>4, <3>1
  <2> QED BY <2>3, <2>4
<1>13. CASE ~(e = 0 \/ e >= W!SignBit)
  <2>1. Gets(c, i, p, m, p + 2, m2)
    BY <1>2, <1>8, <1>13 DEF Branches
  <2>2. m[a] # m[b]
    BY <1>7, <1>10, <1>13, WordEqual
  <2>3. Gets(c, i, p, m, To(p + 2, 3), m2)
    BY <1>1, <2>1, JumpOn
  <2>4. To(p + 2, 3) = p + 5
    BY <1>2 DEF To, HALT
  <2> QED BY <1>11, <2>2, <2>3, <2>4
<1> QED BY <1>12, <1>13


LEMMA RunsUnequal ==
  ASSUME NEW c, NEW i, NEW p, NEW m, Good(i, m), NEW a \in NamesOf(i), NEW b \in Source(i),
         NEW L \in Int,
         Holds(c, p, ne32(a, b, L))
  PROVE  \E n : /\ Gets(c, i, p, m, IF m[a] # m[b] THEN To(p, L) ELSE p + 4, n)
                /\ Alike(i, m, n, Temps)
<1> DEFINE
     m1 == Written(m, T0, m[a])
<1>1. /\ Holds(c, p, mov32(a, T0))
      /\ Holds(c, p + 1, leq32(b, T0, 2))
      /\ Holds(c, p + 2, jump32(Rel(L, 2)))
      /\ Holds(c, p + 3, leq32(NEG1, T0, Rel(L, 3)))
  BY Row4, EmittersAreSingle DEF ne32, sle0_32
<1>2. p \in Nat
      /\ (p + 1) + 1 = p + 2 /\ (p + 2) + 1 = p + 3 /\ (p + 3) + 1 = p + 4
  <2>1. p \in Nat
    BY <1>1, HoldsInsn DEF mov32, Insn
  <2> QED BY <2>1
<1>3. /\ a \in NamesOf(i) /\ b \in NamesOf(i) /\ Temps = {T0, T1, T2}
      /\ {T0, T1, T2} \subseteq Writable(i) /\ {T0, T1, T2} \subseteq NamesOf(i)
      /\ T0 # T1 /\ T0 # T2 /\ T1 # T2
      /\ {Z, ONE, SGN, NEG1} \subseteq Source(i) /\ {Z, ONE, SGN, NEG1} \subseteq NamesOf(i)
  BY ScratchAre, ConstantsAre DEF Writable, Source, Temps
<1> HIDE DEF m1
<1>4. Gets(c, i, p, m, p, m)
  BY GetsItself
<1>5. Gets(c, i, p, m, p + 1, m1)
  BY <1>1, <1>2, <1>3, <1>4, MoveOn DEF m1
<1>6. /\ \A x \in Source(i) : m1[x] = m[x]
      /\ m1[T0] = m[a]
  BY <1>3, <1>4, WrittenAfter DEF m1, Source
<1> DEFINE e == W!Wrap(m1[T0] - m1[b])
           m2 == Written(m1, T0, e)
           z == W!Wrap(m2[T0] - m2[NEG1])
           m3 == Written(m2, T0, z)
<1>7. e = W!Wrap(m[a] - m[b])
  BY <1>3, <1>6
<1>8. Gets(c, i, p, m, Branches(e, p + 1, 2), m2)
  BY <1>1, <1>2, <1>3, <1>5, LeqOn
<1>9. m2[T0] = e /\ \A x \in Source(i) : m2[x] = m[x]
  <2> HIDE DEF e
  <2> QED BY <1>3, <1>5, <1>6, WrittenAfter DEF Source
<1>10. z = W!Wrap(e - (W!Modulus - 1)) /\ m[a] \in W!Cell /\ m[b] \in W!Cell
  BY <1>3, <1>9, PoolValues, GoodTyped
<1>11. Alike(i, m, m2, Temps) /\ Alike(i, m, m3, Temps)
  <2> HIDE DEF e, z, m2
  <2>1. \A x \in Source(i) : m3[x] = m[x]
    BY <1>3, <1>8, <1>9, WrittenAfter DEF Source
  <2> QED BY <1>9, <2>1 DEF Alike, Source
<1> HIDE DEF e, z, m2, m3
<1>12. CASE e = 0 \/ e >= W!SignBit
  <2>1. Gets(c, i, p, m, p + 3, m2)
    BY <1>2, <1>8, <1>12 DEF Branches, To, HALT
  <2>2. Gets(c, i, p, m, Branches(z, p + 3, Rel(L, 3)), m3)
    BY <1>1, <1>2, <1>3, <2>1, LeqOn DEF z, m3
  <2>3. CASE m[a] = m[b]
    <3>1. Gets(c, i, p, m, p + 4, m3)
      BY <1>2, <1>7, <1>10, <2>2, <2>3, WordEqual DEF Branches
    <3> QED BY <1>11, <2>3, <3>1
  <2>4. CASE m[a] # m[b]
    <3>1. Branches(z, p + 3, Rel(L, 3)) = To(p, L)
      BY <1>2, <1>7, <1>10, <1>12, <2>4, WordEqual, RelTo DEF Branches
    <3> QED BY <1>11, <2>2, <2>4, <3>1
  <2> QED BY <2>3, <2>4
<1>13. CASE ~(e = 0 \/ e >= W!SignBit)
  <2>1. Gets(c, i, p, m, p + 2, m2)
    BY <1>2, <1>8, <1>13 DEF Branches
  <2>2. m[a] # m[b]
    BY <1>7, <1>10, <1>13, WordEqual
  <2>3. Gets(c, i, p, m, To(p + 2, Rel(L, 2)), m2)
    BY <1>1, <2>1, JumpOn
  <2>4. To(p + 2, Rel(L, 2)) = To(p, L)
    BY <1>2, RelTo
  <2> QED BY <1>11, <2>2, <2>3, <2>4
<1> QED BY <1>12, <1>13

LEMMA RunsFlip ==
  ASSUME NEW c, NEW i, NEW p, NEW m, Good(i, m), NEW a \in Source(i),
         NEW d \in Writable(i) \cap Source(i),
         Holds(c, p, signflip32(a, d))
  PROVE  \E n : /\ Gets(c, i, p, m, p + 2, n) /\ Alike(i, m, n, Plus(Temps, d))
                /\ n[d] = W!Wrap(m[a] - W!SignBit)
<1> DEFINE
     m1 == Written(m, d, m[a])
     m2 == Written(m1, d, W!Wrap(m1[d] - m1[SGN]))
<1>1. /\ Holds(c, p, mov32(a, d))
      /\ Holds(c, p + 1, subnb32(SGN, d))
  BY Row2, EmittersAreSingle DEF signflip32
<1>2. p \in Nat
      /\ (p + 1) + 1 = p + 2
  <2>1. p \in Nat
    BY <1>1, HoldsInsn DEF mov32, Insn
  <2> QED BY <2>1
<1>3. /\ a \in NamesOf(i) /\ d \in NamesOf(i) /\ d \in Writable(i) /\ d \notin Temps /\ Temps = {T0, T1, T2}
      /\ SGN \in Source(i) /\ SGN \in NamesOf(i) /\ SGN # d
  BY ScratchAre, ConstantsAre DEF Writable, Source, Temps
<1> HIDE DEF m1, m2
<1>4. Gets(c, i, p, m, p, m)
  BY GetsItself
<1>5. Gets(c, i, p, m, p + 1, m1)
  BY <1>1, <1>2, <1>3, <1>4, MoveOn DEF m1
<1>6. m1[d] = m[a] /\ \A x \in NamesOf(i) : x # d => m1[x] = m[x]
  BY <1>3, <1>4, WrittenAfter DEF m1
<1>7. Gets(c, i, p, m, p + 2, m2)
  BY <1>1, <1>2, <1>3, <1>5, SubOn DEF m2
<1>8. Alike(i, m, m2, Plus(Temps, d)) /\ m2[d] = W!Wrap(m[a] - m[SGN])
  BY <1>3, <1>5, <1>6, WrittenAfter DEF m2, Alike, Plus
<1>9. m[SGN] = W!SignBit
  BY PoolValues
<1> QED BY <1>7, <1>8, <1>9

LEMMA FlipIsPiece == \A a, d : Piece(signflip32(a, d)) /\ Len(signflip32(a, d)) = 2
BY Row2, EmittersAreSingle DEF signflip32

LEMMA LtuIsPiece ==
  ASSUME NEW a, NEW b, NEW L, NEW Lge
  PROVE  Piece(ltu32(a, b, L, Lge)) /\ Len(ltu32(a, b, L, Lge)) = 11
<1> DEFINE c == ltu32(a, b, L, Lge)
<1>1. Piece(c) /\ Len(c) = 11 /\ (Holds(c, 1, c) => Holds(c, 1 + 9, leq32(Z, T2, Rel(Lge, 9))))
  BY Row11, EmittersAreSingle DEF ltu32
<1> QED BY <1>1

(* Signed comparison: with both signs flipped the order is the unsigned.   *)
SignedLess(a, b, L, Lge) == signflip32(a, SH1) \o signflip32(b, SH2) \o ltu32(SH1, SH2, L, Lge)

LEMMA SignedLessIsPiece ==
  ASSUME NEW a, NEW b, NEW L, NEW Lge
  PROVE  /\ Piece(SignedLess(a, b, L, Lge)) /\ Len(SignedLess(a, b, L, Lge)) = 15
         /\ \A c, p : Holds(c, p, SignedLess(a, b, L, Lge)) =>
              /\ Holds(c, p, signflip32(a, SH1)) /\ Holds(c, p + 2, signflip32(b, SH2))
              /\ Holds(c, p + 4, ltu32(SH1, SH2, L, Lge))
<1> DEFINE u == signflip32(a, SH1)
           v == signflip32(b, SH2)
           w == ltu32(SH1, SH2, L, Lge)
<1>1. Piece(u) /\ Len(u) = 2 /\ Piece(v) /\ Len(v) = 2 /\ Piece(w) /\ Len(w) = 11
  BY FlipIsPiece, LtuIsPiece
<1> HIDE DEF u, v, w
<1>2. Piece(u \o v) /\ Len(u \o v) = 4
  <2>1. Piece(u \o v) /\ Len(u \o v) = Len(u) + Len(v)
    BY <1>1, PieceConcat
  <2> QED BY <1>1, <2>1
<1>3. Piece((u \o v) \o w) /\ Len((u \o v) \o w) = 15
  <2> DEFINE x == u \o v
  <2> HIDE DEF x
  <2>1. Piece(x) /\ Len(x) = 4
    BY <1>2 DEF x
  <2>2. Piece(x \o w) /\ Len(x \o w) = Len(x) + Len(w)
    BY <1>1, <2>1, PieceConcat
  <2> QED BY <1>1, <2>1, <2>2 DEF x
<1>4. ASSUME NEW c, NEW p, Holds(c, p, (u \o v) \o w)
      PROVE  Holds(c, p, u) /\ Holds(c, p + 2, v) /\ Holds(c, p + 4, w)
  <2>1. Holds(c, p, u \o v) /\ Holds(c, p + Len(u \o v), w)
    BY <1>1, <1>2, <1>4, HoldsSplit
  <2>2. Holds(c, p, u) /\ Holds(c, p + Len(u), v)
    BY <1>1, <2>1, HoldsSplit
  <2> QED BY <1>1, <1>2, <2>1, <2>2
<1> QED BY <1>3, <1>4 DEF SignedLess, u, v, w

LEMMA RunsSignedLess ==
  ASSUME NEW c, NEW i, NEW p, NEW m, Good(i, m),
         NEW a \in Source(i) \ {SH1, SH2}, NEW b \in Source(i) \ {SH1, SH2},
         NEW L \in Int, NEW Lge \in Int, Holds(c, p, SignedLess(a, b, L, Lge))
  PROVE  \E n : /\ Gets(c, i, p, m, IF Signed(m[a]) < Signed(m[b]) THEN To(p + 4, L) ELSE To(p + 4, Lge), n)
                /\ Alike(i, m, n, Plus(Plus(Temps, SH1), SH2))
<1>1. Holds(c, p, signflip32(a, SH1)) /\ Holds(c, p + 2, signflip32(b, SH2))
      /\ Holds(c, p + 4, ltu32(SH1, SH2, L, Lge))
  BY SignedLessIsPiece
<1>2. /\ SH1 \in Writable(i) \cap Source(i) /\ SH2 \in Writable(i) \cap Source(i) /\ SH1 # SH2
      /\ a \in NamesOf(i) /\ b \in NamesOf(i) /\ a \notin Temps \cup {SH1, SH2} /\ b \notin Temps \cup {SH1, SH2}
      /\ SH1 \in NamesOf(i) \ (Temps \cup {SH2})
  BY ScratchAre DEF Source
<1>3. (p + 2) + 2 = p + 4
  <2>1. p \in Nat
    BY DEF Holds
  <2> QED BY <2>1
<1>4. PICK n : /\ Gets(c, i, p, m, p + 2, n) /\ Alike(i, m, n, Plus(Temps, SH1))
               /\ n[SH1] = W!Wrap(m[a] - W!SignBit)
  <2>1. a \in Source(i) /\ SH1 \in Writable(i) \cap Source(i) /\ Holds(c, p, signflip32(a, SH1))
    BY <1>1, <1>2
  <2> QED BY <2>1, RunsFlip
<1>5. Good(i, n) /\ n[b] = m[b]
  BY <1>2, <1>4 DEF Gets, Alike, Plus
<1>6. PICK k : /\ Gets(c, i, p + 2, n, (p + 2) + 2, k) /\ Alike(i, n, k, Plus(Temps, SH2))
               /\ k[SH2] = W!Wrap(n[b] - W!SignBit)
  <2>1. b \in Source(i) /\ SH2 \in Writable(i) \cap Source(i) /\ Holds(c, p + 2, signflip32(b, SH2))
        /\ Good(i, n)
    BY <1>1, <1>2, <1>5
  <2> QED BY <2>1, RunsFlip
<1>7. Good(i, k) /\ k[SH1] = W!Wrap(m[a] - W!SignBit) /\ k[SH2] = W!Wrap(m[b] - W!SignBit)
  BY <1>2, <1>4, <1>5, <1>6 DEF Gets, Alike, Plus
<1>8. PICK l : /\ Gets(c, i, p + 4, k, IF k[SH1] < k[SH2] THEN To(p + 4, L) ELSE To(p + 4, Lge), l)
               /\ Alike(i, k, l, Temps)
  BY <1>1, <1>2, <1>7, RunsLess
<1>9. k[SH1] < k[SH2] <=> Signed(m[a]) < Signed(m[b])
  BY <1>2, <1>7, GoodTyped, WordFlip
<1>10. Gets(c, i, p, m, IF Signed(m[a]) < Signed(m[b]) THEN To(p + 4, L) ELSE To(p + 4, Lge), l)
  <2>1. Gets(c, i, p, m, p + 4, k)
    BY <1>3, <1>4, <1>6, GetsOn
  <2> QED BY <1>8, <1>9, <2>1, GetsOn
<1>11. Alike(i, m, l, Plus(Plus(Temps, SH1), SH2))
  BY <1>4, <1>6, <1>8 DEF Alike, Plus
<1> QED BY <1>10, <1>11

(* A comparison gives a register 1 or 0.                                   *)
LEMMA SetPiece ==
  ASSUME NEW less, NEW d, Piece(less)
  PROVE  /\ Piece(emit_set32(less, d)) /\ Len(emit_set32(less, d)) = Len(less) + 3
         /\ \A c, p : Holds(c, p, emit_set32(less, d)) =>
              /\ Holds(c, p, less) /\ Holds(c, p + Len(less), mov32(ONE, d))
              /\ Holds(c, p + Len(less) + 1, jump32(2)) /\ Holds(c, p + Len(less) + 2, mov32(Z, d))
<1> DEFINE u == less \o mov32(ONE, d)
           v == u \o jump32(2)
<1>1. Piece(u) /\ Len(u) = Len(less) + 1
      /\ \A c, p : Holds(c, p, u) => Holds(c, p, less) /\ Holds(c, p + Len(less), mov32(ONE, d))
  BY EmittersAreSingle, SplitLast
<1> HIDE DEF u
<1>2. Piece(v) /\ Len(v) = Len(u) + 1
      /\ \A c, p : Holds(c, p, v) => Holds(c, p, u) /\ Holds(c, p + Len(u), jump32(2))
  BY <1>1, EmittersAreSingle, SplitLast
<1> HIDE DEF v
<1>3. Piece(v \o mov32(Z, d)) /\ Len(v \o mov32(Z, d)) = Len(v) + 1
      /\ \A c, p : Holds(c, p, v \o mov32(Z, d)) => Holds(c, p, v) /\ Holds(c, p + Len(v), mov32(Z, d))
  BY <1>2, EmittersAreSingle, SplitLast
<1>4. v \o mov32(Z, d) = emit_set32(less, d)
  BY DEF u, v, emit_set32
<1>5. \A c, p : Holds(c, p, less) => /\ p + Len(u) = p + Len(less) + 1 /\ p + Len(v) = p + Len(less) + 2
  BY <1>1, <1>2 DEF Holds, Piece
<1>6. Len(v) + 1 = Len(less) + 3
  BY <1>1, <1>2 DEF Piece
<1> QED BY <1>1, <1>2, <1>3, <1>4, <1>5, <1>6

LEMMA RunsSetOne ==
  ASSUME NEW c, NEW i, NEW p, NEW m, NEW less, NEW d \in Writable(i) \cap Source(i),
         Piece(less), NEW s, s = emit_set32(less, d), Holds(c, p, s), NEW q, q = p + Len(less),
         NEW n, NEW D, Gets(c, i, p, m, q, n), Alike(i, m, n, D)
  PROVE  \E k : Gets(c, i, p, m, q + 3, k) /\ Alike(i, m, k, Plus(D, d)) /\ k[d] = 1
<1>1. Holds(c, q, mov32(ONE, d)) /\ Holds(c, q + 1, jump32(2))
  BY SetPiece
<1>2. q \in Nat /\ To(q + 1, 2) = q + 3
  <2>1. p \in Nat /\ Len(less) \in Nat
    BY DEF Holds, Piece
  <2> QED BY <2>1 DEF To, HALT
<1>3. d \in Writable(i) /\ d \in NamesOf(i) /\ ONE \in NamesOf(i) /\ n[ONE] = 1
  BY ConstantsAre, PoolValues DEF Source, Gets
<1>4. Gets(c, i, p, m, q + 1, Written(n, d, n[ONE]))
  BY <1>1, <1>3, MoveOn
<1>5. Gets(c, i, p, m, q + 3, Written(n, d, n[ONE]))
  BY <1>1, <1>2, <1>4, JumpOn
<1>6. Alike(i, m, Written(n, d, n[ONE]), Plus(D, d)) /\ Written(n, d, n[ONE])[d] = 1
  BY <1>3, WrittenAfter DEF Alike, Plus
<1> QED BY <1>5, <1>6

LEMMA RunsSetZero ==
  ASSUME NEW c, NEW i, NEW p, NEW m, NEW less, NEW d \in Writable(i) \cap Source(i),
         Piece(less), NEW s, s = emit_set32(less, d), Holds(c, p, s), NEW q, q = p + Len(less) + 2,
         NEW n, NEW D, Gets(c, i, p, m, q, n), Alike(i, m, n, D)
  PROVE  \E k : Gets(c, i, p, m, q + 1, k) /\ Alike(i, m, k, Plus(D, d)) /\ k[d] = 0
<1>1. Holds(c, q, mov32(Z, d))
  BY SetPiece
<1>3. d \in Writable(i) /\ d \in NamesOf(i) /\ Z \in NamesOf(i) /\ n[Z] = 0
  BY ConstantsAre, PoolValues DEF Source, Gets
<1>4. Gets(c, i, p, m, q + 1, Written(n, d, n[Z]))
  BY <1>1, <1>3, MoveOn
<1>5. Alike(i, m, Written(n, d, n[Z]), Plus(D, d)) /\ Written(n, d, n[Z])[d] = 0
  BY <1>3, WrittenAfter DEF Alike, Plus
<1> QED BY <1>4, <1>5

LEMMA RunsSLTU ==
  ASSUME NEW c, NEW i, NEW p, NEW m, Good(i, m), NEW a \in Source(i), NEW b \in Source(i),
         NEW d \in Writable(i) \cap Source(i), Holds(c, p, emit_alu32("SLTU", a, b, d))
  PROVE  \E n : /\ Gets(c, i, p, m, p + 14, n) /\ Alike(i, m, n, Plus(Temps, d))
                /\ n[d] = Alu("SLTU", m[a], m[b])
<1> DEFINE less == ltu32(a, b, 11, 13)
<1>1. Piece(less) /\ Len(less) = 11 /\ Holds(c, p, emit_set32(less, d))
  BY LtuIsPiece DEF emit_alu32
<1>2. Holds(c, p, less) /\ p \in Nat
  <2>1. Holds(c, p, less)
    BY <1>1, SetPiece
  <2> QED BY <2>1 DEF Holds
<1>3. PICK n : /\ Gets(c, i, p, m, IF m[a] < m[b] THEN To(p, 11) ELSE To(p, 13), n)
               /\ Alike(i, m, n, Temps)
  BY <1>2, RunsLess
<1> HIDE DEF less
<1> DEFINE v == Flag(m[a] < m[b])
           q == p + Len(less)
           s == emit_set32(less, d)
<1>4. v \in {0, 1} /\ v = Alu("SLTU", m[a], m[b])
  BY DEF Alu, Flag
<1> HIDE DEF v, q, s
<1>5. /\ q = To(p, 11) /\ q + 2 = To(p, 13) /\ q + 3 = p + 14 /\ (q + 2) + 1 = p + 14
      /\ q = p + Len(less) /\ q + 2 = p + Len(less) + 2 /\ s = emit_set32(less, d) /\ Holds(c, p, s)
  BY <1>1, <1>2 DEF To, HALT, q, s
<1>6. CASE v = 1
  <2>1. Gets(c, i, p, m, q, n)
    BY <1>3, <1>5, <1>6 DEF v, Flag
  <2>2. \E k : Gets(c, i, p, m, q + 3, k) /\ Alike(i, m, k, Plus(Temps, d)) /\ k[d] = 1
    <3>1. Piece(less) /\ s = emit_set32(less, d) /\ Holds(c, p, s) /\ Gets(c, i, p, m, q, n)
          /\ Alike(i, m, n, Temps)
      BY <1>1, <1>3, <1>5, <2>1
    <3>2. q = p + Len(less)
      BY <1>5, <2>1
    <3> QED BY <3>1, <3>2, RunsSetOne
  <2> QED BY <1>4, <1>5, <1>6, <2>2
<1>7. CASE v = 0
  <2> DEFINE r == q + 2
  <2>1. Gets(c, i, p, m, r, n) /\ r = p + Len(less) + 2
    BY <1>3, <1>5, <1>7 DEF v, Flag
  <2> HIDE DEF r
  <2>2. \E k : Gets(c, i, p, m, r + 1, k) /\ Alike(i, m, k, Plus(Temps, d)) /\ k[d] = 0
    <3>1. Piece(less) /\ s = emit_set32(less, d) /\ Holds(c, p, s) /\ Gets(c, i, p, m, r, n)
          /\ Alike(i, m, n, Temps)
      BY <1>1, <1>3, <1>5, <2>1
    <3>2. r = p + Len(less) + 2
      BY <1>5, <2>1
    <3> QED BY <3>1, <3>2, RunsSetZero
  <2>3. r + 1 = p + 14
    BY <1>5 DEF r
  <2> QED BY <1>4, <1>7, <2>2, <2>3
<1> QED BY <1>4, <1>6, <1>7

LEMMA RunsSLT ==
  ASSUME NEW c, NEW i, NEW p, NEW m, Good(i, m),
         NEW a \in Source(i) \ {SH1, SH2}, NEW b \in Source(i) \ {SH1, SH2},
         NEW d \in Writable(i) \cap Source(i), Holds(c, p, emit_alu32("SLT", a, b, d))
  PROVE  \E n : /\ Gets(c, i, p, m, p + 18, n) /\ Alike(i, m, n, Plus(Plus(Plus(Temps, SH1), SH2), d))
                /\ n[d] = Alu("SLT", m[a], m[b])
<1> DEFINE less == SignedLess(a, b, 11, 13)
<1>1. Piece(less) /\ Len(less) = 15 /\ Holds(c, p, emit_set32(less, d))
  BY SignedLessIsPiece DEF emit_alu32, SignedLess
<1>2. Holds(c, p, less) /\ p \in Nat
  <2>1. Holds(c, p, less)
    BY <1>1, SetPiece
  <2> QED BY <2>1 DEF Holds
<1>3. PICK n : /\ Gets(c, i, p, m, IF Signed(m[a]) < Signed(m[b]) THEN To(p + 4, 11) ELSE To(p + 4, 13), n)
               /\ Alike(i, m, n, Plus(Plus(Temps, SH1), SH2))
  BY <1>2, RunsSignedLess
<1> HIDE DEF less
<1> DEFINE v == Flag(Signed(m[a]) < Signed(m[b]))
           q == p + Len(less)
           s == emit_set32(less, d)
<1>4. v \in {0, 1} /\ v = Alu("SLT", m[a], m[b])
  BY DEF Alu, Flag
<1> HIDE DEF v, q, s
<1>5. /\ q = To(p + 4, 11) /\ q + 2 = To(p + 4, 13) /\ q + 3 = p + 18 /\ (q + 2) + 1 = p + 18
      /\ q = p + Len(less) /\ q + 2 = p + Len(less) + 2 /\ s = emit_set32(less, d) /\ Holds(c, p, s)
  BY <1>1, <1>2 DEF To, HALT, q, s
<1>6. CASE v = 1
  <2>1. Gets(c, i, p, m, q, n)
    BY <1>3, <1>5, <1>6 DEF v, Flag
  <2>2. \E k : Gets(c, i, p, m, q + 3, k) /\ Alike(i, m, k, Plus(Plus(Plus(Temps, SH1), SH2), d)) /\ k[d] = 1
    <3>1. Piece(less) /\ s = emit_set32(less, d) /\ Holds(c, p, s) /\ Gets(c, i, p, m, q, n)
          /\ Alike(i, m, n, Plus(Plus(Temps, SH1), SH2))
      BY <1>1, <1>3, <1>5, <2>1
    <3>2. q = p + Len(less)
      BY <1>5, <2>1
    <3> QED BY <3>1, <3>2, RunsSetOne
  <2> QED BY <1>4, <1>5, <1>6, <2>2
<1>7. CASE v = 0
  <2> DEFINE r == q + 2
  <2>1. Gets(c, i, p, m, r, n) /\ r = p + Len(less) + 2
    BY <1>3, <1>5, <1>7 DEF v, Flag
  <2> HIDE DEF r
  <2>2. \E k : Gets(c, i, p, m, r + 1, k) /\ Alike(i, m, k, Plus(Plus(Plus(Temps, SH1), SH2), d)) /\ k[d] = 0
    <3>1. Piece(less) /\ s = emit_set32(less, d) /\ Holds(c, p, s) /\ Gets(c, i, p, m, r, n)
          /\ Alike(i, m, n, Plus(Plus(Temps, SH1), SH2))
      BY <1>1, <1>3, <1>5, <2>1
    <3>2. r = p + Len(less) + 2
      BY <1>5, <2>1
    <3> QED BY <3>1, <3>2, RunsSetZero
  <2>3. r + 1 = p + 18
    BY <1>5 DEF r
  <2> QED BY <1>4, <1>7, <2>2, <2>3
<1> QED BY <1>4, <1>6, <1>7

------------------------------------------------------------------------------
(* The image the block starts in.                                          *)
LEMMA PowerGrows ==
  /\ \A n \in 0 .. Width : 2 ^ n \in 1 .. W!Modulus
  /\ Width < W!Modulus
<1>1. ASSUME NEW n \in 0 .. Width PROVE 2 ^ n \in 1 .. W!Modulus
  <2> DEFINE x == 2 ^ n
             y == 2 ^ (Width - n)
  <2>1. Width - n \in 0 .. Width /\ n + (Width - n) = Width /\ n \in Nat /\ Width - n \in Nat
    BY WidthAssumption
  <2>2. x \in Nat \ {0} /\ y \in Nat \ {0} /\ W!Modulus = x * y
    BY <2>1, PowerIs, PowerSum, WidthAssumption DEF W!Modulus
  <2> HIDE DEF x, y
  <2>3. \A u, v \in Nat \ {0} : u <= u * v
    BY Z3
  <2>4. x <= W!Modulus /\ W!Modulus \in Nat
    BY <2>2, <2>3, WordIs
  <2> QED BY <2>2, <2>4 DEF x
<1>2. Width < W!Modulus
  <2> DEFINE S == {n \in Nat : n <= Width => n < 2 ^ n}
  <2>1. 0 \in S
    BY PowerIs, WidthAssumption
  <2>2. ASSUME NEW n \in Nat, n \in S PROVE n + 1 \in S
    <3> SUFFICES ASSUME n + 1 <= Width PROVE n + 1 < 2 ^ (n + 1)
      OBVIOUS
    <3>1. n \in 0 .. Width /\ n < 2 ^ n
      BY <2>2, WidthAssumption
    <3>2. 2 ^ n \in Nat /\ 2 ^ (n + 1) = 2 * 2 ^ n
      BY <3>1, PowerIs, PowerAssumption
    <3> QED BY <3>1, <3>2
  <2> HIDE DEF S
  <2>3. Width \in S
    BY <2>1, <2>2, AllNaturals, WidthAssumption
  <2> QED BY <2>3, WidthAssumption DEF S, W!Modulus
<1> QED BY <1>1, <1>2

LEMMA MemoryIs ==
  /\ BYTE \in 1 .. Width /\ Byte \subseteq W!Cell
  /\ Window \in 1 .. W!Modulus /\ RamBase \in W!Cell
<1>1. BYTE \in 1 .. Width /\ BYTE \in 0 .. Width
  BY GuestAssumption, WidthAssumption
<1>2. 2 ^ BYTE \in 1 .. W!Modulus
  BY <1>1, PowerGrows
<1>3. Window \in 1 .. W!Modulus
  BY PowerGrows, GuestAssumption
<1>4. RamBase \in W!Cell
  BY <1>3, RamAssumption, WordIs DEF W!Cell
<1> HIDE DEF W!Modulus
<1>5. Byte \subseteq W!Cell
  BY <1>2, WordIs DEF W!Cell, Byte
<1> QED BY <1>1, <1>3, <1>4, <1>5

LEMMA PoolTyped ==
  ASSUME NEW i, Lowerable(i), NEW c \in Constants(i)
  PROVE  Pool(i)[c] \in W!Cell
<1>1. W!Cell = 0 .. W!Modulus - 1 /\ W!Modulus \in Nat /\ W!SignBit \in Nat
      /\ W!Modulus = 2 * W!SignBit /\ W!SignBit >= 16
  BY WordIs DEF W!Cell
<1>2. {0, 1, W!Modulus - 1, W!SignBit, Width - 1, 2 ^ BYTE - 1, Window - 1} \subseteq W!Cell
  <2>1. Width - 1 \in W!Cell
    BY <1>1, PowerGrows, WidthAssumption
  <2>2. 2 ^ BYTE - 1 \in W!Cell
    BY <1>1, PowerGrows, WidthAssumption, MemoryIs
  <2>3. Window - 1 \in W!Cell
    BY <1>1, MemoryIs
  <2> QED BY <1>1, <2>1, <2>2, <2>3
<1>3. RamBase \in W!Cell /\ i.imm \in W!Cell /\ i.count \in W!Cell /\ i.mcause \in W!Cell
      /\ W!Wrap(i.pc + 4) \in W!Cell /\ \A a \in i.known \cup {i.pc} : a \in W!Cell
  <2>1. i.pc \in W!Cell
    BY DEF Lowerable
  <2>2. i.pc + 4 \in Int
    BY <1>1, <2>1
  <2> QED BY <2>2, WrapTyped, MemoryIs DEF Lowerable
<1>4. \A b \in W!Lanes : 2 ^ b \in W!Cell
  BY PowerBits
<1>5. CASE \E b \in W!Lanes : c = MASK(b)
  BY <1>4, <1>5, PoolIs
<1>6. CASE \E a \in i.known \cup {i.pc} : c = ADDR(a)
  BY <1>3, <1>6, PoolIs
<1>7. CASE c \in {Z, NEG1, SGN, ONE, IMM(0), IMM(1), COUNT, MCAUSE}
  BY <1>2, <1>3, <1>7, PoolIs
<1>8. CASE c \in {M1F, MFF, WINMASK, RAMBC}
  <2>1. /\ Pool(i)[M1F] = Width - 1 /\ Pool(i)[MFF] = 2 ^ BYTE - 1
        /\ Pool(i)[WINMASK] = Window - 1 /\ Pool(i)[RAMBC] = RamBase
    BY DEF Pool, Constants, Z, NEG1, SGN, ONE, M1F, MFF, WINMASK, RAMBC, IMM, COUNT, MCAUSE
  <2> QED BY <1>2, <1>3, <1>8, <2>1
<1> QED BY <1>5, <1>6, <1>7, <1>8 DEF Constants

LEMMA GuestIs ==
  ASSUME NEW s \in GuestStates
  PROVE  /\ \A r \in Regs : Guest(s)[X(r)] = s.x[r] /\ s.x[r] \in W!Cell
         /\ \A k \in 0 .. Window - 1 : Guest(s)[RAM(k)] = s.ram[k] /\ s.ram[k] \in W!Cell
         /\ \A k \in CsrNames : Guest(s)[CSR(k)] = s.csr[k] /\ s.csr[k] \in W!Cell
<1>1. s.x \in [Regs -> W!Cell] /\ s.ram \in [0 .. Window - 1 -> Byte] /\ s.csr \in [CsrNames -> W!Cell]
  BY DEF GuestStates
<1>2. ASSUME NEW r \in Regs PROVE Guest(s)[X(r)] = s.x[r]
  BY DEF Guest, X, RegCells
<1>3. ASSUME NEW k \in 0 .. Window - 1 PROVE Guest(s)[RAM(k)] = s.ram[k]
  BY DEF Guest, RAM, RamCells
<1>4. ASSUME NEW k \in CsrNames PROVE Guest(s)[CSR(k)] = s.csr[k]
  BY DEF Guest, CSR, CsrCells
<1> QED BY <1>1, <1>2, <1>3, <1>4, MemoryIs

LEMMA ImageIs ==
  ASSUME NEW i, Lowerable(i), NEW s \in GuestStates
  PROVE  /\ Good(i, Image(i, s))
         /\ \A r \in Regs : Image(i, s)[X(r)] = s.x[r]
         /\ \A k \in 0 .. Window - 1 : Image(i, s)[RAM(k)] = s.ram[k]
         /\ \A k \in CsrNames : Image(i, s)[CSR(k)] = s.csr[k]
<1> DEFINE GuestCells == RegCells \cup RamCells \cup CsrCells
           m == Image(i, s)
<1>1. \A c \in Constants(i) : m[c] = Pool(i)[c]
  <2>1. \A c \in Constants(i) : c \in NamesOf(i)
    BY DEF NamesOf
  <2>2. \A c \in Constants(i) : c \notin Scratch \cup {Stray}
    BY DEF Constants, Scratch, Stray, T0, T1, T2, SH1, SH2, OPERAND, Z, NEG1, SGN, ONE, M1F, MFF, WINMASK, RAMBC, IMM, COUNT, MCAUSE, MASK, ADDR
  <2> TAKE c \in Constants(i)
  <2> QED BY <2>1, <2>2 DEF Image
<1>2. Garbage \in W!Cell
  BY WordIs DEF Garbage, W!Cell
<1>3. \A c \in GuestCells : c \notin Constants(i) /\ c \notin Scratch \cup {Stray} /\ Guest(s)[c] \in W!Cell
  <2>1. ASSUME NEW r \in Regs PROVE X(r) \notin Constants(i) /\ X(r) \notin Scratch \cup {Stray} /\ Guest(s)[X(r)] \in W!Cell
    <3>1. X(r) # Stray
      BY DEF X, Stray
    <3> QED BY <3>1, GuestCellsAre, GuestIs DEF Writable
  <2>2. ASSUME NEW k \in 0 .. Window - 1 PROVE RAM(k) \notin Constants(i) /\ RAM(k) \notin Scratch \cup {Stray} /\ Guest(s)[RAM(k)] \in W!Cell
    <3>1. RAM(k) # Stray
      BY DEF RAM, Stray
    <3> QED BY <3>1, GuestCellsAre, GuestIs DEF Writable
  <2>3. ASSUME NEW k \in CsrNames PROVE CSR(k) \notin Constants(i) /\ CSR(k) \notin Scratch \cup {Stray} /\ Guest(s)[CSR(k)] \in W!Cell
    <3>1. CSR(k) # Stray
      BY DEF CSR, Stray
    <3> QED BY <3>1, GuestCellsAre, GuestIs DEF Writable
  <2> QED BY <2>1, <2>2, <2>3 DEF RegCells, RamCells, CsrCells
<1>4. \A c \in GuestCells : m[c] = Guest(s)[c]
  BY <1>3 DEF Image, NamesOf
<1>5. m \in [NamesOf(i) -> W!Cell]
  <2>1. \A c \in NamesOf(i) : m[c] \in W!Cell
    <3> TAKE c \in NamesOf(i)
    <3>1. CASE c \in Constants(i)
      BY <1>1, <3>1, PoolTyped
    <3>2. CASE c \in GuestCells
      BY <1>3, <1>4, <3>2
    <3>3. CASE c \in Scratch \cup {Stray} /\ c \notin Constants(i)
      BY <1>2, <3>3 DEF Image
    <3> QED BY <3>1, <3>2, <3>3 DEF NamesOf
  <2> QED BY <2>1 DEF Image
<1>6. \A r \in Regs : X(r) \in GuestCells
  BY DEF RegCells
<1>7. \A k \in 0 .. Window - 1 : RAM(k) \in GuestCells
  BY DEF RamCells
<1>8. \A k \in CsrNames : CSR(k) \in GuestCells
  BY DEF CsrCells
<1> HIDE DEF m, GuestCells
<1> QED BY <1>1, <1>4, <1>5, <1>6, <1>7, <1>8, GuestIs DEF Good, m

------------------------------------------------------------------------------
(* What the cells show of the guest when the block c has ended at q.       *)
WhereIn(c, q) ==
  CASE q = HALT       -> Halted
    [] q > HALT       -> q - Native(0)
    [] q = Len(c) + 1 -> Following
    [] OTHER          -> Lost

Shown(c, n, q, o) == [x   |-> [r \in Regs |-> n[X(r)]],
                      ram |-> [k \in 0 .. Window - 1 |-> n[RAM(k)]],
                      csr |-> [k \in CsrNames |-> n[CSR(k)]],
                      out |-> o, at |-> WhereIn(c, q)]

Right(i, s, n, q, o) ==
  Shown(emit_one32(i), n, q, o) = Execute(i, s) /\ \A k \in Constants(i) : n[k] = Pool(i)[k]

(* The block of i, run from s, ends with what i means.                     *)
Means(i, s) ==
  LET c == emit_one32(i)
  IN  \E n, q, o : /\ Reaches(c, St(Image(i, s), 1, <<>>), St(n, q, o))
                   /\ q > Len(c) /\ Right(i, s, n, q, o)

Private(D) == /\ \A r \in Regs : X(r) \notin D
              /\ \A k \in 0 .. Window - 1 : RAM(k) \notin D
              /\ \A k \in CsrNames : CSR(k) \notin D

LEMMA ScratchIsPrivate ==
  Private(Temps) /\ Private(Plus(Temps, SH1)) /\ Private(Plus(Plus(Temps, SH1), SH2)) /\ Private({})
<1>1. \A r : X(r) \notin Plus(Plus(Temps, SH1), SH2) /\ RAM(r) \notin Plus(Plus(Temps, SH1), SH2)
             /\ CSR(r) \notin Plus(Plus(Temps, SH1), SH2)
  BY DEF Plus, Temps, T0, T1, T2, SH1, SH2, X, RAM, CSR
<1> QED BY <1>1 DEF Private, Plus, Temps

(* Nothing but scratch cells has changed.                                  *)
LEMMA MeansJump ==
  ASSUME NEW i, Lowerable(i), NEW s \in GuestStates, NEW c, c = emit_one32(i),
         NEW n, NEW q, Gets(c, i, 1, Image(i, s), q, n), q > Len(c),
         NEW D, Private(D), Alike(i, Image(i, s), n, D),
         Execute(i, s) = Goes(s, s.x, WhereIn(c, q))
  PROVE  Means(i, s)
<1>1. /\ \A r \in Regs : n[X(r)] = s.x[r]
      /\ \A k \in 0 .. Window - 1 : n[RAM(k)] = s.ram[k]
      /\ \A k \in CsrNames : n[CSR(k)] = s.csr[k]
  BY ImageIs, GuestCellsAre DEF Alike, Private, Source
<1>2. s.x \in [Regs -> W!Cell] /\ s.ram \in [0 .. Window - 1 -> Byte] /\ s.csr \in [CsrNames -> W!Cell]
  BY DEF GuestStates
<1>3. /\ [r \in Regs |-> n[X(r)]] = s.x
      /\ [k \in 0 .. Window - 1 |-> n[RAM(k)]] = s.ram
      /\ [k \in CsrNames |-> n[CSR(k)]] = s.csr
  BY <1>1, <1>2
<1>4. Shown(c, n, q, <<>>) = Execute(i, s)
  BY <1>3 DEF Shown, Goes
<1> QED BY <1>4 DEF Means, Right, Gets, Good

(* And a register, which is not 0.                                         *)
LEMMA MeansSet ==
  ASSUME NEW i, Lowerable(i), i.rd # 0, NEW s \in GuestStates, NEW c, c = emit_one32(i),
         NEW n, NEW q, Gets(c, i, 1, Image(i, s), q, n), q > Len(c),
         NEW D, Private(D), Alike(i, Image(i, s), n, Plus(D, X(i.rd))),
         Execute(i, s) = Goes(s, Set(s.x, i.rd, n[X(i.rd)]), WhereIn(c, q))
  PROVE  Means(i, s)
<1>1. /\ \A r \in Regs : r # i.rd => n[X(r)] = s.x[r]
      /\ \A k \in 0 .. Window - 1 : n[RAM(k)] = s.ram[k]
      /\ \A k \in CsrNames : n[CSR(k)] = s.csr[k]
  BY ImageIs, GuestCellsAre DEF Alike, Private, Source, Plus
<1>2. s.x \in [Regs -> W!Cell] /\ s.ram \in [0 .. Window - 1 -> Byte] /\ s.csr \in [CsrNames -> W!Cell]
      /\ i.rd \in Regs
  BY DEF GuestStates, Lowerable
<1>3. /\ [r \in Regs |-> n[X(r)]] = Set(s.x, i.rd, n[X(i.rd)])
      /\ [k \in 0 .. Window - 1 |-> n[RAM(k)]] = s.ram
      /\ [k \in CsrNames |-> n[CSR(k)]] = s.csr
  BY <1>1, <1>2 DEF Set
<1>4. Shown(c, n, q, <<>>) = Execute(i, s)
  BY <1>3 DEF Shown, Goes
<1> QED BY <1>4 DEF Means, Right, Gets, Good

(* Shorter than the positions that stand for native addresses.            *)
Short(c) == Len(c) \in Nat /\ Len(c) <= 9000

LEMMA WhereFollows ==
  ASSUME NEW c, NEW q, q = Len(c) + 1, Short(c)
  PROVE  WhereIn(c, q) = Following /\ q > Len(c)
<1> DEFINE l == Len(c)
<1>1. q = l + 1 /\ l \in Nat /\ l <= 9000
  BY DEF Short
<1> HIDE DEF l
<1>2. q # HALT /\ ~(q > HALT) /\ q > l
  BY <1>1 DEF HALT
<1> QED BY <1>1, <1>2 DEF WhereIn, l

LEMMA WhereGoes ==
  ASSUME NEW c, Short(c), NEW a \in Nat
  PROVE  WhereIn(c, Native(a)) = a /\ Native(a) > Len(c)
<1> DEFINE l == Len(c)
           q == Native(a)
<1>1. q \in Nat /\ q - Native(0) = a /\ q > HALT /\ q # HALT /\ q > 9001
  BY DEF HALT, Native
<1>2. l \in Nat /\ l <= 9000
  BY DEF Short
<1> HIDE DEF l, q
<1>3. q # l + 1 /\ q > l
  BY <1>1, <1>2
<1> QED BY <1>1, <1>3 DEF WhereIn, l, q

LEMMA WhereHalts ==
  ASSUME NEW c, Short(c)
  PROVE  WhereIn(c, HALT) = Halted /\ HALT > Len(c)
<1> DEFINE l == Len(c)
<1>1. l \in Nat /\ l <= 9000
  BY DEF Short
<1> HIDE DEF l
<1>2. HALT > l /\ HALT # l + 1 /\ ~(HALT > HALT)
  BY <1>1 DEF HALT
<1> QED BY <1>2 DEF WhereIn, l

LEMMA ToNative ==
  ASSUME NEW a \in Nat
  PROVE  Native(a) \in Int /\ \A p : To(p, Native(a)) = Native(a) /\ To(p, HALT) = HALT
BY DEF HALT, Native, To

------------------------------------------------------------------------------
(* The blocks, kind by kind.                                               *)
LEMMA EmptyIs == Piece(<<>>) /\ Len(<<>>) = 0
BY DEF Piece

LEMMA SingleIs ==
  ASSUME NEW c, Single(c)
  PROVE  Holds(c, 1, c) /\ Len(c) = 1 /\ Short(c)
BY DEF Single, Holds, Piece, Short

LEMMA MeansNothing ==
  ASSUME NEW i, Lowerable(i), NEW s \in GuestStates, emit_one32(i) = <<>>,
         Execute(i, s) = Goes(s, s.x, Following)
  PROVE  Means(i, s)
<1> DEFINE c == emit_one32(i)
<1>1. Gets(c, i, 1, Image(i, s), 1, Image(i, s))
  BY ImageIs, GetsItself
<1>2. 1 = Len(c) + 1 /\ Short(c)
  BY EmptyIs DEF Short
<1> HIDE DEF c
<1>3. WhereIn(c, 1) = Following /\ 1 > Len(c)
  BY <1>2, WhereFollows
<1>4. Alike(i, Image(i, s), Image(i, s), {}) /\ Private({})
  BY ScratchIsPrivate DEF Alike
<1>5. c = emit_one32(i)
  BY DEF c
<1> QED BY <1>1, <1>3, <1>4, <1>5, MeansJump

LEMMA MeansMove ==
  ASSUME NEW i, Lowerable(i), NEW s \in GuestStates, i.rd # 0,
         NEW a \in NamesOf(i), emit_one32(i) = mov32(a, X(i.rd)),
         Execute(i, s) = Goes(s, Set(s.x, i.rd, Image(i, s)[a]), Following)
  PROVE  Means(i, s)
<1> DEFINE c == emit_one32(i)
           m == Image(i, s)
           d == X(i.rd)
           n == Written(m, d, m[a])
<1>1. Holds(c, 1, mov32(a, d)) /\ Len(c) = 1 /\ Short(c)
  BY EmittersAreSingle, SingleIs
<1>2. Good(i, m) /\ d \in Writable(i) /\ d \in NamesOf(i)
  BY ImageIs, GuestCellsAre DEF Lowerable, Writable
<1>3. c = emit_one32(i)
  OBVIOUS
<1> HIDE DEF c, m, d, n
<1>4. Gets(c, i, 1, m, 1 + 1, n)
  BY <1>1, <1>2, MoveRuns DEF n
<1>5. Alike(i, m, n, Plus({}, d)) /\ n[d] = m[a]
  BY <1>2, WrittenIs DEF Alike, Plus, n
<1>6. WhereIn(c, 2) = Following /\ 2 > Len(c)
  <2>1. 2 = Len(c) + 1
    BY <1>1
  <2> QED BY <1>1, <2>1, WhereFollows
<1>7. Gets(c, i, 1, Image(i, s), 2, n) /\ Alike(i, Image(i, s), n, Plus({}, X(i.rd)))
      /\ Execute(i, s) = Goes(s, Set(s.x, i.rd, n[X(i.rd)]), WhereIn(c, 2))
  BY <1>4, <1>5, <1>6 DEF m, d
<1> QED BY <1>3, <1>6, <1>7, ScratchIsPrivate, MeansSet

LEMMA MeansConst ==
  ASSUME NEW i, Lowerable(i), i.kind = "const", NEW s \in GuestStates
  PROVE  Means(i, s)
<1>1. CASE i.rd = 0
  <2>1. emit_one32(i) = <<>> /\ Execute(i, s) = Goes(s, s.x, Following)
    BY <1>1 DEF emit_one32, Execute, Set
  <2> QED BY <2>1, MeansNothing
<1>2. CASE i.rd # 0
  <2>1. emit_one32(i) = mov32(IMM(0), X(i.rd)) /\ Execute(i, s) = Goes(s, Set(s.x, i.rd, i.imm), Following)
    BY <1>2 DEF emit_one32, Execute
  <2>2. IMM(0) \in NamesOf(i) /\ Image(i, s)[IMM(0)] = i.imm
    BY ConstantsAre, ImageIs, PoolValues DEF Source
  <2> QED BY <1>2, <2>1, <2>2, MeansMove
<1> QED BY <1>1, <1>2

LEMMA MeansMv ==
  ASSUME NEW i, Lowerable(i), i.kind = "mv", NEW s \in GuestStates
  PROVE  Means(i, s)
<1>1. i.rd # 0 /\ i.rs1 \in Regs
  BY DEF Lowerable
<1>2. emit_one32(i) = mov32(X(i.rs1), X(i.rd)) /\ Execute(i, s) = Goes(s, Set(s.x, i.rd, s.x[i.rs1]), Following)
  BY DEF emit_one32, Execute
<1>3. X(i.rs1) \in NamesOf(i) /\ Image(i, s)[X(i.rs1)] = s.x[i.rs1]
  BY <1>1, ImageIs, GuestCellsAre DEF Source
<1> QED BY <1>1, <1>2, <1>3, MeansMove

LEMMA MeansNop ==
  ASSUME NEW i, Lowerable(i), i.kind = "nop", NEW s \in GuestStates
  PROVE  Means(i, s)
<1>1. emit_one32(i) = <<>> /\ Execute(i, s) = Goes(s, s.x, Following)
  BY DEF emit_one32, Execute
<1> QED BY <1>1, MeansNothing

LEMMA MeansExit ==
  ASSUME NEW i, Lowerable(i), i.kind = "exit", NEW s \in GuestStates
  PROVE  Means(i, s)
<1> DEFINE c == emit_one32(i)
           m == Image(i, s)
<1>1. c = jump32(HALT) /\ Execute(i, s) = Goes(s, s.x, Halted)
  BY DEF emit_one32, Execute
<1>2. Holds(c, 1, jump32(HALT)) /\ Short(c)
  BY <1>1, EmittersAreSingle, SingleIs
<1>3. c = emit_one32(i)
  OBVIOUS
<1> HIDE DEF c
<1>4. WhereIn(c, HALT) = Halted /\ HALT > Len(c) /\ To(1, HALT) = HALT
  BY <1>2, WhereHalts, ToNative
<1>5. Gets(c, i, 1, m, HALT, m)
  BY <1>2, <1>4, ImageIs, JumpRuns
<1>6. Alike(i, m, m, {}) /\ Private({})
  BY ScratchIsPrivate DEF Alike
<1> QED BY <1>1, <1>3, <1>4, <1>5, <1>6, MeansJump

LEMMA MeansJal ==
  ASSUME NEW i, Lowerable(i), i.kind = "jal", NEW s \in GuestStates
  PROVE  Means(i, s)
<1> DEFINE c == emit_one32(i)
           m == Image(i, s)
           L == Native(i.target)
           d == X(i.rd)
<1>1. Execute(i, s) = Goes(s, Set(s.x, i.rd, W!Wrap(i.pc + 4)), i.target) /\ i.target \in Nat
  BY DEF Execute, Lowerable
<1>2. c = emit_one32(i) /\ Good(i, m) /\ Image(i, s) = m
  BY ImageIs
<1>3. \A p : To(p, L) = L
  BY <1>1, ToNative
<1>4. Short(c) => WhereIn(c, L) = i.target /\ L > Len(c)
  BY <1>1, WhereGoes
<1>5. CASE i.rd = 0
  <2>1. c = <<>> \o jump32(L)
    BY <1>5 DEF emit_one32
  <2>2. Len(c) = 1 /\ Holds(c, 1, c) /\ Piece(c)
    <3>1. Piece(c) /\ Len(c) = 0 + 1
      BY <2>1, EmptyIs, EmittersAreSingle, SplitLast
    <3> QED BY <3>1 DEF Holds, Piece
  <2>3. Holds(c, 1, jump32(L)) /\ Short(c)
    <3> DEFINE e == <<>>
               j == jump32(L)
    <3>1. Piece(e) /\ Len(e) = 0 /\ Single(j) /\ Holds(c, 1, e \o j)
      BY <2>1, <2>2, EmptyIs, EmittersAreSingle
    <3> HIDE DEF e, j, c
    <3>2. Holds(c, 1 + Len(e), j)
      BY <3>1, SplitLast
    <3>3. 1 + Len(e) = 1 /\ Short(c)
      BY <2>2, <3>1 DEF Short
    <3> QED BY <3>2, <3>3 DEF j
  <2> HIDE DEF c, m, L
  <2>4. Gets(c, i, 1, m, L, m)
    BY <1>2, <1>3, <2>3, JumpRuns
  <2>5. Alike(i, m, m, {}) /\ Private({})
    BY ScratchIsPrivate DEF Alike
  <2>6. Execute(i, s) = Goes(s, s.x, WhereIn(c, L))
    BY <1>1, <1>4, <1>5, <2>3 DEF Set
  <2> QED BY <1>2, <1>4, <2>3, <2>4, <2>5, <2>6, MeansJump
<1>6. CASE i.rd # 0
  <2>1. c = mov32(IMM(1), d) \o jump32(L)
    BY <1>6 DEF emit_one32
  <2>2. Piece(c) /\ Len(c) = 2 /\ Holds(c, 1, c)
    <3>1. Piece(c) /\ Len(c) = 1 + 1
      BY <2>1, EmittersAreSingle, SplitLast DEF Single
    <3> QED BY <3>1 DEF Holds, Piece
  <2>3. Holds(c, 1, mov32(IMM(1), d)) /\ Holds(c, 1 + 1, jump32(L)) /\ Short(c)
    BY <2>1, <2>2, EmittersAreSingle, SplitLast DEF Short, Single
  <2>4. d \in Writable(i) /\ d \in NamesOf(i) /\ IMM(1) \in NamesOf(i) /\ m[IMM(1)] = W!Wrap(i.pc + 4)
    BY <1>2, GuestCellsAre, ConstantsAre, PoolValues DEF Lowerable, Writable, Source
  <2> DEFINE n == Written(m, d, m[IMM(1)])
  <2> HIDE DEF c, m, L, n
  <2>5. Gets(c, i, 1, m, 1 + 1, n)
    BY <1>2, <2>3, <2>4, MoveRuns DEF n
  <2>6. Gets(c, i, 1, m, L, n)
    BY <1>3, <2>3, <2>5, JumpOn
  <2>7. Alike(i, m, n, Plus({}, d)) /\ n[d] = W!Wrap(i.pc + 4)
    BY <1>2, <2>4, WrittenIs DEF Alike, Plus, n
  <2>8. Execute(i, s) = Goes(s, Set(s.x, i.rd, n[X(i.rd)]), WhereIn(c, L))
    BY <1>1, <1>4, <2>3, <2>7
  <2> QED BY <1>2, <1>4, <1>6, <2>3, <2>6, <2>7, <2>8, ScratchIsPrivate, MeansSet
<1> QED BY <1>5, <1>6

------------------------------------------------------------------------------
(* Conditional branches.                                                   *)
LEMMA MeansBranch ==
  ASSUME NEW i, Lowerable(i), i.kind = "branch", NEW s \in GuestStates,
         NEW c, c = emit_one32(i), Short(c), NEW v, v = Taken(i.f, s.x[i.rs1], s.x[i.rs2]),
         NEW n, NEW q, Gets(c, i, 1, Image(i, s), q, n), NEW D, Private(D), Alike(i, Image(i, s), n, D),
         v => q = Native(i.target), ~v => q = Len(c) + 1
  PROVE  Means(i, s)
<1>1. Execute(i, s) = Goes(s, s.x, IF v THEN i.target ELSE Following) /\ i.target \in Nat
  BY DEF Execute, Lowerable
<1>2. CASE v
  <2>1. WhereIn(c, q) = i.target /\ q > Len(c)
    BY <1>1, <1>2, WhereGoes
  <2> QED BY <1>1, <1>2, <2>1, MeansJump
<1>3. CASE ~v
  <2>1. WhereIn(c, q) = Following /\ q > Len(c)
    BY <1>3, WhereFollows
  <2> QED BY <1>1, <1>3, <2>1, MeansJump
<1> QED BY <1>2, <1>3

LEMMA OperandsAre ==
  ASSUME NEW i, Lowerable(i), NEW s \in GuestStates
  PROVE  /\ Good(i, Image(i, s))
         /\ X(i.rs1) \in Source(i) \ {SH1, SH2} /\ X(i.rs2) \in Source(i) \ {SH1, SH2}
         /\ IMM(0) \in Source(i) \ {SH1, SH2}
         /\ X(i.rd) \in Writable(i) \cap Source(i)
         /\ Image(i, s)[X(i.rs1)] = s.x[i.rs1] /\ Image(i, s)[X(i.rs2)] = s.x[i.rs2]
         /\ Image(i, s)[IMM(0)] = i.imm
         /\ s.x[i.rs1] \in W!Cell /\ s.x[i.rs2] \in W!Cell /\ i.imm \in W!Cell
<1>1. i.rs1 \in Regs /\ i.rs2 \in Regs /\ i.rd \in Regs /\ i.imm \in W!Cell
  BY DEF Lowerable
<1>2. X(i.rs1) \notin Scratch /\ X(i.rs2) \notin Scratch /\ {SH1, SH2} \subseteq Scratch
  BY GuestCellsAre DEF Scratch
<1>3. IMM(0) \notin {SH1, SH2} /\ IMM(0) \in Source(i)
  BY ConstantsAre DEF IMM, SH1, SH2
<1>4. Good(i, Image(i, s)) /\ Image(i, s)[IMM(0)] = i.imm
  BY ImageIs, PoolValues
<1> QED BY <1>1, <1>2, <1>3, <1>4, ImageIs, GuestCellsAre, GuestIs

LEMMA WholeIs ==
  ASSUME NEW c, Piece(c)
  PROVE  Holds(c, 1, c)
BY DEF Piece, Holds


LEMMA MeansBEQ ==
  ASSUME NEW i, Lowerable(i), i.kind = "branch", i.f = "BEQ", NEW s \in GuestStates
  PROVE  Means(i, s)
<1> DEFINE a == X(i.rs1)
           b == X(i.rs2)
           m == Image(i, s)
           L == Native(i.target)
           c == eq32(a, b, L)
<1>1. c = emit_one32(i)
  BY DEF emit_one32, emit_branch32
<1>2. Piece(c) /\ Len(c) = 5
  BY Row5, EmittersAreSingle DEF eq32, sle0_32
<1>3. L \in Int /\ \A p : To(p, L) = L
  BY ToNative DEF Lowerable
<1> HIDE DEF L
<1>4. Holds(c, 1, eq32(a, b, L)) /\ Short(c)
  <2>1. Holds(c, 1, c)
    BY <1>2, WholeIs
  <2>2. Short(c)
    <3> HIDE DEF c
    <3> QED BY <1>2 DEF Short
  <2> QED BY <1>3, <2>1, <2>2
<1> HIDE DEF c, a, b, m
<1>5. Good(i, m) /\ a \in Source(i) \ {SH1, SH2} /\ b \in Source(i) \ {SH1, SH2}
      /\ m[a] = s.x[i.rs1] /\ m[b] = s.x[i.rs2] /\ m[a] \in W!Cell /\ m[b] \in W!Cell
  BY OperandsAre DEF m, a, b
<1> DEFINE less == m[a] = m[b]
           q == IF less THEN To(1, L) ELSE 1 + 5
<1>6. PICK n : Gets(c, i, 1, m, q, n) /\ Alike(i, m, n, Temps)
  <2>1. a \in NamesOf(i) /\ b \in Source(i)
    BY <1>5 DEF Source
  <2> QED BY <1>3, <1>4, <1>5, <2>1, RunsEqual
<1> DEFINE v == Taken(i.f, s.x[i.rs1], s.x[i.rs2])
<1>7. v <=> less
  BY <1>5 DEF Taken
<1>8. /\ v => q = L
      /\ ~v => q = Len(c) + 1
  BY <1>2, <1>3, <1>7 DEF To, HALT
<1> HIDE DEF v, q
<1>9. Gets(c, i, 1, Image(i, s), q, n) /\ Alike(i, Image(i, s), n, Temps) /\ L = Native(i.target)
  BY <1>6 DEF m, L
<1>10. v = Taken(i.f, s.x[i.rs1], s.x[i.rs2]) /\ (v => q = Native(i.target))
  BY <1>8, <1>9 DEF v
<1> QED BY <1>1, <1>4, <1>8, <1>9, <1>10, ScratchIsPrivate, MeansBranch


LEMMA MeansBNE ==
  ASSUME NEW i, Lowerable(i), i.kind = "branch", i.f = "BNE", NEW s \in GuestStates
  PROVE  Means(i, s)
<1> DEFINE a == X(i.rs1)
           b == X(i.rs2)
           m == Image(i, s)
           L == Native(i.target)
           c == ne32(a, b, L)
<1>1. c = emit_one32(i)
  BY DEF emit_one32, emit_branch32
<1>2. Piece(c) /\ Len(c) = 4
  BY Row4, EmittersAreSingle DEF ne32, sle0_32
<1>3. L \in Int /\ \A p : To(p, L) = L
  BY ToNative DEF Lowerable
<1> HIDE DEF L
<1>4. Holds(c, 1, ne32(a, b, L)) /\ Short(c)
  <2>1. Holds(c, 1, c)
    BY <1>2, WholeIs
  <2>2. Short(c)
    <3> HIDE DEF c
    <3> QED BY <1>2 DEF Short
  <2> QED BY <1>3, <2>1, <2>2
<1> HIDE DEF c, a, b, m
<1>5. Good(i, m) /\ a \in Source(i) \ {SH1, SH2} /\ b \in Source(i) \ {SH1, SH2}
      /\ m[a] = s.x[i.rs1] /\ m[b] = s.x[i.rs2] /\ m[a] \in W!Cell /\ m[b] \in W!Cell
  BY OperandsAre DEF m, a, b
<1> DEFINE less == m[a] # m[b]
           q == IF less THEN To(1, L) ELSE 1 + 4
<1>6. PICK n : Gets(c, i, 1, m, q, n) /\ Alike(i, m, n, Temps)
  <2>1. a \in NamesOf(i) /\ b \in Source(i)
    BY <1>5 DEF Source
  <2> QED BY <1>3, <1>4, <1>5, <2>1, RunsUnequal
<1> DEFINE v == Taken(i.f, s.x[i.rs1], s.x[i.rs2])
<1>7. v <=> less
  BY <1>5 DEF Taken
<1>8. /\ v => q = L
      /\ ~v => q = Len(c) + 1
  BY <1>2, <1>3, <1>7 DEF To, HALT
<1> HIDE DEF v, q
<1>9. Gets(c, i, 1, Image(i, s), q, n) /\ Alike(i, Image(i, s), n, Temps) /\ L = Native(i.target)
  BY <1>6 DEF m, L
<1>10. v = Taken(i.f, s.x[i.rs1], s.x[i.rs2]) /\ (v => q = Native(i.target))
  BY <1>8, <1>9 DEF v
<1> QED BY <1>1, <1>4, <1>8, <1>9, <1>10, ScratchIsPrivate, MeansBranch


LEMMA MeansBLTU ==
  ASSUME NEW i, Lowerable(i), i.kind = "branch", i.f = "BLTU", NEW s \in GuestStates
  PROVE  Means(i, s)
<1> DEFINE a == X(i.rs1)
           b == X(i.rs2)
           m == Image(i, s)
           L == Native(i.target)
           c == ltu32(a, b, L, 11)
<1>1. c = emit_one32(i)
  BY DEF emit_one32, emit_branch32
<1>2. Piece(c) /\ Len(c) = 11
  BY LtuIsPiece
<1>3. L \in Int /\ \A p : To(p, L) = L
  BY ToNative DEF Lowerable
<1> HIDE DEF L
<1>4. Holds(c, 1, ltu32(a, b, L, 11)) /\ Short(c)
  <2>1. Holds(c, 1, c)
    BY <1>2, WholeIs
  <2>2. Short(c)
    <3> HIDE DEF c
    <3> QED BY <1>2 DEF Short
  <2> QED BY <1>3, <2>1, <2>2
<1> HIDE DEF c, a, b, m
<1>5. Good(i, m) /\ a \in Source(i) \ {SH1, SH2} /\ b \in Source(i) \ {SH1, SH2}
      /\ m[a] = s.x[i.rs1] /\ m[b] = s.x[i.rs2] /\ m[a] \in W!Cell /\ m[b] \in W!Cell
  BY OperandsAre DEF m, a, b
<1> DEFINE less == m[a] < m[b]
           q == IF less THEN To(1, L) ELSE To(1, 11)
<1>6. PICK n : Gets(c, i, 1, m, q, n) /\ Alike(i, m, n, Temps)
  BY <1>3, <1>4, <1>5, RunsLess
<1> DEFINE v == Taken(i.f, s.x[i.rs1], s.x[i.rs2])
<1>7. v <=> less
  BY <1>5 DEF Taken
<1>8. /\ v => q = L
      /\ ~v => q = Len(c) + 1
  BY <1>2, <1>3, <1>7 DEF To, HALT
<1> HIDE DEF v, q
<1>9. Gets(c, i, 1, Image(i, s), q, n) /\ Alike(i, Image(i, s), n, Temps) /\ L = Native(i.target)
  BY <1>6 DEF m, L
<1>10. v = Taken(i.f, s.x[i.rs1], s.x[i.rs2]) /\ (v => q = Native(i.target))
  BY <1>8, <1>9 DEF v
<1> QED BY <1>1, <1>4, <1>8, <1>9, <1>10, ScratchIsPrivate, MeansBranch


LEMMA MeansBGEU ==
  ASSUME NEW i, Lowerable(i), i.kind = "branch", i.f = "BGEU", NEW s \in GuestStates
  PROVE  Means(i, s)
<1> DEFINE a == X(i.rs1)
           b == X(i.rs2)
           m == Image(i, s)
           L == Native(i.target)
           c == ltu32(a, b, 11, L)
<1>1. c = emit_one32(i)
  BY DEF emit_one32, emit_branch32
<1>2. Piece(c) /\ Len(c) = 11
  BY LtuIsPiece
<1>3. L \in Int /\ \A p : To(p, L) = L
  BY ToNative DEF Lowerable
<1> HIDE DEF L
<1>4. Holds(c, 1, ltu32(a, b, 11, L)) /\ Short(c)
  <2>1. Holds(c, 1, c)
    BY <1>2, WholeIs
  <2>2. Short(c)
    <3> HIDE DEF c
    <3> QED BY <1>2 DEF Short
  <2> QED BY <1>3, <2>1, <2>2
<1> HIDE DEF c, a, b, m
<1>5. Good(i, m) /\ a \in Source(i) \ {SH1, SH2} /\ b \in Source(i) \ {SH1, SH2}
      /\ m[a] = s.x[i.rs1] /\ m[b] = s.x[i.rs2] /\ m[a] \in W!Cell /\ m[b] \in W!Cell
  BY OperandsAre DEF m, a, b
<1> DEFINE less == m[a] < m[b]
           q == IF less THEN To(1, 11) ELSE To(1, L)
<1>6. PICK n : Gets(c, i, 1, m, q, n) /\ Alike(i, m, n, Temps)
  BY <1>3, <1>4, <1>5, RunsLess
<1> DEFINE v == Taken(i.f, s.x[i.rs1], s.x[i.rs2])
<1>7. v <=> ~less
  <2>1. m[a] \in Nat /\ m[b] \in Nat
    BY <1>5, WordIs DEF W!Cell
  <2> QED BY <1>5, <2>1 DEF Taken
<1>8. /\ v => q = L
      /\ ~v => q = Len(c) + 1
  BY <1>2, <1>3, <1>7 DEF To, HALT
<1> HIDE DEF v, q
<1>9. Gets(c, i, 1, Image(i, s), q, n) /\ Alike(i, Image(i, s), n, Temps) /\ L = Native(i.target)
  BY <1>6 DEF m, L
<1>10. v = Taken(i.f, s.x[i.rs1], s.x[i.rs2]) /\ (v => q = Native(i.target))
  BY <1>8, <1>9 DEF v
<1> QED BY <1>1, <1>4, <1>8, <1>9, <1>10, ScratchIsPrivate, MeansBranch


LEMMA MeansBLT ==
  ASSUME NEW i, Lowerable(i), i.kind = "branch", i.f = "BLT", NEW s \in GuestStates
  PROVE  Means(i, s)
<1> DEFINE a == X(i.rs1)
           b == X(i.rs2)
           m == Image(i, s)
           L == Native(i.target)
           c == SignedLess(a, b, Rel(L, 4), 11)
<1>1. c = emit_one32(i)
  <2>1. Rel(15, 4) = 11
    BY DEF Rel, HALT
  <2> QED BY <2>1 DEF emit_one32, emit_branch32, SignedLess
<1>2. Piece(c) /\ Len(c) = 15
  BY SignedLessIsPiece
<1>3. L \in Int /\ \A p : To(p, L) = L /\ Rel(L, 4) = L
  <2>1. i.target \in Nat
    BY DEF Lowerable
  <2>2. Rel(L, 4) = L
    BY <2>1 DEF Rel, HALT, Native
  <2> QED BY <2>1, <2>2, ToNative
<1> HIDE DEF L
<1>4. Holds(c, 1, SignedLess(a, b, L, 11)) /\ Short(c)
  <2>1. Holds(c, 1, c)
    BY <1>2, WholeIs
  <2>2. Short(c)
    <3> HIDE DEF c
    <3> QED BY <1>2 DEF Short
  <2> QED BY <1>3, <2>1, <2>2
<1> HIDE DEF c, a, b, m
<1>5. Good(i, m) /\ a \in Source(i) \ {SH1, SH2} /\ b \in Source(i) \ {SH1, SH2}
      /\ m[a] = s.x[i.rs1] /\ m[b] = s.x[i.rs2] /\ m[a] \in W!Cell /\ m[b] \in W!Cell
  BY OperandsAre DEF m, a, b
<1> DEFINE less == Signed(m[a]) < Signed(m[b])
           q == IF less THEN To(1 + 4, L) ELSE To(1 + 4, 11)
<1>6. PICK n : Gets(c, i, 1, m, q, n) /\ Alike(i, m, n, Plus(Plus(Temps, SH1), SH2))
  BY <1>3, <1>4, <1>5, RunsSignedLess
<1> DEFINE v == Taken(i.f, s.x[i.rs1], s.x[i.rs2])
<1>7. v <=> less
  BY <1>5 DEF Taken
<1>8. /\ v => q = L
      /\ ~v => q = Len(c) + 1
  BY <1>2, <1>3, <1>7 DEF To, HALT
<1> HIDE DEF v, q
<1>9. Gets(c, i, 1, Image(i, s), q, n) /\ Alike(i, Image(i, s), n, Plus(Plus(Temps, SH1), SH2)) /\ L = Native(i.target)
  BY <1>6 DEF m, L
<1>10. v = Taken(i.f, s.x[i.rs1], s.x[i.rs2]) /\ (v => q = Native(i.target))
  BY <1>8, <1>9 DEF v
<1> QED BY <1>1, <1>4, <1>8, <1>9, <1>10, ScratchIsPrivate, MeansBranch


LEMMA MeansBGE ==
  ASSUME NEW i, Lowerable(i), i.kind = "branch", i.f = "BGE", NEW s \in GuestStates
  PROVE  Means(i, s)
<1> DEFINE a == X(i.rs1)
           b == X(i.rs2)
           m == Image(i, s)
           L == Native(i.target)
           c == SignedLess(a, b, 11, Rel(L, 4))
<1>1. c = emit_one32(i)
  <2>1. Rel(15, 4) = 11
    BY DEF Rel, HALT
  <2> QED BY <2>1 DEF emit_one32, emit_branch32, SignedLess
<1>2. Piece(c) /\ Len(c) = 15
  BY SignedLessIsPiece
<1>3. L \in Int /\ \A p : To(p, L) = L /\ Rel(L, 4) = L
  <2>1. i.target \in Nat
    BY DEF Lowerable
  <2>2. Rel(L, 4) = L
    BY <2>1 DEF Rel, HALT, Native
  <2> QED BY <2>1, <2>2, ToNative
<1> HIDE DEF L
<1>4. Holds(c, 1, SignedLess(a, b, 11, L)) /\ Short(c)
  <2>1. Holds(c, 1, c)
    BY <1>2, WholeIs
  <2>2. Short(c)
    <3> HIDE DEF c
    <3> QED BY <1>2 DEF Short
  <2> QED BY <1>3, <2>1, <2>2
<1> HIDE DEF c, a, b, m
<1>5. Good(i, m) /\ a \in Source(i) \ {SH1, SH2} /\ b \in Source(i) \ {SH1, SH2}
      /\ m[a] = s.x[i.rs1] /\ m[b] = s.x[i.rs2] /\ m[a] \in W!Cell /\ m[b] \in W!Cell
  BY OperandsAre DEF m, a, b
<1> DEFINE less == Signed(m[a]) < Signed(m[b])
           q == IF less THEN To(1 + 4, 11) ELSE To(1 + 4, L)
<1>6. PICK n : Gets(c, i, 1, m, q, n) /\ Alike(i, m, n, Plus(Plus(Temps, SH1), SH2))
  BY <1>3, <1>4, <1>5, RunsSignedLess
<1> DEFINE v == Taken(i.f, s.x[i.rs1], s.x[i.rs2])
<1>7. v <=> ~less
  <2>1. Signed(m[a]) \in Int /\ Signed(m[b]) \in Int
    BY <1>5, WordIs DEF W!Cell, Signed
  <2> QED BY <1>5, <2>1 DEF Taken
<1>8. /\ v => q = L
      /\ ~v => q = Len(c) + 1
  BY <1>2, <1>3, <1>7 DEF To, HALT
<1> HIDE DEF v, q
<1>9. Gets(c, i, 1, Image(i, s), q, n) /\ Alike(i, Image(i, s), n, Plus(Plus(Temps, SH1), SH2)) /\ L = Native(i.target)
  BY <1>6 DEF m, L
<1>10. v = Taken(i.f, s.x[i.rs1], s.x[i.rs2]) /\ (v => q = Native(i.target))
  BY <1>8, <1>9 DEF v
<1> QED BY <1>1, <1>4, <1>8, <1>9, <1>10, ScratchIsPrivate, MeansBranch

------------------------------------------------------------------------------
(* Arithmetic and logic, on two registers or on one and an immediate.      *)
Rowed == {"ADD", "SUB", "AND", "OR", "XOR"}

AluLen(f) ==
  CASE f = "ADD" -> 5 [] f \in {"SUB", "AND", "OR"} -> 3 [] f = "XOR" -> 7
    [] f = "SLTU" -> 14 [] f = "SLT" -> 18

LEMMA AluIsPiece ==
  ASSUME NEW f \in Alus, NEW a, NEW b, NEW d
  PROVE  /\ Piece(emit_alu32(f, a, b, d)) /\ Len(emit_alu32(f, a, b, d)) = AluLen(f)
         /\ AluLen(f) \in 1 .. 18
<1>1. CASE f = "ADD"
  <2>1. Piece(emit_alu32("ADD", a, b, d)) /\ Len(emit_alu32("ADD", a, b, d)) = 5
    BY Row5, EmittersAreSingle DEF emit_alu32
  <2> QED BY <1>1, <2>1 DEF AluLen
<1>2. CASE f = "SUB"
  <2>1. Piece(emit_alu32("SUB", a, b, d)) /\ Len(emit_alu32("SUB", a, b, d)) = 3
    BY Row3, EmittersAreSingle DEF emit_alu32
  <2> QED BY <1>2, <2>1 DEF AluLen
<1>3. CASE f = "AND"
  <2>1. Piece(emit_alu32("AND", a, b, d)) /\ Len(emit_alu32("AND", a, b, d)) = 3
    BY Row3, EmittersAreSingle DEF emit_alu32
  <2> QED BY <1>3, <2>1 DEF AluLen
<1>4. CASE f = "OR"
  <2>1. Piece(emit_alu32("OR", a, b, d)) /\ Len(emit_alu32("OR", a, b, d)) = 3
    BY Row3, EmittersAreSingle DEF emit_alu32
  <2> QED BY <1>4, <2>1 DEF AluLen
<1>5. CASE f = "XOR"
  <2>1. Piece(emit_alu32("XOR", a, b, d)) /\ Len(emit_alu32("XOR", a, b, d)) = 7
    BY Row7, EmittersAreSingle DEF emit_alu32
  <2> QED BY <1>5, <2>1 DEF AluLen
<1>6. CASE f = "SLTU"
  <2> DEFINE less == ltu32(a, b, 11, 13)
  <2>1. Piece(less) /\ Len(less) = 11
    BY LtuIsPiece
  <2>2. emit_alu32("SLTU", a, b, d) = emit_set32(less, d)
    BY DEF emit_alu32
  <2> HIDE DEF less
  <2>3. Piece(emit_set32(less, d)) /\ Len(emit_set32(less, d)) = 14
    <3>1. Piece(emit_set32(less, d)) /\ Len(emit_set32(less, d)) = Len(less) + 3
      BY <2>1, SetPiece
    <3> QED BY <2>1, <3>1
  <2> QED BY <1>6, <2>2, <2>3 DEF AluLen
<1>7. CASE f = "SLT"
  <2> DEFINE less == SignedLess(a, b, 11, 13)
  <2>1. Piece(less) /\ Len(less) = 15
    BY SignedLessIsPiece
  <2>2. emit_alu32("SLT", a, b, d) = emit_set32(less, d)
    BY DEF emit_alu32, SignedLess
  <2> HIDE DEF less
  <2>3. Piece(emit_set32(less, d)) /\ Len(emit_set32(less, d)) = 18
    <3>1. Piece(emit_set32(less, d)) /\ Len(emit_set32(less, d)) = Len(less) + 3
      BY <2>1, SetPiece
    <3> QED BY <2>1, <3>1
  <2> QED BY <1>7, <2>2, <2>3 DEF AluLen
<1> QED BY <1>1, <1>2, <1>3, <1>4, <1>5, <1>6, <1>7 DEF Alus, Rowed

LEMMA RunsAlu ==
  ASSUME NEW f \in Alus, NEW c, NEW i, NEW p, NEW m, Good(i, m),
         NEW a \in Source(i) \ {SH1, SH2}, NEW b \in Source(i) \ {SH1, SH2},
         NEW d \in Writable(i) \cap Source(i), Holds(c, p, emit_alu32(f, a, b, d))
  PROVE  \E n, D : /\ Gets(c, i, p, m, p + AluLen(f), n) /\ Private(D)
                   /\ Alike(i, m, n, Plus(D, d)) /\ n[d] = Alu(f, m[a], m[b])
<1>1. CASE f = "ADD"
  <2>1. Holds(c, p, emit_alu32("ADD", a, b, d)) /\ AluLen(f) = 5
    BY <1>1 DEF AluLen
  <2>2. \E n : /\ Gets(c, i, p, m, p + 5, n) /\ Alike(i, m, n, Plus(Temps, d))
               /\ n[d] = Alu("ADD", m[a], m[b])
    BY <2>1, RunsADD
  <2> QED BY <1>1, <2>1, <2>2, ScratchIsPrivate
<1>2. CASE f = "SUB"
  <2>1. Holds(c, p, emit_alu32("SUB", a, b, d)) /\ AluLen(f) = 3
    BY <1>2 DEF AluLen
  <2>2. \E n : /\ Gets(c, i, p, m, p + 3, n) /\ Alike(i, m, n, Plus(Temps, d))
               /\ n[d] = Alu("SUB", m[a], m[b])
    BY <2>1, RunsSUB
  <2> QED BY <1>2, <2>1, <2>2, ScratchIsPrivate
<1>3. CASE f = "AND"
  <2>1. Holds(c, p, emit_alu32("AND", a, b, d)) /\ AluLen(f) = 3
    BY <1>3 DEF AluLen
  <2>2. \E n : /\ Gets(c, i, p, m, p + 3, n) /\ Alike(i, m, n, Plus(Temps, d))
               /\ n[d] = Alu("AND", m[a], m[b])
    BY <2>1, RunsAND
  <2> QED BY <1>3, <2>1, <2>2, ScratchIsPrivate
<1>4. CASE f = "OR"
  <2>1. Holds(c, p, emit_alu32("OR", a, b, d)) /\ AluLen(f) = 3
    BY <1>4 DEF AluLen
  <2>2. \E n : /\ Gets(c, i, p, m, p + 3, n) /\ Alike(i, m, n, Plus(Temps, d))
               /\ n[d] = Alu("OR", m[a], m[b])
    BY <2>1, RunsOR
  <2> QED BY <1>4, <2>1, <2>2, ScratchIsPrivate
<1>5. CASE f = "XOR"
  <2>1. Holds(c, p, emit_alu32("XOR", a, b, d)) /\ AluLen(f) = 7
    BY <1>5 DEF AluLen
  <2>2. \E n : /\ Gets(c, i, p, m, p + 7, n) /\ Alike(i, m, n, Plus(Temps, d))
               /\ n[d] = Alu("XOR", m[a], m[b])
    BY <2>1, RunsXOR
  <2> QED BY <1>5, <2>1, <2>2, ScratchIsPrivate
<1>6. CASE f = "SLTU"
  <2>1. Holds(c, p, emit_alu32("SLTU", a, b, d)) /\ AluLen(f) = 14
    BY <1>6 DEF AluLen
  <2>2. \E n : /\ Gets(c, i, p, m, p + 14, n) /\ Alike(i, m, n, Plus(Temps, d))
               /\ n[d] = Alu("SLTU", m[a], m[b])
    BY <2>1, RunsSLTU
  <2> QED BY <1>6, <2>1, <2>2, ScratchIsPrivate
<1>7. CASE f = "SLT"
  <2>1. Holds(c, p, emit_alu32("SLT", a, b, d)) /\ AluLen(f) = 18
    BY <1>7 DEF AluLen
  <2>2. \E n : /\ Gets(c, i, p, m, p + 18, n) /\ Alike(i, m, n, Plus(Plus(Plus(Temps, SH1), SH2), d))
               /\ n[d] = Alu("SLT", m[a], m[b])
    BY <2>1, RunsSLT
  <2> QED BY <1>7, <2>1, <2>2, ScratchIsPrivate
<1> QED BY <1>1, <1>2, <1>3, <1>4, <1>5, <1>6, <1>7 DEF Alus, Rowed

LEMMA MeansAlu ==
  ASSUME NEW i, Lowerable(i), NEW s \in GuestStates, i.rd # 0, i.f \in Alus,
         NEW b \in Source(i) \ {SH1, SH2},
         emit_one32(i) = emit_alu32(i.f, X(i.rs1), b, X(i.rd)),
         Execute(i, s) = Goes(s, Set(s.x, i.rd, Alu(i.f, s.x[i.rs1], Image(i, s)[b])), Following)
  PROVE  Means(i, s)
<1> DEFINE a == X(i.rs1)
           m == Image(i, s)
           d == X(i.rd)
           c == emit_alu32(i.f, a, b, d)
           l == AluLen(i.f)
           q == 1 + l
<1>1. Piece(c) /\ Len(c) = l /\ l \in 1 .. 18 /\ c = emit_one32(i)
  BY AluIsPiece
<1>2. Holds(c, 1, emit_alu32(i.f, a, b, d)) /\ c = emit_one32(i)
  BY <1>1, WholeIs
<1>3. Good(i, m) /\ a \in Source(i) \ {SH1, SH2} /\ d \in Writable(i) \cap Source(i) /\ m[a] = s.x[i.rs1]
  BY OperandsAre
<1> HIDE DEF a, m, d, c
<1>4. PICK n, D : /\ Gets(c, i, 1, m, 1 + l, n) /\ Private(D)
                  /\ Alike(i, m, n, Plus(D, d)) /\ n[d] = Alu(i.f, m[a], m[b])
  BY <1>2, <1>3, RunsAlu
<1> HIDE DEF l
<1>5. Short(c)
  BY <1>1 DEF Short
<1>6. q = Len(c) + 1
  BY <1>1
<1> HIDE DEF q
<1>7. WhereIn(c, q) = Following /\ q > Len(c)
  BY <1>5, <1>6, WhereFollows
<1>8. Gets(c, i, 1, Image(i, s), q, n) /\ Alike(i, Image(i, s), n, Plus(D, X(i.rd)))
  BY <1>4 DEF m, d, q
<1>9. Execute(i, s) = Goes(s, Set(s.x, i.rd, n[X(i.rd)]), WhereIn(c, q))
  BY <1>3, <1>4, <1>7 DEF m, d
<1> QED BY <1>2, <1>4, <1>7, <1>8, <1>9, MeansSet

LEMMA MeansOp ==
  ASSUME NEW i, Lowerable(i), i.kind = "op", i.f \in Alus, NEW s \in GuestStates
  PROVE  Means(i, s)
<1>1. CASE i.rd = 0
  <2>1. emit_one32(i) = <<>> /\ Execute(i, s) = Goes(s, s.x, Following)
    BY <1>1 DEF emit_one32, Execute, Set
  <2> QED BY <2>1, MeansNothing
<1>2. CASE i.rd # 0
  <2>1. emit_one32(i) = emit_alu32(i.f, X(i.rs1), X(i.rs2), X(i.rd))
    BY <1>2 DEF emit_one32
  <2>2. Execute(i, s) = Goes(s, Set(s.x, i.rd, Alu(i.f, s.x[i.rs1], s.x[i.rs2])), Following)
    BY DEF Execute
  <2>3. X(i.rs2) \in Source(i) \ {SH1, SH2} /\ Image(i, s)[X(i.rs2)] = s.x[i.rs2]
    BY OperandsAre
  <2> QED BY <1>2, <2>1, <2>2, <2>3, MeansAlu
<1> QED BY <1>1, <1>2

LEMMA MeansOpImm ==
  ASSUME NEW i, Lowerable(i), i.kind = "opimm", i.f \in Alus, NEW s \in GuestStates
  PROVE  Means(i, s)
<1>1. CASE i.rd = 0
  <2>1. emit_one32(i) = <<>> /\ Execute(i, s) = Goes(s, s.x, Following)
    BY <1>1 DEF emit_one32, Execute, Set
  <2> QED BY <2>1, MeansNothing
<1>2. CASE i.rd # 0
  <2>1. emit_one32(i) = emit_alu32(i.f, X(i.rs1), IMM(0), X(i.rd))
    <3>1. i.f \notin Shifts
      BY DEF Shifts, Alus, Rowed
    <3> QED BY <1>2, <3>1 DEF emit_one32
  <2>2. Execute(i, s) = Goes(s, Set(s.x, i.rd, Alu(i.f, s.x[i.rs1], i.imm)), Following)
    BY DEF Execute
  <2>3. IMM(0) \in Source(i) \ {SH1, SH2} /\ Image(i, s)[IMM(0)] = i.imm
    BY OperandsAre
  <2> QED BY <1>2, <2>1, <2>2, <2>3, MeansAlu
<1> QED BY <1>1, <1>2

------------------------------------------------------------------------------
(* The guest state that cells hold.                                        *)
Low == {T1, T2}

Has(i, m, s) ==
  /\ s \in GuestStates /\ Good(i, m)
  /\ \A r \in Regs : m[X(r)] = s.x[r]
  /\ \A k \in 0 .. Window - 1 : m[RAM(k)] = s.ram[k]
  /\ \A k \in CsrNames : m[CSR(k)] = s.csr[k]

CsrSet(s, k, v) == [s EXCEPT !.csr = [s.csr EXCEPT ![k] = v]]
RegSet(s, r, v) == [s EXCEPT !.x = [s.x EXCEPT ![r] = v]]

LEMMA LowIsPrivate == Private(Low)
<1>1. \A r : X(r) \notin Low /\ RAM(r) \notin Low /\ CSR(r) \notin Low
  BY DEF Low, T1, T2, X, RAM, CSR
<1> QED BY <1>1 DEF Private

LEMMA HasImage ==
  ASSUME NEW i, Lowerable(i), NEW s \in GuestStates
  PROVE  Has(i, Image(i, s), s)
BY ImageIs DEF Has

LEMMA HasStill ==
  ASSUME NEW i, NEW m, NEW s, Has(i, m, s), NEW n, Good(i, n), NEW D, Private(D), Alike(i, m, n, D)
  PROVE  Has(i, n, s)
<1>1. /\ \A r \in Regs : n[X(r)] = m[X(r)]
      /\ \A k \in 0 .. Window - 1 : n[RAM(k)] = m[RAM(k)]
      /\ \A k \in CsrNames : n[CSR(k)] = m[CSR(k)]
  BY GuestCellsAre DEF Alike, Private, Source
<1> QED BY <1>1 DEF Has

LEMMA HasCsr ==
  ASSUME NEW i, NEW m, NEW s, Has(i, m, s), NEW n, Good(i, n), NEW D, Private(D),
         NEW k \in CsrNames, Alike(i, m, n, Plus(D, CSR(k)))
  PROVE  Has(i, n, CsrSet(s, k, n[CSR(k)]))
<1> DEFINE t == CsrSet(s, k, n[CSR(k)])
           v == n[CSR(k)]
<1>1. /\ \A r \in Regs : n[X(r)] = m[X(r)]
      /\ \A l \in 0 .. Window - 1 : n[RAM(l)] = m[RAM(l)]
      /\ \A l \in CsrNames : l # k => n[CSR(l)] = m[CSR(l)]
  BY GuestCellsAre DEF Alike, Private, Source, Plus
<1>2. v \in W!Cell
  BY GuestCellsAre, GoodTyped DEF Source
<1>3. s.csr \in [CsrNames -> W!Cell] /\ s.x \in {x \in [Regs -> W!Cell] : x[0] = 0}
      /\ s.ram \in [0 .. Window - 1 -> Byte] /\ s = [x |-> s.x, ram |-> s.ram, csr |-> s.csr]
  BY DEF Has, GuestStates
<1>4. t.x = s.x /\ t.ram = s.ram /\ t.csr = [s.csr EXCEPT ![k] = v] /\ t = [x |-> t.x, ram |-> t.ram, csr |-> t.csr]
  BY <1>3 DEF CsrSet
<1> HIDE DEF t, v
<1>5. t.csr \in [CsrNames -> W!Cell] /\ t.csr[k] = v /\ \A l \in CsrNames : l # k => t.csr[l] = s.csr[l]
  BY <1>2, <1>3, <1>4
<1>6. t \in GuestStates
  BY <1>3, <1>4, <1>5 DEF GuestStates
<1>7. \A l \in CsrNames : n[CSR(l)] = t.csr[l]
  BY <1>1, <1>5 DEF Has, v
<1> QED BY <1>1, <1>4, <1>6, <1>7 DEF Has, t, v

LEMMA HasReg ==
  ASSUME NEW i, NEW m, NEW s, Has(i, m, s), NEW n, Good(i, n), NEW D, Private(D),
         NEW r \in Regs, r # 0, Alike(i, m, n, Plus(D, X(r)))
  PROVE  Has(i, n, RegSet(s, r, n[X(r)]))
<1> DEFINE t == RegSet(s, r, n[X(r)])
           v == n[X(r)]
<1>1. /\ \A l \in Regs : l # r => n[X(l)] = m[X(l)]
      /\ \A l \in 0 .. Window - 1 : n[RAM(l)] = m[RAM(l)]
      /\ \A l \in CsrNames : n[CSR(l)] = m[CSR(l)]
  BY GuestCellsAre DEF Alike, Private, Source, Plus
<1>2. v \in W!Cell
  BY GuestCellsAre, GoodTyped DEF Source
<1>3. s.csr \in [CsrNames -> W!Cell] /\ s.x \in [Regs -> W!Cell] /\ s.x[0] = 0
      /\ s.ram \in [0 .. Window - 1 -> Byte] /\ s = [x |-> s.x, ram |-> s.ram, csr |-> s.csr]
  BY DEF Has, GuestStates
<1>4. t.csr = s.csr /\ t.ram = s.ram /\ t.x = [s.x EXCEPT ![r] = v] /\ t = [x |-> t.x, ram |-> t.ram, csr |-> t.csr]
  BY <1>3 DEF RegSet
<1> HIDE DEF t, v
<1>5. t.x \in [Regs -> W!Cell] /\ t.x[r] = v /\ t.x[0] = 0 /\ \A l \in Regs : l # r => t.x[l] = s.x[l]
  BY <1>2, <1>3, <1>4, GuestAssumption
<1>6. t \in GuestStates
  BY <1>3, <1>4, <1>5 DEF GuestStates
<1>7. \A l \in Regs : n[X(l)] = t.x[l]
  BY <1>1, <1>5 DEF Has, v
<1> QED BY <1>1, <1>4, <1>6, <1>7 DEF Has, t, v

(* A block that ends with the cells of the state its instruction means.    *)
LEMMA MeansHas ==
  ASSUME NEW i, NEW s, NEW c, c = emit_one32(i), NEW n, NEW q,
         Gets(c, i, 1, Image(i, s), q, n), q > Len(c), NEW t, Has(i, n, t),
         Execute(i, s) = Goes(t, t.x, WhereIn(c, q))
  PROVE  Means(i, s)
<1>1. t.x \in [Regs -> W!Cell] /\ t.ram \in [0 .. Window - 1 -> Byte] /\ t.csr \in [CsrNames -> W!Cell]
  BY DEF Has, GuestStates
<1>2. /\ [r \in Regs |-> n[X(r)]] = t.x
      /\ [k \in 0 .. Window - 1 |-> n[RAM(k)]] = t.ram
      /\ [k \in CsrNames |-> n[CSR(k)]] = t.csr
  BY <1>1 DEF Has
<1>3. Shown(c, n, q, <<>>) = Execute(i, s)
  BY <1>2 DEF Shown, Goes
<1> QED BY <1>3 DEF Means, Right, Gets, Good

------------------------------------------------------------------------------
(* Bits of a cell.                                                         *)
Raised(v, b)  == WithBit(v, b, TRUE)
Cleared(v, b) == WithBit(v, b, FALSE)

LEMMA BitSetIs ==
  ASSUME NEW v \in W!Cell, NEW b \in W!Lanes
  PROVE  /\ Raised(v, b) \in W!Cell
         /\ W!Bits(Raised(v, b)) = W!Bits(v) \cup {b}
<1> DEFINE B == W!Bits(v) \cup {b}
<1>1. B \in SUBSET W!Lanes
  BY CellOfBits
<1> HIDE DEF B
<1>2. W!CellOf[B] \in W!Cell /\ W!Bits(W!CellOf[B]) = B
  BY <1>1, CellOfIs
<1> QED BY <1>2 DEF Raised, WithBit, B

LEMMA BitClearIs ==
  ASSUME NEW v \in W!Cell, NEW b \in W!Lanes
  PROVE  /\ Cleared(v, b) \in W!Cell
         /\ W!Bits(Cleared(v, b)) = W!Bits(v) \ {b}
<1> DEFINE B == W!Bits(v) \ {b}
<1>1. B \in SUBSET W!Lanes
  BY CellOfBits
<1> HIDE DEF B
<1>2. W!CellOf[B] \in W!Cell /\ W!Bits(W!CellOf[B]) = B
  BY <1>1, CellOfIs
<1> QED BY <1>2 DEF Cleared, WithBit, B

LEMMA WithBitKeeps ==
  ASSUME NEW v \in W!Cell, NEW b \in W!Lanes
  PROVE  /\ b \in W!Bits(v) => Raised(v, b) = v
         /\ b \notin W!Bits(v) => Cleared(v, b) = v
<1> DEFINE B == W!Bits(v)
<1>1. b \in B => B \cup {b} = B
  OBVIOUS
<1>2. b \notin B => B \ {b} = B
  OBVIOUS
<1>3. b \in B => W!Bits(Raised(v, b)) = W!Bits(v)
  BY <1>1, BitSetIs
<1>4. b \notin B => W!Bits(Cleared(v, b)) = W!Bits(v)
  BY <1>2, BitClearIs
<1> QED BY <1>3, <1>4, BitSetIs, BitClearIs, SameBits

(* The bit of a cell by itself.                                            *)
LEMMA WordBit ==
  ASSUME NEW v \in W!Cell, NEW b \in W!Lanes
  PROVE  /\ 2 ^ b \in W!Cell /\ 2 ^ b > 0
         /\ b \in W!Bits(v) => W!Select(0, v, 2 ^ b) = 2 ^ b
         /\ b \notin W!Bits(v) => W!Select(0, v, 2 ^ b) = 0
<1> DEFINE x == W!Select(0, v, 2 ^ b)
<1>1. 2 ^ b \in W!Cell /\ W!Bits(2 ^ b) = {b} /\ W!Bits(0) = {} /\ 0 \in W!Cell
  BY PowerBits, NoBits
<1>2. x \in W!Cell /\ W!Bits(x) = W!Bits(v) \cap {b}
  BY <1>1, SelectBits, SelectTyped
<1> HIDE DEF x
<1>3. b \in W!Bits(v) => W!Bits(x) = W!Bits(2 ^ b)
  BY <1>1, <1>2
<1>4. b \notin W!Bits(v) => W!Bits(x) = W!Bits(0)
  BY <1>1, <1>2
<1>5. 2 ^ b > 0
  BY PowerIs, CellIs, WidthAssumption
<1> QED BY <1>1, <1>2, <1>3, <1>4, <1>5, SameBits DEF x

LEMMA WordClear ==
  ASSUME NEW v \in W!Cell, NEW b \in W!Lanes
  PROVE  W!Wrap(v - W!Select(0, v, 2 ^ b)) = Cleared(v, b)
<1>0. v \in 0 .. W!Modulus - 1 /\ W!Modulus \in Nat \ {0}
  BY WordIs DEF W!Cell
<1>1. CASE b \in W!Bits(v)
  <2>1. v - 2 ^ b \in W!Cell /\ W!Bits(v - 2 ^ b) = W!Bits(v) \ {b}
    BY <1>1, ClearBitIs
  <2>2. v - 2 ^ b = Cleared(v, b)
    BY <2>1, BitClearIs, SameBits
  <2>3. W!Wrap(v - 2 ^ b) = v - 2 ^ b
    <3> DEFINE w == v - 2 ^ b
    <3>1. w \in 0 .. W!Modulus - 1
      BY <2>1 DEF W!Cell
    <3> HIDE DEF w
    <3>2. W!Wrap(w) = w
      BY <1>0, <3>1 DEF W!Wrap
    <3> QED BY <3>2 DEF w
  <2> QED BY <1>1, <2>2, <2>3, WordBit
<1>2. CASE b \notin W!Bits(v)
  <2>1. W!Select(0, v, 2 ^ b) = 0
    BY <1>2, WordBit
  <2>2. W!Wrap(v - 0) = v
    BY <1>0 DEF W!Wrap
  <2> QED BY <1>2, <2>1, <2>2, WithBitKeeps
<1> QED BY <1>1, <1>2

LEMMA WordSet ==
  ASSUME NEW v \in W!Cell, NEW b \in W!Lanes, b \notin W!Bits(v)
  PROVE  Alu("ADD", v, 2 ^ b) = Raised(v, b)
<1>0. W!Modulus \in Nat \ {0}
  BY WordIs
<1>1. v + 2 ^ b \in W!Cell /\ W!Bits(v + 2 ^ b) = W!Bits(v) \cup {b}
  BY SetBitIs
<1>2. v + 2 ^ b = Raised(v, b)
  BY <1>1, BitSetIs, SameBits
<1>3. W!Wrap(v + 2 ^ b) = v + 2 ^ b
  <2> DEFINE w == v + 2 ^ b
  <2>1. w \in 0 .. W!Modulus - 1
    BY <1>1 DEF W!Cell
  <2> HIDE DEF w
  <2>2. W!Wrap(w) = w
    BY <1>0, <2>1 DEF W!Wrap
  <2> QED BY <2>2 DEF w
<1> QED BY <1>2, <1>3 DEF Alu

------------------------------------------------------------------------------
(* Bits of a cell in place.                                                *)
LEMMA LowAre ==
  ASSUME NEW i
  PROVE  /\ T1 \in Writable(i) /\ T2 \in Writable(i) /\ T1 \in NamesOf(i) /\ T2 \in NamesOf(i)
         /\ T1 # T2 /\ Low = {T1, T2} /\ Z \in NamesOf(i) /\ Z \notin Low
         /\ ONE \in NamesOf(i) /\ ONE \notin Low
         /\ \A b \in W!Lanes : MASK(b) \in NamesOf(i) /\ MASK(b) \notin Low
<1>1. Low \subseteq Temps
  BY DEF Low, Temps
<1> QED BY <1>1, ScratchAre, ConstantsAre DEF Writable, Source, Low

(* Adding a cell, by way of t.                                             *)
AddBy(d, a, t) == mov32(Z, t) \o subnb32(a, t) \o subnb32(t, d)

LEMMA AddByIs ==
  ASSUME NEW d, NEW a, NEW t
  PROVE  /\ Piece(AddBy(d, a, t)) /\ Len(AddBy(d, a, t)) = 3
         /\ \A c, p : Holds(c, p, AddBy(d, a, t)) =>
              /\ Holds(c, p, mov32(Z, t)) /\ Holds(c, p + 1, subnb32(a, t))
              /\ Holds(c, p + 2, subnb32(t, d))
BY Row3, EmittersAreSingle DEF AddBy

LEMMA AddcellIs ==
  ASSUME NEW d, NEW a
  PROVE  /\ Piece(addcell32(d, a)) /\ Len(addcell32(d, a)) = 3
         /\ addcell32(d, a) = AddBy(d, a, T2)
<1>1. addcell32(d, a) = AddBy(d, a, T2)
  BY DEF addcell32, AddBy
<1> QED BY <1>1, AddByIs

LEMMA ClearbitIs ==
  ASSUME NEW d, NEW b
  PROVE  /\ Piece(clearbit32(d, b)) /\ Len(clearbit32(d, b)) = 3
         /\ \A c, p : Holds(c, p, clearbit32(d, b)) =>
              /\ Holds(c, p, mov32(d, T1)) /\ Holds(c, p + 1, mux32op(Z, T1, MASK(b)))
              /\ Holds(c, p + 2, subnb32(T1, d))
BY Row3, EmittersAreSingle DEF clearbit32

LEMMA SetbitIs ==
  ASSUME NEW d, NEW b
  PROVE  /\ Piece(setbit32(d, b)) /\ Len(setbit32(d, b)) = 6
         /\ \A c, p : Holds(c, p, setbit32(d, b)) =>
              /\ Holds(c, p, clearbit32(d, b)) /\ Holds(c, p + 3, addcell32(d, MASK(b)))
<1> DEFINE u == clearbit32(d, b)
           v == addcell32(d, MASK(b))
<1>1. Piece(u) /\ Len(u) = 3 /\ Piece(v) /\ Len(v) = 3
  BY ClearbitIs, AddcellIs
<1> HIDE DEF u, v
<1>2. Piece(u \o v) /\ Len(u \o v) = Len(u) + Len(v)
  BY <1>1, PieceConcat
<1>3. \A c, p : Holds(c, p, u \o v) => Holds(c, p, u) /\ Holds(c, p + Len(u), v)
  BY <1>1, HoldsSplit
<1> QED BY <1>1, <1>2, <1>3 DEF setbit32, u, v

LEMMA RunsAddBy ==
  ASSUME NEW c, NEW i, NEW p, NEW m, Good(i, m), NEW t \in Low, NEW d \in Writable(i) \ {t}, NEW a \in NamesOf(i) \ {t},
         Holds(c, p, AddBy(d, a, t))
  PROVE  \E n : /\ Gets(c, i, p, m, p + 3, n) /\ Alike(i, m, n, Plus({t}, d))
                /\ n[d] = Alu("ADD", m[d], m[a])
<1> DEFINE m1 == Written(m, t, m[Z])
           m2 == Written(m1, t, W!Wrap(m1[t] - m1[a]))
           m3 == Written(m2, d, W!Wrap(m2[d] - m2[t]))
<1>1. /\ Holds(c, p, mov32(Z, t)) /\ Holds(c, p + 1, subnb32(a, t)) /\ Holds(c, p + 2, subnb32(t, d))
  BY AddByIs
<1>2. p \in Nat /\ (p + 1) + 1 = p + 2 /\ (p + 2) + 1 = p + 3
  <2>1. p \in Nat
    BY DEF Holds
  <2> QED BY <2>1
<1>3. /\ d \in Writable(i) /\ d \in NamesOf(i) /\ a \in NamesOf(i) /\ d # t /\ a # t
      /\ t \in Writable(i) /\ t \in NamesOf(i) /\ Z \in NamesOf(i) /\ Z # t
      /\ t \in Plus({t}, d) /\ d \in Plus({t}, d)
  BY LowAre DEF Writable, Plus, Low
<1> HIDE DEF m1, m2, m3
<1>4. Gets(c, i, p, m, p, m)
  BY GetsItself
<1>5. Gets(c, i, p, m, p + 1, m1)
  BY <1>1, <1>2, <1>3, <1>4, MoveOn DEF m1
<1>6. m1[t] = m[Z] /\ \A x \in NamesOf(i) : x # t => m1[x] = m[x]
  BY <1>3, <1>4, WrittenAfter DEF m1
<1>7. Gets(c, i, p, m, p + 2, m2)
  BY <1>1, <1>2, <1>3, <1>5, SubOn DEF m2
<1>8. m2[t] = W!Wrap(m[Z] - m[a]) /\ \A x \in NamesOf(i) : x # t => m2[x] = m[x]
  BY <1>3, <1>5, <1>6, WrittenAfter DEF m2
<1>9. Gets(c, i, p, m, p + 3, m3)
  BY <1>1, <1>2, <1>3, <1>7, SubOn DEF m3
<1>10. m3[d] = W!Wrap(m[d] - W!Wrap(m[Z] - m[a])) /\ Alike(i, m, m3, Plus({t}, d))
  BY <1>3, <1>7, <1>8, WrittenAfter DEF m3, Alike
<1>11. m[Z] = 0 /\ m[d] \in W!Cell /\ m[a] \in W!Cell
  BY <1>3, PoolValues, GoodTyped
<1> QED BY <1>9, <1>10, <1>11, WordAdd

LEMMA RunsSum ==
  ASSUME NEW c, NEW i, NEW p, NEW m, Good(i, m), NEW d \in Writable(i) \ {T2}, NEW a \in NamesOf(i) \ {T2},
         Holds(c, p, addcell32(d, a))
  PROVE  \E n : /\ Gets(c, i, p, m, p + 3, n) /\ Alike(i, m, n, Plus({T2}, d))
                /\ n[d] = Alu("ADD", m[d], m[a])
<1>1. T2 \in Low /\ Holds(c, p, AddBy(d, a, T2))
  BY AddcellIs DEF Low
<1> QED BY <1>1, RunsAddBy

LEMMA RunsAdd ==
  ASSUME NEW c, NEW i, NEW p, NEW m, Good(i, m), NEW d \in Writable(i) \ Low, NEW a \in NamesOf(i) \ Low,
         Holds(c, p, addcell32(d, a))
  PROVE  \E n : /\ Gets(c, i, p, m, p + 3, n) /\ Alike(i, m, n, Plus(Low, d))
                /\ n[d] = Alu("ADD", m[d], m[a])
<1>1. d \in Writable(i) \ {T2} /\ a \in NamesOf(i) \ {T2}
  BY DEF Low
<1>2. PICK n : /\ Gets(c, i, p, m, p + 3, n) /\ Alike(i, m, n, Plus({T2}, d))
               /\ n[d] = Alu("ADD", m[d], m[a])
  BY <1>1, RunsSum
<1>3. Alike(i, m, n, Plus(Low, d))
  BY <1>2 DEF Alike, Plus, Low
<1> QED BY <1>2, <1>3

LEMMA RunsClear ==
  ASSUME NEW c, NEW i, NEW p, NEW m, Good(i, m), NEW d \in Writable(i) \ Low, NEW b \in W!Lanes,
         Holds(c, p, clearbit32(d, b))
  PROVE  \E n : /\ Gets(c, i, p, m, p + 3, n) /\ Alike(i, m, n, Plus(Low, d))
                /\ n[d] = Cleared(m[d], b)
<1> DEFINE k == MASK(b)
           m1 == Written(m, T1, m[d])
           m2 == Written(m1, T1, W!Select(m1[Z], m1[T1], m1[k]))
           m3 == Written(m2, d, W!Wrap(m2[d] - m2[T1]))
<1>1. /\ Holds(c, p, mov32(d, T1)) /\ Holds(c, p + 1, mux32op(Z, T1, k)) /\ Holds(c, p + 2, subnb32(T1, d))
  BY ClearbitIs
<1>2. p \in Nat /\ (p + 1) + 1 = p + 2 /\ (p + 2) + 1 = p + 3
  <2>1. p \in Nat
    BY DEF Holds
  <2> QED BY <2>1
<1>3. /\ d \in Writable(i) /\ d \in NamesOf(i) /\ k \in NamesOf(i) /\ d # T1 /\ k # T1
      /\ T1 \in Writable(i) /\ T1 \in NamesOf(i) /\ Z \in NamesOf(i) /\ Z # T1
      /\ T1 \in Plus(Low, d) /\ d \in Plus(Low, d) /\ m[k] = 2 ^ b
  BY LowAre, PoolValues DEF Writable, Plus
<1> HIDE DEF k, m1, m2, m3
<1>4. Gets(c, i, p, m, p, m)
  BY GetsItself
<1>5. Gets(c, i, p, m, p + 1, m1)
  BY <1>1, <1>2, <1>3, <1>4, MoveOn DEF m1
<1>6. m1[T1] = m[d] /\ \A x \in NamesOf(i) : x # T1 => m1[x] = m[x]
  BY <1>3, <1>4, WrittenAfter DEF m1
<1>7. Gets(c, i, p, m, p + 2, m2)
  BY <1>1, <1>2, <1>3, <1>5, MuxOn DEF m2
<1>8. m2[T1] = W!Select(m[Z], m[d], m[k]) /\ \A x \in NamesOf(i) : x # T1 => m2[x] = m[x]
  BY <1>3, <1>5, <1>6, WrittenAfter DEF m2
<1>9. Gets(c, i, p, m, p + 3, m3)
  BY <1>1, <1>2, <1>3, <1>7, SubOn DEF m3
<1>10. m3[d] = W!Wrap(m[d] - W!Select(m[Z], m[d], m[k])) /\ Alike(i, m, m3, Plus(Low, d))
  BY <1>3, <1>7, <1>8, WrittenAfter DEF m3, Alike
<1>11. m[Z] = 0 /\ m[d] \in W!Cell
  BY <1>3, PoolValues, GoodTyped
<1> QED BY <1>3, <1>9, <1>10, <1>11, WordClear

LEMMA AlikeOn ==
  ASSUME NEW i, NEW m, NEW n, NEW k, NEW D, Alike(i, m, n, D), Alike(i, n, k, D)
  PROVE  Alike(i, m, k, D)
BY DEF Alike

LEMMA RunsSet ==
  ASSUME NEW c, NEW i, NEW p, NEW m, Good(i, m), NEW d \in Writable(i) \ Low, NEW b \in W!Lanes,
         Holds(c, p, setbit32(d, b))
  PROVE  \E n : /\ Gets(c, i, p, m, p + 6, n) /\ Alike(i, m, n, Plus(Low, d))
                /\ n[d] = Raised(m[d], b)
<1>1. /\ Holds(c, p, clearbit32(d, b)) /\ Holds(c, p + 3, addcell32(d, MASK(b)))
  BY SetbitIs
<1>2. p \in Nat /\ (p + 3) + 3 = p + 6
  <2>1. p \in Nat
    BY DEF Holds
  <2> QED BY <2>1
<1>3. d \in NamesOf(i) /\ m[d] \in W!Cell /\ MASK(b) \in NamesOf(i) \ Low
  BY GoodTyped, LowAre DEF Writable
<1>4. PICK n : /\ Gets(c, i, p, m, p + 3, n) /\ Alike(i, m, n, Plus(Low, d))
               /\ n[d] = Cleared(m[d], b)
  <2>1. Good(i, m) /\ d \in Writable(i) \ Low /\ b \in W!Lanes /\ Holds(c, p, clearbit32(d, b))
    BY <1>1
  <2> QED BY <2>1, RunsClear
<1>5. Good(i, n) /\ n[MASK(b)] = 2 ^ b
  BY <1>4, PoolValues DEF Gets
<1>6. PICK k : /\ Gets(c, i, p + 3, n, (p + 3) + 3, k) /\ Alike(i, n, k, Plus(Low, d))
               /\ k[d] = Alu("ADD", n[d], n[MASK(b)])
  BY <1>1, <1>3, <1>5, RunsAdd
<1>7. Gets(c, i, p, m, p + 6, k) /\ Alike(i, m, k, Plus(Low, d))
  BY <1>2, <1>4, <1>6, GetsOn, AlikeOn
<1> DEFINE v == m[d]
           w == Cleared(v, b)
<1>8. w \in W!Cell /\ W!Bits(w) = W!Bits(v) \ {b} /\ v \in W!Cell
  BY <1>3, BitClearIs
<1>9. k[d] = Alu("ADD", w, 2 ^ b)
  BY <1>4, <1>5, <1>6
<1> HIDE DEF w
<1>10. k[d] = Raised(w, b)
  BY <1>8, <1>9, WordSet
<1>11. Raised(w, b) = Raised(v, b)
  <2>1. W!Bits(w) \cup {b} = W!Bits(v) \cup {b}
    BY <1>8
  <2>2. W!Bits(Raised(w, b)) = W!Bits(Raised(v, b))
    BY <1>8, <2>1, BitSetIs
  <2> QED BY <1>8, <2>2, BitSetIs, SameBits
<1> QED BY <1>7, <1>10, <1>11 DEF v

------------------------------------------------------------------------------
(* The safepoint.                                                          *)
Sized(s, n) == Piece(s) /\ Len(s) = n

LEMMA SizedJoin ==
  ASSUME NEW s, NEW t, NEW n, NEW k, Sized(s, n), Sized(t, k)
  PROVE  Sized(s \o t, n + k)
BY PieceConcat DEF Sized

LEMMA SizedSplit ==
  ASSUME NEW s, NEW t, NEW n, NEW k, NEW c, NEW p, Sized(s, n), Sized(t, k), Holds(c, p, s \o t)
  PROVE  Holds(c, p, s) /\ Holds(c, p + n, t)
<1>1. Piece(s) /\ Piece(t) /\ Len(s) = n
  BY DEF Sized
<1>2. Holds(c, p, s) /\ Holds(c, p + Len(s), t)
  BY <1>1, HoldsSplit
<1> QED BY <1>1, <1>2

LEMMA SizesAre ==
  /\ \A a, b : Sized(mov32(a, b), 1) /\ Sized(subnb32(a, b), 1) /\ Sized(addcell32(a, b), 3)
  /\ \A a, b, k : Sized(mux32op(a, b, k), 1) /\ Sized(leq32(a, b, k), 1)
  /\ \A L : Sized(jump32(L), 1)
  /\ \A a, b : Sized(clearbit32(a, b), 3) /\ Sized(setbit32(a, b), 6)
  /\ \A a, b, L, Gs : Sized(ltu32(a, b, L, Gs), 11)
  /\ \A a, b, L : Sized(eq32(a, b, L), 5) /\ Sized(ne32(a, b, L), 4)
<1>1. /\ \A a, b : Sized(mov32(a, b), 1) /\ Sized(subnb32(a, b), 1)
      /\ \A a, b, k : Sized(mux32op(a, b, k), 1) /\ Sized(leq32(a, b, k), 1)
      /\ \A L : Sized(jump32(L), 1)
  BY EmittersAreSingle DEF Single, Sized
<1>2. \A a, b : Sized(addcell32(a, b), 3) /\ Sized(clearbit32(a, b), 3) /\ Sized(setbit32(a, b), 6)
  BY AddcellIs, ClearbitIs, SetbitIs DEF Sized
<1>3. \A a, b, L, Gs : Sized(ltu32(a, b, L, Gs), 11)
  BY LtuIsPiece DEF Sized
<1>4. \A a, b, L : Sized(eq32(a, b, L), 5)
  BY Row5, EmittersAreSingle DEF eq32, sle0_32, Sized
<1>5. \A a, b, L : Sized(ne32(a, b, L), 4)
  BY Row4, EmittersAreSingle DEF ne32, sle0_32, Sized
<1> QED BY <1>1, <1>2, <1>3, <1>4, <1>5

LEMMA UnlessIs ==
  ASSUME NEW a, NEW b, NEW L
  PROVE  /\ Sized(emit_unless32(a, b, L), 7)
         /\ \A c, p : Holds(c, p, emit_unless32(a, b, L)) =>
              /\ Holds(c, p, mov32(a, T0)) /\ Holds(c, p + 1, mux32op(Z, T0, MASK(b)))
              /\ Holds(c, p + 2, eq32(T0, Z, L - 2))
<1> DEFINE u == mov32(a, T0)
           v == mux32op(Z, T0, MASK(b))
           w == eq32(T0, Z, L - 2)
           x == u \o v
<1>1. Sized(u, 1) /\ Sized(v, 1) /\ Sized(w, 5)
  BY SizesAre
<1>2. emit_unless32(a, b, L) = x \o w
  BY DEF emit_unless32
<1> HIDE DEF u, v, w
<1>3. Sized(x, 1 + 1) /\ \A c, p : Holds(c, p, x) => Holds(c, p, u) /\ Holds(c, p + 1, v)
  BY <1>1, SizedJoin, SizedSplit
<1> HIDE DEF x
<1>4. Sized(x, 2) /\ Sized(w, 5)
  BY <1>1, <1>3
<1>5. Sized(x \o w, 2 + 5)
  BY <1>4, SizedJoin
<1>6. ASSUME NEW c, NEW p, Holds(c, p, x \o w) PROVE Holds(c, p, x) /\ Holds(c, p + 2, w)
  BY <1>4, <1>6, SizedSplit
<1> QED BY <1>2, <1>3, <1>5, <1>6 DEF u, v, w

(* Where the run goes on past an emit_unless32 at p.                       *)
Past(v, b, p, L) == IF Bit(v, b) THEN p + 7 ELSE p + L

Ahead(L) == L \in Nat /\ 2 <= L /\ L <= 9000

LEMMA RunsUnless ==
  ASSUME NEW c, NEW i, NEW p, NEW m, Good(i, m), NEW a \in Source(i), NEW b \in W!Lanes,
         NEW L, Ahead(L), Holds(c, p, emit_unless32(a, b, L))
  PROVE  \E n : Gets(c, i, p, m, Past(m[a], b, p, L), n) /\ Alike(i, m, n, Temps)
<1> DEFINE k == MASK(b)
           m1 == Written(m, T0, m[a])
           m2 == Written(m1, T0, W!Select(m1[Z], m1[T0], m1[k]))
<1>1. Holds(c, p, mov32(a, T0)) /\ Holds(c, p + 1, mux32op(Z, T0, k)) /\ Holds(c, p + 2, eq32(T0, Z, L - 2))
  BY UnlessIs
<1>2. p \in Nat /\ (p + 1) + 1 = p + 2 /\ (p + 2) + 5 = p + 7 /\ To(p + 2, L - 2) = p + L
      /\ L - 2 \in Int
  <2>1. p \in Nat
    BY DEF Holds
  <2> QED BY <2>1 DEF To, HALT, Ahead
<1>3. /\ a \in NamesOf(i) /\ a # T0 /\ k \in NamesOf(i) /\ k # T0
      /\ T0 \in Writable(i) /\ T0 \in NamesOf(i) /\ Z \in NamesOf(i) /\ Z # T0 /\ Z \in Source(i)
      /\ T0 \in Temps /\ m[k] = 2 ^ b
  BY ScratchAre, ConstantsAre, PoolValues DEF Writable, Source, Temps
<1> HIDE DEF k, m1, m2
<1>4. Gets(c, i, p, m, p, m)
  BY GetsItself
<1>5. Gets(c, i, p, m, p + 1, m1)
  BY <1>1, <1>2, <1>3, <1>4, MoveOn DEF m1
<1>6. m1[T0] = m[a] /\ \A x \in NamesOf(i) : x # T0 => m1[x] = m[x]
  BY <1>3, <1>4, WrittenAfter DEF m1
<1>7. Gets(c, i, p, m, p + 2, m2)
  BY <1>1, <1>2, <1>3, <1>5, MuxOn DEF m2
<1>8. m2[T0] = W!Select(m[Z], m[a], m[k]) /\ \A x \in NamesOf(i) : x # T0 => m2[x] = m[x]
  BY <1>3, <1>5, <1>6, WrittenAfter DEF m2
<1>9. Good(i, m2) /\ m2[Z] = 0 /\ m[Z] = 0 /\ m[a] \in W!Cell
  BY <1>3, <1>7, PoolValues, GoodTyped DEF Gets
<1>10. m2[T0] = m2[Z] <=> ~Bit(m[a], b)
  <2>1. m2[T0] = W!Select(0, m[a], 2 ^ b)
    BY <1>3, <1>8, <1>9
  <2> QED BY <1>9, <2>1, WordBit DEF Bit
<1>11. PICK n : /\ Gets(c, i, p + 2, m2, IF m2[T0] = m2[Z] THEN To(p + 2, L - 2) ELSE (p + 2) + 5, n)
                /\ Alike(i, m2, n, Temps)
  BY <1>1, <1>2, <1>3, <1>9, RunsEqual
<1>12. Alike(i, m, n, Temps)
  BY <1>3, <1>8, <1>11 DEF Alike
<1>13. Gets(c, i, p, m, IF m2[T0] = m2[Z] THEN To(p + 2, L - 2) ELSE (p + 2) + 5, n)
  BY <1>7, <1>11, GetsOn
<1>14. Gets(c, i, p, m, Past(m[a], b, p, L), n)
  <2>1. Past(m[a], b, p, L) = IF m2[T0] = m2[Z] THEN To(p + 2, L - 2) ELSE (p + 2) + 5
    BY <1>2, <1>10 DEF Past
  <2> QED BY <1>13, <2>1
<1> QED BY <1>12, <1>14

LEMMA SafepointRow ==
  ASSUME NEW s1, NEW s2, NEW s3, NEW s4, NEW s5, NEW s6, NEW s7, NEW s8,
         NEW s9, NEW s10, NEW s11,
         Sized(s1, 3), Sized(s2, 7), Sized(s3, 7), Sized(s4, 11), Sized(s5, 1),
         Sized(s6, 1), Sized(s7, 6), Sized(s8, 6), Sized(s9, 3), Sized(s10, 1),
         Sized(s11, 1)
  PROVE  /\ Sized(s1 \o s2 \o s3 \o s4 \o s5 \o s6 \o s7 \o s8 \o s9 \o s10 \o s11, 47)
         /\ \A c, p : Holds(c, p, s1 \o s2 \o s3 \o s4 \o s5 \o s6 \o s7 \o s8 \o s9 \o s10 \o s11) =>
              /\ Holds(c, p, s1) /\ Holds(c, p + 3, s2) /\ Holds(c, p + 10, s3)
              /\ Holds(c, p + 17, s4) /\ Holds(c, p + 28, s5) /\ Holds(c, p + 29, s6)
              /\ Holds(c, p + 30, s7) /\ Holds(c, p + 36, s8) /\ Holds(c, p + 42, s9)
              /\ Holds(c, p + 45, s10) /\ Holds(c, p + 46, s11)
<1> DEFINE u2 == s1 \o s2
           u3 == u2 \o s3
           u4 == u3 \o s4
           u5 == u4 \o s5
           u6 == u5 \o s6
           u7 == u6 \o s7
           u8 == u7 \o s8
           u9 == u8 \o s9
           u10 == u9 \o s10
           u11 == u10 \o s11
<1>2. /\ Sized(u2, 10)
      /\ \A c, p : Holds(c, p, u2) =>
           /\ Holds(c, p, s1) /\ Holds(c, p + 3, s2)
  <2>1. Sized(s1, 3) /\ Sized(s2, 7)
    OBVIOUS
  <2>2. Sized(s1 \o s2, 3 + 7)
    BY <2>1, SizedJoin
  <2>3. ASSUME NEW c, NEW p, Holds(c, p, s1 \o s2)
        PROVE  Holds(c, p, s1) /\ Holds(c, p + 3, s2)
    BY <2>1, <2>3, SizedSplit
  <2> QED BY <2>2, <2>3
<1>3. /\ Sized(u3, 17)
      /\ \A c, p : Holds(c, p, u3) =>
           /\ Holds(c, p, s1) /\ Holds(c, p + 3, s2) /\ Holds(c, p + 10, s3)
  <2>1. Sized(u2, 10) /\ Sized(s3, 7)
    BY <1>2
  <2> HIDE DEF u2
  <2>2. Sized(u2 \o s3, 10 + 7)
    BY <2>1, SizedJoin
  <2>3. ASSUME NEW c, NEW p, Holds(c, p, u2 \o s3)
        PROVE  Holds(c, p, u2) /\ Holds(c, p + 10, s3)
    BY <2>1, <2>3, SizedSplit
  <2> QED BY <1>2, <2>2, <2>3
<1>4. /\ Sized(u4, 28)
      /\ \A c, p : Holds(c, p, u4) =>
           /\ Holds(c, p, s1) /\ Holds(c, p + 3, s2) /\ Holds(c, p + 10, s3)
           /\ Holds(c, p + 17, s4)
  <2>1. Sized(u3, 17) /\ Sized(s4, 11)
    BY <1>3
  <2> HIDE DEF u3
  <2>2. Sized(u3 \o s4, 17 + 11)
    BY <2>1, SizedJoin
  <2>3. ASSUME NEW c, NEW p, Holds(c, p, u3 \o s4)
        PROVE  Holds(c, p, u3) /\ Holds(c, p + 17, s4)
    BY <2>1, <2>3, SizedSplit
  <2> QED BY <1>3, <2>2, <2>3
<1>5. /\ Sized(u5, 29)
      /\ \A c, p : Holds(c, p, u5) =>
           /\ Holds(c, p, s1) /\ Holds(c, p + 3, s2) /\ Holds(c, p + 10, s3)
           /\ Holds(c, p + 17, s4) /\ Holds(c, p + 28, s5)
  <2>1. Sized(u4, 28) /\ Sized(s5, 1)
    BY <1>4
  <2> HIDE DEF u4
  <2>2. Sized(u4 \o s5, 28 + 1)
    BY <2>1, SizedJoin
  <2>3. ASSUME NEW c, NEW p, Holds(c, p, u4 \o s5)
        PROVE  Holds(c, p, u4) /\ Holds(c, p + 28, s5)
    BY <2>1, <2>3, SizedSplit
  <2> QED BY <1>4, <2>2, <2>3
<1>6. /\ Sized(u6, 30)
      /\ \A c, p : Holds(c, p, u6) =>
           /\ Holds(c, p, s1) /\ Holds(c, p + 3, s2) /\ Holds(c, p + 10, s3)
           /\ Holds(c, p + 17, s4) /\ Holds(c, p + 28, s5) /\ Holds(c, p + 29, s6)
  <2>1. Sized(u5, 29) /\ Sized(s6, 1)
    BY <1>5
  <2> HIDE DEF u5
  <2>2. Sized(u5 \o s6, 29 + 1)
    BY <2>1, SizedJoin
  <2>3. ASSUME NEW c, NEW p, Holds(c, p, u5 \o s6)
        PROVE  Holds(c, p, u5) /\ Holds(c, p + 29, s6)
    BY <2>1, <2>3, SizedSplit
  <2> QED BY <1>5, <2>2, <2>3
<1>7. /\ Sized(u7, 36)
      /\ \A c, p : Holds(c, p, u7) =>
           /\ Holds(c, p, s1) /\ Holds(c, p + 3, s2) /\ Holds(c, p + 10, s3)
           /\ Holds(c, p + 17, s4) /\ Holds(c, p + 28, s5) /\ Holds(c, p + 29, s6)
           /\ Holds(c, p + 30, s7)
  <2>1. Sized(u6, 30) /\ Sized(s7, 6)
    BY <1>6
  <2> HIDE DEF u6
  <2>2. Sized(u6 \o s7, 30 + 6)
    BY <2>1, SizedJoin
  <2>3. ASSUME NEW c, NEW p, Holds(c, p, u6 \o s7)
        PROVE  Holds(c, p, u6) /\ Holds(c, p + 30, s7)
    BY <2>1, <2>3, SizedSplit
  <2> QED BY <1>6, <2>2, <2>3
<1>8. /\ Sized(u8, 42)
      /\ \A c, p : Holds(c, p, u8) =>
           /\ Holds(c, p, s1) /\ Holds(c, p + 3, s2) /\ Holds(c, p + 10, s3)
           /\ Holds(c, p + 17, s4) /\ Holds(c, p + 28, s5) /\ Holds(c, p + 29, s6)
           /\ Holds(c, p + 30, s7) /\ Holds(c, p + 36, s8)
  <2>1. Sized(u7, 36) /\ Sized(s8, 6)
    BY <1>7
  <2> HIDE DEF u7
  <2>2. Sized(u7 \o s8, 36 + 6)
    BY <2>1, SizedJoin
  <2>3. ASSUME NEW c, NEW p, Holds(c, p, u7 \o s8)
        PROVE  Holds(c, p, u7) /\ Holds(c, p + 36, s8)
    BY <2>1, <2>3, SizedSplit
  <2> QED BY <1>7, <2>2, <2>3
<1>9. /\ Sized(u9, 45)
      /\ \A c, p : Holds(c, p, u9) =>
           /\ Holds(c, p, s1) /\ Holds(c, p + 3, s2) /\ Holds(c, p + 10, s3)
           /\ Holds(c, p + 17, s4) /\ Holds(c, p + 28, s5) /\ Holds(c, p + 29, s6)
           /\ Holds(c, p + 30, s7) /\ Holds(c, p + 36, s8) /\ Holds(c, p + 42, s9)
  <2>1. Sized(u8, 42) /\ Sized(s9, 3)
    BY <1>8
  <2> HIDE DEF u8
  <2>2. Sized(u8 \o s9, 42 + 3)
    BY <2>1, SizedJoin
  <2>3. ASSUME NEW c, NEW p, Holds(c, p, u8 \o s9)
        PROVE  Holds(c, p, u8) /\ Holds(c, p + 42, s9)
    BY <2>1, <2>3, SizedSplit
  <2> QED BY <1>8, <2>2, <2>3
<1>10. /\ Sized(u10, 46)
      /\ \A c, p : Holds(c, p, u10) =>
           /\ Holds(c, p, s1) /\ Holds(c, p + 3, s2) /\ Holds(c, p + 10, s3)
           /\ Holds(c, p + 17, s4) /\ Holds(c, p + 28, s5) /\ Holds(c, p + 29, s6)
           /\ Holds(c, p + 30, s7) /\ Holds(c, p + 36, s8) /\ Holds(c, p + 42, s9)
           /\ Holds(c, p + 45, s10)
  <2>1. Sized(u9, 45) /\ Sized(s10, 1)
    BY <1>9
  <2> HIDE DEF u9
  <2>2. Sized(u9 \o s10, 45 + 1)
    BY <2>1, SizedJoin
  <2>3. ASSUME NEW c, NEW p, Holds(c, p, u9 \o s10)
        PROVE  Holds(c, p, u9) /\ Holds(c, p + 45, s10)
    BY <2>1, <2>3, SizedSplit
  <2> QED BY <1>9, <2>2, <2>3
<1>11. /\ Sized(u11, 47)
      /\ \A c, p : Holds(c, p, u11) =>
           /\ Holds(c, p, s1) /\ Holds(c, p + 3, s2) /\ Holds(c, p + 10, s3)
           /\ Holds(c, p + 17, s4) /\ Holds(c, p + 28, s5) /\ Holds(c, p + 29, s6)
           /\ Holds(c, p + 30, s7) /\ Holds(c, p + 36, s8) /\ Holds(c, p + 42, s9)
           /\ Holds(c, p + 45, s10) /\ Holds(c, p + 46, s11)
  <2>1. Sized(u10, 46) /\ Sized(s11, 1)
    BY <1>10
  <2> HIDE DEF u10
  <2>2. Sized(u10 \o s11, 46 + 1)
    BY <2>1, SizedJoin
  <2>3. ASSUME NEW c, NEW p, Holds(c, p, u10 \o s11)
        PROVE  Holds(c, p, u10) /\ Holds(c, p + 46, s11)
    BY <2>1, <2>3, SizedSplit
  <2> QED BY <1>10, <2>2, <2>3
<1> QED BY <1>11

LEMMA SafepointIs ==
  ASSUME NEW i
  PROVE  /\ Sized(emit_safepoint32(i), 47)
         /\ \A c, p : Holds(c, p, emit_safepoint32(i)) =>
              /\ Holds(c, p, addcell32(CSR("mtime"), COUNT))
              /\ Holds(c, p + 3, emit_unless32(CSR("mstatus"), MIE, 44))
              /\ Holds(c, p + 10, emit_unless32(CSR("mie"), MTI, 37))
              /\ Holds(c, p + 17, ltu32(CSR("mtime"), CSR("mtimecmp"), 30, 11))
              /\ Holds(c, p + 28, mov32(ADDR(i.pc), CSR("mepc")))
              /\ Holds(c, p + 29, mov32(MCAUSE, CSR("mcause")))
              /\ Holds(c, p + 30, setbit32(CSR("mip"), MTI))
              /\ Holds(c, p + 36, setbit32(CSR("mstatus"), MPIE))
              /\ Holds(c, p + 42, clearbit32(CSR("mstatus"), MIE))
              /\ Holds(c, p + 45, subnb32(COUNT, CSR("mtime")))
              /\ Holds(c, p + 46, jump32(Native(i.mtvec)))
<1> DEFINE s1 == addcell32(CSR("mtime"), COUNT)
           s2 == emit_unless32(CSR("mstatus"), MIE, 44)
           s3 == emit_unless32(CSR("mie"), MTI, 37)
           s4 == ltu32(CSR("mtime"), CSR("mtimecmp"), 30, 11)
           s5 == mov32(ADDR(i.pc), CSR("mepc"))
           s6 == mov32(MCAUSE, CSR("mcause"))
           s7 == setbit32(CSR("mip"), MTI)
           s8 == setbit32(CSR("mstatus"), MPIE)
           s9 == clearbit32(CSR("mstatus"), MIE)
           s10 == subnb32(COUNT, CSR("mtime"))
           s11 == jump32(Native(i.mtvec))
<1>1. Sized(s1, 3) /\ Sized(s2, 7) /\ Sized(s3, 7) /\ Sized(s4, 11) /\ Sized(s5, 1)
      /\ Sized(s6, 1) /\ Sized(s7, 6) /\ Sized(s8, 6) /\ Sized(s9, 3) /\ Sized(s10, 1) /\ Sized(s11, 1)
  BY SizesAre, UnlessIs
<1>2. emit_safepoint32(i) = s1 \o s2 \o s3 \o s4 \o s5 \o s6 \o s7 \o s8 \o s9 \o s10 \o s11
  BY DEF emit_safepoint32, SP_PREAMBLE, SP_DELIVER
<1> HIDE DEF s1, s2, s3, s4, s5, s6, s7, s8, s9, s10, s11
<1>3. /\ Sized(emit_safepoint32(i), 47)
      /\ \A c, p : Holds(c, p, emit_safepoint32(i)) =>
           /\ Holds(c, p, s1) /\ Holds(c, p + 3, s2) /\ Holds(c, p + 10, s3)
           /\ Holds(c, p + 17, s4) /\ Holds(c, p + 28, s5) /\ Holds(c, p + 29, s6)
           /\ Holds(c, p + 30, s7) /\ Holds(c, p + 36, s8) /\ Holds(c, p + 42, s9)
           /\ Holds(c, p + 45, s10) /\ Holds(c, p + 46, s11)
  BY <1>1, <1>2, SafepointRow
<1> QED BY <1>3 DEF s1, s2, s3, s4, s5, s6, s7, s8, s9, s10, s11

(* What an emitter does to a CSR, after what has run before.               *)
LEMMA CsrCell ==
  ASSUME NEW i, NEW k \in CsrNames
  PROVE  /\ CSR(k) \in Writable(i) \ Low /\ CSR(k) \in NamesOf(i) \ Low /\ CSR(k) \in Source(i)
         /\ CSR(k) # T0
<1>1. CSR(k) \in Writable(i) \cap Source(i) /\ CSR(k) \notin Scratch
  BY GuestCellsAre
<1> QED BY <1>1 DEF Low, Scratch, Source

LEMMA CsrMoves ==
  ASSUME NEW c, NEW i, NEW p, NEW m, NEW q, NEW n, Gets(c, i, p, m, q, n), NEW t, Has(i, n, t),
         NEW a \in NamesOf(i), NEW k \in CsrNames, Holds(c, q, mov32(a, CSR(k)))
  PROVE  \E l : Gets(c, i, p, m, q + 1, l) /\ Has(i, l, CsrSet(t, k, n[a]))
<1> DEFINE l == Written(n, CSR(k), n[a])
<1>1. CSR(k) \in Writable(i) /\ CSR(k) \in NamesOf(i)
  BY CsrCell
<1>2. Gets(c, i, p, m, q + 1, l)
  BY <1>1, MoveOn
<1>3. l[CSR(k)] = n[a] /\ Alike(i, n, l, Plus({}, CSR(k)))
  BY <1>1, WrittenAfter DEF Alike, Plus
<1>4. Good(i, l) /\ Private({})
  BY <1>2, ScratchIsPrivate DEF Gets
<1> HIDE DEF l
<1>5. Has(i, l, CsrSet(t, k, l[CSR(k)]))
  BY <1>3, <1>4, HasCsr
<1> QED BY <1>2, <1>3, <1>5

LEMMA CsrSubs ==
  ASSUME NEW c, NEW i, NEW p, NEW m, NEW q, NEW n, Gets(c, i, p, m, q, n), NEW t, Has(i, n, t),
         NEW a \in NamesOf(i), NEW k \in CsrNames, Holds(c, q, subnb32(a, CSR(k)))
  PROVE  \E l : Gets(c, i, p, m, q + 1, l) /\ Has(i, l, CsrSet(t, k, W!Wrap(t.csr[k] - n[a])))
<1> DEFINE v == W!Wrap(n[CSR(k)] - n[a])
           l == Written(n, CSR(k), v)
<1>1. CSR(k) \in Writable(i) /\ CSR(k) \in NamesOf(i)
  BY CsrCell
<1>2. Gets(c, i, p, m, q + 1, l)
  BY <1>1, SubOn
<1> HIDE DEF v
<1>3. l[CSR(k)] = v /\ Alike(i, n, l, Plus({}, CSR(k)))
  BY <1>1, WrittenAfter DEF Alike, Plus
<1>4. Good(i, l) /\ Private({})
  BY <1>2, ScratchIsPrivate DEF Gets
<1> HIDE DEF l
<1>5. Has(i, l, CsrSet(t, k, l[CSR(k)]))
  BY <1>3, <1>4, HasCsr
<1>6. v = W!Wrap(t.csr[k] - n[a])
  BY DEF v, Has
<1> QED BY <1>2, <1>3, <1>5, <1>6

LEMMA CsrAdds ==
  ASSUME NEW c, NEW i, NEW p, NEW m, NEW q, NEW n, Gets(c, i, p, m, q, n), NEW t, Has(i, n, t),
         NEW a \in NamesOf(i) \ Low, NEW k \in CsrNames, Holds(c, q, addcell32(CSR(k), a))
  PROVE  \E l : Gets(c, i, p, m, q + 3, l) /\ Has(i, l, CsrSet(t, k, Alu("ADD", t.csr[k], n[a])))
<1> DEFINE d == CSR(k)
<1>1. Good(i, n) /\ d \in Writable(i) \ Low /\ Holds(c, q, addcell32(d, a)) /\ n[d] = t.csr[k]
  BY CsrCell DEF Gets, Has
<1> HIDE DEF d
<1>2. PICK l : /\ Gets(c, i, q, n, q + 3, l) /\ Alike(i, n, l, Plus(Low, d))
               /\ l[d] = Alu("ADD", n[d], n[a])
  BY <1>1, RunsAdd
<1>3. Gets(c, i, p, m, q + 3, l) /\ Good(i, l)
  <2>1. Gets(c, i, p, m, q + 3, l)
    BY <1>2, GetsOn
  <2> QED BY <2>1 DEF Gets
<1>4. Alike(i, n, l, Plus(Low, CSR(k))) /\ l[CSR(k)] = Alu("ADD", t.csr[k], n[a])
  BY <1>1, <1>2 DEF d
<1>5. Has(i, l, CsrSet(t, k, l[CSR(k)]))
  BY <1>3, <1>4, LowIsPrivate, HasCsr
<1> QED BY <1>3, <1>4, <1>5

LEMMA CsrClears ==
  ASSUME NEW c, NEW i, NEW p, NEW m, NEW q, NEW n, Gets(c, i, p, m, q, n), NEW t, Has(i, n, t),
         NEW k \in CsrNames, NEW b \in W!Lanes, Holds(c, q, clearbit32(CSR(k), b))
  PROVE  \E l : Gets(c, i, p, m, q + 3, l) /\ Has(i, l, CsrSet(t, k, Cleared(t.csr[k], b)))
<1> DEFINE d == CSR(k)
<1>1. Good(i, n) /\ d \in Writable(i) \ Low /\ Holds(c, q, clearbit32(d, b)) /\ n[d] = t.csr[k]
  BY CsrCell DEF Gets, Has
<1> HIDE DEF d
<1>2. PICK l : /\ Gets(c, i, q, n, q + 3, l) /\ Alike(i, n, l, Plus(Low, d))
               /\ l[d] = Cleared(n[d], b)
  BY <1>1, RunsClear
<1>3. Gets(c, i, p, m, q + 3, l) /\ Good(i, l)
  <2>1. Gets(c, i, p, m, q + 3, l)
    BY <1>2, GetsOn
  <2> QED BY <2>1 DEF Gets
<1>4. Alike(i, n, l, Plus(Low, CSR(k))) /\ l[CSR(k)] = Cleared(t.csr[k], b)
  BY <1>1, <1>2 DEF d
<1>5. Has(i, l, CsrSet(t, k, l[CSR(k)]))
  BY <1>3, <1>4, LowIsPrivate, HasCsr
<1> QED BY <1>3, <1>4, <1>5

LEMMA CsrRaises ==
  ASSUME NEW c, NEW i, NEW p, NEW m, NEW q, NEW n, Gets(c, i, p, m, q, n), NEW t, Has(i, n, t),
         NEW k \in CsrNames, NEW b \in W!Lanes, Holds(c, q, setbit32(CSR(k), b))
  PROVE  \E l : Gets(c, i, p, m, q + 6, l) /\ Has(i, l, CsrSet(t, k, Raised(t.csr[k], b)))
<1> DEFINE d == CSR(k)
<1>1. Good(i, n) /\ d \in Writable(i) \ Low /\ Holds(c, q, setbit32(d, b)) /\ n[d] = t.csr[k]
  BY CsrCell DEF Gets, Has
<1> HIDE DEF d
<1>2. PICK l : /\ Gets(c, i, q, n, q + 6, l) /\ Alike(i, n, l, Plus(Low, d))
               /\ l[d] = Raised(n[d], b)
  BY <1>1, RunsSet
<1>3. Gets(c, i, p, m, q + 6, l) /\ Good(i, l)
  <2>1. Gets(c, i, p, m, q + 6, l)
    BY <1>2, GetsOn
  <2> QED BY <2>1 DEF Gets
<1>4. Alike(i, n, l, Plus(Low, CSR(k))) /\ l[CSR(k)] = Raised(t.csr[k], b)
  BY <1>1, <1>2 DEF d
<1>5. Has(i, l, CsrSet(t, k, l[CSR(k)]))
  BY <1>3, <1>4, LowIsPrivate, HasCsr
<1> QED BY <1>3, <1>4, <1>5

(* The bit of a CSR is looked at, and the guest is as it was.              *)
LEMMA CsrUnless ==
  ASSUME NEW c, NEW i, NEW p, NEW m, NEW q, NEW n, Gets(c, i, p, m, q, n), NEW t, Has(i, n, t),
         NEW k \in CsrNames, NEW b \in W!Lanes, NEW L, Ahead(L),
         Holds(c, q, emit_unless32(CSR(k), b, L))
  PROVE  \E l : Gets(c, i, p, m, Past(t.csr[k], b, q, L), l) /\ Has(i, l, t)
<1> DEFINE d == CSR(k)
<1>1. Good(i, n) /\ d \in Source(i) /\ Holds(c, q, emit_unless32(d, b, L)) /\ n[d] = t.csr[k]
  BY CsrCell DEF Gets, Has
<1> HIDE DEF d
<1> DEFINE r == Past(n[d], b, q, L)
<1>0. b \in W!Lanes /\ Ahead(L)
  OBVIOUS
<1>2. PICK l : Gets(c, i, q, n, r, l) /\ Alike(i, n, l, Temps)
  BY <1>0, <1>1, RunsUnless
<1> HIDE DEF r
<1>3. Gets(c, i, p, m, r, l) /\ Good(i, l)
  <2>1. Gets(c, i, p, m, r, l)
    BY <1>2, GetsOn
  <2> QED BY <2>1 DEF Gets
<1>4. Has(i, l, t)
  BY <1>2, <1>3, ScratchIsPrivate, HasStill
<1>5. r = Past(t.csr[k], b, q, L)
  BY <1>1 DEF r
<1> QED BY <1>3, <1>4, <1>5

LEMMA CsrSetIs ==
  ASSUME NEW s \in GuestStates, NEW k \in CsrNames, NEW v
  PROVE  /\ CsrSet(s, k, v).x = s.x /\ CsrSet(s, k, v).ram = s.ram
         /\ CsrSet(s, k, v).csr = [s.csr EXCEPT ![k] = v]
BY DEF CsrSet, GuestStates

------------------------------------------------------------------------------
(* A safepoint: time passes, and the trap is taken when it is due.         *)
Time(i, s)  == Alu("ADD", s.csr["mtime"], i.count)
Later(i, s) == CsrSet(s, "mtime", Time(i, s))
Due(i, s)   == /\ Bit(s.csr["mstatus"], MIE) /\ Bit(s.csr["mie"], MTI)
               /\ ~(Time(i, s) < s.csr["mtimecmp"])

LEMMA SafepointNames ==
  /\ {"mtime", "mtimecmp", "mstatus", "mie", "mip", "mepc", "mcause"} \subseteq CsrNames
  /\ MIE \in W!Lanes /\ MTI \in W!Lanes /\ MPIE \in W!Lanes /\ MIE # MPIE
  /\ Ahead(44) /\ Ahead(37)
BY GuestAssumption DEF CsrNames, W!Lanes, Ahead

LEMMA LaterIs ==
  ASSUME NEW i, NEW s \in GuestStates
  PROVE  /\ Later(i, s).csr["mtime"] = Time(i, s)
         /\ \A k \in CsrNames : k # "mtime" => Later(i, s).csr[k] = s.csr[k]
<1>1. Later(i, s).csr = [s.csr EXCEPT !["mtime"] = Time(i, s)]
  BY CsrSetIs, SafepointNames DEF Later
<1>2. s.csr \in [CsrNames -> W!Cell] /\ "mtime" \in CsrNames
  BY SafepointNames DEF GuestStates
<1> QED BY <1>1, <1>2

LEMMA SafepointBegins ==
  ASSUME NEW i, NEW s, NEW c, NEW m, Has(i, m, s), Holds(c, 1, emit_safepoint32(i))
  PROVE  \E n : Gets(c, i, 1, m, 4, n) /\ Has(i, n, Later(i, s))
<1>1. Holds(c, 1, addcell32(CSR("mtime"), COUNT)) /\ "mtime" \in CsrNames
  BY SafepointIs, SafepointNames
<1>2. Good(i, m) /\ m[COUNT] = i.count /\ COUNT \in NamesOf(i) \ Low
  <2>1. Good(i, m)
    BY DEF Has
  <2>2. COUNT \in Source(i) /\ COUNT \notin Low
    BY ConstantsAre DEF Low, COUNT, T1, T2
  <2> QED BY <2>1, <2>2, PoolValues DEF Source
<1>3. Gets(c, i, 1, m, 1, m)
  BY <1>2, GetsItself
<1>4. PICK n : /\ Gets(c, i, 1, m, 1 + 3, n)
               /\ Has(i, n, CsrSet(s, "mtime", Alu("ADD", s.csr["mtime"], m[COUNT])))
  BY <1>1, <1>2, <1>3, CsrAdds
<1> QED BY <1>2, <1>4 DEF Later, Time

(* Past the four tests, at the delivery or at the end.                     *)
LEMMA SafepointTests ==
  ASSUME NEW i, NEW s \in GuestStates, NEW c, NEW m, Has(i, m, s), Holds(c, 1, emit_safepoint32(i))
  PROVE  \E n : Gets(c, i, 1, m, IF Due(i, s) THEN 29 ELSE 48, n) /\ Has(i, n, Later(i, s))
<1> DEFINE t == Later(i, s)
           v == t.csr["mtime"]
           w == t.csr["mtimecmp"]
<1>1. /\ Holds(c, 4, emit_unless32(CSR("mstatus"), MIE, 44))
      /\ Holds(c, 11, emit_unless32(CSR("mie"), MTI, 37))
      /\ Holds(c, 18, ltu32(CSR("mtime"), CSR("mtimecmp"), 30, 11))
  <2>1. /\ Holds(c, 1 + 3, emit_unless32(CSR("mstatus"), MIE, 44))
        /\ Holds(c, 1 + 10, emit_unless32(CSR("mie"), MTI, 37))
        /\ Holds(c, 1 + 17, ltu32(CSR("mtime"), CSR("mtimecmp"), 30, 11))
    BY SafepointIs
  <2> QED BY <2>1
<1>2. /\ Time(i, s) = v /\ w = s.csr["mtimecmp"]
      /\ t.csr["mstatus"] = s.csr["mstatus"] /\ t.csr["mie"] = s.csr["mie"]
  BY LaterIs, SafepointNames
<1>3. PICK n : Gets(c, i, 1, m, 4, n) /\ Has(i, n, t)
  BY SafepointBegins
<1> HIDE DEF t
<1>4. PICK k : Gets(c, i, 1, m, Past(t.csr["mstatus"], MIE, 4, 44), k) /\ Has(i, k, t)
  <2>1. "mstatus" \in CsrNames /\ MIE \in W!Lanes /\ Ahead(44)
    BY SafepointNames
  <2> QED BY <1>1, <1>3, <2>1, CsrUnless
<1>5. CASE ~Bit(t.csr["mstatus"], MIE)
  BY <1>2, <1>4, <1>5 DEF Past, Due, t
<1>6. CASE Bit(t.csr["mstatus"], MIE)
  <2>1. Gets(c, i, 1, m, 11, k)
    BY <1>4, <1>6 DEF Past
  <2>2. PICK l : Gets(c, i, 1, m, Past(t.csr["mie"], MTI, 11, 37), l) /\ Has(i, l, t)
    <3>1. "mie" \in CsrNames /\ MTI \in W!Lanes /\ Ahead(37)
      BY SafepointNames
    <3> QED BY <1>1, <1>4, <2>1, <3>1, CsrUnless
  <2>3. CASE ~Bit(t.csr["mie"], MTI)
    BY <1>2, <2>2, <2>3 DEF Past, Due, t
  <2>4. CASE Bit(t.csr["mie"], MTI)
    <3>1. Gets(c, i, 1, m, 18, l)
      BY <2>2, <2>4 DEF Past
    <3>2. /\ Good(i, l) /\ CSR("mtime") \in Source(i) /\ CSR("mtimecmp") \in Source(i)
          /\ l[CSR("mtime")] = v /\ l[CSR("mtimecmp")] = w
      BY <2>2, CsrCell, SafepointNames DEF Has
    <3>3. To(18, 30) = 48 /\ To(18, 11) = 29 /\ 30 \in Int /\ 11 \in Int
      BY DEF To, HALT
    <3>4. PICK h : /\ Gets(c, i, 18, l, IF l[CSR("mtime")] < l[CSR("mtimecmp")]
                                        THEN To(18, 30) ELSE To(18, 11), h)
                   /\ Alike(i, l, h, Temps)
      BY <1>1, <3>2, <3>3, RunsLess
    <3> DEFINE q == IF Due(i, s) THEN 29 ELSE 48
    <3>5. q = IF l[CSR("mtime")] < l[CSR("mtimecmp")] THEN To(18, 30) ELSE To(18, 11)
      BY <1>2, <1>6, <2>4, <3>2, <3>3 DEF Due, t
    <3>6. Gets(c, i, 18, l, q, h) /\ Alike(i, l, h, Temps)
      BY <3>4, <3>5
    <3> HIDE DEF q
    <3>7. Gets(c, i, 1, m, q, h)
      BY <3>1, <3>6, GetsOn
    <3>8. Good(i, h)
      BY <3>7 DEF Gets
    <3>9. Has(i, h, t)
      BY <2>2, <3>6, <3>8, ScratchIsPrivate, HasStill
    <3> QED BY <3>7, <3>9 DEF q, t
  <2> QED BY <2>3, <2>4
<1> QED BY <1>5, <1>6

(* The delivery, write by write.                                           *)
Saved(i, t)     == CsrSet(CsrSet(t, "mepc", i.pc), "mcause", i.mcause)
Pending(i, t)   == CsrSet(Saved(i, t), "mip", Raised(Saved(i, t).csr["mip"], MTI))
Masked(i, t)    == LET u == CsrSet(Pending(i, t), "mstatus", Raised(Pending(i, t).csr["mstatus"], MPIE))
                   IN  CsrSet(u, "mstatus", Cleared(u.csr["mstatus"], MIE))
Delivered(i, t) == CsrSet(Masked(i, t), "mtime", W!Wrap(Masked(i, t).csr["mtime"] - i.count))

LEMMA SafepointDelivers ==
  ASSUME NEW i, Lowerable(i), NEW t, NEW c, NEW m, NEW n, Gets(c, i, 1, m, 29, n), Has(i, n, t),
         Holds(c, 1, emit_safepoint32(i))
  PROVE  \E l : Gets(c, i, 1, m, Native(i.mtvec), l) /\ Has(i, l, Delivered(i, t))
<1> DEFINE t2 == Saved(i, t)
           t3 == Pending(i, t)
           u  == CsrSet(t3, "mstatus", Raised(t3.csr["mstatus"], MPIE))
           t4 == Masked(i, t)
<1>1. /\ Holds(c, 29, mov32(ADDR(i.pc), CSR("mepc"))) /\ Holds(c, 30, mov32(MCAUSE, CSR("mcause")))
      /\ Holds(c, 31, setbit32(CSR("mip"), MTI)) /\ Holds(c, 37, setbit32(CSR("mstatus"), MPIE))
      /\ Holds(c, 43, clearbit32(CSR("mstatus"), MIE)) /\ Holds(c, 46, subnb32(COUNT, CSR("mtime")))
      /\ Holds(c, 47, jump32(Native(i.mtvec)))
  <2>1. /\ Holds(c, 1 + 28, mov32(ADDR(i.pc), CSR("mepc"))) /\ Holds(c, 1 + 29, mov32(MCAUSE, CSR("mcause")))
        /\ Holds(c, 1 + 30, setbit32(CSR("mip"), MTI)) /\ Holds(c, 1 + 36, setbit32(CSR("mstatus"), MPIE))
        /\ Holds(c, 1 + 42, clearbit32(CSR("mstatus"), MIE))
        /\ Holds(c, 1 + 45, subnb32(COUNT, CSR("mtime")))
        /\ Holds(c, 1 + 46, jump32(Native(i.mtvec)))
    BY SafepointIs
  <2> QED BY <2>1
<1>2. /\ "mtime" \in CsrNames /\ "mstatus" \in CsrNames /\ "mip" \in CsrNames /\ "mepc" \in CsrNames
      /\ "mcause" \in CsrNames /\ MIE \in W!Lanes /\ MTI \in W!Lanes /\ MPIE \in W!Lanes
  BY SafepointNames
<1>3. ADDR(i.pc) \in NamesOf(i) /\ MCAUSE \in NamesOf(i) /\ COUNT \in NamesOf(i)
  BY ConstantsAre DEF Source
<1>4. PICK n1 : Gets(c, i, 1, m, 29 + 1, n1) /\ Has(i, n1, CsrSet(t, "mepc", i.pc))
  <2>1. n[ADDR(i.pc)] = i.pc
    BY PoolValues DEF Gets
  <2> QED BY <1>1, <1>2, <1>3, <2>1, CsrMoves
<1>5. PICK n2 : Gets(c, i, 1, m, 31, n2) /\ Has(i, n2, t2)
  <2> DEFINE v == CsrSet(t, "mepc", i.pc)
  <2>1. n1[MCAUSE] = i.mcause /\ Gets(c, i, 1, m, 30, n1) /\ Has(i, n1, v)
    BY <1>4, PoolValues DEF Gets
  <2> HIDE DEF v
  <2>2. \E l : Gets(c, i, 1, m, 30 + 1, l) /\ Has(i, l, CsrSet(v, "mcause", n1[MCAUSE]))
    BY <1>1, <1>2, <1>3, <2>1, CsrMoves
  <2> QED BY <2>1, <2>2 DEF v, Saved
<1>6. PICK n3 : Gets(c, i, 1, m, 37, n3) /\ Has(i, n3, t3)
  <2>1. \E l : Gets(c, i, 1, m, 31 + 6, l) /\ Has(i, l, CsrSet(t2, "mip", Raised(t2.csr["mip"], MTI)))
    <3> HIDE DEF t2
    <3> QED BY <1>1, <1>2, <1>5, CsrRaises
  <2> QED BY <2>1 DEF Pending
<1>7. PICK n4 : Gets(c, i, 1, m, 43, n4) /\ Has(i, n4, u)
  <2>1. \E l : Gets(c, i, 1, m, 37 + 6, l) /\ Has(i, l, CsrSet(t3, "mstatus", Raised(t3.csr["mstatus"], MPIE)))
    <3> HIDE DEF t3
    <3> QED BY <1>1, <1>2, <1>6, CsrRaises
  <2> QED BY <2>1
<1>8. PICK n5 : Gets(c, i, 1, m, 46, n5) /\ Has(i, n5, t4)
  <2>1. \E l : Gets(c, i, 1, m, 43 + 3, l) /\ Has(i, l, CsrSet(u, "mstatus", Cleared(u.csr["mstatus"], MIE)))
    <3> HIDE DEF u
    <3> QED BY <1>1, <1>2, <1>7, CsrClears
  <2> QED BY <2>1 DEF Masked
<1>9. PICK n6 : Gets(c, i, 1, m, 47, n6) /\ Has(i, n6, Delivered(i, t))
  <2>1. n5[COUNT] = i.count
    BY <1>8, PoolValues DEF Gets
  <2>2. \E l : Gets(c, i, 1, m, 46 + 1, l) /\ Has(i, l, CsrSet(t4, "mtime", W!Wrap(t4.csr["mtime"] - n5[COUNT])))
    <3> HIDE DEF t4
    <3> QED BY <1>1, <1>2, <1>3, <1>8, CsrSubs
  <2> QED BY <2>1, <2>2 DEF Delivered
<1>10. Gets(c, i, 1, m, To(47, Native(i.mtvec)), n6)
  BY <1>1, <1>9, JumpOn
<1>11. To(47, Native(i.mtvec)) = Native(i.mtvec)
  BY ToNative DEF Lowerable
<1> QED BY <1>9, <1>10, <1>11

(* The time of a block that does not run is given back.                    *)
LEMMA GivenBack ==
  ASSUME NEW v \in W!Cell, NEW k \in W!Cell
  PROVE  /\ Alu("ADD", v, k) \in W!Cell
         /\ W!Wrap(Alu("ADD", v, k) - k) = v
<1> DEFINE M == W!Modulus
<1>1. M \in Nat /\ M > 0 /\ v \in 0 .. M - 1 /\ k \in 0 .. M - 1
  BY WordIs DEF W!Cell
<1>2. \A y \in Int : W!Wrap(y) = y % M
  BY DEF W!Wrap
<1>3. Alu("ADD", v, k) = W!Wrap(v + k)
  BY DEF Alu
<1> HIDE DEF M
<1>4. (v + k) % M = IF v + k < M THEN v + k ELSE v + k - M
  BY <1>1
<1>5. (v + k) % M \in Int /\ (((v + k) % M) - k) % M = v
  <2>1. CASE v + k < M
    BY <1>1, <1>4, <2>1
  <2>2. CASE ~(v + k < M)
    BY <1>1, <1>4, <2>2
  <2> QED BY <2>1, <2>2
<1>6. v + k \in Int /\ ((v + k) % M) - k \in Int
  BY <1>1, <1>5
<1>7. W!Wrap(W!Wrap(v + k) - k) = v
  BY <1>2, <1>5, <1>6
<1>8. W!Wrap(v + k) \in W!Cell
  BY <1>6, WrapTyped
<1> QED BY <1>3, <1>7, <1>8

GuestOf(x, ram, csr) == [x |-> x, ram |-> ram, csr |-> csr]

Upd(f, k, v) == [f EXCEPT ![k] = v]

LEMMA CsrSetOf ==
  ASSUME NEW x, NEW ram, NEW f, NEW k, NEW v
  PROVE  /\ CsrSet(GuestOf(x, ram, f), k, v) = GuestOf(x, ram, Upd(f, k, v))
         /\ GuestOf(x, ram, f).csr = f /\ GuestOf(x, ram, f).x = x /\ GuestOf(x, ram, f).ram = ram
BY DEF CsrSet, GuestOf, Upd

LEMMA DeliveredIs ==
  ASSUME NEW i, Lowerable(i), NEW s \in GuestStates
  PROVE  LET t == Delivered(i, Later(i, s))
         IN  /\ t.x = s.x /\ t.ram = s.ram
             /\ t.csr = [s.csr EXCEPT !["mepc"] = i.pc, !["mcause"] = i.mcause,
                                      !["mip"] = WithBit(@, MTI, TRUE),
                                      !["mstatus"] = WithBit(WithBit(@, MPIE, TRUE), MIE, FALSE)]
<1> DEFINE f  == s.csr
           v  == Time(i, s)
           f1 == Upd(f, "mtime", v)
           f2 == Upd(f1, "mepc", i.pc)
           f3 == Upd(f2, "mcause", i.mcause)
           f4 == Upd(f3, "mip", Raised(f3["mip"], MTI))
           f5 == Upd(f4, "mstatus", Raised(f4["mstatus"], MPIE))
           f6 == Upd(f5, "mstatus", Cleared(f5["mstatus"], MIE))
           f7 == Upd(f6, "mtime", W!Wrap(f6["mtime"] - i.count))
           Gs(g) == GuestOf(s.x, s.ram, g)
<1>1. s = Gs(f) /\ f \in [CsrNames -> W!Cell] /\ i.count \in W!Cell
  BY DEF GuestStates, GuestOf, Lowerable
<1>2. W!Wrap(v - i.count) = f["mtime"]
  BY <1>1, GivenBack, SafepointNames DEF Time
<1>3. Later(i, s) = Gs(f1)
  BY <1>1, CsrSetOf DEF Later
<1>4. Saved(i, Gs(f1)) = Gs(f3)
  <2> HIDE DEF f1
  <2> QED BY CsrSetOf DEF Saved
<1>5. Pending(i, Gs(f1)) = Gs(f4)
  <2> HIDE DEF f3
  <2> QED BY <1>4, CsrSetOf DEF Pending
<1>6. Masked(i, Gs(f1)) = Gs(f6)
  <2>1. CsrSet(Gs(f4), "mstatus", Raised(Gs(f4).csr["mstatus"], MPIE)) = Gs(f5)
    <3> HIDE DEF f4
    <3> QED BY CsrSetOf
  <2>2. CsrSet(Gs(f5), "mstatus", Cleared(Gs(f5).csr["mstatus"], MIE)) = Gs(f6)
    <3> HIDE DEF f5
    <3> QED BY CsrSetOf
  <2> QED BY <1>5, <2>1, <2>2 DEF Masked
<1>7. Delivered(i, Gs(f1)) = Gs(f7)
  <2> HIDE DEF f6
  <2> QED BY <1>6, CsrSetOf DEF Delivered
<1>8. f7 = [f EXCEPT !["mepc"] = i.pc, !["mcause"] = i.mcause,
                     !["mip"] = Raised(f["mip"], MTI),
                     !["mstatus"] = Cleared(Raised(f["mstatus"], MPIE), MIE)]
  <2>1. {"mtime", "mstatus", "mip", "mepc", "mcause"} \subseteq CsrNames
    BY SafepointNames
  <2>2. f6["mtime"] = v /\ f3["mip"] = f["mip"] /\ f4["mstatus"] = f["mstatus"]
        /\ f5["mstatus"] = Raised(f["mstatus"], MPIE)
    BY <1>1, <2>1 DEF Upd
  <2> HIDE DEF v, f
  <2> QED BY <1>1, <1>2, <2>1, <2>2 DEF Upd
<1>9. Delivered(i, Later(i, s)) = Gs(f7)
  BY <1>3, <1>7
<1> HIDE DEF f1, f2, f3, f4, f5, f6, f7
<1> DEFINE t == Delivered(i, Later(i, s))
<1>10. t.x = s.x /\ t.ram = s.ram /\ t.csr = f7
  <2>1. t = GuestOf(s.x, s.ram, f7)
    BY <1>9
  <2> HIDE DEF t
  <2> QED BY <2>1, CsrSetOf
<1> QED BY <1>8, <1>10 DEF Raised, Cleared

LEMMA MeansSafepoint ==
  ASSUME NEW i, Lowerable(i), i.kind = "safepoint", NEW s \in GuestStates
  PROVE  Means(i, s)
<1> DEFINE c == emit_one32(i)
           m == Image(i, s)
           t == Later(i, s)
           u == Delivered(i, t)
<1>1. c = emit_safepoint32(i) /\ Piece(c) /\ Len(c) = 47
  BY SafepointIs DEF emit_one32, Sized
<1>2. Holds(c, 1, emit_safepoint32(i)) /\ Short(c)
  <2> HIDE DEF c
  <2> QED BY <1>1 DEF Holds, Piece, Short
<1>3. Has(i, m, s) /\ i.mtvec \in Nat
  BY HasImage DEF Lowerable
<1>4. /\ W!Wrap(s.csr["mtime"] + i.count) = Time(i, s)
      /\ Due(i, s) <=> /\ Bit(s.csr["mstatus"], MIE) /\ Bit(s.csr["mie"], MTI)
                       /\ Time(i, s) >= s.csr["mtimecmp"]
  <2>1. s.csr["mtime"] \in W!Cell /\ i.count \in W!Cell /\ s.csr["mtimecmp"] \in W!Cell
    BY SafepointNames DEF GuestStates, Lowerable
  <2>2. Time(i, s) \in W!Cell
    BY <2>1, GivenBack DEF Time
  <2>3. Time(i, s) \in Int /\ s.csr["mtimecmp"] \in Int
    BY <2>1, <2>2 DEF W!Cell
  <2>4. Time(i, s) >= s.csr["mtimecmp"] <=> ~(Time(i, s) < s.csr["mtimecmp"])
    BY <2>3
  <2> QED BY <2>4 DEF Due, Time, Alu
<1>5. PICK n : Gets(c, i, 1, m, IF Due(i, s) THEN 29 ELSE 48, n) /\ Has(i, n, t)
  <2> HIDE DEF c, m
  <2> QED BY <1>2, <1>3, SafepointTests
<1>6. CASE ~Due(i, s)
  <2>1. Gets(c, i, 1, m, 48, n)
    BY <1>5, <1>6
  <2>2. 48 = Len(c) + 1
    BY <1>1
  <2> DEFINE q == 48
  <2>3. WhereIn(c, q) = Following /\ q > Len(c)
    BY <1>2, <2>2, WhereFollows
  <2>4. t.x = s.x /\ t.ram = s.ram /\ t.csr = [s.csr EXCEPT !["mtime"] = Time(i, s)]
    BY CsrSetIs, SafepointNames DEF Later
  <2>5. Execute(i, s) = [Goes(s, s.x, Following) EXCEPT !.csr = [s.csr EXCEPT !["mtime"] = Time(i, s)]]
    BY <1>4, <1>6 DEF Execute, ExecuteSafepoint
  <2>6. Execute(i, s) = Goes(t, t.x, Following)
    BY <2>4, <2>5 DEF Goes
  <2> QED BY <1>5, <2>1, <2>3, <2>6, MeansHas
<1>7. CASE Due(i, s)
  <2> DEFINE q == Native(i.mtvec)
  <2>1. Gets(c, i, 1, m, 29, n)
    BY <1>5, <1>7
  <2>2. PICK l : Gets(c, i, 1, m, q, l) /\ Has(i, l, u)
    <3> HIDE DEF c, m, t
    <3> QED BY <1>2, <1>5, <2>1, SafepointDelivers
  <2>3. WhereIn(c, q) = i.mtvec /\ q > Len(c)
    BY <1>2, <1>3, WhereGoes
  <2>4. Execute(i, s) =
          [Goes(s, s.x, i.mtvec) EXCEPT
             !.csr = [s.csr EXCEPT !["mepc"] = i.pc, !["mcause"] = i.mcause,
                                   !["mip"] = WithBit(@, MTI, TRUE),
                                   !["mstatus"] = WithBit(WithBit(s.csr["mstatus"], MPIE, TRUE), MIE, FALSE)]]
    BY <1>4, <1>7 DEF Execute, ExecuteSafepoint
  <2> DEFINE h == [s.csr EXCEPT !["mepc"] = i.pc, !["mcause"] = i.mcause,
                                !["mip"] = WithBit(@, MTI, TRUE),
                                !["mstatus"] = WithBit(WithBit(@, MPIE, TRUE), MIE, FALSE)]
  <2>5. Execute(i, s) = Goes(u, u.x, i.mtvec)
    <3>1. u.x = s.x /\ u.ram = s.ram /\ u.csr = h
      BY DeliveredIs
    <3>2. h = [s.csr EXCEPT !["mepc"] = i.pc, !["mcause"] = i.mcause,
                            !["mip"] = WithBit(@, MTI, TRUE),
                            !["mstatus"] = WithBit(WithBit(s.csr["mstatus"], MPIE, TRUE), MIE, FALSE)]
      BY SafepointNames DEF GuestStates
    <3> HIDE DEF h, u
    <3>3. Execute(i, s) = [Goes(s, s.x, i.mtvec) EXCEPT !.csr = h]
      BY <2>4, <3>2
    <3> QED BY <3>1, <3>3 DEF Goes
  <2> QED BY <2>2, <2>3, <2>5, MeansHas
<1> QED BY <1>6, <1>7

------------------------------------------------------------------------------
(* A zimm, bit by bit: what is done to T0 for its bit b, and what the bits *)
(* of T0 are after it.                                                     *)
BitPiece(i, b) ==
  CASE i.op = "W" -> addcell32(T0, MASK(b))
    [] i.op = "S" -> setbit32(T0, b)
    [] i.op = "C" -> clearbit32(T0, b)

BitSize(i)        == IF i.op = "S" THEN 6 ELSE 3
MayBe(on, piece)  == IF on THEN piece ELSE <<>>
Worth(on, size)   == IF on THEN size ELSE 0
After(i, B, b)    == IF Bit(i.src, b) THEN IF i.op = "C" THEN B \ {b} ELSE B \cup {b} ELSE B

LEMMA MayBeSized ==
  ASSUME NEW on, NEW s, NEW k \in Nat, Sized(s, k)
  PROVE  Sized(MayBe(on, s), Worth(on, k)) /\ Worth(on, k) \in Nat /\ Worth(on, k) <= k
BY EmptyIs DEF MayBe, Worth, Sized

LEMMA RunsBit ==
  ASSUME NEW c, NEW i, NEW p, NEW m, NEW q, NEW n, Gets(c, i, p, m, q, n), NEW s, Has(i, n, s),
         i.op \in {"W", "S", "C"}, NEW b \in W!Lanes, i.op = "W" => b \notin W!Bits(n[T0]),
         Holds(c, q, MayBe(Bit(i.src, b), BitPiece(i, b)))
  PROVE  \E l : /\ Gets(c, i, p, m, q + Worth(Bit(i.src, b), BitSize(i)), l) /\ Has(i, l, s)
                /\ W!Bits(l[T0]) = After(i, W!Bits(n[T0]), b)
<1>0. /\ Good(i, n) /\ T0 \in Writable(i) \ Low /\ MASK(b) \in NamesOf(i) \ Low /\ q \in Nat
      /\ n[T0] \in W!Cell /\ n[MASK(b)] = 2 ^ b /\ Private(Plus(Low, T0))
  <2>1. Good(i, n) /\ T0 \in Writable(i) /\ T0 \in NamesOf(i) /\ q \in Nat
    BY ScratchAre DEF Gets, Writable, Holds
  <2>2. T0 \notin Low /\ Plus(Low, T0) = Temps
    BY DEF Low, Plus, Temps, T0, T1, T2
  <2> QED BY <2>1, <2>2, LowAre, PoolValues, GoodTyped, ScratchIsPrivate
<1> DEFINE v == n[T0]
<1>1. CASE ~Bit(i.src, b)
  BY <1>0, <1>1 DEF Worth, After
<1>2. CASE Bit(i.src, b)
  <2>1. Holds(c, q, BitPiece(i, b)) /\ Worth(Bit(i.src, b), BitSize(i)) = BitSize(i)
    BY <1>2 DEF MayBe, Worth
  <2>2. \E l : /\ Gets(c, i, q, n, q + BitSize(i), l) /\ Alike(i, n, l, Plus(Low, T0))
               /\ l[T0] \in W!Cell /\ W!Bits(l[T0]) = After(i, W!Bits(v), b)
    <3>1. CASE i.op = "W"
      <4>1. Holds(c, q, addcell32(T0, MASK(b))) /\ BitSize(i) = 3
        BY <2>1, <3>1 DEF BitPiece, BitSize
      <4>2. PICK l : /\ Gets(c, i, q, n, q + 3, l) /\ Alike(i, n, l, Plus(Low, T0))
                     /\ l[T0] = Alu("ADD", n[T0], n[MASK(b)])
        BY <1>0, <4>1, RunsAdd
      <4>3. l[T0] = Raised(v, b)
        BY <1>0, <3>1, <4>2, WordSet
      <4> HIDE DEF v
      <4>4. l[T0] \in W!Cell /\ W!Bits(l[T0]) = W!Bits(v) \cup {b}
        BY <1>0, <4>3, BitSetIs DEF v
      <4> QED BY <1>2, <3>1, <4>1, <4>2, <4>4 DEF After
    <3>2. CASE i.op = "S"
      <4>1. Holds(c, q, setbit32(T0, b)) /\ BitSize(i) = 6
        BY <2>1, <3>2 DEF BitPiece, BitSize
      <4>2. PICK l : /\ Gets(c, i, q, n, q + 6, l) /\ Alike(i, n, l, Plus(Low, T0))
                     /\ l[T0] = Raised(n[T0], b)
        BY <1>0, <4>1, RunsSet
      <4>4. l[T0] \in W!Cell /\ W!Bits(l[T0]) = W!Bits(v) \cup {b}
        BY <1>0, <4>2, BitSetIs
      <4> QED BY <1>2, <3>2, <4>1, <4>2, <4>4 DEF After
    <3>3. CASE i.op = "C"
      <4>1. Holds(c, q, clearbit32(T0, b)) /\ BitSize(i) = 3
        BY <2>1, <3>3 DEF BitPiece, BitSize
      <4>2. PICK l : /\ Gets(c, i, q, n, q + 3, l) /\ Alike(i, n, l, Plus(Low, T0))
                     /\ l[T0] = Cleared(n[T0], b)
        BY <1>0, <4>1, RunsClear
      <4>4. l[T0] \in W!Cell /\ W!Bits(l[T0]) = W!Bits(v) \ {b}
        BY <1>0, <4>2, BitClearIs
      <4> QED BY <1>2, <3>3, <4>1, <4>2, <4>4 DEF After
    <3> QED BY <3>1, <3>2, <3>3
  <2>3. PICK l : /\ Gets(c, i, q, n, q + BitSize(i), l) /\ Alike(i, n, l, Plus(Low, T0))
                 /\ l[T0] \in W!Cell /\ W!Bits(l[T0]) = After(i, W!Bits(v), b)
    BY <2>2
  <2> DEFINE r == q + BitSize(i)
  <2> HIDE DEF r
  <2>4. Gets(c, i, p, m, r, l)
    BY <2>3, GetsOn DEF r
  <2>5. Good(i, l)
    BY <2>4 DEF Gets
  <2>6. Has(i, l, s)
    BY <1>0, <2>3, <2>5, HasStill
  <2> QED BY <2>1, <2>3, <2>4, <2>6 DEF r
<1> QED BY <1>1, <1>2

(* The five pieces for the bits of a zimm.                                 *)
ZimmPiece(i, b) == MayBe(Bit(i.src, b), BitPiece(i, b))
ZimmSize(i, b)  == Worth(Bit(i.src, b), BitSize(i))
Zimm(i)  == ZimmPiece(i, 0) \o ZimmPiece(i, 1) \o ZimmPiece(i, 2) \o ZimmPiece(i, 3) \o ZimmPiece(i, 4)
ZimmLength(i) == ZimmSize(i, 0) + ZimmSize(i, 1) + ZimmSize(i, 2) + ZimmSize(i, 3) + ZimmSize(i, 4)

\* The bits of T0 once those of the zimm in D have been gone through.
Applied(i, B, D) == IF i.op = "C" THEN B \ (W!Bits(i.src) \cap D) ELSE B \cup (W!Bits(i.src) \cap D)

LEMMA ZimmSized ==
  ASSUME NEW i, i.op \in {"W", "S", "C"}, NEW b
  PROVE  Sized(ZimmPiece(i, b), ZimmSize(i, b)) /\ ZimmSize(i, b) \in Nat /\ ZimmSize(i, b) <= 6
<1>1. BitSize(i) \in Nat /\ BitSize(i) <= 6
  BY DEF BitSize
<1>2. Sized(BitPiece(i, b), BitSize(i))
  BY SizesAre DEF BitPiece, BitSize
<1>3. Worth(Bit(i.src, b), BitSize(i)) \in Nat /\ Worth(Bit(i.src, b), BitSize(i)) <= 6
  BY <1>1 DEF Worth
<1> QED BY <1>1, <1>2, <1>3, MayBeSized DEF ZimmPiece, ZimmSize

LEMMA AppliedStep ==
  ASSUME NEW i, NEW B, NEW D, NEW b
  PROVE  After(i, Applied(i, B, D), b) = Applied(i, B, Plus(D, b))
BY DEF After, Applied, Bit, Plus

LEMMA ZimmIs ==
  ASSUME NEW i, i.op \in {"W", "S", "C"}
  PROVE  /\ Sized(Zimm(i), ZimmLength(i)) /\ ZimmLength(i) \in Nat /\ ZimmLength(i) <= 30
         /\ \A c, p : Holds(c, p, Zimm(i)) =>
              /\ Holds(c, p, ZimmPiece(i, 0)) /\ Holds(c, p + ZimmSize(i, 0), ZimmPiece(i, 1))
              /\ Holds(c, p + (ZimmSize(i, 0) + ZimmSize(i, 1)), ZimmPiece(i, 2))
              /\ Holds(c, p + (ZimmSize(i, 0) + ZimmSize(i, 1) + ZimmSize(i, 2)), ZimmPiece(i, 3))
              /\ Holds(c, p + (ZimmSize(i, 0) + ZimmSize(i, 1) + ZimmSize(i, 2) + ZimmSize(i, 3)), ZimmPiece(i, 4))
<1> DEFINE s0 == ZimmPiece(i, 0)
           s1 == ZimmPiece(i, 1)
           s2 == ZimmPiece(i, 2)
           s3 == ZimmPiece(i, 3)
           s4 == ZimmPiece(i, 4)
           n0 == ZimmSize(i, 0)
           n1 == ZimmSize(i, 1)
           n2 == ZimmSize(i, 2)
           n3 == ZimmSize(i, 3)
           n4 == ZimmSize(i, 4)
           u1 == s0 \o s1
           u2 == u1 \o s2
           u3 == u2 \o s3
           u4 == u3 \o s4
<1>1. /\ Sized(s0, n0) /\ Sized(s1, n1) /\ Sized(s2, n2) /\ Sized(s3, n3) /\ Sized(s4, n4)
      /\ \A k \in {n0, n1, n2, n3, n4} : k \in Nat /\ k <= 6
  BY ZimmSized
<1>2. Zimm(i) = u4 /\ ZimmLength(i) = n0 + n1 + n2 + n3 + n4
  BY DEF Zimm, ZimmLength
<1> HIDE DEF s0, s1, s2, s3, s4, n0, n1, n2, n3, n4
<1>3. n0 + n1 + n2 + n3 + n4 \in Nat /\ n0 + n1 + n2 + n3 + n4 <= 30
  BY <1>1
<1>4. Sized(u1, n0 + n1) /\ \A c, p : Holds(c, p, u1) => Holds(c, p, s0) /\ Holds(c, p + n0, s1)
  BY <1>1, SizedJoin, SizedSplit
<1>5. /\ Sized(u2, n0 + n1 + n2)
      /\ \A c, p : Holds(c, p, u2) => Holds(c, p, u1) /\ Holds(c, p + (n0 + n1), s2)
  <2> DEFINE r == n0 + n1
  <2>1. Sized(u1, r) /\ Sized(s2, n2)
    BY <1>1, <1>4
  <2> HIDE DEF u1, r
  <2>2. Sized(u1 \o s2, r + n2)
    BY <2>1, SizedJoin
  <2>3. ASSUME NEW c, NEW p, Holds(c, p, u1 \o s2)
        PROVE  Holds(c, p, u1) /\ Holds(c, p + r, s2)
    BY <2>1, <2>3, SizedSplit
  <2> QED BY <2>2, <2>3 DEF r
<1>6. /\ Sized(u3, n0 + n1 + n2 + n3)
      /\ \A c, p : Holds(c, p, u3) => Holds(c, p, u2) /\ Holds(c, p + (n0 + n1 + n2), s3)
  <2> DEFINE r == n0 + n1 + n2
  <2>1. Sized(u2, r) /\ Sized(s3, n3)
    BY <1>1, <1>5
  <2> HIDE DEF u2, r
  <2>2. Sized(u2 \o s3, r + n3)
    BY <2>1, SizedJoin
  <2>3. ASSUME NEW c, NEW p, Holds(c, p, u2 \o s3)
        PROVE  Holds(c, p, u2) /\ Holds(c, p + r, s3)
    BY <2>1, <2>3, SizedSplit
  <2> QED BY <2>2, <2>3 DEF r
<1>7. /\ Sized(u4, n0 + n1 + n2 + n3 + n4)
      /\ \A c, p : Holds(c, p, u4) => Holds(c, p, u3) /\ Holds(c, p + (n0 + n1 + n2 + n3), s4)
  <2> DEFINE r == n0 + n1 + n2 + n3
  <2>1. Sized(u3, r) /\ Sized(s4, n4)
    BY <1>1, <1>6
  <2> HIDE DEF u3, r
  <2>2. Sized(u3 \o s4, r + n4)
    BY <2>1, SizedJoin
  <2>3. ASSUME NEW c, NEW p, Holds(c, p, u3 \o s4)
        PROVE  Holds(c, p, u3) /\ Holds(c, p + r, s4)
    BY <2>1, <2>3, SizedSplit
  <2> QED BY <2>2, <2>3 DEF r
<1> HIDE DEF u1, u2, u3, u4
<1>8. \A c, p : Holds(c, p, u4) =>
        /\ Holds(c, p, s0) /\ Holds(c, p + n0, s1) /\ Holds(c, p + (n0 + n1), s2)
        /\ Holds(c, p + (n0 + n1 + n2), s3) /\ Holds(c, p + (n0 + n1 + n2 + n3), s4)
  BY <1>4, <1>5, <1>6, <1>7
<1> QED BY <1>2, <1>3, <1>7, <1>8 DEF s0, s1, s2, s3, s4, n0, n1, n2, n3, n4

\* A zimm has five bits.
LEMMA ZimmBits ==
  ASSUME NEW z \in 0 .. 31
  PROVE  z \in W!Cell /\ W!Bits(z) \subseteq {0, 1, 2, 3, 4} /\ {0, 1, 2, 3, 4} \subseteq W!Lanes
<1>1. 2 ^ 5 = 32 /\ \A b \in 5 .. Width : 2 ^ b >= 32
  <2>1. 2 ^ 5 = 32
    OBVIOUS
  <2>2. ASSUME NEW b \in 5 .. Width PROVE 2 ^ b >= 32
    <3>1. b = 5 + (b - 5) /\ b - 5 \in Nat /\ 5 \in Nat /\ b - 5 \in 0 .. Width
      BY WidthAssumption
    <3>2. 2 ^ (5 + (b - 5)) = 2 ^ 5 * 2 ^ (b - 5)
      <4> DEFINE f == 5
                 g == b - 5
      <4>1. f \in Nat /\ g \in Nat /\ f + g <= Width
        BY <3>1
      <4> HIDE DEF f, g
      <4>2. 2 ^ (f + g) = 2 ^ f * 2 ^ g
        BY <4>1, PowerSum
      <4> QED BY <4>2 DEF f, g
    <3> DEFINE y == 2 ^ (b - 5)
               x == 2 ^ b
    <3>3. y \in Nat /\ y >= 1 /\ x = 32 * y
      BY <2>1, <3>1, <3>2, PowerIs
    <3> HIDE DEF x, y
    <3>4. x >= 32
      BY <3>3
    <3> QED BY <3>4 DEF x
  <2> QED BY <2>1, <2>2
<1>2. z \in W!Cell
  <2> DEFINE x == 2 ^ Width
  <2>1. x >= 32 /\ x \in Nat
    BY <1>1, PowerIs, WidthAssumption
  <2> HIDE DEF x
  <2>2. z \in 0 .. x - 1
    BY <2>1
  <2> QED BY <2>2, CellIs DEF x
<1>3. ASSUME NEW b \in W!Bits(z), b \notin {0, 1, 2, 3, 4} PROVE FALSE
  <2>1. b \in 0 .. Width - 1 /\ BitOf(z, b) = 1
    BY <1>3, BitsAre
  <2>2. b \in 5 .. Width /\ b \in 0 .. Width
    BY <1>3, <2>1, WidthAssumption
  <2> DEFINE x == 2 ^ b
  <2>3. x \in Nat /\ x >= 32
    BY <1>1, <2>2, PowerIs
  <2> HIDE DEF x
  <2>4. z \in 0 .. x - 1
    BY <2>3
  <2> QED BY <2>1, <2>2, <2>4, BitAbove DEF x
<1>4. {0, 1, 2, 3, 4} \subseteq W!Lanes
  BY WidthAssumption, CellIs
<1> QED BY <1>2, <1>3, <1>4

Changed(i, B) == IF i.op = "C" THEN B \ W!Bits(i.src) ELSE B \cup W!Bits(i.src)

LEMMA RunsZimm ==
  ASSUME NEW c, NEW i, NEW p, NEW m, NEW q, NEW n, Gets(c, i, p, m, q, n), NEW s, Has(i, n, s),
         i.op \in {"W", "S", "C"}, i.src \in 0 .. 31, i.op = "W" => n[T0] = 0,
         Holds(c, q, Zimm(i))
  PROVE  \E l : /\ Gets(c, i, p, m, q + ZimmLength(i), l) /\ Has(i, l, s)
                /\ W!Bits(l[T0]) = Changed(i, W!Bits(n[T0]))
<1> DEFINE z == W!Bits(i.src)
           B == W!Bits(n[T0])
           n0 == ZimmSize(i, 0)
           n1 == ZimmSize(i, 1)
           n2 == ZimmSize(i, 2)
           n3 == ZimmSize(i, 3)
           n4 == ZimmSize(i, 4)
           D1 == Plus({}, 0)
           D2 == Plus(D1, 1)
           D3 == Plus(D2, 2)
           D4 == Plus(D3, 3)
           D5 == Plus(D4, 4)
<1>1. /\ Holds(c, q, ZimmPiece(i, 0)) /\ Holds(c, q + n0, ZimmPiece(i, 1))
      /\ Holds(c, q + (n0 + n1), ZimmPiece(i, 2))
      /\ Holds(c, q + (n0 + n1 + n2), ZimmPiece(i, 3))
      /\ Holds(c, q + (n0 + n1 + n2 + n3), ZimmPiece(i, 4))
  BY ZimmIs
<1>2. /\ q \in Nat /\ n0 \in Nat /\ n1 \in Nat /\ n2 \in Nat /\ n3 \in Nat /\ n4 \in Nat
      /\ ZimmLength(i) = n0 + n1 + n2 + n3 + n4
  BY SMTT(40), <1>1, ZimmSized DEF Holds, ZimmLength
<1>3. z \subseteq {0, 1, 2, 3, 4} /\ {0, 1, 2, 3, 4} \subseteq W!Lanes /\ (i.op = "W" => B = {})
  BY ZimmBits, NoBits
<1> HIDE DEF n0, n1, n2, n3, n4
<1>4. /\ 0 \notin {} /\ 1 \notin D1 /\ 2 \notin D2 /\ 3 \notin D3 /\ 4 \notin D4 /\ D5 = {0, 1, 2, 3, 4}
  BY DEF Plus
<1>5. \A D, b : i.op = "W" /\ b \notin D => b \notin Applied(i, B, D)
  BY <1>3 DEF Applied
<1>6. Applied(i, B, {}) = B
  BY DEF Applied
<1> HIDE DEF B, D1, D2, D3, D4, D5
<1>7. 0 \in W!Lanes /\ 1 \in W!Lanes /\ 2 \in W!Lanes /\ 3 \in W!Lanes /\ 4 \in W!Lanes
  BY <1>3
<1>10. W!Bits(n[T0]) = Applied(i, B, {})
  BY <1>6 DEF B
<1>11. PICK l1 : /\ Gets(c, i, p, m, q + n0, l1) /\ Has(i, l1, s)
                 /\ W!Bits(l1[T0]) = Applied(i, B, D1)
  <2> DEFINE r == q
  <2>1. /\ Gets(c, i, p, m, r, n) /\ Has(i, n, s) /\ 0 \in W!Lanes
        /\ W!Bits(n[T0]) = Applied(i, B, {}) /\ (i.op = "W" => 0 \notin W!Bits(n[T0]))
        /\ Holds(c, r, MayBe(Bit(i.src, 0), BitPiece(i, 0)))
    BY <1>1, <1>4, <1>5, <1>7, <1>10 DEF ZimmPiece
  <2>2. r + n0 = q + n0
    BY <1>2
  <2> HIDE DEF r
  <2>3. \E l : /\ Gets(c, i, p, m, r + Worth(Bit(i.src, 0), BitSize(i)), l) /\ Has(i, l, s)
               /\ W!Bits(l[T0]) = After(i, W!Bits(n[T0]), 0)
    BY <2>1, RunsBit
  <2>4. After(i, W!Bits(n[T0]), 0) = Applied(i, B, D1)
    BY <2>1, AppliedStep DEF D1
  <2> QED BY <2>2, <2>3, <2>4 DEF n0, ZimmSize
<1>12. PICK l2 : /\ Gets(c, i, p, m, q + (n0 + n1), l2) /\ Has(i, l2, s)
                 /\ W!Bits(l2[T0]) = Applied(i, B, D2)
  <2> DEFINE r == q + n0
  <2>1. /\ Gets(c, i, p, m, r, l1) /\ Has(i, l1, s) /\ 1 \in W!Lanes
        /\ W!Bits(l1[T0]) = Applied(i, B, D1) /\ (i.op = "W" => 1 \notin W!Bits(l1[T0]))
        /\ Holds(c, r, MayBe(Bit(i.src, 1), BitPiece(i, 1)))
    BY <1>1, <1>4, <1>5, <1>7, <1>11 DEF ZimmPiece
  <2>2. r + n1 = q + (n0 + n1)
    BY <1>2
  <2> HIDE DEF r
  <2>3. \E l : /\ Gets(c, i, p, m, r + Worth(Bit(i.src, 1), BitSize(i)), l) /\ Has(i, l, s)
               /\ W!Bits(l[T0]) = After(i, W!Bits(l1[T0]), 1)
    BY <2>1, RunsBit
  <2>4. After(i, W!Bits(l1[T0]), 1) = Applied(i, B, D2)
    BY <2>1, AppliedStep DEF D2
  <2> QED BY <2>2, <2>3, <2>4 DEF n1, ZimmSize
<1>13. PICK l3 : /\ Gets(c, i, p, m, q + (n0 + n1 + n2), l3) /\ Has(i, l3, s)
                 /\ W!Bits(l3[T0]) = Applied(i, B, D3)
  <2> DEFINE r == q + (n0 + n1)
  <2>1. /\ Gets(c, i, p, m, r, l2) /\ Has(i, l2, s) /\ 2 \in W!Lanes
        /\ W!Bits(l2[T0]) = Applied(i, B, D2) /\ (i.op = "W" => 2 \notin W!Bits(l2[T0]))
        /\ Holds(c, r, MayBe(Bit(i.src, 2), BitPiece(i, 2)))
    BY <1>1, <1>4, <1>5, <1>7, <1>12 DEF ZimmPiece
  <2>2. r + n2 = q + (n0 + n1 + n2)
    BY <1>2
  <2> HIDE DEF r
  <2>3. \E l : /\ Gets(c, i, p, m, r + Worth(Bit(i.src, 2), BitSize(i)), l) /\ Has(i, l, s)
               /\ W!Bits(l[T0]) = After(i, W!Bits(l2[T0]), 2)
    BY <2>1, RunsBit
  <2>4. After(i, W!Bits(l2[T0]), 2) = Applied(i, B, D3)
    BY <2>1, AppliedStep DEF D3
  <2> QED BY <2>2, <2>3, <2>4 DEF n2, ZimmSize
<1>14. PICK l4 : /\ Gets(c, i, p, m, q + (n0 + n1 + n2 + n3), l4) /\ Has(i, l4, s)
                 /\ W!Bits(l4[T0]) = Applied(i, B, D4)
  <2> DEFINE r == q + (n0 + n1 + n2)
  <2>1. /\ Gets(c, i, p, m, r, l3) /\ Has(i, l3, s) /\ 3 \in W!Lanes
        /\ W!Bits(l3[T0]) = Applied(i, B, D3) /\ (i.op = "W" => 3 \notin W!Bits(l3[T0]))
        /\ Holds(c, r, MayBe(Bit(i.src, 3), BitPiece(i, 3)))
    BY <1>1, <1>4, <1>5, <1>7, <1>13 DEF ZimmPiece
  <2>2. r + n3 = q + (n0 + n1 + n2 + n3)
    BY <1>2
  <2> HIDE DEF r
  <2>3. \E l : /\ Gets(c, i, p, m, r + Worth(Bit(i.src, 3), BitSize(i)), l) /\ Has(i, l, s)
               /\ W!Bits(l[T0]) = After(i, W!Bits(l3[T0]), 3)
    BY <2>1, RunsBit
  <2>4. After(i, W!Bits(l3[T0]), 3) = Applied(i, B, D4)
    BY <2>1, AppliedStep DEF D4
  <2> QED BY <2>2, <2>3, <2>4 DEF n3, ZimmSize
<1>15. PICK l5 : /\ Gets(c, i, p, m, q + (n0 + n1 + n2 + n3 + n4), l5) /\ Has(i, l5, s)
                 /\ W!Bits(l5[T0]) = Applied(i, B, D5)
  <2> DEFINE r == q + (n0 + n1 + n2 + n3)
  <2>1. /\ Gets(c, i, p, m, r, l4) /\ Has(i, l4, s) /\ 4 \in W!Lanes
        /\ W!Bits(l4[T0]) = Applied(i, B, D4) /\ (i.op = "W" => 4 \notin W!Bits(l4[T0]))
        /\ Holds(c, r, MayBe(Bit(i.src, 4), BitPiece(i, 4)))
    BY <1>1, <1>4, <1>5, <1>7, <1>14 DEF ZimmPiece
  <2>2. r + n4 = q + (n0 + n1 + n2 + n3 + n4)
    BY <1>2
  <2> HIDE DEF r
  <2>3. \E l : /\ Gets(c, i, p, m, r + Worth(Bit(i.src, 4), BitSize(i)), l) /\ Has(i, l, s)
               /\ W!Bits(l[T0]) = After(i, W!Bits(l4[T0]), 4)
    BY <2>1, RunsBit
  <2>4. After(i, W!Bits(l4[T0]), 4) = Applied(i, B, D5)
    BY <2>1, AppliedStep DEF D5
  <2> QED BY <2>2, <2>3, <2>4 DEF n4, ZimmSize
<1>20. Applied(i, B, D5) = IF i.op = "C" THEN B \ z ELSE B \cup z
  <2>1. z \cap D5 = z
    BY <1>3, <1>4
  <2> QED BY <2>1 DEF Applied
<1> QED BY <1>2, <1>15, <1>20 DEF B, Changed

------------------------------------------------------------------------------
(* The new value of a CSR.                                                 *)
CsrSource(i, s) == IF i.zimm THEN i.src ELSE s.x[i.src]
CsrSize(i) == IF i.zimm THEN 1 + ZimmLength(i) ELSE IF i.op = "W" THEN 1 ELSE 2

IsCsr(i)    == i.op \in {"W", "S", "C"} /\ i.zimm \in BOOLEAN
ZimmBase(i) == IF i.op = "W" THEN Z ELSE CSR(i.csr)
RegBase(i)  == IF i.op = "C" THEN Z ELSE X(i.src)

LEMMA CsrNewIs ==
  ASSUME NEW i, IsCsr(i)
  PROVE  /\ i.zimm => CsrNew32(i) = mov32(ZimmBase(i), T0) \o Zimm(i)
         /\ ~i.zimm /\ i.op = "W" => CsrNew32(i) = mov32(X(i.src), T0)
         /\ ~i.zimm /\ i.op # "W" => CsrNew32(i) = mov32(RegBase(i), T0) \o mux32op(CSR(i.csr), T0, X(i.src))
<1>1. i.op = "W" \/ i.op = "S" \/ i.op = "C"
  BY DEF IsCsr
<1>2. CASE i.zimm
  <2>1. CASE i.op = "W"
    BY <1>2, <2>1 DEF CsrNew32, OnBits, Zimm, ZimmPiece, MayBe, BitPiece, ZimmBase
  <2>2. CASE i.op = "S"
    BY <1>2, <2>2 DEF CsrNew32, OnBits, Zimm, ZimmPiece, MayBe, BitPiece, ZimmBase
  <2>3. CASE i.op = "C"
    BY <1>2, <2>3 DEF CsrNew32, OnBits, Zimm, ZimmPiece, MayBe, BitPiece, ZimmBase
  <2> QED BY <1>1, <1>2, <2>1, <2>2, <2>3
<1>3. CASE ~i.zimm
  BY <1>1, <1>3 DEF CsrNew32, RegBase
<1> QED BY <1>2, <1>3

LEMMA CsrNewSized ==
  ASSUME NEW i, IsCsr(i)
  PROVE  Sized(CsrNew32(i), CsrSize(i)) /\ CsrSize(i) \in Nat /\ CsrSize(i) <= 31
<1>0. i.op \in {"W", "S", "C"}
  BY DEF IsCsr
<1>1. ZimmLength(i) \in Nat /\ ZimmLength(i) <= 30 /\ Sized(Zimm(i), ZimmLength(i))
  BY <1>0, ZimmIs
<1>2. CASE i.zimm
  <2> DEFINE a == mov32(ZimmBase(i), T0)
             z == Zimm(i)
             k == ZimmLength(i)
  <2>1. CsrNew32(i) = a \o z /\ CsrSize(i) = 1 + k /\ Sized(a, 1)
    <3>1. CsrNew32(i) = a \o z
      BY <1>2, CsrNewIs
    <3>2. CsrSize(i) = 1 + k
      BY <1>2 DEF CsrSize
    <3>3. Sized(a, 1)
      BY SizesAre
    <3> QED BY <3>1, <3>2, <3>3
  <2> HIDE DEF a, z, k
  <2>2. Sized(a \o z, 1 + k)
    BY <1>1, <2>1, SizedJoin DEF z, k
  <2> QED BY <1>1, <2>1, <2>2 DEF k
<1>3. CASE ~i.zimm
  <2>1. CASE i.op = "W"
    BY <1>3, <2>1, CsrNewIs, SizesAre DEF CsrSize
  <2>2. CASE i.op # "W"
    <3> DEFINE a == mov32(RegBase(i), T0)
               e == mux32op(CSR(i.csr), T0, X(i.src))
    <3>1. CsrNew32(i) = a \o e /\ CsrSize(i) = 1 + 1 /\ Sized(a, 1) /\ Sized(e, 1)
      BY <1>3, <2>2, CsrNewIs, SizesAre DEF CsrSize
    <3> HIDE DEF a, e
    <3>2. Sized(a \o e, 1 + 1)
      BY <3>1, SizedJoin
    <3> QED BY <3>1, <3>2
  <2> QED BY <2>1, <2>2
<1> QED BY <1>2, <1>3

NewBits(op, V, U) == IF op = "W" THEN U ELSE IF op = "S" THEN V \cup U ELSE V \ U

LEMMA CsrNewTyped ==
  ASSUME NEW i, IsCsr(i), NEW v \in W!Cell, NEW w \in W!Cell
  PROVE  /\ CsrNew(i.op, v, w) \in W!Cell
         /\ W!Bits(CsrNew(i.op, v, w)) = NewBits(i.op, W!Bits(v), W!Bits(w))
<1>1. W!Bits(v) \cup W!Bits(w) \in SUBSET W!Lanes /\ W!Bits(v) \ W!Bits(w) \in SUBSET W!Lanes
  BY CellOfBits
<1> QED BY <1>1, CellOfIs DEF CsrNew, IsCsr, NewBits

\* A write to T0 is none to the guest.
LEMMA HasT0 ==
  ASSUME NEW c, NEW i, NEW p, NEW m, NEW q, NEW n, NEW s, Has(i, n, s), NEW v,
         Gets(c, i, p, m, q, Written(n, T0, v))
  PROVE  Has(i, Written(n, T0, v), s) /\ Written(n, T0, v)[T0] = v
<1> DEFINE l == Written(n, T0, v)
<1>1. Good(i, n) /\ Good(i, l)
  BY DEF Has, Gets
<1>2. T0 \in NamesOf(i) /\ T0 \in Writable(i)
  BY ScratchAre DEF Writable
<1>3. l[T0] = v /\ Alike(i, n, l, Temps)
  <2>1. l[T0] = v /\ \A x \in NamesOf(i) : x # T0 => l[x] = n[x]
    BY <1>1, <1>2 DEF Written, Good
  <2> QED BY <2>1 DEF Alike, Temps
<1> HIDE DEF l
<1>4. Has(i, l, s)
  BY <1>1, <1>3, ScratchIsPrivate, HasStill
<1> QED BY <1>3, <1>4 DEF l

LEMMA RunsCsrNew ==
  ASSUME NEW c, NEW i, Lowerable(i), i.kind = "csr", IsCsr(i),
         NEW p, NEW m, NEW q, NEW n, Gets(c, i, p, m, q, n), NEW s, Has(i, n, s),
         Holds(c, q, CsrNew32(i))
  PROVE  \E l : /\ Gets(c, i, p, m, q + CsrSize(i), l) /\ Has(i, l, s)
                /\ l[T0] = CsrNew(i.op, s.csr[i.csr], CsrSource(i, s))
<1> DEFINE v == s.csr[i.csr]
           w == CsrSource(i, s)
           k == CSR(i.csr)
<1>1. /\ i.csr \in CsrNames /\ i.op \in {"W", "S", "C"}
      /\ i.zimm => i.src \in 0 .. 31
      /\ ~i.zimm => i.src \in Regs
  BY DEF Lowerable, IsCsr
<1>2. /\ Good(i, n) /\ s \in GuestStates /\ k \in NamesOf(i) /\ n[k] = v /\ v \in W!Cell /\ w \in W!Cell
      /\ T0 \in NamesOf(i) /\ T0 \in Writable(i) /\ Z \in NamesOf(i) /\ n[Z] = 0 /\ k # T0 /\ Z # T0
      /\ q \in Nat
  <2>1. Good(i, n) /\ s \in GuestStates /\ k \in NamesOf(i) /\ n[k] = v /\ k # T0 /\ q \in Nat
    BY <1>1, CsrCell DEF Has, Holds
  <2>2. v \in W!Cell /\ w \in W!Cell
    BY <1>1, <2>1, ZimmBits DEF CsrSource, GuestStates
  <2> QED BY <2>1, <2>2, LowAre, ScratchAre, PoolValues DEF Writable, Z, T0
<1>21. i.zimm => w = i.src
  BY DEF CsrSource
<1>22. ~i.zimm => w = s.x[i.src]
  BY DEF CsrSource
<1> HIDE DEF v, w
<1>24. /\ CsrNew(i.op, v, w) \in W!Cell
       /\ W!Bits(CsrNew(i.op, v, w)) = NewBits(i.op, W!Bits(v), W!Bits(w))
  <2>1. IsCsr(i) /\ v \in W!Cell /\ w \in W!Cell
    BY <1>2
  <2> QED BY <2>1, CsrNewTyped
<1>25. i.op = "W" => CsrNew(i.op, v, w) = w
  BY DEF CsrNew
<1> SUFFICES \E l : Gets(c, i, p, m, q + CsrSize(i), l) /\ Has(i, l, s) /\ l[T0] = CsrNew(i.op, v, w)
  BY DEF v, w
<1>3. CASE i.zimm
  <2> DEFINE a == ZimmBase(i)
             e == mov32(a, T0)
             z == Zimm(i)
             r == ZimmLength(i)
  <2>1. CsrNew32(i) = e \o z /\ Sized(e, 1) /\ Sized(z, r) /\ r \in Nat
        /\ q + CsrSize(i) = (q + 1) + r
    <3>1. CsrNew32(i) = e \o z
      BY <1>3, CsrNewIs
    <3>2. Sized(e, 1) /\ Sized(z, r) /\ r \in Nat
      BY <1>1, ZimmIs, SizesAre
    <3>3. q + CsrSize(i) = (q + 1) + r
      BY <1>2, <1>3, <3>2 DEF CsrSize
    <3> QED BY <3>1, <3>2, <3>3
  <2>2. Holds(c, q, e) /\ Holds(c, q + 1, z)
    <3> HIDE DEF e, z
    <3> QED BY <2>1, SizedSplit
  <2>3. a \in NamesOf(i) /\ n[a] = IF i.op = "W" THEN 0 ELSE v
    BY <1>2 DEF ZimmBase
  <2> HIDE DEF a
  <2> DEFINE n1 == Written(n, T0, n[a])
  <2>4. Gets(c, i, p, m, q + 1, n1)
    BY <1>2, <2>2, <2>3, MoveOn
  <2>5. Has(i, n1, s) /\ n1[T0] = n[a]
    BY <2>4, HasT0
  <2> HIDE DEF n1, r
  <2>6. PICK l : /\ Gets(c, i, p, m, (q + 1) + r, l) /\ Has(i, l, s)
                 /\ W!Bits(l[T0]) = Changed(i, W!Bits(n1[T0]))
    <3>1. i.src \in 0 .. 31 /\ (i.op = "W" => n1[T0] = 0)
      BY <1>1, <1>3, <2>3, <2>5
    <3>2. Gets(c, i, p, m, q + 1, n1) /\ Has(i, n1, s) /\ i.op \in {"W", "S", "C"}
          /\ Holds(c, q + 1, Zimm(i))
      BY <1>1, <2>2, <2>4, <2>5
    <3> DEFINE h == q + 1
    <3> HIDE DEF h
    <3>3. \E l : /\ Gets(c, i, p, m, h + ZimmLength(i), l) /\ Has(i, l, s)
                 /\ W!Bits(l[T0]) = Changed(i, W!Bits(n1[T0]))
      BY <3>1, <3>2, RunsZimm DEF h
    <3> QED BY <3>3 DEF r, h
  <2>7. l[T0] \in W!Cell
    BY <1>2, <2>6, GoodTyped DEF Has
  <2>8. w = i.src
    BY <1>3, <1>21
  <2>9. W!Bits(l[T0]) = W!Bits(CsrNew(i.op, v, w))
    BY <1>1, <1>24, <2>3, <2>5, <2>6, <2>8, NoBits DEF Changed, NewBits
  <2>10. l[T0] = CsrNew(i.op, v, w)
    BY <1>24, <2>7, <2>9, SameBits
  <2> QED BY <2>1, <2>6, <2>10
<1>4. CASE ~i.zimm
  <2> DEFINE x == X(i.src)
  <2>1. x \in NamesOf(i) /\ n[x] = w /\ x # T0
    <3>1. x \in Source(i) /\ n[x] = s.x[i.src]
      BY <1>1, <1>4, GuestCellsAre DEF Has
    <3> QED BY <1>4, <1>22, <3>1 DEF Source, Temps
  <2>2. CASE i.op = "W"
    <3>1. Holds(c, q, mov32(x, T0)) /\ CsrSize(i) = 1
      BY <1>4, <2>2, CsrNewIs DEF CsrSize
    <3> HIDE DEF x
    <3> DEFINE n1 == Written(n, T0, n[x])
    <3>2. Gets(c, i, p, m, q + 1, n1)
      BY <1>2, <2>1, <3>1, MoveOn
    <3>3. Has(i, n1, s) /\ n1[T0] = n[x]
      BY <3>2, HasT0
    <3> QED BY <1>25, <2>1, <2>2, <3>1, <3>2, <3>3
  <2>3. CASE i.op # "W"
    <3> DEFINE a == RegBase(i)
               e == mov32(a, T0)
               f == mux32op(k, T0, x)
    <3>1. CsrNew32(i) = e \o f /\ Sized(e, 1) /\ Sized(f, 1) /\ q + CsrSize(i) = (q + 1) + 1
      <4>1. CsrNew32(i) = e \o f
        BY <1>4, <2>3, CsrNewIs
      <4>2. Sized(e, 1) /\ Sized(f, 1)
        BY SizesAre
      <4>3. q + CsrSize(i) = (q + 1) + 1
        BY <1>2, <1>4, <2>3 DEF CsrSize
      <4> QED BY <4>1, <4>2, <4>3
    <3>2. Holds(c, q, e) /\ Holds(c, q + 1, f)
      <4> HIDE DEF e, f
      <4> QED BY <3>1, SizedSplit
    <3>3. a \in NamesOf(i) /\ n[a] = IF i.op = "S" THEN w ELSE 0
      BY <1>1, <1>2, <2>1, <2>3 DEF RegBase
    <3> HIDE DEF a, x, k
    <3> DEFINE n1 == Written(n, T0, n[a])
    <3>4. Gets(c, i, p, m, q + 1, n1)
      BY <1>2, <3>2, <3>3, MoveOn
    <3>5. Has(i, n1, s) /\ n1[T0] = n[a]
      BY <3>4, HasT0
    <3>6. n1[k] = v /\ n1[x] = w
      BY <1>2, <2>1, <3>4 DEF Written, Good
    <3> HIDE DEF n1
    <3> DEFINE n2 == Written(n1, T0, W!Select(n1[k], n1[T0], n1[x]))
    <3>7. Gets(c, i, p, m, (q + 1) + 1, n2)
      BY <1>2, <2>1, <3>2, <3>4, MuxOn
    <3>8. Has(i, n2, s) /\ n2[T0] = W!Select(v, n[a], w)
      BY <3>5, <3>6, <3>7, HasT0
    <3>9. W!Bits(n2[T0]) = W!Bits(CsrNew(i.op, v, w))
      <4>1. W!Bits(n2[T0]) = (W!Bits(v) \ W!Bits(w)) \cup (W!Bits(n[a]) \cap W!Bits(w))
        BY <3>8, SelectBits
      <4>2. CASE i.op = "S"
        <5>1. W!Bits(CsrNew(i.op, v, w)) = W!Bits(v) \cup W!Bits(w)
          BY <1>24, <4>2 DEF NewBits
        <5> QED BY <3>3, <4>1, <4>2, <5>1
      <4>3. CASE i.op = "C"
        <5>1. W!Bits(CsrNew(i.op, v, w)) = W!Bits(v) \ W!Bits(w)
          BY <1>24, <4>3 DEF NewBits
        <5> QED BY <3>3, <4>1, <4>3, <5>1, NoBits
      <4> QED BY <1>1, <2>3, <4>2, <4>3
    <3>10. n2[T0] \in W!Cell
      BY <3>8, SelectTyped
    <3>11. n2[T0] = CsrNew(i.op, v, w)
      BY <1>24, <3>9, <3>10, SameBits
    <3> QED BY <3>1, <3>7, <3>8, <3>11
  <2> QED BY <2>2, <2>3
<1> QED BY <1>3, <1>4

(* The four pieces of a CSR instruction.                                   *)
WritesCsr(i) == i.op = "W" \/ i.src # 0
Rearms(i) == WritesCsr(i) /\ i.csr = "mtimecmp"

CsrNewPiece(i) == MayBe(WritesCsr(i), CsrNew32(i))
CsrOldPiece(i) == MayBe(i.rd # 0, mov32(CSR(i.csr), X(i.rd)))
CsrSetPiece(i) == MayBe(WritesCsr(i), mov32(T0, CSR(i.csr)))
CsrArmPiece(i) == MayBe(Rearms(i), clearbit32(CSR("mip"), MTI))

CsrNewSize(i) == Worth(WritesCsr(i), CsrSize(i))
CsrOldSize(i) == Worth(i.rd # 0, 1)
CsrSetSize(i) == Worth(WritesCsr(i), 1)
CsrArmSize(i) == Worth(Rearms(i), 3)

LEMMA CsrIs ==
  ASSUME NEW i, IsCsr(i)
  PROVE  LET k == CsrNewSize(i) + CsrOldSize(i) + CsrSetSize(i) + CsrArmSize(i)
         IN  /\ Sized(emit_csr32(i), k) /\ k \in Nat /\ k <= 40
             /\ CsrNewSize(i) \in Nat /\ CsrOldSize(i) \in Nat /\ CsrSetSize(i) \in Nat /\ CsrArmSize(i) \in Nat
             /\ \A c, p : Holds(c, p, emit_csr32(i)) =>
                  /\ Holds(c, p, CsrNewPiece(i)) /\ Holds(c, p + CsrNewSize(i), CsrOldPiece(i))
                  /\ Holds(c, p + (CsrNewSize(i) + CsrOldSize(i)), CsrSetPiece(i))
                  /\ Holds(c, p + (CsrNewSize(i) + CsrOldSize(i) + CsrSetSize(i)), CsrArmPiece(i))
<1> DEFINE s1 == CsrNewPiece(i)
           s2 == CsrOldPiece(i)
           s3 == CsrSetPiece(i)
           s4 == CsrArmPiece(i)
           n1 == CsrNewSize(i)
           n2 == CsrOldSize(i)
           n3 == CsrSetSize(i)
           n4 == CsrArmSize(i)
           u2 == s1 \o s2
           u3 == u2 \o s3
           u4 == u3 \o s4
<1>1. Sized(s1, n1) /\ n1 \in Nat /\ n1 <= 31
  <2>1. Sized(CsrNew32(i), CsrSize(i)) /\ CsrSize(i) \in Nat /\ CsrSize(i) <= 31
    BY CsrNewSized
  <2>2. Worth(WritesCsr(i), CsrSize(i)) \in Nat /\ Worth(WritesCsr(i), CsrSize(i)) <= 31
    BY <2>1 DEF Worth
  <2> QED BY <2>1, <2>2, MayBeSized DEF CsrNewPiece, CsrNewSize
<1>2. Sized(s2, n2) /\ n2 \in Nat /\ n2 <= 1
  <2>1. Sized(mov32(CSR(i.csr), X(i.rd)), 1) /\ 1 \in Nat
    BY SizesAre
  <2> QED BY <2>1, MayBeSized DEF CsrOldPiece, CsrOldSize
<1>3. Sized(s3, n3) /\ n3 \in Nat /\ n3 <= 1
  <2>1. Sized(mov32(T0, CSR(i.csr)), 1) /\ 1 \in Nat
    BY SizesAre
  <2> QED BY <2>1, MayBeSized DEF CsrSetPiece, CsrSetSize
<1>4. Sized(s4, n4) /\ n4 \in Nat /\ n4 <= 3
  <2>1. Sized(clearbit32(CSR("mip"), MTI), 3) /\ 3 \in Nat
    BY SizesAre
  <2> QED BY <2>1, MayBeSized DEF CsrArmPiece, CsrArmSize
<1>5. emit_csr32(i) = u4
  BY DEF emit_csr32, CsrNewPiece, CsrOldPiece, CsrSetPiece, CsrArmPiece, MayBe, WritesCsr, Rearms
<1> HIDE DEF s1, s2, s3, s4, n1, n2, n3, n4
<1>6. n1 + n2 + n3 + n4 \in Nat /\ n1 + n2 + n3 + n4 <= 40
  BY <1>1, <1>2, <1>3, <1>4
<1>7. Sized(u2, n1 + n2) /\ \A c, p : Holds(c, p, u2) => Holds(c, p, s1) /\ Holds(c, p + n1, s2)
  BY <1>1, <1>2, SizedJoin, SizedSplit
<1>8. /\ Sized(u3, n1 + n2 + n3)
      /\ \A c, p : Holds(c, p, u3) => Holds(c, p, u2) /\ Holds(c, p + (n1 + n2), s3)
  <2> DEFINE r == n1 + n2
  <2>1. Sized(u2, r) /\ Sized(s3, n3)
    BY <1>3, <1>7
  <2> HIDE DEF u2, r
  <2>2. Sized(u2 \o s3, r + n3)
    BY <2>1, SizedJoin
  <2>3. ASSUME NEW c, NEW p, Holds(c, p, u2 \o s3)
        PROVE  Holds(c, p, u2) /\ Holds(c, p + r, s3)
    BY <2>1, <2>3, SizedSplit
  <2> QED BY <2>2, <2>3 DEF r
<1>9. /\ Sized(u4, n1 + n2 + n3 + n4)
      /\ \A c, p : Holds(c, p, u4) => Holds(c, p, u3) /\ Holds(c, p + (n1 + n2 + n3), s4)
  <2> DEFINE r == n1 + n2 + n3
  <2>1. Sized(u3, r) /\ Sized(s4, n4)
    BY <1>4, <1>8
  <2> HIDE DEF u3, r
  <2>2. Sized(u3 \o s4, r + n4)
    BY <2>1, SizedJoin
  <2>3. ASSUME NEW c, NEW p, Holds(c, p, u3 \o s4)
        PROVE  Holds(c, p, u3) /\ Holds(c, p + r, s4)
    BY <2>1, <2>3, SizedSplit
  <2> QED BY <2>2, <2>3 DEF r
<1> HIDE DEF u2, u3, u4
<1>10. \A c, p : Holds(c, p, u4) =>
         /\ Holds(c, p, s1) /\ Holds(c, p + n1, s2) /\ Holds(c, p + (n1 + n2), s3)
         /\ Holds(c, p + (n1 + n2 + n3), s4)
  BY <1>7, <1>8, <1>9
<1> QED BY <1>1, <1>2, <1>3, <1>4, <1>5, <1>6, <1>9, <1>10 DEF s1, s2, s3, s4, n1, n2, n3, n4

LEMMA RunsCsrOld ==
  ASSUME NEW c, NEW i, Lowerable(i), i.csr \in CsrNames, NEW p, NEW m, NEW q, NEW n,
         Gets(c, i, p, m, q, n), NEW s, Has(i, n, s), Holds(c, q, CsrOldPiece(i))
  PROVE  \E l : /\ Gets(c, i, p, m, q + CsrOldSize(i), l)
                /\ Has(i, l, IF i.rd = 0 THEN s ELSE RegSet(s, i.rd, s.csr[i.csr])) /\ l[T0] = n[T0]
<1> DEFINE d == X(i.rd)
           k == CSR(i.csr)
<1>1. i.rd \in Regs /\ Good(i, n) /\ n[k] = s.csr[i.csr] /\ q \in Nat
  BY DEF Lowerable, Has, Holds
<1>2. k \in NamesOf(i) /\ d \in Writable(i) /\ d # T0 /\ T0 \in NamesOf(i)
  <2>1. d \in Writable(i) \cap Source(i) /\ k \in NamesOf(i) /\ T0 \in NamesOf(i)
    BY <1>1, GuestCellsAre, CsrCell, ScratchAre DEF Writable
  <2> QED BY <2>1 DEF Source, Temps
<1>3. CASE i.rd = 0
  BY <1>1, <1>3 DEF CsrOldSize, Worth
<1>4. CASE i.rd # 0
  <2>1. Holds(c, q, mov32(k, d)) /\ CsrOldSize(i) = 1
    BY <1>4 DEF CsrOldPiece, CsrOldSize, MayBe, Worth
  <2> DEFINE l == Written(n, d, n[k])
  <2>2. Gets(c, i, p, m, q + 1, l)
    BY <1>2, <2>1, MoveOn
  <2>3. l[d] = n[k] /\ l[T0] = n[T0] /\ Alike(i, n, l, Plus({}, d))
    <3>1. Good(i, n) /\ d \in NamesOf(i)
      BY <1>1, <1>2 DEF Writable
    <3> HIDE DEF d, k
    <3>2. l[d] = n[k] /\ \A x \in NamesOf(i) : x # d => l[x] = n[x]
      BY <3>1 DEF Written, Good
    <3> QED BY <1>2, <3>2 DEF Alike, Plus
  <2>4. Good(i, l) /\ Private({})
    BY <2>2, ScratchIsPrivate DEF Gets
  <2> HIDE DEF l
  <2>5. Has(i, l, RegSet(s, i.rd, l[X(i.rd)]))
    BY <1>1, <1>4, <2>3, <2>4, HasReg
  <2> QED BY <1>1, <1>4, <2>1, <2>2, <2>3, <2>5
<1> QED BY <1>3, <1>4

LEMMA RunsCsrSet ==
  ASSUME NEW c, NEW i, i.csr \in CsrNames, NEW p, NEW m, NEW q, NEW n,
         Gets(c, i, p, m, q, n), NEW s, Has(i, n, s), Holds(c, q, CsrSetPiece(i))
  PROVE  \E l : /\ Gets(c, i, p, m, q + CsrSetSize(i), l)
                /\ Has(i, l, IF WritesCsr(i) THEN CsrSet(s, i.csr, n[T0]) ELSE s)
<1>1. CASE ~WritesCsr(i)
  <2>1. q \in Nat
    BY DEF Holds
  <2> QED BY <1>1, <2>1 DEF CsrSetSize, Worth
<1>2. CASE WritesCsr(i)
  <2>1. Holds(c, q, mov32(T0, CSR(i.csr))) /\ CsrSetSize(i) = 1
    BY <1>2 DEF CsrSetPiece, CsrSetSize, MayBe, Worth
  <2>2. T0 \in NamesOf(i)
    BY ScratchAre DEF Writable
  <2>3. \E l : Gets(c, i, p, m, q + 1, l) /\ Has(i, l, CsrSet(s, i.csr, n[T0]))
    BY <2>1, <2>2, CsrMoves
  <2> QED BY <1>2, <2>1, <2>3
<1> QED BY <1>1, <1>2

LEMMA RunsCsrArm ==
  ASSUME NEW c, NEW i, NEW p, NEW m, NEW q, NEW n,
         Gets(c, i, p, m, q, n), NEW s, Has(i, n, s), Holds(c, q, CsrArmPiece(i))
  PROVE  \E l : /\ Gets(c, i, p, m, q + CsrArmSize(i), l)
                /\ Has(i, l, IF Rearms(i) THEN CsrSet(s, "mip", Cleared(s.csr["mip"], MTI)) ELSE s)
<1>1. CASE ~Rearms(i)
  <2>1. q \in Nat
    BY DEF Holds
  <2> QED BY <1>1, <2>1 DEF CsrArmSize, Worth
<1>2. CASE Rearms(i)
  <2>1. Holds(c, q, clearbit32(CSR("mip"), MTI)) /\ CsrArmSize(i) = 3
    BY <1>2 DEF CsrArmPiece, CsrArmSize, MayBe, Worth
  <2>2. "mip" \in CsrNames /\ MTI \in W!Lanes
    BY SafepointNames
  <2>3. \E l : Gets(c, i, p, m, q + 3, l) /\ Has(i, l, CsrSet(s, "mip", Cleared(s.csr["mip"], MTI)))
    BY <2>1, <2>2, CsrClears
  <2> QED BY <1>2, <2>1, <2>3
<1> QED BY <1>1, <1>2

(* The state after a CSR instruction, piece by piece.                      *)
CsrRead(i, s)  == IF i.rd = 0 THEN s ELSE RegSet(s, i.rd, s.csr[i.csr])
CsrMade(i, s)  == IF WritesCsr(i)
                  THEN CsrSet(CsrRead(i, s), i.csr, CsrNew(i.op, s.csr[i.csr], CsrSource(i, s)))
                  ELSE CsrRead(i, s)
CsrDone(i, s)  == IF Rearms(i) THEN CsrSet(CsrMade(i, s), "mip", Cleared(CsrMade(i, s).csr["mip"], MTI))
                  ELSE CsrMade(i, s)

LEMMA RunsCsr ==
  ASSUME NEW c, NEW i, Lowerable(i), i.kind = "csr", NEW m, NEW s, Has(i, m, s),
         Holds(c, 1, emit_csr32(i))
  PROVE  \E l : /\ Gets(c, i, 1, m, 1 + (CsrNewSize(i) + CsrOldSize(i) + CsrSetSize(i) + CsrArmSize(i)), l)
                /\ Has(i, l, CsrDone(i, s))
<1> DEFINE n1 == CsrNewSize(i)
           n2 == CsrOldSize(i)
           n3 == CsrSetSize(i)
           n4 == CsrArmSize(i)
           v  == CsrNew(i.op, s.csr[i.csr], CsrSource(i, s))
           s2 == CsrRead(i, s)
           s3 == CsrMade(i, s)
<1>1. IsCsr(i) /\ i.csr \in CsrNames /\ Good(i, m)
  BY DEF Lowerable, IsCsr, Has
<1>2. /\ Holds(c, 1, CsrNewPiece(i)) /\ Holds(c, 1 + n1, CsrOldPiece(i))
      /\ Holds(c, 1 + (n1 + n2), CsrSetPiece(i)) /\ Holds(c, 1 + (n1 + n2 + n3), CsrArmPiece(i))
      /\ n1 \in Nat /\ n2 \in Nat /\ n3 \in Nat /\ n4 \in Nat
  BY <1>1, CsrIs
<1> HIDE DEF n1, n2, n3, n4, v, s2, s3
<1>3. PICK l1 : Gets(c, i, 1, m, 1 + n1, l1) /\ Has(i, l1, s) /\ (WritesCsr(i) => l1[T0] = v)
  <2>1. Gets(c, i, 1, m, 1, m)
    BY <1>1, GetsItself
  <2>2. CASE WritesCsr(i)
    <3>1. Holds(c, 1, CsrNew32(i)) /\ n1 = CsrSize(i)
      BY <1>2, <2>2 DEF CsrNewPiece, MayBe, CsrNewSize, Worth, n1
    <3>2. \E l : Gets(c, i, 1, m, 1 + CsrSize(i), l) /\ Has(i, l, s) /\ l[T0] = v
      BY <1>1, <2>1, <3>1, RunsCsrNew DEF v
    <3> QED BY <3>1, <3>2
  <2>3. CASE ~WritesCsr(i)
    <3>1. n1 = 0 /\ 1 + 0 = 1
      BY <2>3 DEF CsrNewSize, Worth, n1
    <3> QED BY <2>1, <2>3, <3>1
  <2> QED BY <2>2, <2>3
<1>4. PICK l2 : Gets(c, i, 1, m, 1 + (n1 + n2), l2) /\ Has(i, l2, s2) /\ l2[T0] = l1[T0]
  <2> DEFINE r == 1 + n1
  <2>1. r + n2 = 1 + (n1 + n2)
    BY <1>2
  <2> HIDE DEF r
  <2>2. \E l : Gets(c, i, 1, m, r + n2, l) /\ Has(i, l, s2) /\ l[T0] = l1[T0]
    BY <1>1, <1>2, <1>3, RunsCsrOld DEF s2, CsrRead, r, n2
  <2> QED BY <2>1, <2>2
<1>5. PICK l3 : Gets(c, i, 1, m, 1 + (n1 + n2 + n3), l3) /\ Has(i, l3, s3)
  <2> DEFINE r == 1 + (n1 + n2)
  <2>1. r + n3 = 1 + (n1 + n2 + n3)
    BY <1>2
  <2> HIDE DEF r
  <2>2. \E l : Gets(c, i, 1, m, r + n3, l) /\ Has(i, l, IF WritesCsr(i) THEN CsrSet(s2, i.csr, l2[T0]) ELSE s2)
    BY <1>1, <1>2, <1>4, RunsCsrSet DEF r, n3
  <2>3. s3 = IF WritesCsr(i) THEN CsrSet(s2, i.csr, l2[T0]) ELSE s2
    BY <1>3, <1>4 DEF s3, s2, v, CsrMade
  <2> QED BY <2>1, <2>2, <2>3
<1>6. PICK l4 : Gets(c, i, 1, m, 1 + (n1 + n2 + n3 + n4), l4) /\ Has(i, l4, CsrDone(i, s))
  <2> DEFINE r == 1 + (n1 + n2 + n3)
  <2>1. r + n4 = 1 + (n1 + n2 + n3 + n4)
    BY <1>2
  <2> HIDE DEF r
  <2>2. \E l : /\ Gets(c, i, 1, m, r + n4, l)
               /\ Has(i, l, IF Rearms(i) THEN CsrSet(s3, "mip", Cleared(s3.csr["mip"], MTI)) ELSE s3)
    BY <1>2, <1>5, RunsCsrArm DEF r, n4
  <2> QED BY <2>1, <2>2 DEF CsrDone, s3
<1> QED BY <1>6 DEF n1, n2, n3, n4

LEMMA RegSetOf ==
  ASSUME NEW x, NEW ram, NEW f, NEW r, NEW v
  PROVE  RegSet(GuestOf(x, ram, f), r, v) = GuestOf(Upd(x, r, v), ram, f)
BY DEF RegSet, GuestOf, Upd

\* What is left is what the ISA asks for.
LEMMA CsrDoneIs ==
  ASSUME NEW i, Lowerable(i), i.kind = "csr", NEW s \in GuestStates
  PROVE  Execute(i, s) = Goes(CsrDone(i, s), CsrDone(i, s).x, Following)
<1> DEFINE f == s.csr
           v == CsrNew(i.op, f[i.csr], CsrSource(i, s))
           x == Set(s.x, i.rd, f[i.csr])
           g == Upd(f, i.csr, v)
           h == Upd(g, "mip", Cleared(g["mip"], MTI))
           e == IF Rearms(i) THEN h ELSE IF WritesCsr(i) THEN g ELSE f
<1>1. s = GuestOf(s.x, s.ram, f) /\ i.csr \in CsrNames
  BY DEF GuestStates, GuestOf, Lowerable
<1>2. CsrRead(i, s) = GuestOf(x, s.ram, f)
  BY <1>1, RegSetOf DEF CsrRead, Set, Upd
<1> HIDE DEF v, x, f
<1>3. CsrMade(i, s) = GuestOf(x, s.ram, IF WritesCsr(i) THEN g ELSE f)
  BY <1>2, CsrSetOf DEF CsrMade, v, f
<1>4. CsrDone(i, s) = GuestOf(x, s.ram, e)
  <2>1. CASE Rearms(i)
    <3>1. CsrMade(i, s) = GuestOf(x, s.ram, g)
      BY <1>3, <2>1 DEF Rearms
    <3> HIDE DEF g
    <3> QED BY <2>1, <3>1, CsrSetOf DEF CsrDone
  <2>2. CASE ~Rearms(i)
    BY <1>3, <2>2 DEF CsrDone
  <2> QED BY <2>1, <2>2
<1>5. CsrWritten(f, i.csr, v) = IF i.csr = "mtimecmp" THEN h ELSE g
  BY DEF CsrWritten, Upd, Cleared
<1>6. Execute(i, s) = [Goes(s, x, Following) EXCEPT
                         !.csr = IF WritesCsr(i) THEN CsrWritten(f, i.csr, v) ELSE f]
  BY DEF Execute, ExecuteCsr, WritesCsr, CsrSource, v, x, f
<1>7. e = IF WritesCsr(i) THEN CsrWritten(f, i.csr, v) ELSE f
  BY <1>5 DEF Rearms
<1> HIDE DEF e
<1>8. Execute(i, s) = [x |-> x, ram |-> s.ram, csr |-> e, out |-> <<>>, at |-> Following]
  BY <1>6, <1>7 DEF Goes
<1>9. CsrDone(i, s).x = x /\ CsrDone(i, s).ram = s.ram /\ CsrDone(i, s).csr = e
  BY <1>4, CsrSetOf
<1> QED BY <1>8, <1>9 DEF Goes

LEMMA MeansCsr ==
  ASSUME NEW i, Lowerable(i), i.kind = "csr", NEW s \in GuestStates
  PROVE  Means(i, s)
<1> DEFINE c == emit_one32(i)
           m == Image(i, s)
           k == CsrNewSize(i) + CsrOldSize(i) + CsrSetSize(i) + CsrArmSize(i)
           q == 1 + k
<1>1. c = emit_csr32(i) /\ Piece(c) /\ Len(c) = k /\ k \in Nat /\ k <= 40
  <2>1. IsCsr(i)
    BY DEF Lowerable, IsCsr
  <2>2. c = emit_csr32(i)
    BY DEF emit_one32
  <2> QED BY <2>1, <2>2, CsrIs DEF Sized
<1> HIDE DEF k
<1>2. Holds(c, 1, emit_csr32(i)) /\ Short(c) /\ q = Len(c) + 1
  <2> HIDE DEF c
  <2> QED BY <1>1 DEF Holds, Piece, Short
<1>3. Has(i, m, s)
  BY HasImage
<1>4. PICK n : Gets(c, i, 1, m, q, n) /\ Has(i, n, CsrDone(i, s))
  <2> HIDE DEF c, m
  <2> QED BY <1>2, <1>3, RunsCsr DEF k
<1> HIDE DEF q
<1>5. WhereIn(c, q) = Following /\ q > Len(c)
  BY <1>2, WhereFollows
<1>6. Execute(i, s) = Goes(CsrDone(i, s), CsrDone(i, s).x, WhereIn(c, q))
  BY <1>5, CsrDoneIs
<1> QED BY <1>4, <1>5, <1>6, MeansHas
==============================================================================
