-------------------------------- MODULE RvOpt --------------------------------
(***************************************************************************)
(* What rvopt decides before it emits: the folds, the loads forwarded from *)
(* stores, the loops whose memory words live in cells of their own, the    *)
(* return sites, the safepoints, and how many immediate cells each pass    *)
(* thinks an instruction has.  The last part says what one node is lowered *)
(* to, as an instruction of Rv32i whose block module Lowering checks.      *)
(***************************************************************************)
EXTENDS RvFront

CONSTANTS PROMO_MAX_LOOPS, PROMO_MAX_SLOTS

InOrder(g, nodes) == SelectSeq([k \in Nodes(g) |-> k], LAMBDA k : k \in nodes)

Shifting(nd) == nd.f \in {"SLL", "SRL", "SRA"}
is_mv(nd)    == is_addi(nd) /\ nd.imm = 0 /\ nd.rs1 # 0 /\ nd.rd # 0

(* An immediate operation on a constant becomes the constant it computes.  *)
FoldAt(g, c, i) ==
  LET nd == g.code[i]
  IN  IF /\ i \in g.reach /\ nd.kind = "opimm" /\ nd.rd # 0 /\ ~Shifting(nd)
         /\ c[nd.rs1] # Unknown /\ ~is_li(nd) /\ ~is_mv(nd)
      THEN [g EXCEPT !.folds[i] = Alu(nd.f, c[nd.rs1], nd.imm)] ELSE g

FoldLearnt(g, c, i) ==
  IF g.folds[i] # Unknown THEN [c EXCEPT ![g.code[i].rd] = g.folds[i]]
  ELSE cprop_update(c, g.code[i])

compute_folds(graph) == Scan(graph, FoldAt, FoldLearnt)

(***************************************************************************)
(* Store-to-load forwarding: the register whose value word load i finds in *)
(* memory, or Unknown.                                                     *)
(***************************************************************************)
Writes(nd, r) == r # 0 /\ nd.rd = r

SameBlock(g, m, i) == \A k \in m + 1 .. i : k \notin g.leader

Untouched(g, m, i, r) == \A k \in m + 1 .. i - 1 : ~Writes(g.code[k], r)

Disjoint(s, l) == s.imm + BytesOf(s.f) <= l.imm \/ l.imm + BytesOf(l.f) <= s.imm

StoresBefore(g, i) ==
  {m \in 1 .. i - 1 : /\ g.code[m].kind = "store" /\ SameBlock(g, m, i)
                      /\ Untouched(g, m, i, g.code[i].rs1)}

(* Mutant of Forwarded: a store through another base is walked past.       *)
ForwardedPastBase(g, i) ==
  LET l == g.code[i]
      S == {m \in StoresBefore(g, i) : g.code[m].rs1 = l.rs1 /\ ~Disjoint(g.code[m], l)}
      s == g.code[Max(S)]
  IN  IF S # {} /\ s.imm = l.imm /\ s.f = "W" /\ Untouched(g, Max(S), i, s.rs2)
      THEN s.rs2 ELSE Unknown

(* The walk back stops at the last store that may overlap the load: only   *)
(* if that one stored exactly the loaded word does its register serve.     *)
Forwarded(g, i) ==
  LET l == g.code[i]
      S == {m \in StoresBefore(g, i) : g.code[m].rs1 = l.rs1 => ~Disjoint(g.code[m], l)}
      s == g.code[Max(S)]
  IN  IF /\ S # {} /\ s.rs1 = l.rs1 /\ s.imm = l.imm /\ s.f = "W"
         /\ Untouched(g, Max(S), i, s.rs2)
      THEN s.rs2 ELSE Unknown

compute_forwards(g) ==
  [i \in Nodes(g) |->
     IF /\ i \in g.reach /\ g.code[i].kind = "load" /\ g.code[i].f = "W"
        /\ g.code[i].rd # 0 /\ ~g.timer
     THEN Forwarded(g, i) ELSE Unknown]

(***************************************************************************)
(* Register promotion: loops whose only memory is words at fixed offsets   *)
(* from one base.  The edges counted come from node 1 on, not from START.  *)
(***************************************************************************)
CallReturn(g, k) ==
  IF is_link_call(g.code[k]) \/ g.code[k].kind = "system" THEN Fall(g, k) ELSE NONE

is_mem(nd) == nd.kind \in {"load", "store"}

(* Mutant of EntryEdges: the returns of calls are not counted.             *)
EntryEdgesNoReturns(g, body) ==
  [jump   |-> {k \in Nodes(g) \ body : {g.target[k], next(g, k)} \cap body # {}},
   return |-> {}]

EntryEdges(g, body) ==
  [jump   |-> {k \in Nodes(g) \ body : {g.target[k], next(g, k)} \cap body # {}},
   return |-> {k \in Nodes(g) \ body : CallReturn(g, k) \in body}]

ExitEdges(g, exit) == {k \in Nodes(g) : exit \in {next(g, k), g.target[k], CallReturn(g, k)}}

(* The loop that closes at latch; its slots are their offsets.             *)
LoopAt(g, latch) ==
  LET body == g.target[latch] .. latch
      in   == EntryEdges(g, body)
      from == in.jump \cup in.return
      mem  == {k \in body : is_mem(g.code[k])}
  IN  [header |-> g.target[latch], latch |-> latch, exit |-> next(g, latch), body |-> body,
       entries |-> in, entry |-> Min(IF from = {} THEN {latch} ELSE from),
       mem |-> mem, base |-> g.code[Min(mem \cup {latch})].rs1,
       slots |-> {g.code[k].imm : k \in mem}]

Promotable(g, latch) ==
  LET lp == LoopAt(g, latch)
      e  == g.code[lp.entry]
  IN  /\ latch \in g.reach /\ g.target[latch] # NONE /\ g.target[latch] < latch
      /\ g.code[latch].kind \in {"branch", "jal"}
      /\ \A k \in lp.body \ {latch} : g.target[k] = NONE /\ ~is_block_end(g.code[k])
      /\ Cardinality(lp.entries.jump) + Cardinality(lp.entries.return) = 1
      /\ lp.exit # NONE /\ Cardinality(ExitEdges(g, lp.exit)) = 1
      /\ lp.mem # {}
      /\ \A k \in lp.mem : g.code[k].f = "W" /\ g.code[k].rs1 = lp.base
      /\ \A k \in lp.body : ~Writes(g.code[k], lp.base)
      /\ Cardinality(lp.slots) <= PROMO_MAX_SLOTS
      /\ \A a, b \in lp.slots : a # b => a + BytesOf("W") <= b \/ b + BytesOf("W") <= a
      /\ ~Writes(e, lp.base) /\ e.kind # "store" /\ ~is_link_call(e) /\ e.kind # "system"

compute_promotions(g) ==
  IF g.timer \/ g.indirect THEN <<>>
  ELSE LET found == InOrder(g, {l \in Nodes(g) : Promotable(g, l)})
       IN  [k \in 1 .. Min({Len(found), PROMO_MAX_LOOPS}) |-> LoopAt(g, found[k])]

(* A loop is given up if its entry or exit node already carries another    *)
(* loop's transfer, or is both.                                            *)
assign_promo_slots(loops) ==
  LET kept[k \in 0 .. Len(loops)] ==
        IF k = 0 THEN {}
        ELSE LET lp    == loops[k]
                 taken == UNION {{o.entry, o.exit} : o \in kept[k - 1]}
             IN  IF lp.entry = lp.exit \/ {lp.entry, lp.exit} \cap taken # {}
                 THEN kept[k - 1] ELSE kept[k - 1] \cup {lp}
  IN  kept[Len(loops)]

(***************************************************************************)
(* Return sites, safepoints, and the program rvopt agrees to lower.        *)
(***************************************************************************)
Sites(g) == {i \in g.reach : is_link_call(g.code[i]) /\ Fall(g, i) # NONE}

ret_site_matches(g, site, ret) ==
  \/ g.target[site] \in {NONE, ret}
  \/ reaches_after(g, g.target[site], ret)

RetSites(g, ret) == {Fall(g, site) : site \in {s \in Sites(g) : ret_site_matches(g, s, ret)}}

jalr_is_ret_dispatch(g, i) ==
  LET nd == g.code[i]
  IN  /\ nd.rd = 0 /\ nd.rs1 = RA /\ nd.imm = 0
      /\ g.entries # {} \/ RetSites(g, i) # {}

Safepoints(g) ==
  IF ~g.timer THEN {}
  ELSE {t \in g.reach : \E i \in g.reach : g.target[i] = t /\ t <= i}

block_insn_count(g, i) ==
  1 + Min({j \in i .. Len(g.code) : \/ j = Len(g.code) \/ is_block_end(g.code[j])
                                    \/ j + 1 \in g.leader}) - i

JumpsPastEnd(g, nd) == nd.target = 4 * Len(g.code)

Supported(g) ==
  /\ ~g.changed
  /\ g.smc = {}
  /\ g.timer => resolve_mtvec(g, g.reach) # NONE
  /\ \A i \in g.reach :
       LET nd == g.code[i]
       IN  /\ nd.kind # "ill" /\ g.sys[i].kind # "bad"
           /\ nd.kind \in {"jal", "branch"} => g.target[i] # NONE \/ JumpsPastEnd(g, nd)
           /\ nd.kind = "jalr" => \/ g.target[i] # NONE \/ jalr_is_ret_dispatch(g, i)
                                  \/ g.entries # {}
           /\ nd.kind = "mret" => g.timer

(* With a store about, a write reads the RAM and not the image.            *)
demote_writes(g) ==
  IF \E i \in g.reach : g.code[i].kind = "store"
  THEN [g EXCEPT !.sys = [i \in Nodes(g) |-> IF @[i].kind = "write" THEN [kind |-> "write_dyn"]
                                             ELSE @[i]]]
  ELSE g

(***************************************************************************)
(* The immediate cells of node i: the values its block reads, the values   *)
(* filled in and how many were counted.  Three passes, three predicates.   *)
(***************************************************************************)
Opt(b, v)   == IF b THEN <<v>> ELSE <<>>
link(nd)    == W!Wrap(nd.pc + 4)
upper(nd)   == IF nd.kind = "lui" THEN nd.imm ELSE W!Wrap(nd.pc + nd.imm)
by_entry(g, i) == g.target[i] = NONE /\ g.entries # {} /\ ~jalr_is_ret_dispatch(g, i)
is_imm_alu(nd) == nd.kind = "opimm" /\ nd.rd # 0 /\ ~Shifting(nd)

(* What emit_one32 takes.                                                  *)
ImmTaken(g, i) ==
  LET nd == g.code[i]
  IN  CASE nd.kind = "opimm" /\ is_dead(nd) -> <<>>
        [] nd.kind = "opimm" /\ ~is_dead(nd) ->
             IF g.folds[i] # Unknown THEN <<g.folds[i]>>
             ELSE Opt(is_imm_alu(nd) /\ ~is_mv(nd), nd.imm)
        [] nd.kind = "jal" -> Opt(nd.rd # 0, link(nd))
        [] nd.kind \in {"lui", "auipc"} -> Opt(nd.rd # 0, upper(nd))
        [] is_mem(nd) -> <<nd.imm>>
        [] nd.kind = "jalr" /\ g.target[i] # NONE -> Opt(nd.rd # 0, link(nd))
        [] nd.kind = "jalr" /\ by_entry(g, i) -> Opt(nd.imm # 0, nd.imm) \o Opt(nd.rd # 0, link(nd))
        [] OTHER -> <<>>

(* What the pass that sizes the image counts.                              *)
ImmCounted(g, i) ==
  LET nd == g.code[i]
  IN  CASE is_dead(nd) -> 0
        [] is_mem(nd)  -> 1
        [] nd.kind = "opimm" /\ ~is_dead(nd) -> Flag(is_imm_alu(nd) /\ ~is_mv(nd))
        [] nd.kind \in {"jal", "lui", "auipc"} -> Flag(nd.rd # 0)
        [] nd.kind = "jalr" /\ g.target[i] # NONE -> Flag(nd.rd # 0)
        [] nd.kind = "jalr" /\ by_entry(g, i) -> Flag(nd.imm # 0) + Flag(nd.rd # 0)
        [] OTHER -> 0

(* Mutant of imm_op32: a register copy is given a cell.                    *)
imm_op32WithMv(nd) ==
  \/ is_imm_alu(nd)
  \/ nd.kind \in {"lui", "auipc", "jal"} /\ nd.rd # 0
  \/ is_mem(nd)

imm_op32(nd) ==
  \/ is_imm_alu(nd) /\ ~is_mv(nd)
  \/ nd.kind \in {"lui", "auipc", "jal"} /\ nd.rd # 0
  \/ is_mem(nd)

imm_value32(nd) ==
  CASE nd.kind \in {"jal", "jalr"} -> link(nd)
    [] nd.kind = "auipc" -> upper(nd)
    [] OTHER -> nd.imm

(* What the loop that prints the data section fills in.                    *)
ImmFilled(g, i) ==
  LET nd == g.code[i]
  IN  IF nd.kind = "jalr"
      THEN IF by_entry(g, i) THEN Opt(nd.imm # 0, nd.imm) \o Opt(nd.rd # 0, link(nd))
           ELSE Opt(nd.rd # 0 /\ g.target[i] # NONE, link(nd))
      ELSE Opt(imm_op32(nd), IF g.folds[i] # Unknown THEN g.folds[i] ELSE imm_value32(nd))

(***************************************************************************)
(* What a node is lowered to.                                              *)
(***************************************************************************)
Addresses(nodes) == {PcOf(i) : i \in nodes}

LoweredJalr(g, i) ==
  LET nd == g.code[i]
  IN  CASE g.target[i] # NONE -> [nd EXCEPT !.kind = "jal", !.target = PcOf(g.target[i])]
        [] g.target[i] = NONE /\ jalr_is_ret_dispatch(g, i) ->
             [nd EXCEPT !.kind = "ret", !.known = Addresses(RetSites(g, i) \cup g.entries)]
        [] OTHER -> [nd EXCEPT !.known = Addresses(g.entries)]

LoweredSystem(g, i) ==
  LET nd == g.code[i]
  IN  CASE g.sys[i].kind = "exit"      -> [nd EXCEPT !.kind = "exit"]
        [] g.sys[i].kind = "write_dyn" -> [nd EXCEPT !.kind = "write", !.rs1 = A1, !.rs2 = A2]
        [] g.sys[i].kind = "write"     -> [nd EXCEPT !.kind = "put"]

Lowered(g, i) ==
  LET nd == g.code[i]
      const(v) == [nd EXCEPT !.kind = "const", !.imm = v]
      dead == \/ nd.kind \in {"fence", "wfi"}
              \/ nd.kind \in {"op", "opimm", "lui", "auipc"} /\ nd.rd = 0
  IN  CASE dead                               -> [nd EXCEPT !.kind = "nop"]
        [] ~dead /\ g.folds[i] # Unknown      -> const(g.folds[i])
        [] is_li(nd)                          -> const(nd.imm)
        [] is_mv(nd) /\ g.folds[i] = Unknown  -> [nd EXCEPT !.kind = "mv"]
        [] ~dead /\ nd.kind \in {"lui", "auipc"} -> const(upper(nd))
        [] nd.kind = "jalr"                   -> LoweredJalr(g, i)
        [] nd.kind = "system"                 -> LoweredSystem(g, i)
        [] nd.kind = "mret"                   ->
             [nd EXCEPT !.known = Addresses(Safepoints(g) \cup g.entries)]
        [] OTHER                              -> nd

(* The safepoint in front of node i.                                       *)
SafepointAt(g, i) ==
  [Blank EXCEPT !.kind = "safepoint", !.pc = PcOf(i), !.count = block_insn_count(g, i),
                !.mtvec = PcOf(resolve_mtvec(g, g.reach)), !.mcause = W!SignBit + MTI]

(* All of emit_mux's decisions about a program, g being what the front end *)
(* and the folds have made of it.                                          *)
PlanOf(g, ok, emitted) ==
  LET slots(f(_)) == FlattenSeq([i \in Nodes(g) |-> IF i \in emitted THEN f(i) ELSE <<>>])
      taken(i)    == ImmTaken(g, i)
      filled(i)   == ImmFilled(g, i)
      counted[i \in 0 .. Len(g.code)] ==
        IF i = 0 THEN 0 ELSE counted[i - 1] + IF i \in emitted THEN ImmCounted(g, i) ELSE 0
  IN  [g |-> g, ok |-> ok,
       fwd   |-> compute_forwards(g),
       loops |-> assign_promo_slots(compute_promotions(g)),
       imm   |-> [taken |-> slots(taken), filled |-> slots(filled),
                  counted |-> counted[Len(g.code)]],
       safe  |-> [i \in Safepoints(g) \cap emitted |-> SafepointAt(g, i)],
       block |-> [i \in emitted |-> Lowered(g, i)]]

Planned(g, ok) == PlanOf(g, ok, IF ok THEN g.reach ELSE {})
Judged(g)      == Planned(g, Supported(g))

Compile(code, indirect, timer) ==
  Judged(demote_writes(compute_folds(front_end(code, indirect, timer))))
==============================================================================
