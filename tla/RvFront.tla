------------------------------- MODULE RvFront -------------------------------
(***************************************************************************)
(* The front end of rvopt: what it finds out about a guest program before  *)
(* it emits anything.  A program is a sequence of decoded instructions,    *)
(* records of Rv32i with the kinds of enum kind; node i is the instruction *)
(* at guest address 4 * (i - 1).  A displacement is kept as the address it *)
(* leads to.                                                               *)
(*                                                                         *)
(* The record g of the analyses: code, the flags indirect and timer, the   *)
(* sets leader, reach, roots and entries (etarget) of nodes, the functions *)
(* target, sys and folds on nodes, changed, whether the last round of the  *)
(* analyses changed anything, and smc, the nodes detect_smc objects to.    *)
(***************************************************************************)
EXTENDS Rv32i, SequencesExt

CONSTANTS
  RA, A7, A1, A2,  \* x1, and the registers of an ecall
  Used,            \* bytes of the guest image
  MaxRounds        \* bound: rounds of the analyses before they have settled

ASSUME RoundsAssumption == MaxRounds \in Nat \ {0}

NONE    == 0
Unknown == -1

Nodes(g)    == DOMAIN g.code
PcOf(i)     == 4 * (i - 1)
addr2node(g, a) == IF a % 4 = 0 /\ a \div 4 < Len(g.code) THEN a \div 4 + 1 ELSE NONE
Fall(g, i)  == IF i < Len(g.code) THEN i + 1 ELSE NONE

is_block_end(nd) == nd.kind \in {"ill", "jal", "jalr", "branch", "system", "mret"}

(* The fall-through edge decode_graph gives a node. *)
next(g, i) ==
  IF is_block_end(g.code[i]) /\ g.code[i].kind # "branch" THEN NONE ELSE Fall(g, i)

decode_graph(code, indirect, timer) ==
  LET g == [code |-> code]
  IN  [code |-> code, indirect |-> indirect, timer |-> timer, changed |-> TRUE,
       leader |-> {1}, reach |-> {}, roots |-> {}, entries |-> {}, smc |-> {},
       sys    |-> [i \in DOMAIN code |-> [kind |-> "none"]],
       folds  |-> [i \in DOMAIN code |-> Unknown],
       target |-> [i \in DOMAIN code |->
                     IF code[i].kind \in {"jal", "branch"} THEN addr2node(g, code[i].target)
                     ELSE NONE]]

(***************************************************************************)
(* Constant propagation, in program order and within a block.              *)
(***************************************************************************)
Clear == [r \in Regs |-> IF r = 0 THEN 0 ELSE Unknown]

is_addi(nd) == nd.kind = "opimm" /\ nd.f = "ADD"
is_li(nd)   == is_addi(nd) /\ nd.rs1 = 0 /\ nd.rd # 0        \* FOLD_LI12
is_dead(nd) == is_addi(nd) /\ nd.rd = 0                      \* FOLD_DEADI

ValueLearnt(c, nd) ==
  CASE nd.kind = "lui"   -> nd.imm
    [] nd.kind = "auipc" -> W!Wrap(nd.pc + nd.imm)
    [] is_addi(nd) /\ c[nd.rs1] # Unknown -> W!Wrap(c[nd.rs1] + nd.imm)
    [] OTHER -> Unknown

cprop_update(c, nd) == IF nd.rd = 0 THEN c ELSE [c EXCEPT ![nd.rd] = ValueLearnt(c, nd)]

(* A pass over the program in order: Visit sees the constants known before *)
(* node i and may change the graph, leaders ahead included; Learn gives    *)
(* the constants after node i; a leader forgets them all.                  *)
Scan(graph, Visit(_, _, _), Learn(_, _, _)) ==
  LET after[i \in 0 .. Len(graph.code)] ==
        IF i = 0 THEN [g |-> graph, c |-> Clear]
        ELSE LET before == after[i - 1]
                 c == IF i \in before.g.leader THEN Clear ELSE before.c
                 g == Visit(before.g, c, i)
             IN  [g |-> g, c |-> Learn(g, c, i)]
  IN  IF graph.code = <<>> THEN graph ELSE after[Len(graph.code)].g

Pass(graph, Visit(_, _, _)) ==
  Scan(graph, Visit, LAMBDA g, c, i : cprop_update(c, g.code[i]))

(***************************************************************************)
(* System calls, control flow, reachability.                               *)
(***************************************************************************)
ResolvedEcall(c) ==
  CASE c[A7] = 93 -> [kind |-> "exit"]
    [] c[A7] = 64 -> IF c[A1] # Unknown /\ c[A2] # Unknown /\ c[A1] + c[A2] <= Used
                     THEN [kind |-> "write", buf |-> c[A1], len |-> c[A2]]
                     ELSE [kind |-> "write_dyn"]
    [] OTHER -> [kind |-> "bad"]

SyscallAt(g, c, i) ==
  [g EXCEPT !.sys[i] =
     IF g.code[i].kind # "system" THEN [kind |-> "none"]
     ELSE IF g.code[i].op = "ebreak" THEN [kind |-> "bad"]
     ELSE ResolvedEcall(c)]

analyze_syscalls(graph) == Pass(graph, SyscallAt)

is_link_call(nd) == nd.kind \in {"jal", "jalr"} /\ nd.rd = RA

successors(g, i) ==
  LET nd   == g.code[i]
      ends == \/ nd.kind \in {"ill", "mret"}
              \/ nd.kind \in {"jal", "jalr"} /\ ~is_link_call(nd)
              \/ g.sys[i].kind = "exit"
  IN  {IF ends THEN NONE ELSE Fall(g, i), g.target[i]} \ {NONE}

(* No node is more steps away than there are nodes.                        *)
ReachedFrom(g, start) ==
  LET seen[n \in 0 .. Len(g.code)] ==
        IF n = 0 THEN start
        ELSE LET before == seen[n - 1]
             IN  before \cup UNION {successors(g, i) : i \in before}
  IN  seen[Len(g.code)]

mark_reachable(g) == ReachedFrom(g, {1} \cup g.roots)

reaches_after(g, from, to) == to \in ReachedFrom(g, successors(g, from))

mark_leaders(g, reach) ==
  LET ends == {i \in reach : is_block_end(g.code[i])}
  IN  ({g.target[i] : i \in reach} \cup {Fall(g, i) : i \in ends}) \ {NONE}

(***************************************************************************)
(* Jumps through registers.                                                *)
(***************************************************************************)
Even(a) == WithBit(a, 0, FALSE)

JalrAt(reach, g, c, i) ==
  LET nd  == g.code[i]
      tgt == IF i \in reach /\ c[nd.rs1] # Unknown
             THEN addr2node(g, Even(W!Wrap(c[nd.rs1] + nd.imm))) ELSE NONE
  IN  IF nd.kind # "jalr" THEN g
      ELSE [g EXCEPT !.target[i] = tgt, !.leader = @ \cup ({tgt} \ {NONE})]

resolve_jalr(graph, reach) == Pass(graph, LAMBDA g, c, i : JalrAt(reach, g, c, i))

(* Words stored that are addresses of code other than the entry.           *)
EntryAt(reach, g, c, i) ==
  LET nd == g.code[i]
      a  == Even(c[nd.rs2])
      tn == addr2node(g, a)
  IN  IF /\ i \in reach /\ nd.kind = "store" /\ nd.f = "W"
         /\ c[nd.rs2] # Unknown
         /\ a # 0 /\ tn # NONE /\ g.code[tn].kind # "ill"
      THEN [g EXCEPT !.entries = @ \cup {tn}, !.roots = @ \cup {tn}, !.leader = @ \cup {tn}]
      ELSE g

collect_entry_targets(graph, reach) == Pass(graph, LAMBDA g, c, i : EntryAt(reach, g, c, i))

(* The node each write of mtvec installs, NONE if that is not known.       *)
VectorsWritten(graph, reach) ==
  LET visit(g, c, i) ==
        LET nd == g.code[i]
            v  == IF nd.zimm THEN nd.src ELSE c[nd.src]
        IN  IF i \in reach /\ nd.kind = "csr" /\ nd.csr = "mtvec" /\ (nd.op = "W" \/ nd.src # 0)
            THEN [g EXCEPT !.smc = @ \cup
                    {IF nd.op # "W" \/ v = Unknown THEN NONE ELSE addr2node(g, Even(v))}]
            ELSE g
  IN  Pass([graph EXCEPT !.smc = {}], visit).smc

resolve_mtvec(g, reach) ==
  LET vectors == VectorsWritten(g, reach)
  IN  IF Cardinality(vectors) = 1 THEN CHOOSE v \in vectors : TRUE ELSE NONE

(* Mutant of SmcAt: only the first byte of the store is looked at.         *)
SmcAtFirstByte(g, c, i) ==
  LET nd   == g.code[i]
      hits == addr2node(g, 4 * (W!Wrap(c[nd.rs1] + nd.imm) \div 4))
  IN  IF /\ i \in g.reach /\ nd.kind = "store" /\ c[nd.rs1] # Unknown
         /\ hits # NONE /\ reaches_after(g, i, hits)
      THEN [g EXCEPT !.smc = @ \cup {i}] ELSE g

(* A store to a constant address in code that may still run.               *)
SmcAt(g, c, i) ==
  LET nd   == g.code[i]
      base == W!Wrap(c[nd.rs1] + nd.imm)
      hit(b) == addr2node(g, 4 * (W!Wrap(base + b) \div 4))
  IN  IF /\ i \in g.reach /\ nd.kind = "store" /\ c[nd.rs1] # Unknown
         /\ \E b \in 0 .. BytesOf(nd.f) - 1 :
              hit(b) # NONE /\ reaches_after(g, i, hit(b))
      THEN [g EXCEPT !.smc = @ \cup {i}] ELSE g

detect_smc(graph) == Pass(graph, SmcAt)

(***************************************************************************)
(* The loop of emit_mux in which leaders, system calls, reachability and   *)
(* jump targets settle, each depending on the others.                      *)
(***************************************************************************)
WithLeaders(g) ==
  LET cold == [g EXCEPT !.sys = [i \in Nodes(g) |-> [kind |-> "none"]]]
  IN  [g EXCEPT !.leader = @ \cup mark_leaders(cold, mark_reachable(cold))]

WithReach(g)   == [g EXCEPT !.reach = mark_reachable(g)]
WithJumps(g)   == resolve_jalr(g, g.reach)
WithEntries(g) == IF g.indirect THEN collect_entry_targets(g, g.reach) ELSE g

WithTrap(g) ==
  LET trap == {IF g.timer THEN resolve_mtvec(g, g.reach) ELSE NONE} \ {NONE}
  IN  [g EXCEPT !.roots = @ \cup trap, !.leader = @ \cup trap]

Same(g, h) == /\ g.leader = h.leader /\ g.target = h.target
              /\ g.roots = h.roots /\ g.entries = h.entries

Round(g) ==
  LET h == WithTrap(WithEntries(WithJumps(WithReach(analyze_syscalls(WithLeaders(g))))))
  IN  [h EXCEPT !.changed = ~Same(g, h)]

SettleFrom(graph) ==
  LET after[n \in 0 .. MaxRounds] ==
        IF n = 0 THEN graph
        ELSE LET g == after[n - 1] IN IF g.changed THEN Round(g) ELSE g
  IN  after[MaxRounds]

front_end(code, indirect, timer) == detect_smc(SettleFrom(decode_graph(code, indirect, timer)))
==============================================================================
