------------------------------- MODULE RvImage -------------------------------
(***************************************************************************)
(* The image rvopt emits for a guest program, running: the block of each   *)
(* reachable node in order, with the transfers of the promoted loops and   *)
(* the safepoints in front of the nodes they were attached to.  A step is  *)
(* a block; that a block does what Execute says of its instruction is what *)
(* module Lowering checks.                                                 *)
(*                                                                         *)
(* A promoted word has a cell named by its loop's header and its offset.   *)
(***************************************************************************)
EXTENDS RvOpt

CONSTANTS
  Programs,        \* the programs to compile
  CodeOf(_),       \* their decoded words
  OptionsOf(_),    \* [indirect, timer]: the options rvopt is called with
  ImageOf(_)       \* the bytes of the guest image

ASSUME CodeAssumption ==
  \A p \in Programs : Len(CodeOf(p)) \in Nat /\ DOMAIN CodeOf(p) = 1 .. Len(CodeOf(p))

VARIABLES
  prog,            \* the program
  plan,            \* what rvopt made of it
  guest,           \* the register cells, the RAM window and the CSR cells
  cells,           \* the promoted words
  live,            \* history: the loops whose words have been loaded
  at,              \* the node to run, End, or Halted
  checked,         \* whether the safepoint of that node has been passed
  dirty,           \* history: emitted nodes whose word has been stored to,
  onpath,          \*   those whose last store successors() leads here from
  out              \* the bytes put

vars == <<prog, plan, guest, cells, live, at, checked, dirty, onpath, out>>

End  == Len(plan.g.code) + 1

(* na[i]: where the code of node i, or of the next one emitted, starts.    *)
Emitted(i) == Min({j \in plan.g.reach : j >= i} \cup {End})

NodeAt(r) ==
  CASE r.at = Following -> Emitted(at + 1)
    [] r.at = Halted    -> Halted
    [] OTHER            -> Emitted(r.at \div 4 + 1)

CellsOf(loops) == UNION {{<<lp.header, imm>> : imm \in lp.slots} : lp \in loops}

Init ==
  /\ prog \in Programs
  /\ plan = Compile(CodeOf(prog), OptionsOf(prog).indirect, OptionsOf(prog).timer)
  /\ plan.ok
  /\ guest = [x |-> [r \in Regs |-> 0], ram |-> ImageOf(prog), csr |-> [k \in CsrNames |-> 0]]
  /\ cells = [c \in CellsOf(plan.loops) |-> 0]
  /\ at = Emitted(1)
  /\ live = {} /\ checked = FALSE /\ dirty = {} /\ onpath = {} /\ out = <<>>

(***************************************************************************)
(* The transfers between the words of a promoted loop and their cells.     *)
(***************************************************************************)
WordAt(lp, imm) == At(guest.x[lp.base], imm)
Bytes(a)        == a .. a + BytesOf("W") - 1

Entered == {lp \in plan.loops : lp.entry = at}
Left    == {lp \in plan.loops : lp.exit = at}

(* emit_promo_transfer32 in front of a loop, and behind it.                *)
Loaded32 ==
  [c \in CellsOf(Entered) |->
     LET lp == CHOOSE l \in Entered : l.header = c[1]
     IN  Loaded(guest.ram, WordAt(lp, c[2]), BytesOf("W"))] @@ cells

StoredBack(lps) ==
  LET slots == UNION {{<<lp, imm>> : imm \in lp.slots} : lp \in lps}
  IN  [k \in DOMAIN guest.ram |->
         IF \E t \in slots : k \in Bytes(WordAt(t[1], t[2]))
         THEN LET t == CHOOSE u \in slots : k \in Bytes(WordAt(u[1], u[2]))
              IN  (cells[<<t[1].header, t[2]>>] \div 2 ^ (BYTE * (k - WordAt(t[1], t[2])))) % 2 ^ BYTE
         ELSE guest.ram[k]]

Arrived == [guest EXCEPT !.ram = StoredBack(Left)]

NodesOf(bytes) == {k \div 4 + 1 : k \in bytes} \cap plan.g.reach

Overwritten(nd) ==
  UNION {UNION {Bytes(WordAt(lp, imm)) : imm \in lp.slots} : lp \in Left}
  \cup IF nd.kind = "store"
       THEN At(guest.x[nd.rs1], nd.imm) .. At(guest.x[nd.rs1], nd.imm) + BytesOf(nd.f) - 1 ELSE {}

(***************************************************************************)
(* The blocks.                                                             *)
(***************************************************************************)
Block     == plan.block[at]
InLoop    == {lp \in plan.loops : at \in lp.mem}
Checks    == at \in DOMAIN plan.safe /\ ~checked
Running   == at \in DOMAIN plan.block /\ ~Checks

(* A transfer is on the path of successors() or, as every return, trap and *)
(* jump through a register without a known target, none of its edges.      *)
Along(nodes) == IF at' \in successors(plan.g, at) THEN nodes ELSE {}

Continue(r, cs, bytes) ==
  /\ guest' = [x |-> r.x, ram |-> r.ram, csr |-> r.csr]
  /\ cells' = cs
  /\ live' = (live \ Left) \cup Entered
  /\ at' = NodeAt(r)
  /\ dirty' = dirty \cup NodesOf(bytes)
  /\ onpath' = Along(onpath \cup NodesOf(bytes))
  /\ out' = out \o r.out
  /\ checked' = FALSE
  /\ UNCHANGED <<prog, plan>>

GoesOn(x) == Goes(Arrived, x, Following)

Safepoint ==
  LET r == Execute(plan.safe[at], guest)
  IN  /\ Checks
      /\ guest' = [guest EXCEPT !.csr = r.csr]
      /\ at' = IF r.at = Following THEN at ELSE NodeAt(r)
      /\ checked' = (r.at = Following)
      /\ onpath' = IF checked' THEN onpath ELSE {}
      /\ UNCHANGED <<prog, plan, cells, live, dirty, out>>

(* A load or store of a promoted word.                                     *)
CellMove ==
  /\ Running /\ InLoop # {}
  /\ LET lp == CHOOSE l \in InLoop : TRUE
         c  == <<lp.header, Block.imm>>
     IN  IF Block.kind = "load"
         THEN Continue(GoesOn(Set(guest.x, Block.rd, cells[c])), Loaded32, Overwritten(Blank))
         ELSE Continue(GoesOn(guest.x), [Loaded32 EXCEPT ![c] = guest.x[Block.rs2]], Overwritten(Blank))

(* A load whose word a register still holds.                               *)
Forward ==
  /\ Running /\ InLoop = {} /\ plan.fwd[at] # Unknown
  /\ Continue(GoesOn(Set(guest.x, Block.rd, guest.x[plan.fwd[at]])), Loaded32, Overwritten(Blank))

(* A write whose bytes were known: they are put from the image.            *)
StaticPut ==
  LET w == plan.g.sys[at]
  IN  /\ Running /\ Block.kind = "put"
      /\ Continue([GoesOn(guest.x) EXCEPT !.out = [k \in 1 .. w.len |-> ImageOf(prog)[w.buf + k - 1]]],
                  Loaded32, Overwritten(Blank))

Run ==
  /\ Running /\ InLoop = {} /\ plan.fwd[at] = Unknown /\ Block.kind # "put"
  /\ Continue(Execute(Block, Arrived), Loaded32, Overwritten(Block))

(* The epilogue and the halt: the image stops.                             *)
Stop == at \in {End, Halted} /\ UNCHANGED vars

Next == Safepoint \/ CellMove \/ Forward \/ StaticPut \/ Run \/ Stop

Spec == Init /\ [][Next]_vars /\ WF_vars(Next)

(***************************************************************************)
(* Properties.                                                             *)
(***************************************************************************)
(* The RAM the guest has: inside a promoted loop, and until its exit has   *)
(* stored them back, the promoted words are the cells.                     *)
GuestRam == StoredBack({lp \in live : at \in lp.body \cup {lp.exit}})

G == INSTANCE RvGuest WITH
       code <- plan.g.code, timer <- plan.g.timer, image <- ImageOf(prog),
       s    <- [guest EXCEPT !.ram = GuestRam],
       at   <- IF at = Halted THEN Halted ELSE PcOf(at)

(* The image runs the program: after every block, with what it was         *)
(* forwarded, folded, promoted and resolved to, the registers, the RAM,    *)
(* the CSRs, the output and the next instruction are those of the guest    *)
(* run one instruction at a time.                                          *)
ImplementsGuest == G!Spec

(* detect_smc: what rvopt agrees to compile never runs a block whose       *)
(* instruction a store to a constant address has replaced, as far as       *)
(* reaches_after follows control: up to the next return, trap or jump      *)
(* without a known target.                                                 *)
NoStaleOnPath == at \notin onpath

(* "constant-address SMC into live code is refused here": nor ever later.  *)
(* A callee can break this, since successors() gives its ret no successor. *)
NoStaleCode == at \notin dirty

(* The cells a block reads as its immediates are the ones filled for it:   *)
(* emission, count and fill agree, node by node.                           *)
LayoutAgrees == plan.imm.taken = plan.imm.filled /\ plan.imm.counted = Len(plan.imm.filled)
==============================================================================
