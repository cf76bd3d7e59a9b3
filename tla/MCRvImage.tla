------------------------------ MODULE MCRvImage ------------------------------
(***************************************************************************)
(* Families of guest programs of 16 words: the code, then illegal words    *)
(* for its data from byte D on, all part of the image.  A jump to END, one *)
(* past the last word, is the end of the program.  The registers 1, 5, 6   *)
(* and 7 stand for ra, a7, a1 and a2.                                      *)
(***************************************************************************)
EXTENDS RvImage

Words == 16
END   == 4 * Words
D     == 52                       \* nodes 14 to 16

(* An assembler: targets are nodes.                                        *)
LI(r, v)       == [Blank EXCEPT !.kind = "opimm", !.f = "ADD", !.rd = r, !.imm = v]
ADDI(r, a, v)  == [Blank EXCEPT !.kind = "opimm", !.f = "ADD", !.rd = r, !.rs1 = a, !.imm = W!Wrap(v)]
ALUI(f, r, a, v) == [Blank EXCEPT !.kind = "opimm", !.f = f, !.rd = r, !.rs1 = a, !.imm = v]
ADD(r, a, b)   == [Blank EXCEPT !.kind = "op", !.f = "ADD", !.rd = r, !.rs1 = a, !.rs2 = b]
MV(r, a)       == ADDI(r, a, 0)
NOP            == ADDI(0, 0, 0)
AUIPC(r, v)    == [Blank EXCEPT !.kind = "auipc", !.rd = r, !.imm = v]
LUI(r, v)      == [Blank EXCEPT !.kind = "lui", !.rd = r, !.imm = v]
ST(f, v, b, o) == [Blank EXCEPT !.kind = "store", !.f = f, !.rs1 = b, !.rs2 = v, !.imm = o]
LD(f, r, b, o) == [Blank EXCEPT !.kind = "load", !.f = f, !.rd = r, !.rs1 = b, !.imm = o]
SW(v, b, o)    == ST("W", v, b, o)
LW(r, b, o)    == LD("W", r, b, o)
BR(f, a, b, n) == [Blank EXCEPT !.kind = "branch", !.f = f, !.rs1 = a, !.rs2 = b, !.target = PcOf(n)]
JAL(r, n)      == [Blank EXCEPT !.kind = "jal", !.rd = r, !.target = PcOf(n)]
J(n)           == JAL(0, n)
STOP           == J(Words + 1)
JALR(r, a, v)  == [Blank EXCEPT !.kind = "jalr", !.rd = r, !.rs1 = a, !.imm = v]
RET            == JALR(0, RA, 0)
ECALL          == [Blank EXCEPT !.kind = "system", !.op = "ecall"]
CSRW(k, a)     == [Blank EXCEPT !.kind = "csr", !.csr = k, !.op = "W", !.src = a]
CSRWI(k, v)    == [Blank EXCEPT !.kind = "csr", !.csr = k, !.op = "W", !.zimm = TRUE, !.src = v]
CSRR(r, k)     == [Blank EXCEPT !.kind = "csr", !.csr = k, !.op = "S", !.rd = r, !.src = 0]
MRET           == [Blank EXCEPT !.kind = "mret"]
ILL            == [Blank EXCEPT !.kind = "ill"]

Assemble(text) ==
  [k \in 1 .. Words |-> [(IF k <= Len(text) THEN text[k] ELSE ILL) EXCEPT !.pc = PcOf(k)]]

(***************************************************************************)
(* Forwarding: three operations between a store and a load of the same     *)
(* word: stores that alias it through the same or another base, wholly or  *)
(* in part, new values for the base or the value, a way into the middle.   *)
(***************************************************************************)
Between ==
  <<SW(4, 2, 0), SW(4, 2, 4), SW(0, 2, 0), ST("B", 4, 2, 1), ST("H", 4, 2, 2), SW(7, 3, 0),
    ADDI(4, 4, 1), ADDI(2, 2, 4), LW(4, 2, 0), LW(1, 2, 0), MV(3, 2), BR("BEQ", 7, 0, 8)>>

ForwardText(a, b, c, alias) ==
  <<LI(2, D), LI(3, alias), LI(4, 7), SW(4, 2, 0),
    Between[a], Between[b], Between[c], LW(6, 2, 0), LW(4, 2, 4), ALUI("XOR", 5, 6, 3), STOP>>

Forwards == {<<"forward", a, b, c, alias>> :
               a \in 1 .. 12, b \in 1 .. 12, c \in 1 .. 12, alias \in {D, D + 4}}

(***************************************************************************)
(* A loop that counts in memory, from one or from several entries.         *)
(***************************************************************************)
Into ==
  <<<<NOP, NOP>>, <<NOP, J(6)>>, <<BR("BEQ", 5, 0, 6), NOP>>, <<BR("BEQ", 5, 0, 7), NOP>>,
    <<NOP, SW(3, 2, 0)>>, <<NOP, ADDI(2, 2, 4)>>, <<NOP, JAL(RA, 13)>>, <<LI(5, 64), ECALL>>,
    <<BR("BNE", 5, 0, 11), NOP>>, <<NOP, LW(5, 2, 0)>>, <<BR("BEQ", 5, 0, 5), MV(2, 2)>>>>

InBody ==
  <<ADDI(1, 1, 3), SW(1, 2, 4), LW(6, 2, 4), SW(1, 4, 0), ST("B", 1, 2, 0), SW(1, 2, 2),
    MV(2, 2), LW(0, 2, 0), ADD(1, 1, 1), SW(1, 2, 8)>>

Out == <<<<STOP, NOP>>, <<LW(6, 2, 0), STOP>>, <<ADDI(5, 5, 1), BR("BEQ", 5, 6, 4)>>,
         <<SW(3, 2, 0), BR("BNE", 0, 0, 11)>>>>

LoopText(e, b, x, alias) ==
  <<LI(2, D), LI(3, 2), LI(4, alias), Into[e][1], Into[e][2],
    LW(1, 2, 0), InBody[b], SW(1, 2, 0), ADDI(3, 3, -1), BR("BNE", 3, 0, 6),
    Out[x][1], Out[x][2], IF e = 7 THEN RET ELSE STOP>>

Loops == {<<"loop", e, b, x, alias>> :
            e \in 1 .. 11, b \in 1 .. 10, x \in 1 .. 4, alias \in {D, D + 4}}

(* Two loops, one after the other, with what is in between.                *)
Gap == <<<<LI(3, 2)>>, <<LI(3, 2), NOP>>, <<LI(3, 2), SW(3, 2, 4)>>, <<LI(3, 2), MV(2, 2)>>>>

TwoText(k) ==
  LET second == 7 + Len(Gap[k])
  IN  <<LI(2, D), LI(3, 2), ADDI(1, 1, 1), SW(1, 2, 0), ADDI(3, 3, -1), BR("BNE", 3, 0, 3)>>
      \o Gap[k]
      \o <<LW(4, 2, 0), SW(4, 2, 4), ADDI(3, 3, -1), BR("BNE", 3, 0, second), STOP>>

Twos == {<<"two", k>> : k \in 1 .. 4}

(* A loop at the first instruction, which a branch enters again.           *)
StartText ==
  <<LW(3, 0, D), ADDI(3, 3, -1), SW(3, 0, D), ADDI(4, 4, 1), BR("BNE", 3, 0, 1),
    BR("BNE", 7, 0, 10), LI(7, 1), LI(6, 3), J(11), STOP, SW(6, 0, D), J(1)>>

(***************************************************************************)
(* Calls: to a leaf, to a function that tail-calls or calls another, from  *)
(* two sites, through an address built by auipc.                           *)
(***************************************************************************)
CallText(k) ==
  CASE k = 1 -> <<JAL(RA, 5), ADDI(3, 3, 1), JAL(RA, 5), STOP, ADDI(4, 4, 1), RET>>
    [] k = 2 -> <<JAL(RA, 4), ADDI(3, 3, 1), STOP, J(6), ILL, ADDI(4, 4, 1), RET>>
    [] k = 3 -> <<LI(2, D), JAL(RA, 5), ADDI(3, 3, 1), STOP,
                  SW(RA, 2, 0), JAL(RA, 9), LW(RA, 2, 0), RET, ADDI(4, 4, 1), RET>>
    [] k = 4 -> <<AUIPC(4, 16), JALR(RA, 4, 0), ADDI(3, 3, 1), STOP, LUI(6, 8), RET>>
    [] k = 5 -> <<AUIPC(4, 12), JALR(0, 4, 1), ILL, STOP>>
    [] k = 6 -> <<LI(4, 20), BR("BEQ", 0, 0, 4), LI(4, 24), JALR(RA, 4, 0), STOP, RET, RET>>
    [] k = 7 -> <<JAL(3, 3), STOP, ADDI(4, 4, 1), RET>>
    [] k = 8 -> <<JAL(RA, 3), STOP, JAL(RA, 5), ILL, STOP>>
    [] k = 9 -> <<LI(4, 3), ALUI("SLT", 6, 4, 254), ALUI("AND", 7, 4, 6), ALUI("OR", 0, 4, 8),
                  ALUI("SLL", 4, 4, 1), ALUI("SLTU", 1, 4, 9), LD("B", 0, 0, D), STOP>>

Calls == {<<"call", k>> : k \in 1 .. 9}

(***************************************************************************)
(* System calls: with operands known, unknown or merged, before and after  *)
(* a store to the bytes written.                                           *)
(***************************************************************************)
CallsWith ==
  <<NOP, SW(6, 6, 0), BR("BEQ", 3, 0, 6), LI(7, 3), ADDI(6, 6, 4), BR("BEQ", 3, 0, 7), LI(5, 93)>>

SysText(a, b) ==
  <<LI(5, 64), LI(6, D), LI(7, 2), CallsWith[a], CallsWith[b], ADDI(3, 3, 1), ECALL,
    LI(5, 93), ECALL, ILL>>

Syscalls == {<<"sys", a, b>> : a \in 1 .. 7, b \in 1 .. 7}

(* A store into the code, once before and once after a branch back.        *)
SmcText(a, f, back) ==
  <<LI(2, a), ST(f, 0, 2, 1), NOP, ADDI(4, 4, 1), BR("BEQ", 4, 3, back), ADDI(3, 3, 1),
    BR("BEQ", 4, 3, back), STOP>>

Smcs == {<<"smc", a, f, back>> : a \in 3 .. 32, f \in {"B", "H", "W"}, back \in {3, 4, 6}}

(* A store of a callee into its own code or its caller's, which goes on    *)
(* after the call, or calls again.                                         *)
CalleeText(a, f, again) ==
  <<JAL(RA, 5), ADDI(4, 4, 1), IF again THEN JAL(RA, 5) ELSE NOP, STOP, LI(2, a), ST(f, 0, 2, 1),
    ADDI(3, 3, 1), RET>>

Callees == {<<"callee", a, f, again>> : a \in 0 .. 32, f \in {"B", "H", "W"}, again \in BOOLEAN}

(***************************************************************************)
(* Code addresses stored and jumped to (--indirect): by jalr, by ret, by a *)
(* task switch that swaps return addresses.                                *)
(***************************************************************************)
IndirectText(k) ==
  <<LI(2, D), LI(3, 36), SW(3, 2, 0), LW(4, 2, 0)>> \o
  CASE k = 1 -> <<JALR(0, 4, 0), ILL, ILL, STOP, ILL, ADDI(6, 6, 1), STOP>>
    [] k = 2 -> <<JALR(RA, 4, 1), ADDI(6, 6, 1), STOP, ILL, ILL, ADDI(6, 6, 1), RET>>
    [] k = 3 -> <<MV(RA, 4), RET, ILL, ILL, ILL, ADDI(6, 6, 1), SW(6, 2, 0), STOP>>
    [] k = 4 -> <<JALR(6, 4, 0), ILL, STOP, ILL, ILL, LW(3, 2, 0), STOP>>

Indirects == {<<"indirect", k>> : k \in 1 .. 4}

(* A loop under a timer whose handler sets the next deadline.              *)
TimerText(first, quantum, status) ==
  <<LI(2, 40), CSRW("mtvec", 2), CSRWI("mtimecmp", first), LI(3, 32), CSRW("mie", 3),
    CSRWI("mstatus", status), LI(6, 3), ADDI(4, 4, 1), BR("BNE", 4, 6, 8), STOP,
    CSRR(7, "mtime"), ADDI(7, 7, quantum), CSRW("mtimecmp", 7), ADDI(3, 3, 1), MRET>>

Timers == {<<"timer", c, q, status>> : c \in 0 .. 6, q \in {2, 3, 5}, status \in {0, 8}}

(* A task whose entry was stored, started by mret.                         *)
LaunchText ==
  <<LI(2, D), LI(3, 36), SW(3, 2, 0), CSRW("mepc", 3), CSRWI("mtvec", 4), MRET, ILL, ILL, ILL,
    ADDI(6, 6, 1), STOP>>

MCPrograms == Forwards \cup Loops \cup Twos \cup Calls \cup Syscalls \cup Smcs \cup Callees
              \cup Indirects \cup Timers \cup {<<"launch">>}

StartPrograms == {<<"start">>} \cup Twos \cup Calls

CalleePrograms == Callees \cup Twos \cup Calls

Text(p) ==
  CASE p[1] = "forward"  -> ForwardText(p[2], p[3], p[4], p[5])
    [] p[1] = "loop"     -> LoopText(p[2], p[3], p[4], p[5])
    [] p[1] = "two"      -> TwoText(p[2])
    [] p[1] = "start"    -> StartText
    [] p[1] = "call"     -> CallText(p[2])
    [] p[1] = "sys"      -> SysText(p[2], p[3])
    [] p[1] = "smc"      -> SmcText(p[2], p[3], p[4])
    [] p[1] = "callee"   -> CalleeText(p[2], p[3], p[4])
    [] p[1] = "indirect" -> IndirectText(p[2])
    [] p[1] = "timer"    -> TimerText(p[2], p[3], p[4])
    [] p[1] = "launch"   -> LaunchText

MCCodeOf(p)    == Assemble(Text(p))
MCOptionsOf(p) == [indirect |-> p[1] \in {"indirect", "timer", "launch"}, timer |-> p[1] \in {"timer", "launch"}]

(* Code bytes read as zero; the data bytes are all different from it.      *)
MCImageOf(p) == [k \in 0 .. END - 1 |-> IF k < D THEN 0 ELSE 1 + (k % 3)]
==============================================================================
