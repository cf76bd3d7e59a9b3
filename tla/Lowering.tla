------------------------------- MODULE Lowering -------------------------------
(***************************************************************************)
(* The back end of rvopt: emit_one32 and the primitives it is made of turn *)
(* one RV32I instruction into MUXLEQ instructions, some of which patch the *)
(* operand of the next one.  Here the emitters are operators, an emitted   *)
(* block is a sequence, and the behaviours run the block of one guest      *)
(* instruction from a guest state.                                         *)
(*                                                                         *)
(* Cells have names instead of addresses: <<"x", r>> is a register,        *)
(* <<"ram", k>> the cell of guest byte k, <<"t0", 0>> a scratch cell.  An  *)
(* instruction's to is a displacement in instructions, or, from Native     *)
(* on, na[node] of a guest address; the code counts in cells of three.     *)
(***************************************************************************)
EXTENDS Rv32i, SequencesExt

CONSTANTS
  RamBase,      \* m.ram_base: the native address of guest byte 0
  Insns,        \* the guest instructions to lower
  Starts(_)     \* the guest states to run each from

(* What the decoder and the folder leave in a node: registers, a 12-bit    *)
(* immediate or a shift amount sign-extended to a word, and addresses.     *)
(* With more than MaxKnown addresses, or words of more than MaxWidth bits, *)
(* a block would run into HALT.                                            *)
MaxKnown == 1000
MaxWidth == 100

Shifts     == {"SLL", "SRL", "SRA"}
Alus       == {"ADD", "SUB", "SLT", "SLTU", "XOR", "OR", "AND"}
Conditions == {"BEQ", "BNE", "BLT", "BGE", "BLTU", "BGEU"}

Decoded(i) ==
  \/ i.kind \in {"nop", "const", "mv", "jal", "exit", "write", "safepoint", "csr", "ret", "mret", "jalr"}
  \/ i.kind \in {"load", "store"}
  \/ i.kind = "branch" /\ i.f \in Conditions
  \/ i.kind \in {"op", "opimm"} /\ i.f \in Alus \cup Shifts

Lowerable(i) ==
  /\ Decoded(i)
  /\ {i.rd, i.rs1, i.rs2} \subseteq Regs
  /\ {i.imm, i.pc, i.count, i.mcause} \cup i.known \subseteq W!Cell
  /\ i.target \in Nat /\ i.mtvec \in Nat
  /\ i.kind = "mv"  => i.rd # 0
  /\ i.kind \in {"load", "store"} => i.f \in {"B", "H", "W"} /\ i.signed \in BOOLEAN
  /\ i.kind = "opimm" /\ i.f \in Shifts => i.imm \in W!Lanes
  /\ i.kind = "ret" => i.rs1 = 1
  /\ i.kind = "write" => i.rs1 = 2 /\ i.rs2 = 3
  /\ i.kind = "csr" => /\ i.csr \in CsrNames /\ i.op \in {"W", "S", "C"} /\ i.zimm \in BOOLEAN
                       /\ i.src \in IF i.zimm THEN 0 .. 31 ELSE Regs
  /\ IsFiniteSet(i.known) /\ Cardinality(i.known) <= MaxKnown

(* A load or store that begins in the window ends in it: rvopt does not    *)
(* fold a wider access around the top of the window.                       *)
Within(i, s) ==
  i.kind \in {"load", "store"} => At(s.x[i.rs1], i.imm) + BytesOf(i.f) <= Window

ASSUME RamAssumption  == RamBase \in Nat /\ RamBase + Window \in W!Cell
ASSUME RoomAssumption == Width <= MaxWidth
ASSUME InsnAssumption == \A i \in Insns :
  Lowerable(i) /\ Starts(i) \subseteq {s \in GuestStates : Within(i, s)}

VARIABLES
  insn,         \* the instruction whose block runs
  start,        \* the guest state it started in
  mem,          \* the cells, by name
  pc,           \* the position in the block, or a native address
  puts          \* what the block has put

blockVars == <<insn, start, mem, pc, puts>>

Z       == <<"z", 0>>
NEG1    == <<"neg1", 0>>
SGN     == <<"sgn", 0>>
ONE     == <<"one", 0>>
T0      == <<"t0", 0>>
T1      == <<"t1", 0>>
T2      == <<"t2", 0>>
SH1     == <<"sh1", 0>>
SH2     == <<"sh2", 0>>
M1F     == <<"m1f", 0>>
MFF     == <<"mff", 0>>
WINMASK == <<"winmask", 0>>
RAMBC   == <<"rambc", 0>>
MCAUSE  == <<"mcause", 0>>
COUNT   == <<"count", 0>>
OPERAND == <<"operand", 0>>          \* the patched field of the next instruction
X(r)     == <<"x", r>>
IMM(n)   == <<"imm", n>>
MASK(b)  == <<"mask", b>>
CSR(k)   == <<"csr", k>>
RAM(k)   == <<"ram", k>>
ADDR(a)  == <<"addr", a>>            \* ret_base, entry_base and pc_base cells

Native(addr) == 10000 + addr
HALT         == 9999                 \* IOMARK32 as a jump target
Rel(L, n)    == IF L >= HALT THEN L ELSE L - n

(* Wide instruction shorthands.                                            *)
Insn(op, a, b, mask, to) == <<[op |-> op, a |-> a, b |-> b, mask |-> mask, to |-> to]>>
mov32(s, d)         == Insn("move", s, d, Z, 1)
mux32op(a, b, mask) == Insn("mux", a, b, mask, 1)
leq32(a, b, L)      == Insn("sub", a, b, Z, L)
subnb32(a, b)       == leq32(a, b, 1)
jump32(L)           == leq32(Z, Z, L)
put32(a)            == Insn("put", a, Z, Z, 1)

Repeat(n, code)     == FlattenSeq([k \in 1 .. n |-> code])
Each(S, Code(_))    == FlattenSeq([k \in 1 .. Len(S) |-> Code(S[k])])
UpTo(m, n)          == [k \in 1 .. n - m + 1 |-> m + k - 1]

(* Branches: L is a displacement from the start of the block.              *)
sle0_32(a, b, L) == mov32(a, T0) \o leq32(b, T0, L - 1)

eq32(a, b, L) ==
  sle0_32(a, b, 3) \o jump32(3) \o leq32(NEG1, T0, 2) \o jump32(Rel(L, 4))

ne32(a, b, L) ==
  sle0_32(a, b, 3) \o jump32(Rel(L, 2)) \o leq32(NEG1, T0, Rel(L, 3))

(* Mutant of ltu32: the sign of the difference instead of the borrow.      *)
ltu32SignOnly(a, b, Lless, Lge) ==
  mov32(a, T2) \o subnb32(b, T2) \o mux32op(Z, T2, SGN) \o subnb32(ONE, T2)
  \o leq32(Z, T2, Rel(Lge, 4)) \o jump32(Rel(Lless, 5)) \o Repeat(5, mov32(Z, T1))

ltu32(a, b, Lless, Lge) ==
  mov32(a, T0) \o subnb32(b, T0) \o mov32(b, T1) \o mux32op(T0, T1, b)
  \o mov32(b, T2) \o mux32op(Z, T2, T0) \o mux32op(T1, T2, a)
  \o mux32op(Z, T2, SGN) \o subnb32(ONE, T2)
  \o leq32(Z, T2, Rel(Lge, 9)) \o jump32(Rel(Lless, 10))

signflip32(rs, sh) == mov32(rs, sh) \o subnb32(SGN, sh)

(* Arithmetic on a cell in place.                                          *)
dbl32(acc)           == mov32(Z, T1) \o subnb32(acc, T1) \o subnb32(T1, acc)
addcell32(dst, cell) == mov32(Z, T2) \o subnb32(cell, T2) \o subnb32(T2, dst)

copybit32(src, sb, dst, db) ==
  mov32(src, T1) \o mux32op(Z, T1, MASK(sb))
  \o (IF sb = Width - 1 THEN subnb32(ONE, T1) ELSE <<>>)
  \o leq32(Z, T1, 4) \o addcell32(dst, MASK(db))

clearbit32(cell, b) == mov32(cell, T1) \o mux32op(Z, T1, MASK(b)) \o subnb32(T1, cell)
setbit32(cell, b)   == clearbit32(cell, b) \o addcell32(cell, MASK(b))

shift_left32(rs1, rd, k) ==
  IF k = 0 THEN mov32(rs1, rd)
  ELSE mov32(rs1, T0) \o Repeat(k, dbl32(T0)) \o mov32(T0, rd)

shift_right32(rs1, rd, k, arith) ==
  IF k = 0 THEN mov32(rs1, rd)
  ELSE LET top    == Width - 1
           bit(d) == copybit32(rs1, IF d + k > top THEN top ELSE d + k, T0, d)
       IN  mov32(Z, T0)
           \o Each(UpTo(0, IF arith THEN top ELSE top - k), bit)
           \o mov32(T0, rd)

(* Mutant of shift_left_reg32: the loop goes back to the block's start.    *)
shift_left_regRestarted(rs1, rs2, rd) ==
  mov32(rs2, T2) \o mux32op(Z, T2, M1F) \o mov32(rs1, T0)
  \o leq32(Z, T2, 6) \o dbl32(T0) \o subnb32(ONE, T2) \o jump32(-8)
  \o mov32(T0, rd)

shift_left_reg32(rs1, rs2, rd) ==
  mov32(rs2, T2) \o mux32op(Z, T2, M1F) \o mov32(rs1, T0)
  \o leq32(Z, T2, 6) \o dbl32(T0) \o subnb32(ONE, T2) \o jump32(-5)
  \o mov32(T0, rd)

shift_right_reg32(rs1, rs2, rd, arith) ==
  LET body == shift_right32(SH1, SH1, 1, arith)
  IN  mov32(rs2, SH2) \o mux32op(Z, SH2, M1F) \o mov32(rs1, SH1)
      \o leq32(Z, SH2, Len(body) + 3) \o body \o subnb32(ONE, SH2)
      \o jump32(-(Len(body) + 2)) \o mov32(SH1, rd)

(***************************************************************************)
(* Guest memory.  The address is computed into T0; an instruction copies   *)
(* T0 over an operand of the one after it, whose DEREF is that operand.    *)
(***************************************************************************)
DEREF == <<"deref", 0>>

emit_addr32(rs1, imm) ==
  mov32(rs1, T0) \o addcell32(T0, imm) \o mux32op(Z, T0, WINMASK)
  \o addcell32(T0, RAMBC)

store_at32(val) == mov32(T0, OPERAND) \o mov32(val, DEREF)
load_at32(dst)  == mov32(T0, OPERAND) \o mov32(DEREF, dst)

\* The BYTE bits of a byte.
ByteLanes == UpTo(0, BYTE - 1)

extract_byte32(src, bi, dst) ==
  LET bit(j) == copybit32(src, BYTE * bi + j, dst, j)
  IN  mov32(Z, dst) \o Each(ByteLanes, bit)

sign_extend32(acc, sb) ==
  LET bit(hb) == copybit32(acc, sb, acc, hb)
  IN  Each(UpTo(sb + 1, Width - 1), bit)

(* Between two bytes T0 walks to the next cell, without masking again.     *)
Advance(k, n) == IF k < n - 1 THEN addcell32(T0, ONE) ELSE <<>>

emit_store_byte32(rs2, rs1, imm) ==
  mov32(rs2, T1) \o mux32op(Z, T1, MFF) \o emit_addr32(rs1, imm) \o store_at32(T1)

emit_store_bytes32(rs2, rs1, imm, n) ==
  LET byte(k) == extract_byte32(rs2, k, SH1) \o store_at32(SH1) \o Advance(k, n)
  IN  emit_addr32(rs1, imm) \o Each(UpTo(0, n - 1), byte)

emit_load_byte_u32(rd, rs1, imm) ==
  emit_addr32(rs1, imm) \o load_at32(T1) \o mov32(T1, rd)

emit_load_byte_s32(rd, rs1, imm) ==
  emit_addr32(rs1, imm) \o load_at32(SH1) \o sign_extend32(SH1, BYTE - 1)
  \o mov32(SH1, rd)

emit_load_bytes32(rd, rs1, imm, n, sign) ==
  LET byte(k) ==
        LET bit(j) == copybit32(SH1, j, SH2, BYTE * k + j)
        IN  load_at32(SH1) \o Each(ByteLanes, bit) \o Advance(k, n)
  IN  emit_addr32(rs1, imm) \o mov32(Z, SH2) \o Each(UpTo(0, n - 1), byte)
      \o (IF sign THEN sign_extend32(SH2, BYTE * n - 1) ELSE <<>>)
      \o mov32(SH2, rd)

(* write: put a2 bytes from a1 on; the registers 2 and 3 stand for a1, a2. *)
emit_write_dyn32 ==
  LET addr == emit_addr32(SH1, Z)
      body == addr \o mov32(T0, OPERAND) \o put32(DEREF)
              \o addcell32(SH1, ONE) \o subnb32(ONE, SH2)
  IN  mov32(X(2), SH1) \o mov32(X(3), SH2)
      \o eq32(SH2, Z, Len(body) + 6) \o body \o jump32(-(Len(body) + 5))

(* Computed jumps: compare with every address the image knows of and halt  *)
(* when none of them matches.  The code takes the addresses in the order   *)
(* of the nodes; which order it is makes no difference.                    *)
Known(i) == SetToSeq(i.known)

emit_dispatch32(cell, known) ==
  LET try(addr) == ne32(cell, ADDR(addr), 5) \o jump32(Native(addr))
  IN  Each(known, try) \o jump32(HALT)

emit_ret_dispatch32(i) == emit_dispatch32(X(1), Known(i))

(* The target is computed into T0 and compared from there, although a      *)
(* comparison also computes into T0.                                       *)
emit_jalr_entry_dispatch32(i) == emit_dispatch32(T0, Known(i))

emit_jalr32(i) ==
  mov32(X(i.rs1), T0) \o (IF i.imm # 0 THEN addcell32(T0, IMM(0)) ELSE <<>>)
  \o mov32(T0, T1) \o mux32op(Z, T1, ONE) \o subnb32(T1, T0)
  \o (IF i.rd # 0 THEN mov32(IMM(1), X(i.rd)) ELSE <<>>)
  \o emit_jalr_entry_dispatch32(i)

(***************************************************************************)
(* CSRs, the timer and the return from a trap.                             *)
(***************************************************************************)
(* One piece for each bit of a zimm that is set.                           *)
OnBits(zimm, Code(_)) ==
  LET bit(b) == IF Bit(zimm, b) THEN Code(b) ELSE <<>>
  IN  bit(0) \o bit(1) \o bit(2) \o bit(3) \o bit(4)

(* The new value of a CSR, built in T0 from the old one and the source.    *)
CsrNew32(i) ==
  LET csr      == CSR(i.csr)
      add(b)   == addcell32(T0, MASK(b))
      set(b)   == setbit32(T0, b)
      clear(b) == clearbit32(T0, b)
  IN  CASE i.op = "W" /\ i.zimm  -> mov32(Z, T0) \o OnBits(i.src, add)
        [] i.op = "W" /\ ~i.zimm -> mov32(X(i.src), T0)
        [] i.op = "S" /\ i.zimm  -> mov32(csr, T0) \o OnBits(i.src, set)
        [] i.op = "C" /\ i.zimm  -> mov32(csr, T0) \o OnBits(i.src, clear)
        [] i.op = "S" /\ ~i.zimm -> mov32(X(i.src), T0) \o mux32op(csr, T0, X(i.src))
        [] i.op = "C" /\ ~i.zimm -> mov32(Z, T0) \o mux32op(csr, T0, X(i.src))

emit_csr32(i) ==
  LET csr    == CSR(i.csr)
      writes == i.op = "W" \/ i.src # 0
  IN  (IF writes THEN CsrNew32(i) ELSE <<>>)
      \o (IF i.rd # 0 THEN mov32(csr, X(i.rd)) ELSE <<>>)
      \o (IF writes THEN mov32(T0, csr) ELSE <<>>)
      \o (IF writes /\ i.csr = "mtimecmp" THEN clearbit32(CSR("mip"), MTI) ELSE <<>>)

SP_PREAMBLE == 47       \* SP_PREAMBLE_CELLS / 3
SP_DELIVER  == 28       \* SP_DELIVER_OFF / 3

(* Unless the bit is set, on to the position AFTER, seen from here.        *)
emit_unless32(csr, b, AFTER) ==
  mov32(csr, T0) \o mux32op(Z, T0, MASK(b)) \o eq32(T0, Z, AFTER - 2)

emit_safepoint32(i) ==
  addcell32(CSR("mtime"), COUNT)
  \o emit_unless32(CSR("mstatus"), MIE, SP_PREAMBLE - 3)
  \o emit_unless32(CSR("mie"), MTI, SP_PREAMBLE - 10)
  \o ltu32(CSR("mtime"), CSR("mtimecmp"), SP_PREAMBLE - 17, SP_DELIVER - 17)
  \o mov32(ADDR(i.pc), CSR("mepc")) \o mov32(MCAUSE, CSR("mcause"))
  \o setbit32(CSR("mip"), MTI)
  \o setbit32(CSR("mstatus"), MPIE) \o clearbit32(CSR("mstatus"), MIE)
  \o subnb32(COUNT, CSR("mtime")) \o jump32(Native(i.mtvec))

emit_mret32(i) ==
  clearbit32(CSR("mstatus"), MIE)
  \o copybit32(CSR("mstatus"), MPIE, CSR("mstatus"), MIE)
  \o setbit32(CSR("mstatus"), MPIE)
  \o emit_dispatch32(CSR("mepc"), Known(i))

(***************************************************************************)
(* One guest instruction.  A folded or upper immediate and li are "const"; *)
(* a JALR with a static target is lowered as a "jal".                      *)
(***************************************************************************)
emit_branch32(i) ==
  LET s1 == X(i.rs1)
      s2 == X(i.rs2)
      L  == Native(i.target)
      signed(Lless, Lge) == signflip32(s1, SH1) \o signflip32(s2, SH2)
                            \o ltu32(SH1, SH2, Rel(Lless, 4), Rel(Lge, 4))
  IN  CASE i.f = "BEQ"  -> eq32(s1, s2, L)
        [] i.f = "BNE"  -> ne32(s1, s2, L)
        [] i.f = "BLTU" -> ltu32(s1, s2, L, 11)
        [] i.f = "BGEU" -> ltu32(s1, s2, 11, L)
        [] i.f = "BLT"  -> signed(L, 15)
        [] i.f = "BGE"  -> signed(15, L)

(* rd is set to 1 or 0 by the two blocks that follow the comparison.       *)
emit_set32(less, rd) == less \o mov32(ONE, rd) \o jump32(2) \o mov32(Z, rd)

emit_alu32(f, a, b, rd) ==
  CASE f = "ADD"  -> mov32(a, T0) \o mov32(Z, T1) \o subnb32(b, T1)
                     \o subnb32(T1, T0) \o mov32(T0, rd)
    [] f = "SUB"  -> mov32(a, T0) \o subnb32(b, T0) \o mov32(T0, rd)
    [] f = "AND"  -> mov32(a, T0) \o mux32op(Z, T0, b) \o mov32(T0, rd)
    [] f = "OR"   -> mov32(b, T0) \o mux32op(a, T0, b) \o mov32(T0, rd)
    [] f = "XOR"  -> mov32(Z, T1) \o mux32op(a, T1, b) \o mov32(Z, T2)
                     \o mux32op(b, T2, a) \o mov32(T2, T0)
                     \o mux32op(T1, T0, T2) \o mov32(T0, rd)
    [] f = "SLTU" -> emit_set32(ltu32(a, b, 11, 13), rd)
    [] f = "SLT"  -> emit_set32(signflip32(a, SH1) \o signflip32(b, SH2)
                                \o ltu32(SH1, SH2, 11, 13), rd)
    [] f = "SLL"  -> shift_left_reg32(a, b, rd)
    [] f = "SRL"  -> shift_right_reg32(a, b, rd, FALSE)
    [] f = "SRA"  -> shift_right_reg32(a, b, rd, TRUE)

emit_shift_imm32(f, rs1, rd, k) ==
  CASE f = "SLL" -> shift_left32(rs1, rd, k)
    [] f = "SRL" -> shift_right32(rs1, rd, k, FALSE)
    [] f = "SRA" -> shift_right32(rs1, rd, k, TRUE)

emit_load32(i) ==
  CASE i.rd = 0              -> <<>>
    [] i.rd # 0 /\ i.f = "B" -> IF i.signed THEN emit_load_byte_s32(X(i.rd), X(i.rs1), IMM(0))
                                ELSE emit_load_byte_u32(X(i.rd), X(i.rs1), IMM(0))
    [] i.rd # 0 /\ i.f # "B" -> emit_load_bytes32(X(i.rd), X(i.rs1), IMM(0), BytesOf(i.f),
                                                  i.signed /\ i.f = "H")

emit_store32(i) ==
  IF i.f = "B" THEN emit_store_byte32(X(i.rs2), X(i.rs1), IMM(0))
  ELSE emit_store_bytes32(X(i.rs2), X(i.rs1), IMM(0), BytesOf(i.f))

emit_one32(i) ==
  CASE i.kind = "nop"    -> <<>>
    [] i.kind = "const"  -> IF i.rd = 0 THEN <<>> ELSE mov32(IMM(0), X(i.rd))
    [] i.kind = "mv"     -> mov32(X(i.rs1), X(i.rd))
    [] i.kind = "jal"    -> (IF i.rd = 0 THEN <<>> ELSE mov32(IMM(1), X(i.rd)))
                            \o jump32(Native(i.target))
    [] i.kind = "branch" -> emit_branch32(i)
    [] i.kind = "store"  -> emit_store32(i)
    [] i.kind = "load"   -> emit_load32(i)
    [] i.kind = "exit"   -> jump32(HALT)
    [] i.kind = "write"  -> emit_write_dyn32
    [] i.kind = "csr"    -> emit_csr32(i)
    [] i.kind = "safepoint" -> emit_safepoint32(i)
    [] i.kind = "mret"   -> emit_mret32(i)
    [] i.kind = "ret"    -> emit_ret_dispatch32(i)
    [] i.kind = "jalr"   -> emit_jalr32(i)
    [] i.kind = "op"     -> IF i.rd = 0 THEN <<>>
                            ELSE emit_alu32(i.f, X(i.rs1), X(i.rs2), X(i.rd))
    [] i.kind = "opimm"  -> IF i.rd = 0 THEN <<>>
                            ELSE IF i.f \in Shifts
                            THEN emit_shift_imm32(i.f, X(i.rs1), X(i.rd), i.imm)
                            ELSE emit_alu32(i.f, X(i.rs1), IMM(0), X(i.rd))

Code == [i \in Insns |-> emit_one32(i)]

(***************************************************************************)
(* The image: the data cells the block reads, and the guest's own.         *)
(***************************************************************************)
RegCells == {X(r) : r \in Regs}
RamCells == {RAM(k) : k \in 0 .. Window - 1}
CsrCells == {CSR(k) : k \in CsrNames}
Scratch  == {T0, T1, T2, SH1, SH2, OPERAND}
Stray    == <<"stray", 0>>           \* any cell outside the RAM window

Constants(i) ==
  {Z, NEG1, SGN, ONE, M1F, MFF, WINMASK, RAMBC, IMM(0), IMM(1), COUNT, MCAUSE}
  \cup {MASK(b) : b \in W!Lanes} \cup {ADDR(a) : a \in i.known \cup {i.pc}}

Pool(i) ==
  [c \in Constants(i) |->
     CASE c = Z       -> 0
       [] c = NEG1    -> W!Modulus - 1
       [] c = SGN     -> W!SignBit
       [] c = ONE     -> 1
       [] c = M1F     -> Width - 1
       [] c = MFF     -> 2 ^ BYTE - 1
       [] c = WINMASK -> Window - 1
       [] c = RAMBC   -> RamBase
       [] c = IMM(0)  -> i.imm
       [] c = IMM(1)  -> W!Wrap(i.pc + 4)
       [] c = COUNT   -> i.count
       [] c = MCAUSE  -> i.mcause
       [] c[1] = "mask" -> 2 ^ c[2]
       [] c[1] = "addr" -> c[2]]

Guest(s) ==
  [c \in RegCells \cup RamCells \cup CsrCells |->
     CASE c[1] = "x"   -> s.x[c[2]]
       [] c[1] = "ram" -> s.ram[c[2]]
       [] c[1] = "csr" -> s.csr[c[2]]]

(* The scratch cells hold whatever the last instruction left there.        *)
Garbage    == W!SignBit + 5
NamesOf(i) == RegCells \cup RamCells \cup CsrCells \cup Constants(i) \cup Scratch \cup {Stray}

Image(i, s) ==
  [c \in NamesOf(i) |->
     CASE c \in Constants(i)         -> Pool(i)[c]
       [] c \in Scratch \cup {Stray} -> Garbage
       [] OTHER                      -> Guest(s)[c]]

BlockInit ==
  /\ insn \in Insns
  /\ start \in Starts(insn)
  /\ mem = Image(insn, start)
  /\ pc = 1
  /\ puts = <<>>

(***************************************************************************)
(* The machine, on named cells.                                            *)
(***************************************************************************)
Ended == pc > Len(Code[insn])
Fetch == Code[insn][pc]

Pointed ==
  IF mem[OPERAND] - RamBase \in 0 .. Window - 1 THEN RAM(mem[OPERAND] - RamBase) ELSE Stray

CellOf(name) == IF name = DEREF THEN Pointed ELSE name

Goto(to) == pc' = IF to >= HALT THEN to ELSE pc + to

Store(v) == mem' = [mem EXCEPT ![CellOf(Fetch.b)] = v]

Move ==
  /\ ~Ended /\ Fetch.op = "move"
  /\ Store(mem[CellOf(Fetch.a)])
  /\ Goto(1)
  /\ UNCHANGED <<insn, start, puts>>

Mux ==
  /\ ~Ended /\ Fetch.op = "mux"
  /\ Store(W!Select(mem[Fetch.a], mem[Fetch.b], mem[Fetch.mask]))
  /\ Goto(1)
  /\ UNCHANGED <<insn, start, puts>>

Subleq ==
  LET r == W!Wrap(mem[Fetch.b] - mem[Fetch.a])
  IN  /\ ~Ended /\ Fetch.op = "sub"
      /\ Store(r)
      /\ Goto(IF r = 0 \/ W!Negative(r) THEN Fetch.to ELSE 1)
      /\ UNCHANGED <<insn, start, puts>>

Put ==
  /\ ~Ended /\ Fetch.op = "put"
  /\ puts' = Append(puts, mem[CellOf(Fetch.a)])
  /\ Goto(1)
  /\ UNCHANGED <<insn, start, mem>>

BlockNext == Move \/ Mux \/ Subleq \/ Put

BlockSpec == BlockInit /\ [][BlockNext]_blockVars /\ WF_blockVars(BlockNext)

(***************************************************************************)
(* Properties.                                                             *)
(***************************************************************************)
(* The guest state the cells hold.                                         *)
Lost == -3
Where ==
  CASE pc = HALT                -> Halted
    [] pc > HALT                -> pc - Native(0)
    [] pc = Len(Code[insn]) + 1 -> Following
    [] OTHER                    -> Lost

GuestNow == [x   |-> [r \in Regs |-> mem[X(r)]],
             ram |-> [k \in 0 .. Window - 1 |-> mem[RAM(k)]],
             csr |-> [k \in CsrNames |-> mem[CSR(k)]],
             out |-> puts, at |-> Where]

(* No block disturbs the cells that the blocks after it take for constants *)
(* (zero, the masks, the immediates, the addresses).                       *)
PoolIsConstant == \A c \in Constants(insn) : mem[c] = Pool(insn)[c]

(* A block does to the guest what its instruction means: it leaves every   *)
(* register, byte of RAM and CSR with the value the ISA gives it, for      *)
(* every aliasing of rd, rs1 and rs2, puts what it should put, goes on     *)
(* where control should go on, and leaves the pool to the next as it was.  *)
ImplementsISA == Ended => GuestNow = Execute(insn, start) /\ PoolIsConstant

(* Every block ends: the loops of register shifts and of write count down  *)
(* to an exact zero.                                                       *)
EveryBlockEnds == <>Ended

(* An indirect jump gets to its target when the image knows the target:    *)
(* the halt behind the comparisons is for "no known target matched".       *)
HaltsOnUnknownOnly ==
  Ended /\ insn.kind = "jalr" /\ pc = HALT =>
    WithBit(W!Wrap(start.x[insn.rs1] + insn.imm), 0, FALSE) \notin insn.known
==============================================================================
