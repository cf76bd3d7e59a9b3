-------------------------------- MODULE Rv32i --------------------------------
(***************************************************************************)
(* What a guest instruction means: the RV32I manual for the base ISA and   *)
(* Zicsr, docs/rvopt-native-muxleq.md for the CSRs, the timer and mret.    *)
(* This is the measure of module Lowering, not a translation of code.      *)
(*                                                                         *)
(* A guest state s is a record: the registers s.x, the RAM s.ram (a guest  *)
(* byte in each cell), the CSRs s.csr.  Registers are Width bits, a byte   *)
(* is BYTE bits, a word is Width \div BYTE bytes and a half is half of     *)
(* that.  Control goes on at a guest address, at Following (the next       *)
(* instruction) or nowhere (Halted).                                       *)
(***************************************************************************)
EXTENDS Integers, Sequences, FiniteSetsExt

CONSTANTS Width, BYTE,
          Regs,             \* the registers, 0 among them
          Window,           \* bytes of guest RAM, a power of two
          MIE, MPIE, MTI    \* bits of mstatus (3, 7) and of mie and mip (7)

ASSUME WidthAssumption == Width \in Nat /\ Width >= 5

(* A fact of arithmetic that the provers do not know of exponents that are *)
(* not numerals.                                                           *)
ASSUME PowerAssumption == \A n \in 0 .. Width : 2 ^ (n + 1) = 2 * 2 ^ n

(* Masks stand for remainders: of an address by the window, of a shift     *)
(* amount by the width.                                                    *)
ASSUME GuestAssumption ==
  /\ 0 \in Regs
  /\ BYTE \in Nat \ {0} /\ 2 * BYTE <= Width /\ BYTE * (Width \div BYTE) = Width
  /\ \E n \in 0 .. Width : Width = 2 ^ n
  /\ Window \in Nat /\ \E n \in 0 .. Width : Window = 2 ^ n
  /\ {MIE, MPIE, MTI} \subseteq 0 .. Width - 1 /\ MIE # MPIE

CsrNames == {"mstatus", "mtvec", "mepc", "mcause", "mie", "mip", "mtime", "mtimecmp", "mscratch"}

W == INSTANCE MuxWord WITH Cells <- Window

Byte == 0 .. 2 ^ BYTE - 1

GuestStates == [x : {v \in [Regs -> W!Cell] : v[0] = 0},
                ram : [0 .. Window - 1 -> Byte], csr : [CsrNames -> W!Cell]]

(* An instruction; the fields its kind has no use for keep these values.   *)
Blank == [kind |-> "nop", f |-> "", signed |-> FALSE,
          rd |-> 0, rs1 |-> 0, rs2 |-> 0, imm |-> 0, target |-> 0,
          csr |-> "", op |-> "", zimm |-> FALSE, src |-> 0,
          pc |-> 0, known |-> {}, count |-> 0, mtvec |-> 0, mcause |-> 0]

Following == -1
Halted    == -2

Signed(v) == IF W!Negative(v) THEN v - W!Modulus ELSE v
Flag(b)   == IF b THEN 1 ELSE 0
Bit(v, b) == b \in W!Bits(v)
WithBit(v, b, on) == W!CellOf[IF on THEN W!Bits(v) \cup {b} ELSE W!Bits(v) \ {b}]
Power(k)  == 2 ^ (k % Width)

Alu(f, v, w) ==
  CASE f = "ADD"  -> W!Wrap(v + w)
    [] f = "SUB"  -> W!Wrap(v - w)
    [] f = "SLT"  -> Flag(Signed(v) < Signed(w))
    [] f = "SLTU" -> Flag(v < w)
    [] f = "XOR"  -> W!CellOf[(W!Bits(v) \ W!Bits(w)) \cup (W!Bits(w) \ W!Bits(v))]
    [] f = "OR"   -> W!CellOf[W!Bits(v) \cup W!Bits(w)]
    [] f = "AND"  -> W!CellOf[W!Bits(v) \cap W!Bits(w)]
    [] f = "SLL"  -> W!Wrap(v * Power(w))
    [] f = "SRL"  -> v \div Power(w)
    [] f = "SRA"  -> W!Wrap(Signed(v) \div Power(w))

Taken(f, v, w) ==
  CASE f = "BEQ"  -> v = w
    [] f = "BNE"  -> v # w
    [] f = "BLT"  -> Signed(v) < Signed(w)
    [] f = "BGE"  -> Signed(v) >= Signed(w)
    [] f = "BLTU" -> v < w
    [] f = "BGEU" -> v >= w

BytesOf(size) ==
  CASE size = "B" -> 1 [] size = "H" -> Width \div (2 * BYTE)
    [] size = "W" -> Width \div BYTE

At(base, imm) == W!Wrap(base + imm) % Window

\* Bit b of a word is bit b % BYTE of its byte b \div BYTE, the least byte first.
Loaded(ram, at, n) ==
  W!CellOf[{b \in 0 .. BYTE * n - 1 : Bit(ram[at + b \div BYTE], b % BYTE)}]

SignExtended(v, n) ==
  IF v >= 2 ^ (BYTE * n - 1) THEN W!Wrap(v - 2 ^ (BYTE * n)) ELSE v

Stored(ram, at, n, v) ==
  [k \in DOMAIN ram |-> IF k \in at .. at + n - 1
                        THEN (v \div 2 ^ (BYTE * (k - at))) % 2 ^ BYTE
                        ELSE ram[k]]

Set(x, rd, v) == IF rd = 0 THEN x ELSE [x EXCEPT ![rd] = v]

\* A computed jump reaches the addresses the image knows of and no other.
Among(known, addr) == IF addr \in known THEN addr ELSE Halted

Goes(s, x, at) == [x |-> x, ram |-> s.ram, csr |-> s.csr, out |-> <<>>, at |-> at]

CsrNew(op, old, src) ==
  CASE op = "W" -> src
    [] op = "S" -> W!CellOf[W!Bits(old) \cup W!Bits(src)]
    [] op = "C" -> W!CellOf[W!Bits(old) \ W!Bits(src)]

\* Writing mtimecmp clears the pending timer interrupt.
CsrWritten(csr, k, v) ==
  LET written == [csr EXCEPT ![k] = v]
  IN  IF k = "mtimecmp" THEN [written EXCEPT !["mip"] = WithBit(@, MTI, FALSE)]
      ELSE written

ExecuteCsr(i, s) ==
  LET src    == IF i.zimm THEN i.src ELSE s.x[i.src]
      writes == i.op = "W" \/ i.src # 0
  IN  [Goes(s, Set(s.x, i.rd, s.csr[i.csr]), Following) EXCEPT
         !.csr = IF writes THEN CsrWritten(s.csr, i.csr, CsrNew(i.op, s.csr[i.csr], src))
                 ELSE s.csr]

(***************************************************************************)
(* A safepoint: time passes by the count of the block, and if interrupts   *)
(* are on and the deadline has come, the trap handler runs instead of the  *)
(* block, whose time is given back.                                        *)
(***************************************************************************)
ExecuteSafepoint(i, s) ==
  LET time     == W!Wrap(s.csr["mtime"] + i.count)
      delivers == /\ Bit(s.csr["mstatus"], MIE) /\ Bit(s.csr["mie"], MTI)
                  /\ time >= s.csr["mtimecmp"]
      status   == WithBit(WithBit(s.csr["mstatus"], MPIE, TRUE), MIE, FALSE)
  IN  IF delivers
      THEN [Goes(s, s.x, i.mtvec) EXCEPT
              !.csr = [s.csr EXCEPT !["mepc"] = i.pc, !["mcause"] = i.mcause,
                                    !["mip"] = WithBit(@, MTI, TRUE),
                                    !["mstatus"] = status]]
      ELSE [Goes(s, s.x, Following) EXCEPT !.csr = [s.csr EXCEPT !["mtime"] = time]]

ExecuteMret(i, s) ==
  LET status == s.csr["mstatus"]
  IN  [Goes(s, s.x, Among(i.known, s.csr["mepc"])) EXCEPT
         !.csr = [s.csr EXCEPT
                    !["mstatus"] = WithBit(WithBit(@, MIE, Bit(status, MPIE)), MPIE, TRUE)]]

(* The guest state after instruction i, what it wrote and where it goes.   *)
Execute(i, s) ==
  LET rs1 == s.x[i.rs1]
      rs2 == s.x[i.rs2]
      With(x) == Goes(s, x, Following)
  IN  CASE i.kind = "nop"    -> With(s.x)
        [] i.kind = "const"  -> With(Set(s.x, i.rd, i.imm))
        [] i.kind = "mv"     -> With(Set(s.x, i.rd, rs1))
        [] i.kind = "op"     -> With(Set(s.x, i.rd, Alu(i.f, rs1, rs2)))
        [] i.kind = "opimm"  -> With(Set(s.x, i.rd, Alu(i.f, rs1, i.imm)))
        [] i.kind = "branch" -> Goes(s, s.x, IF Taken(i.f, rs1, rs2) THEN i.target ELSE Following)
        [] i.kind = "jal"    -> Goes(s, Set(s.x, i.rd, W!Wrap(i.pc + 4)), i.target)
        [] i.kind = "ret"    -> Goes(s, s.x, Among(i.known, rs1))
        [] i.kind = "jalr"   -> Goes(s, Set(s.x, i.rd, W!Wrap(i.pc + 4)),
                                     Among(i.known, WithBit(W!Wrap(rs1 + i.imm), 0, FALSE)))
        [] i.kind = "load"   ->
             LET n == BytesOf(i.f)
                 v == Loaded(s.ram, At(rs1, i.imm), n)
             IN  With(Set(s.x, i.rd, IF i.signed THEN SignExtended(v, n) ELSE v))
        [] i.kind = "store"  ->
             [With(s.x) EXCEPT !.ram = Stored(s.ram, At(rs1, i.imm), BytesOf(i.f), rs2)]
        [] i.kind = "write"  ->
             [With(s.x) EXCEPT !.out = [k \in 1 .. rs2 |-> s.ram[At(rs1, k - 1)]]]
        [] i.kind = "exit"   -> Goes(s, s.x, Halted)
        [] i.kind = "csr"    -> ExecuteCsr(i, s)
        [] i.kind = "safepoint" -> ExecuteSafepoint(i, s)
        [] i.kind = "mret"   -> ExecuteMret(i, s)
==============================================================================
