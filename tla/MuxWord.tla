------------------------------- MODULE MuxWord -------------------------------
(***************************************************************************)
(* Cells, addresses and the instruction encoding of muxleq-core.h.         *)
(*                                                                         *)
(* A cell is an unsigned Width-bit integer (32 in the code) and the arena  *)
(* holds Cells of them (a power of two, so "& mask" is "% Cells").  The    *)
(* markers are stated relative to Width, as they are in the header.        *)
(***************************************************************************)
EXTENDS Integers

CONSTANTS
  Width,     \* bits in a cell
  Cells      \* cells in the arena: mask + 1

Lanes   == 0 .. Width - 1
Modulus == 2 ^ Width
SignBit == 2 ^ (Width - 1)           \* NEG_FLAG32
Cell    == 0 .. Modulus - 1
Addr    == 0 .. Cells - 1

IO_MARKER32    == Modulus - 1
ZERO_MASK_ADDR == 6
SHR1_MARK_ADDR == SignBit - 2
INSN_SIZE      == 3

Negative(x) == x >= SignBit          \* x & NEG_FLAG32
LowBits(x)  == x % SignBit           \* x & ADDR_MASK32
Wrap(x)     == x % Modulus           \* uint32_t arithmetic
Arena(x)    == x % Cells             \* x & mask32

(* The lanes of a cell that are set, and the cell with a given set of lanes. *)
Bits(x)  == {i \in Lanes : (x \div (2 ^ i)) % 2 = 1}
CellOf   == [S \in SUBSET Lanes |-> CHOOSE x \in Cell : Bits(x) = S]

(***************************************************************************)
(* Facts about powers of two and about binary notation.  They hold at      *)
(* every width; the proofs take them from here because they would need     *)
(* induction over Width, and TLC evaluates them at the widths it runs.     *)
(***************************************************************************)
ASSUME WidthAssumption ==
  /\ Width \in Nat /\ Width >= 5
  /\ Modulus \in Nat /\ SignBit \in Nat
  /\ Modulus = 2 * SignBit /\ SignBit >= 16

ASSUME BinaryAssumption ==
  \A S \in SUBSET Lanes : \E x \in Cell : Bits(x) = S

(* alloc_muxleq and grow_muxleq only ever produce power-of-two windows. *)
ASSUME ArenaAssumption ==
  /\ Cells \in Nat \ {0}
  /\ Modulus % Cells = 0

(* A cell that selects MUX over SUBLEQ. *)
is_mux(c) == Negative(c) /\ c # IO_MARKER32

(* (a & ~mask) | (b & mask) *)
Select(a, b, mask) ==
  CellOf[(Bits(a) \ Bits(mask)) \cup (Bits(b) \cap Bits(mask))]

Shr1(x) == x \div 2

(***************************************************************************)
(* exec_alu: the value one non-I/O instruction stores at [b], the memory   *)
(* after it, and the pc after it.                                          *)
(***************************************************************************)
IsMove(c) == is_mux(c) /\ LowBits(c) = ZERO_MASK_ADDR
IsShr1(c) == is_mux(c) /\ LowBits(c) = SHR1_MARK_ADDR

(* Mutant of AluValue: the subtraction does not wrap. *)
AluValueUnwrapped(mem, a, b, c) ==
  IF is_mux(c) THEN mem[Arena(a)] ELSE mem[Arena(b)] - mem[Arena(a)]

AluValue(mem, a, b, c) ==
  LET x == mem[Arena(a)]
      y == mem[Arena(b)]
  IN  IF IsMove(c) THEN x
      ELSE IF IsShr1(c) THEN Shr1(x)
      ELSE IF is_mux(c) THEN Select(x, y, mem[Arena(LowBits(c))])
      ELSE Wrap(y - x)

AluMem(mem, a, b, c) == [mem EXCEPT ![Arena(b)] = AluValue(mem, a, b, c)]

AluPc(mem, a, b, c, at) ==
  LET r == AluValue(mem, a, b, c)
  IN  IF ~is_mux(c) /\ (r = 0 \/ Negative(r)) THEN c ELSE Wrap(at + INSN_SIZE)
==============================================================================
