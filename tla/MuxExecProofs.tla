---------------------------- MODULE MuxExecProofs ----------------------------
(***************************************************************************)
(* For every cell width, arena size, image and host: mux_exec keeps its    *)
(* types, its fused pair is always live, every return is retryable, and    *)
(* the whole loop implements the one-instruction-at-a-time machine Muxleq. *)
(***************************************************************************)
EXTENDS MuxExec, TLAPS

(* uint32_t arithmetic stays in a cell. *)
LEMMA WrapType == ASSUME NEW x \in Int PROVE Wrap(x) \in Cell
BY WidthAssumption DEF Wrap, Cell

(* "& mask" always lands in the arena. *)
LEMMA ArenaType == ASSUME NEW x \in Int PROVE Arena(x) \in Addr
BY ArenaAssumption DEF Arena, Addr

(* A cell is an integer, and so are its low bits. *)
LEMMA CellInt == Cell \subseteq Int
BY WidthAssumption DEF Cell

LEMMA CellArena == ASSUME NEW x \in Cell PROVE Arena(x) \in Addr
BY CellInt, ArenaType

LEMMA LowBitsInt == ASSUME NEW x \in Cell PROVE LowBits(x) \in Int
BY WidthAssumption, CellInt DEF LowBits

LEMMA MarkerType == IO_MARKER32 \in Cell
BY WidthAssumption DEF IO_MARKER32, Cell

(* Every set of lanes is some cell's. *)
LEMMA CellOfType == ASSUME NEW S \in SUBSET Lanes PROVE CellOf[S] \in Cell
BY BinaryAssumption DEF CellOf

LEMMA SelectType ==
  ASSUME NEW a, NEW b, NEW mask PROVE Select(a, b, mask) \in Cell
<1>1. (Bits(a) \ Bits(mask)) \cup (Bits(b) \cap Bits(mask)) \in SUBSET Lanes
  BY DEF Bits
<1> QED BY <1>1, CellOfType DEF Select

LEMMA Shr1Type == ASSUME NEW x \in Cell PROVE Shr1(x) \in Cell
BY WidthAssumption DEF Shr1, Cell

(* exec_alu stores a cell and returns a cell. *)
LEMMA AluValueType ==
  ASSUME NEW mem \in [Addr -> Cell], NEW a \in Cell, NEW b \in Cell, NEW c \in Cell
  PROVE  AluValue(mem, a, b, c) \in Cell
<1>1. mem[Arena(a)] \in Cell /\ mem[Arena(b)] \in Cell
  BY CellArena
<1>2. Shr1(mem[Arena(a)]) \in Cell
  BY <1>1, Shr1Type
<1>3. Wrap(mem[Arena(b)] - mem[Arena(a)]) \in Cell
  <2>1. mem[Arena(b)] \in Int /\ mem[Arena(a)] \in Int
    BY <1>1, CellInt
  <2>2. mem[Arena(b)] - mem[Arena(a)] \in Int
    BY <2>1
  <2> QED BY <2>2, WrapType
<1>4. Select(mem[Arena(a)], mem[Arena(b)], mem[Arena(LowBits(c))]) \in Cell
  BY SelectType
<1> QED BY <1>1, <1>2, <1>3, <1>4 DEF AluValue

LEMMA AluMemType ==
  ASSUME NEW mem \in [Addr -> Cell], NEW a \in Cell, NEW b \in Cell, NEW c \in Cell
  PROVE  AluMem(mem, a, b, c) \in [Addr -> Cell]
BY AluValueType DEF AluMem

LEMMA AluPcType ==
  ASSUME NEW mem, NEW a, NEW b, NEW c \in Cell, NEW at \in Cell
  PROVE  AluPc(mem, a, b, c, at) \in Cell
<1>1. Wrap(at + INSN_SIZE) \in Cell
  BY CellInt, WrapType DEF INSN_SIZE
<1> QED BY <1>1 DEF AluPc

(* Masking commutes with stepping from field to field: the code masks np   *)
(* first and adds B or C to it, a fresh fetch adds first.                  *)
LEMMA DivMod == ASSUME NEW C \in Nat \ {0}, NEW x \in Int
  PROVE x \div C \in Int /\ x = C * (x \div C) + (x % C) /\ x % C \in 0..C-1
BY Z3
LEMMA ModUnique == ASSUME NEW C \in Nat \ {0}, NEW q \in Int, NEW r \in 0..C-1
  PROVE (C * q + r) % C = r
BY Z3
LEMMA ModAdd == ASSUME NEW C \in Nat \ {0}, NEW x \in Int, NEW k \in Int
  PROVE ((x % C) + k) % C = (x + k) % C
<1> DEFINE q == x \div C
           y == (x % C) + k
           p == y \div C
<1>1. q \in Int /\ x = C * q + (x % C) /\ x % C \in Int
  BY DivMod
<1>2. y \in Int
  BY <1>1
<1>3. p \in Int /\ y = C * p + (y % C) /\ y % C \in 0..C-1
  BY <1>2, DivMod
<1>4. x + k = C * (q + p) + (y % C)
  <2> SUFFICES ASSUME NEW r \in Int, NEW s \in Int, NEW u \in Int, NEW v \in Int,
                      x = C * u + r, r + k = C * v + s
               PROVE  x + k = C * (u + v) + s
    BY <1>1, <1>3
  <2>1. C * (u + v) = C * u + C * v
    OBVIOUS
  <2> QED BY <2>1
<1>5. q + p \in Int
  BY <1>1, <1>3
<1> QED BY <1>3, <1>4, <1>5, ModUnique

(* The three fields the fused pair reads are the next instruction's. *)
LEMMA FieldAddress ==
  ASSUME NEW np \in Cell
  PROVE  /\ Arena(Arena(np) + 1) = Arena(np + 1)
         /\ Arena(Arena(np) + 2) = Arena(np + 2)
         /\ Arena(np) = Arena(np + 0)
BY CellInt, ArenaAssumption, ModAdd DEF Arena

(* The latched operands are cells. *)
LEMMA LatchType ==
  ASSUME TypeOK, NEW d \in Int, NEW va \in Cell, NEW np \in Cell
  PROVE  Latch(d, va, np) \in Pair
<1>1. \A at \in Addr : Forward(d, va, at) \in Cell
  BY DEF Forward, TypeOK
<1>2. /\ Arena(np) \in Addr
      /\ Arena(Arena(np) + 1) \in Addr
      /\ Arena(Arena(np) + 2) \in Addr
  <2>1. Arena(np) \in Addr /\ Arena(np) \in Int
    BY ArenaType, CellInt DEF Addr
  <2>2. Arena(np) + 1 \in Int /\ Arena(np) + 2 \in Int
    BY <2>1
  <2> QED BY <2>1, <2>2, ArenaType
<1> QED BY <1>1, <1>2 DEF Latch, Pair

(* Every operand fetch reads a cell of the arena. *)
LEMMA OperandType ==
  ASSUME TypeOK
  PROVE  /\ \A k \in Int : Operand(k) \in Cell
         /\ Wrap(pc + INSN_SIZE) \in Cell
<1>1. pc \in Int
  BY CellInt DEF TypeOK
<1>2. ASSUME NEW k \in Int PROVE Operand(k) \in Cell
  <2>1. pc + k \in Int
    BY <1>1
  <2> QED BY <2>1, ArenaType DEF Operand, TypeOK
<1>3. pc + INSN_SIZE \in Int
  BY <1>1 DEF INSN_SIZE
<1> QED BY <1>2, <1>3, WrapType

THEOREM TypeCorrect == Spec => []TypeOK
<1>1. Init => TypeOK
  BY ImageAssumption, WidthAssumption DEF Init, TypeOK, Cell, Statuses
<1>2. TypeOK /\ [Next]_vars => TypeOK'
  <2> SUFFICES ASSUME TypeOK, [Next]_vars PROVE TypeOK'
    OBVIOUS
  <2> USE DEF TypeOK
  <2>1. CASE Call
    BY <2>1 DEF Call, Statuses
  <2>2. CASE OutOfBudget \/ Halt \/ GetWouldBlock \/ GetEof \/ PutFails
    BY <2>2 DEF OutOfBudget, Halt, GetWouldBlock, GetEof, PutFails, Return, Statuses
  <2>3. CASE GetByte
    <3>1. PICK v \in InputCells :
            /\ m'  = [m EXCEPT ![Arena(Operand(1))] = v]
            /\ io' = Append(io, <<"in", v>>)
      BY <2>3 DEF GetByte
    <3>2. v \in Cell
      BY InputAssumption
    <3>3. m' \in [Addr -> Cell]
      BY <3>1, <3>2
    <3>4. io' \in Seq({"in", "out"} \X Cell)
      BY <3>1, <3>2
    <3> QED BY <2>3, <3>3, <3>4, OperandType DEF GetByte
  <2>4. CASE PutByte
    <3>1. m[Arena(Operand(0))] \in Cell
      BY OperandType, CellArena
    <3>2. io' \in Seq({"in", "out"} \X Cell)
      BY <2>4, <3>1 DEF PutByte
    <3> QED BY <2>4, <3>2, OperandType DEF PutByte
  <2>5. CASE Move
    <3> DEFINE d == Arena(Operand(1))
               va == m[Arena(Operand(0))]
               nextPc == Wrap(pc + INSN_SIZE)
    <3>1. va \in Cell /\ d \in Int /\ nextPc \in Cell
      <4>1. Operand(0) \in Cell /\ Operand(1) \in Cell /\ nextPc \in Cell
        BY OperandType
      <4> QED BY <4>1, CellArena, ArenaAssumption DEF Addr
    <3>2. Latch(d, va, nextPc) \in Pair
      BY <3>1, LatchType
    <3>3. /\ m' = [m EXCEPT ![d] = va]
          /\ \/ pair' = Latch(d, va, nextPc) /\ pc' = pc
             \/ pair' = NoPair /\ pc' = nextPc
          /\ UNCHANGED <<stpc, status, io>>
      BY <2>5 DEF Move
    <3> QED BY <3>1, <3>2, <3>3
  <2>6. CASE FusedAlu
    <3>1. pair \in Pair
      BY <2>6 DEF FusedAlu
    <3>2. m' \in [Addr -> Cell]
      BY <2>6, <3>1, AluMemType DEF FusedAlu, Pair
    <3>3. pc' \in Cell
      BY <2>6, <3>1, AluPcType DEF FusedAlu, Pair
    <3> QED BY <2>6, <3>2, <3>3 DEF FusedAlu
  <2>7. CASE Alu
    <3>1. Operand(0) \in Cell /\ Operand(1) \in Cell /\ Operand(2) \in Cell
      BY OperandType
    <3>2. m' \in [Addr -> Cell]
      BY <2>7, <3>1, AluMemType DEF Alu
    <3>3. pc' \in Cell
      BY <2>7, <3>1, AluPcType DEF Alu
    <3> QED BY <2>7, <3>2, <3>3 DEF Alu
  <2>8. CASE UNCHANGED vars
    BY <2>8 DEF vars
  <2> QED BY <2>1, <2>2, <2>3, <2>4, <2>5, <2>6, <2>7, <2>8 DEF Next
<1> QED BY <1>1, <1>2, PTL DEF Spec

(***************************************************************************)
(* ForwardingIsLive and Retryable support each other: a pair in flight     *)
(* means mux_exec has not returned, so no call can move the pc under it.   *)
(***************************************************************************)
Inv == TypeOK /\ ForwardingIsLive /\ Retryable

(* A MOVE that fuses latches exactly what its own store leaves in memory. *)
LEMMA LatchLive ==
  ASSUME TypeOK, NEW d \in Addr, NEW va \in Cell, NEW np \in Cell,
         m' = [m EXCEPT ![d] = va]
  PROVE  /\ Latch(d, va, np).a = m'[Arena(np)]
         /\ Latch(d, va, np).b = m'[Arena(np + 1)]
         /\ Latch(d, va, np).c = m'[Arena(np + 2)]
         /\ Latch(d, va, np).next = np
<1>1. \A at \in Addr : Forward(d, va, at) = m'[at]
  BY DEF Forward, TypeOK
<1>2. np \in Int /\ np + 1 \in Int /\ np + 2 \in Int
  BY CellInt
<1>3. Arena(np) \in Addr /\ Arena(np + 1) \in Addr /\ Arena(np + 2) \in Addr
  BY <1>2, ArenaType
<1>4. Latch(d, va, np) = [a |-> Forward(d, va, Arena(np)),
                          b |-> Forward(d, va, Arena(np + 1)),
                          c |-> Forward(d, va, Arena(np + 2)),
                          next |-> np]
  BY FieldAddress DEF Latch
<1> QED BY <1>1, <1>3, <1>4

(* What a MOVE step does, with its operands named and typed. *)
LEMMA MoveStep ==
  ASSUME TypeOK, Move, NEW d, d = Arena(Operand(1)),
         NEW va, va = m[Arena(Operand(0))],
         NEW np, np = Wrap(pc + INSN_SIZE)
  PROVE  /\ d \in Addr /\ va \in Cell /\ np \in Cell
         /\ m' = [m EXCEPT ![d] = va]
         /\ \/ pair' = Latch(d, va, np) /\ pc' = pc /\ Fuses(d, va, np)
            \/ pair' = NoPair /\ pc' = np
         /\ UNCHANGED <<stpc, status, io>>
<1>1. Operand(0) \in Cell /\ Operand(1) \in Cell /\ np \in Cell
  BY OperandType
<1>2. d \in Addr
  BY <1>1, CellArena
<1>3. va \in Cell
  BY <1>1, CellArena DEF TypeOK
<1> QED BY <1>1, <1>2, <1>3 DEF Move

LEMMA InvInductive ==
  ASSUME Inv, TypeOK', [Next]_vars
  PROVE  ForwardingIsLive' /\ Retryable'
<1> USE DEF Inv
<1>1. CASE Call
  BY <1>1 DEF Call, ForwardingIsLive, Retryable
<1>2. CASE OutOfBudget \/ Halt \/ GetWouldBlock \/ GetEof \/ PutFails
  <2>1. /\ status = "RUN" /\ pair = NoPair /\ UNCHANGED <<m, pc, pair, io>>
        /\ stpc' = pc
    BY <1>2 DEF OutOfBudget, Halt, GetWouldBlock, GetEof, PutFails, Return,
                AtGet, AtPut, AtInsn, AtLoopTop
  <2>2. Operand(0) = m[Arena(pc)] /\ Operand(1) = m[Arena(pc + 1)]
    BY FieldAddress DEF Operand, TypeOK
  <2>3. /\ status' = "MUX_OK" => Negative(pc) \/ Operand(0) = IO_MARKER32
        /\ status' = "MUX_NEED_INPUT" => ~Negative(pc) /\ Operand(0) = IO_MARKER32
        /\ status' = "MUX_ERR_OUTPUT" =>
             /\ ~Negative(pc)
             /\ Operand(0) # IO_MARKER32
             /\ Operand(1) = IO_MARKER32
    BY <1>2 DEF OutOfBudget, Halt, GetWouldBlock, GetEof, PutFails, Return,
                AtGet, AtPut, AtInsn
  <2>4. ForwardingIsLive'
    BY <2>1 DEF ForwardingIsLive
  <2>5. Retryable'
    BY <2>1, <2>2, <2>3 DEF Retryable
  <2> QED BY <2>4, <2>5
<1>3. CASE GetByte \/ PutByte \/ FusedAlu \/ Alu
  BY <1>3 DEF GetByte, PutByte, FusedAlu, Alu, AtGet, AtPut, AtAlu, AtInsn,
              AtLoopTop, ForwardingIsLive, Retryable
<1>4. CASE Move
  <2> DEFINE d == Arena(Operand(1))
             va == m[Arena(Operand(0))]
             np == Wrap(pc + INSN_SIZE)
  <2>1. /\ d \in Addr /\ va \in Cell /\ np \in Cell
        /\ m' = [m EXCEPT ![d] = va]
        /\ \/ pair' = Latch(d, va, np) /\ pc' = pc /\ Fuses(d, va, np)
           \/ pair' = NoPair /\ pc' = np
        /\ UNCHANGED <<stpc, status, io>>
    BY <1>4, MoveStep
  <2>2. status = "RUN"
    BY <1>4 DEF Move, AtAlu, AtInsn, AtLoopTop
  <2> HIDE DEF d, va, np
  <2>3. ForwardingIsLive'
    <3>1. CASE pair' = NoPair
      BY <3>1 DEF ForwardingIsLive
    <3>2. CASE pair' = Latch(d, va, np) /\ Fuses(d, va, np)
      <4>1. /\ pair'.a = m'[Arena(np)]
            /\ pair'.b = m'[Arena(np + 1)]
            /\ pair'.c = m'[Arena(np + 2)]
            /\ pair'.next = np
        BY <3>2, <2>1, LatchLive
      <4>2. /\ ~Negative(np)
            /\ pair'.a # IO_MARKER32 /\ pair'.b # IO_MARKER32
        BY <3>2 DEF Fuses
      <4>3. status' = "RUN"
        BY <2>1, <2>2
      <4> QED BY <4>1, <4>2, <4>3 DEF ForwardingIsLive
    <3> QED BY <2>1, <3>1, <3>2
  <2>4. Retryable'
    BY <2>1, <2>2 DEF Retryable
  <2> QED BY <2>3, <2>4
<1>5. CASE UNCHANGED vars
  BY <1>5 DEF vars, ForwardingIsLive, Retryable
<1> QED BY <1>1, <1>2, <1>3, <1>4, <1>5 DEF Next

LEMMA InvInvariant == Spec => []Inv
<1>1. Init => ForwardingIsLive /\ Retryable
  BY DEF Init, ForwardingIsLive, Retryable
<1>2. Inv /\ TypeOK' /\ [Next]_vars => Inv'
  BY InvInductive DEF Inv
<1> QED BY <1>1, <1>2, TypeCorrect, PTL DEF Spec, Inv

(* At every yield, wait, failed write and halt: what mux_exec was about to *)
(* do is still in memory and st->pc points at it.                          *)
THEOREM ReturnsAreRetryable == Spec => []Retryable
BY InvInvariant, PTL DEF Inv

(* At every state inside a fused pair: what it is about to execute is what *)
(* memory says, so eliding the reload changes nothing.                     *)
THEOREM ForwardingCorrect == Spec => []ForwardingIsLive
BY InvInvariant, PTL DEF Inv

(***************************************************************************)
(* Refinement: a step of the loop is one instruction of Muxleq, or none.   *)
(***************************************************************************)
(* Muxleq's word operators, reached through Core, are MuxWord's. *)
LEMMA SameWord ==
  /\ Core!IO_MARKER32 = IO_MARKER32 /\ Core!INSN_SIZE = INSN_SIZE
  /\ \A x : /\ Core!Arena(x) = Arena(x)
            /\ Core!Wrap(x) = Wrap(x)
            /\ Core!Negative(x) = Negative(x)
            /\ Core!LowBits(x) = LowBits(x)
            /\ Core!Shr1(x) = Shr1(x)
            /\ Core!Bits(x) = Bits(x)
BY DEF Core!IO_MARKER32, Core!INSN_SIZE, Core!Arena, Core!Wrap, Core!Negative,
       Core!LowBits, Core!Shr1, Core!Bits, Core!Modulus, Core!SignBit, Core!Lanes,
       IO_MARKER32, INSN_SIZE, Arena, Wrap, Negative, LowBits, Shr1, Bits,
       Modulus, SignBit, Lanes

LEMMA SameSelect ==
  ASSUME NEW a, NEW b, NEW mask PROVE Core!Select(a, b, mask) = Select(a, b, mask)
<1>1. Core!Lanes = Lanes /\ Core!Cell = Cell
  BY DEF Core!Lanes, Lanes, Core!Cell, Cell, Core!Modulus, Modulus
<1>2. Core!CellOf = CellOf
  BY <1>1, SameWord DEF Core!CellOf, CellOf
<1> QED BY <1>2, SameWord DEF Core!Select, Select

LEMMA SameMux ==
  ASSUME NEW c
  PROVE  /\ Core!is_mux(c) = is_mux(c)
         /\ Core!IsMove(c) = IsMove(c)
         /\ Core!IsShr1(c) = IsShr1(c)
BY SameWord DEF Core!is_mux, is_mux, Core!IsMove, IsMove, Core!IsShr1, IsShr1,
     Core!ZERO_MASK_ADDR, ZERO_MASK_ADDR, Core!SHR1_MARK_ADDR, SHR1_MARK_ADDR,
     Core!SignBit, SignBit

LEMMA SameAlu ==
  ASSUME NEW mem, NEW a, NEW b, NEW c, NEW at
  PROVE  /\ Core!AluMem(mem, a, b, c) = AluMem(mem, a, b, c)
         /\ Core!AluPc(mem, a, b, c, at) = AluPc(mem, a, b, c, at)
<1>1. Core!AluValue(mem, a, b, c) = AluValue(mem, a, b, c)
  BY SameWord, SameSelect, SameMux DEF Core!AluValue, AluValue
<1> QED BY <1>1, SameWord, SameMux DEF Core!AluMem, AluMem, Core!AluPc, AluPc

LEMMA ImageOfIdle ==
  ASSUME pair = NoPair
  PROVE  /\ SequentialPc = pc
         /\ \A k : Core!Operand(k) = Operand(k)
BY SameWord DEF SequentialPc, Core!Operand, Operand

(* Host calls that move a byte are the machine's I/O instructions. *)
LEMMA IOSteps ==
  ASSUME GetByte \/ PutByte
  PROVE  Core!Input \/ Core!Output
<1>1. pair = NoPair /\ pair' = NoPair /\ ~Negative(pc)
  BY DEF GetByte, PutByte, AtGet, AtPut, AtInsn, AtLoopTop
<1>2. SequentialPc = pc /\ SequentialPc' = pc'
  BY <1>1 DEF SequentialPc
<1>3. CASE GetByte
  BY <1>1, <1>2, <1>3, ImageOfIdle, SameWord
     DEF GetByte, AtGet, Core!Input
<1>4. CASE PutByte
  BY <1>1, <1>2, <1>4, ImageOfIdle, SameWord
     DEF PutByte, AtPut, Core!Output
<1> QED BY <1>3, <1>4

LEMMA AluStep == ASSUME Alu PROVE Core!Compute
<1>1. pair = NoPair /\ pair' = NoPair /\ ~Negative(pc)
  BY DEF Alu, AtAlu, AtInsn, AtLoopTop
<1>2. SequentialPc = pc /\ SequentialPc' = pc'
  BY <1>1 DEF SequentialPc
<1> QED BY <1>1, <1>2, ImageOfIdle, SameWord, SameAlu
    DEF Alu, AtAlu, Core!Compute

(* The MOVE of a pair, fused or not, is the MOVE instruction. *)
LEMMA MoveIsCompute == ASSUME TypeOK, Move PROVE Core!Compute
<1> DEFINE d == Arena(Operand(1))
           va == m[Arena(Operand(0))]
           np == Wrap(pc + INSN_SIZE)
<1>1. /\ d \in Addr /\ va \in Cell /\ np \in Cell
      /\ m' = [m EXCEPT ![d] = va]
      /\ \/ pair' = Latch(d, va, np) /\ pc' = pc /\ Fuses(d, va, np)
         \/ pair' = NoPair /\ pc' = np
      /\ UNCHANGED <<stpc, status, io>>
  BY MoveStep
<1>2. /\ pair = NoPair /\ ~Negative(pc) /\ IsMove(Operand(2))
      /\ Operand(0) # IO_MARKER32 /\ Operand(1) # IO_MARKER32
  BY DEF Move, AtAlu, AtInsn, AtLoopTop
<1>3. SequentialPc' = np
  <2>1. CASE pair' = NoPair /\ pc' = np
    BY <2>1 DEF SequentialPc
  <2>2. CASE pair' = Latch(d, va, np)
    <3> HIDE DEF d, va, np
    <3>1. pair' # NoPair
      <4>1. d \in Int
        BY <1>1 DEF Addr
      <4> QED BY <2>2, <1>1, <4>1, LatchType, NoPairAssumption
    <3>2. pair'.next = np
      BY <2>2, <1>1, LatchLive
    <3> QED BY <3>1, <3>2 DEF SequentialPc
  <2> QED BY <1>1, <2>1, <2>2
<1>4. m' = AluMem(m, Operand(0), Operand(1), Operand(2))
  BY <1>1, <1>2 DEF AluMem, AluValue
<1>5. np = AluPc(m, Operand(0), Operand(1), Operand(2), pc)
  BY <1>2 DEF AluPc, IsMove
<1> QED BY <1>1, <1>2, <1>3, <1>4, <1>5, ImageOfIdle, SameWord, SameAlu
    DEF Core!Compute

(* The second half of a fused pair is the instruction the MOVE patched. *)
LEMMA FusedIsCompute ==
  ASSUME TypeOK, ForwardingIsLive, FusedAlu PROVE Core!Compute
<1>1. pair \in Pair /\ pair # NoPair
  BY DEF FusedAlu, TypeOK
<1>2. SequentialPc = pair.next /\ SequentialPc' = pc'
  BY <1>1 DEF SequentialPc, FusedAlu
<1>3. /\ Core!Operand(0) = pair.a
      /\ Core!Operand(1) = pair.b
      /\ Core!Operand(2) = pair.c
  <2>1. pair.next \in Cell
    BY <1>1 DEF Pair
  <2> QED BY <1>1, <1>2, <2>1, FieldAddress, SameWord
      DEF Core!Operand, ForwardingIsLive
<1>4. ~Negative(SequentialPc) /\ pair.a # IO_MARKER32 /\ pair.b # IO_MARKER32
  BY <1>1, <1>2 DEF ForwardingIsLive
<1> QED BY <1>2, <1>3, <1>4, SameWord, SameAlu DEF FusedAlu, Core!Compute

(* The whole loop: fused pairs, slices that end at any instruction, reads  *)
(* that wait and are retried, writes that fail and are retried, all give   *)
(* exactly the memory, the pc and the bytes of the unfused machine.        *)
THEOREM FusedLoopImplementsMuxleq == Spec => ImplementsSequential
<1>1. Init => Core!Init
  BY DEF Init, Core!Init, SequentialPc
<1>2. Inv /\ [Next]_vars => [Core!Next]_(Core!core)
  <2> SUFFICES ASSUME Inv, [Next]_vars PROVE [Core!Next]_(Core!core)
    OBVIOUS
  <2> USE DEF Inv
  <2>1. CASE Call
    <3>1. pair = NoPair /\ stpc = pc
      BY <2>1 DEF Call, Retryable
    <3> QED BY <2>1, <3>1 DEF Call, Core!core, SequentialPc
  <2>2. CASE OutOfBudget \/ Halt \/ GetWouldBlock \/ GetEof \/ PutFails
    BY <2>2 DEF OutOfBudget, Halt, GetWouldBlock, GetEof, PutFails, Return,
                Core!core, SequentialPc
  <2>3. CASE GetByte \/ PutByte
    BY <2>3, IOSteps DEF Core!Next
  <2>4. CASE Move
    BY <2>4, MoveIsCompute DEF Core!Next
  <2>5. CASE FusedAlu
    BY <2>5, FusedIsCompute DEF Core!Next
  <2>6. CASE Alu
    BY <2>6, AluStep DEF Core!Next
  <2>7. CASE UNCHANGED vars
    BY <2>7 DEF vars, Core!core, SequentialPc
  <2> QED BY <2>1, <2>2, <2>3, <2>4, <2>5, <2>6, <2>7 DEF Next
<1> QED BY <1>1, <1>2, InvInvariant, PTL DEF Spec, ImplementsSequential, Core!Spec
==============================================================================
