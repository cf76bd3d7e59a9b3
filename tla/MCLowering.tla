------------------------------ MODULE MCLowering ------------------------------
(***************************************************************************)
(* Every kind of instruction, with registers that alias and registers that *)
(* do not, on operands at the boundaries of an 8-bit machine word: zero,   *)
(* one, the ends of the signed and of the unsigned range and values that   *)
(* differ in few bits.  A byte has two bits here and a word four bytes.    *)
(***************************************************************************)
EXTENDS Lowering

(* The instruction at guest address 40.                                   *)
Here == [Blank EXCEPT !.pc = 40]

Samples == {0, 1, 2, 127, 128, 129, 255}

Aliases == {<<3, 1, 2>>, <<1, 1, 2>>, <<2, 1, 2>>, <<1, 1, 1>>}

Ops ==
  {[Here EXCEPT !.kind = "op", !.f = f, !.rd = r[1], !.rs1 = r[2], !.rs2 = r[3]] :
     f \in Alus \cup Shifts, r \in Aliases}

OpImms ==
  {[Here EXCEPT !.kind = "opimm", !.f = f, !.rd = r, !.rs1 = 1, !.imm = v] :
     f \in Alus \ {"SUB"}, r \in {0, 1, 3}, v \in {1, 127, 254}}
  \cup {[Here EXCEPT !.kind = "opimm", !.f = f, !.rd = r, !.rs1 = 1, !.imm = k] :
     f \in Shifts, r \in {0, 1, 3}, k \in {0, 1, Width - 1}}

Branches ==
  {[Here EXCEPT !.kind = "branch", !.f = f, !.rs1 = r[2], !.rs2 = r[3], !.target = 16] :
     f \in Conditions, r \in {<<0, 1, 2>>, <<0, 1, 1>>}}

Jumps ==
  {[Here EXCEPT !.kind = "jal", !.rd = r, !.target = 16] : r \in {0, 1}}
  \cup {[Here EXCEPT !.kind = "ret", !.rs1 = 1, !.known = {16, 44, 128}]}
  \cup {[Here EXCEPT !.kind = "jalr", !.rd = r, !.rs1 = 1, !.imm = v, !.known = {44}] :
          r \in {0, 1, 2}, v \in {0, 4, 252}}

Loads ==
  {[Here EXCEPT !.kind = "load", !.f = f, !.signed = s, !.rd = r, !.rs1 = 1, !.imm = v] :
     f \in {"B", "H", "W"}, s \in BOOLEAN, r \in {0, 1, 3}, v \in {0, 2, 255}}

Stores ==
  {[Here EXCEPT !.kind = "store", !.f = f, !.rs1 = 1, !.rs2 = r, !.imm = v] :
     f \in {"B", "H", "W"}, r \in {1, 2}, v \in {0, 2, 255}}

Csrs ==
  {[Here EXCEPT !.kind = "csr", !.op = o, !.csr = k, !.zimm = z, !.rd = r, !.src = s] :
     o \in {"W", "S", "C"}, k \in {"mstatus", "mtimecmp"}, z \in BOOLEAN,
     r \in {0, 1}, s \in {0, 1, 3}}

Others ==
  {[Here EXCEPT !.kind = "nop"], [Here EXCEPT !.kind = "exit"],
   [Here EXCEPT !.kind = "const", !.rd = 0], [Here EXCEPT !.kind = "const", !.rd = 1, !.imm = 250],
   [Here EXCEPT !.kind = "mv", !.rd = 1, !.rs1 = 2],
   [Here EXCEPT !.kind = "write", !.rs1 = 2, !.rs2 = 3],
   [Here EXCEPT !.kind = "safepoint", !.count = 3, !.mtvec = 16, !.mcause = 135],
   [Here EXCEPT !.kind = "mret", !.known = {16, 40, 44}]}

MCInsns == Ops \cup OpImms \cup Branches \cup Jumps \cup Loads \cup Stores \cup Csrs \cup Others

(* Two addresses known, for the run about indirect jumps.                  *)
MCIndirect == {[Here EXCEPT !.kind = "jalr", !.rd = 0, !.rs1 = 1, !.known = {16, 44}]}

OneRam == [k \in 0 .. Window - 1 |-> k % 4]

Rams == {OneRam, [k \in 0 .. Window - 1 |-> 3 - (k % 3)]}

NoCsrs == [k \in CsrNames |-> 0]

Guests(xs, rams, csrs) ==
  {[x |-> [r \in Regs |-> IF r = 0 THEN 0 ELSE x[r]], ram |-> m, csr |-> c] :
     x \in xs, m \in rams, c \in csrs}

Plain(xs) == Guests(xs, {[k \in 0 .. Window - 1 |-> 0]}, {NoCsrs})

(* Memory accesses start where their last byte is still in the window:     *)
(* rvopt does not fold a wider access around the top of the window.        *)
Bases(i, n) == {a \in {0, 3, 5, 7, 8, 13, 255} : At(a, i.imm) + n <= Window}

TimerCsrs ==
  {[NoCsrs EXCEPT !["mstatus"] = s, !["mie"] = e, !["mip"] = p,
                  !["mtime"] = t[1], !["mtimecmp"] = t[2], !["mepc"] = a] :
     s \in {0, 8, 32, 40, 255}, e \in {0, 32}, p \in {0, 32},
     t \in {<<0, 0>>, <<0, 3>>, <<0, 4>>, <<100, 200>>, <<200, 100>>, <<254, 1>>, <<254, 2>>},
     a \in {0}}

MCStarts(i) ==
  CASE i.kind \in {"op", "branch"} -> Plain({<<a, b, 77>> : a \in Samples, b \in Samples})
    [] i.kind \in {"opimm", "jal", "mv"} -> Plain({<<a, 66, 77>> : a \in Samples})
    [] i.kind \in {"ret", "jalr"} ->
         Plain({<<a, 66, 77>> : a \in {0, 12, 16, 17, 40, 44, 45, 48, 128, 255}})
    [] i.kind = "load"  -> Guests({<<a, 66, 77>> : a \in Bases(i, BytesOf(i.f))}, Rams, {NoCsrs})
    [] i.kind = "store" ->
         Guests({<<a, b, 77>> : a \in Bases(i, BytesOf(i.f)), b \in {0, 27, 129, 255}},
                Rams, {NoCsrs})
    [] i.kind = "write" ->
         Guests({<<66, a, n>> : a \in {0, 6, 255}, n \in 0 .. 3}, Rams, {NoCsrs})
    [] i.kind = "csr" ->
         Guests({<<a, 66, b>> : a \in {0, 5, 160, 255}, b \in {0, 36}}, {OneRam},
                {[NoCsrs EXCEPT ![i.csr] = v, !["mip"] = 34] : v \in {0, 3, 170, 255}})
    [] i.kind = "safepoint" -> Guests({<<1, 2, 3>>}, {OneRam}, TimerCsrs)
    [] i.kind = "mret" ->
         Guests({<<1, 2, 3>>}, {OneRam},
                {[NoCsrs EXCEPT !["mstatus"] = s, !["mepc"] = a] :
                   s \in {0, 8, 32, 40, 255}, a \in {0, 16, 40, 44, 45, 255}})
    [] OTHER -> Plain({<<1, 2, 3>>})
==============================================================================
