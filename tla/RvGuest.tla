------------------------------- MODULE RvGuest -------------------------------
(***************************************************************************)
(* The guest program as it is meant to run: one decoded instruction at a   *)
(* time, from address 0 with the registers zero, the RAM loaded with the   *)
(* image.  An ecall is looked up in a7 when it runs and a computed jump    *)
(* goes where its register says, to any instruction but the first.  The    *)
(* timer may tick, and interrupt, between any two instructions.            *)
(*                                                                         *)
(* This is what docs/rvopt-native-muxleq.md and the RV32I manual promise   *)
(* of a program, the abstract specification of module RvImage.             *)
(***************************************************************************)
EXTENDS Rv32i

CONSTANTS A7, A1, A2     \* the registers of an ecall

VARIABLES
  code,                  \* the decoded words, instruction k at 4 * (k - 1)
  timer,                 \* whether there is a timer
  image,                 \* the bytes the RAM starts with
  s,                     \* registers, RAM and CSRs
  at,                    \* the address of the next instruction
  out                    \* the bytes written

vars == <<code, timer, image, s, at, out>>

Instructions == {nd.pc : nd \in {code[k] : k \in {j \in DOMAIN code : code[j].kind # "ill"}}}
InsnAt(a)    == code[a \div 4 + 1]
Targets      == Instructions \ {0}

Syscall(nd) ==
  CASE nd.op = "ecall" /\ s.x[A7] = 64 -> [nd EXCEPT !.kind = "write", !.rs1 = A1, !.rs2 = A2]
    [] OTHER -> [nd EXCEPT !.kind = "exit"]

Meaning(nd) ==
  CASE nd.kind = "lui"              -> [nd EXCEPT !.kind = "const"]
    [] nd.kind = "auipc"            -> [nd EXCEPT !.kind = "const", !.imm = W!Wrap(nd.pc + nd.imm)]
    [] nd.kind \in {"fence", "wfi"} -> [nd EXCEPT !.kind = "nop"]
    [] nd.kind \in {"jalr", "mret"} -> [nd EXCEPT !.known = Targets]
    [] nd.kind = "system"           -> Syscall(nd)
    [] OTHER                        -> nd

Becomes(r) ==
  /\ s' = [x |-> r.x, ram |-> r.ram, csr |-> r.csr]
  /\ at' = IF r.at = Following THEN at + 4 ELSE r.at
  /\ out' = out \o r.out
  /\ UNCHANGED <<code, timer, image>>

Step == at \in Instructions /\ Becomes(Execute(Meaning(InsnAt(at)), s))

(* Time passes by a few instructions; the handler is where mtvec points.   *)
Tick ==
  /\ timer /\ at \in Instructions
  /\ \E n \in 1 .. Len(code) :
       LET r == Execute([Blank EXCEPT !.kind = "safepoint", !.pc = at, !.count = n,
                           !.mtvec = s.csr["mtvec"], !.mcause = W!SignBit + MTI], s)
       IN  Becomes([r EXCEPT !.at = IF @ = Following THEN at ELSE @])

Init == /\ \A r \in DOMAIN s.x : s.x[r] = 0
        /\ \A k \in DOMAIN s.csr : s.csr[k] = 0
        /\ s.ram = image
        /\ at = 0 /\ out = <<>>

Next == Step \/ Tick

Spec == Init /\ [][Next]_vars
==============================================================================
