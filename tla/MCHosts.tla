------------------------------- MODULE MCHosts -------------------------------
(***************************************************************************)
(* The two hosts.  An image has one of them: whichever takes the first     *)
(* step takes them all, and the other stays where it starts.               *)
(*                                                                         *)
(* The browser: bytes 1 and 2, a two-byte ring whose counters wrap at      *)
(* four, a page that types faster than the ring drains.  The native host:  *)
(* three-bit cells, arenas of 2 to 8 of them, files that end, grow the     *)
(* image twice, overflow it or go wrong anywhere; one key more than a peek *)
(* needs.                                                                  *)
(***************************************************************************)
EXTENDS ForthDriver, NativeHost

SomeBytes  == {1, 2}
LongText   == <<1, 2, 1>>
MCTexts    == {<<1>>, <<1, 2, 2>>}
MCRecovery == <<2>>

Num(v) == [number |-> TRUE, value |-> v]
Tokens == {Num(-5), Num(-4), Num(-1), Num(6), Num(7), Num(8), [number |-> FALSE, value |-> 1]}

(* The first k cells are numbered; the last token is any. *)
Numbered(k) == [i \in 1 .. k |-> Num(1 + (i % 6))]
MCFiles == {<<>>} \cup {Append(Numbered(k), t) : k \in 0 .. MaxCells, t \in Tokens}

MCArgvs == {<<>>, <<"prog">>, <<"-x">>, <<"--">>, <<"--", "-x">>, <<"prog", "prog">>,
            <<"--", "prog", "prog">>}

MCImage == <<7, 1, 5>>

HostsInit == Init /\ NativeInit
HostsNext ==
  \/ NativeInit /\ Next /\ UNCHANGED nativeVars
  \/ Init /\ insn = "get" /\ NativeNext /\ UNCHANGED vars

(* The fairness of each, but that nobody has to construct a page. *)
HostsSpec == /\ HostsInit /\ [][HostsNext]_<<vars, nativeVars>>
             /\ WF_vars(VmTurn) /\ WF_vars(TurnEnds) /\ WF_vars(Frame)
             /\ WF_nativeVars(TerminalStep)
==============================================================================
