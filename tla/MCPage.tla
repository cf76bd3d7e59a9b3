-------------------------------- MODULE MCPage --------------------------------
(***************************************************************************)
(* The page: what class Forth makes of output, and the widget.  Each has   *)
(* an image of its own, so that they share nothing and the widget's steps  *)
(* are taken from one state of the other: booted, with nothing typed.      *)
(*                                                                         *)
(* The widget's lines: one of two words, one of a single word and one that *)
(* is never stepped, typed alone or pasted together.                       *)
(***************************************************************************)
EXTENDS Transcript, EditorView

MCLines     == {"3 +", "snake", ": f ;"}
MCWords     == [l \in MCLines |-> CASE l = "3 +" -> 2 [] l = "snake" -> 1 [] OTHER -> 3]
MCSteppable == {"3 +", "snake"}
MCPastes    == {<<"snake">>, <<"3 +", ": f ;">>, <<"3 +", "3 +">>}

Booted == js = "rest" /\ gotGraphics /\ current = "announce"

PageInit == Init /\ EditorInit
PageNext ==
  \/ EditorInit /\ Next /\ UNCHANGED editorVars
  \/ Booted /\ EditorNext /\ UNCHANGED vars

PageSpec == /\ PageInit /\ [][PageNext]_<<vars, editorVars>>
            /\ WF_vars(ImageRuns) /\ WF_vars(TurnEnds) /\ WF_vars(Frame)
==============================================================================
