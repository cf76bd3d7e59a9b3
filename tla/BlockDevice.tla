----------------------------- MODULE BlockDevice -----------------------------
(***************************************************************************)
(* What the block words promise their programs: a store of blocks, one of  *)
(* them open.  Its text is what was saved of it, or, of a block only       *)
(* assigned, whatever the program puts there, and is written back once it  *)
(* has been marked.  Every word is one step, except that the text of a     *)
(* block takes time to come: meanwhile nobody reads or writes it, and what *)
(* arrives is what was saved.                                              *)
(***************************************************************************)
EXTENDS Integers

CONSTANTS
  Block,        \* the valid block numbers
  Key,          \* the numbers programs try
  NoBlock, Data

VARIABLES
  saved,        \* the store
  cur, text,    \* the open block, if any, and what its program sees
  coming,       \* the text is on its way
  marked,       \* update was called
  did,          \* what came through last: a word and its number, or a throw
  seen          \* what a program read last

vars == <<saved, cur, text, coming, marked, did, seen>>

Init ==
  /\ saved \in [Block -> Data] /\ text \in Data
  /\ cur = NoBlock /\ marked = FALSE /\ seen = text
  /\ coming = FALSE /\ did = <<"none", NoBlock>>

PutBack ==
  /\ ~coming
  /\ marked' = FALSE
  /\ saved' = IF marked /\ cur \in Block THEN [saved EXCEPT ![cur] = text] ELSE saved

(* block: the text is what was saved of k. *)
Open(k) ==
  /\ k # cur /\ PutBack
  /\ cur' = k /\ text' = saved'[k] /\ coming' = TRUE /\ did' = <<"block", k>>
  /\ UNCHANGED seen

Arrive == coming /\ coming' = FALSE /\ UNCHANGED <<saved, cur, text, marked, did, seen>>

(* buffer: nothing is read for k, the text stays whatever it is. *)
Assign(k) ==
  /\ k # cur /\ PutBack
  /\ cur' = k /\ did' = <<"buffer", k>>
  /\ UNCHANGED <<text, coming, seen>>

(* Words that change nothing: block or buffer of what is open already,     *)
(* and either of a number that is no block's.                              *)
Report(word, k) == /\ ~coming /\ did' = <<word, k>>
                   /\ UNCHANGED <<saved, cur, text, coming, marked, seen>>
Again(word) == Report(word, cur)
Refuse(k)   == k \notin Block /\ Report("throw", k)

(* save-buffers, flush *)
Save  == /\ PutBack /\ did' = <<"save-buffers", NoBlock>>
         /\ UNCHANGED <<cur, text, coming, seen>>
Close == /\ PutBack /\ cur' = NoBlock /\ did' = <<"flush", NoBlock>>
         /\ UNCHANGED <<text, coming, seen>>

(* empty-buffers *)
Drop == /\ ~coming
        /\ cur' = NoBlock /\ marked' = FALSE
        /\ UNCHANGED <<saved, text, coming, did, seen>>

Mark    == ~coming /\ marked' = TRUE /\ UNCHANGED <<saved, cur, text, coming, did, seen>>
Edit(d) == ~coming /\ text' = d /\ UNCHANGED <<saved, cur, coming, marked, did, seen>>
Look    == ~coming /\ seen' = text /\ UNCHANGED <<saved, cur, text, coming, marked, did>>

Next ==
  \/ \E k \in Block : Open(k) \/ Assign(k)
  \/ \E word \in {"block", "buffer"} : Again(word)
  \/ \E k \in Key : Refuse(k)
  \/ Arrive \/ Save \/ Close \/ Drop \/ Mark \/ Look
  \/ \E d \in Data : Edit(d)

Spec == Init /\ [][Next]_vars
==============================================================================
