------------------------------- MODULE Blocks -------------------------------
(***************************************************************************)
(* The block words of eForth: block, buffer, update, save-buffers, flush,  *)
(* empty-buffers and the transfer (block) under them                       *)
(* (forth/50-tools-blocks-io.fth).  There is one buffer for all tasks, and *)
(* (block) pauses before it copies.                                        *)
(*                                                                         *)
(* Tasks 0 .. Tasks-1 are one ring and change places only in pause.  With  *)
(* Tasks = 1 the ring is the terminal task by itself, or tasks that leave  *)
(* blocks alone.                                                           *)
(***************************************************************************)
EXTENDS Integers

CONSTANTS
  Tasks,
  MaxBlock,         \* $7F in the code
  Key,              \* the numbers programs try
  Data              \* contents of a block

ASSUME TasksAssumption == Tasks \in Nat \ {0}
ASSUME KeyAssumption == MaxBlock \in Nat \ {0} /\ 1 .. MaxBlock \subseteq Key /\ Key \subseteq Int

VARIABLES
  blk0, dirty0, buf,  \* the buffer: which block, updated?, what
  storage,
  up, at,             \* the running task; where each task is
  held,               \* the block it has the address of since its last pause
  seen,               \* what a program read last
  did                 \* what came through last: a word and its number, or a throw of -$23
vars == <<blk0, dirty0, buf, storage, up, at, held, seen, did>>

NoBlock == -1
Nothing == -2
Block   == 1 .. MaxBlock

(* Mutant of Valid: one too many. *)
ValidAndOne(k) == 1 <= k /\ k <= MaxBlock + 1
Valid(k) == 1 <= k /\ k < MaxBlock + 1

(* A task is in its own words, or in the pause of a transfer: of the       *)
(* buffer to block blk, in the given word on k, or from block blk.         *)
Run     == [op |-> "run", blk |-> NoBlock, word |-> "none", k |-> NoBlock]
Places  == {Run}
             \cup [op : {"bput"}, blk : Block, word : {"block", "buffer"}, k : Block]
             \cup [op : {"bput"}, blk : Block, word : {"save-buffers", "flush"}, k : {NoBlock}]
             \cup [op : {"bget"}, blk : Block, word : {"block"}, k : Block]

TypeOK ==
  /\ blk0 \in Block \cup {NoBlock} /\ dirty0 \in BOOLEAN /\ buf \in Data
  /\ storage \in [Block -> Data]
  /\ up \in 0 .. Tasks - 1 /\ at \in [0 .. Tasks - 1 -> Places]
  /\ held \in Block \cup {NoBlock, Nothing} /\ seen \in Data
  /\ did \in {"none", "block", "buffer", "save-buffers", "flush", "throw"}
              \X (Key \cup {NoBlock})

Init ==
  /\ blk0 = NoBlock /\ dirty0 = FALSE
  /\ buf \in Data /\ storage \in [Block -> Data]
  /\ up = 0 /\ at = [t \in 0 .. Tasks - 1 |-> Run]
  /\ held = Nothing /\ seen = buf /\ did = <<"none", NoBlock>>
------------------------------------------------------------------------------
Program == at[up] = Run

Pause(place) ==
  /\ at' = [at EXCEPT ![up] = place]
  /\ up' = (up + 1) % Tasks
  /\ held' = Nothing

GoOn(h) == at' = [at EXCEPT ![up] = Run] /\ held' = h /\ UNCHANGED up

(* Mutant of AfterSave: block returns the buffer without reading into it. *)
AfterSaveUnread(word, k) ==
  /\ did' = <<word, k>>
  /\ \/ word \in {"block", "buffer"} /\ blk0' = k /\ GoOn(k)
     \/ word = "save-buffers" /\ UNCHANGED blk0 /\ GoOn(held)
     \/ word = "flush" /\ blk0' = NoBlock /\ GoOn(Nothing)
(* What is left of a word when save-buffers is through. *)
AfterSave(word, k) ==
  /\ did' = <<word, k>>
  /\ \/ /\ word = "block"
        /\ blk0' = k
        /\ Pause([op |-> "bget", blk |-> k, word |-> word, k |-> k])
     \/ word = "buffer" /\ blk0' = k /\ GoOn(k)
     \/ word = "save-buffers" /\ UNCHANGED blk0 /\ GoOn(held)
     \/ word = "flush" /\ blk0' = NoBlock /\ GoOn(Nothing)

(* save-buffers: bput drops what belongs to no block. *)
MustPut == dirty0 /\ Valid(blk0)

(* Mutant of SaveThen: blk0 is set before the old block is written back.   *)
SaveThenLate(word, k) ==
  \/ /\ MustPut
     /\ Pause([op |-> "bput", blk |-> IF Valid(k) THEN k ELSE blk0, word |-> word, k |-> k])
     /\ UNCHANGED <<blk0, dirty0, did>>
  \/ ~MustPut /\ dirty0' = FALSE /\ AfterSave(word, k)
SaveThen(word, k) ==
  \/ /\ MustPut
     /\ Pause([op |-> "bput", blk |-> blk0, word |-> word, k |-> k])
     /\ UNCHANGED <<blk0, dirty0, did>>
  \/ ~MustPut /\ dirty0' = FALSE /\ AfterSave(word, k)

Loaded(k) == k = blk0

(* block ( k -- a ) and buffer ( k -- a ) *)
BlockOrBuffer(word, k) ==
  /\ Program
  /\ \/ /\ Loaded(k)
        /\ held' = k /\ did' = <<word, k>>
        /\ UNCHANGED <<blk0, dirty0, up, at>>
     \/ ~Loaded(k) /\ Valid(k) /\ SaveThen(word, k)
  /\ UNCHANGED <<buf, storage, seen>>

BlockWord(k)  == BlockOrBuffer("block", k)
BufferWord(k) == Valid(k) /\ BlockOrBuffer("buffer", k)

(* "throw if invalid": before anything is saved.  block looks whether k is *)
(* loaded first, buffer whether it is valid, so that only block takes the  *)
(* mark of an empty buffer, -1, for a block.                               *)
Throws(k) ==
  /\ Program /\ ~Valid(k)
  /\ held' = Nothing /\ did' = <<"throw", k>>
  /\ UNCHANGED <<blk0, dirty0, buf, storage, up, at, seen>>

SaveOrFlush ==
  /\ Program
  /\ \E word \in {"save-buffers", "flush"} : SaveThen(word, NoBlock)
  /\ UNCHANGED <<buf, storage, seen>>

(* (block) goes on after its pause. *)
PutDone ==
  /\ at[up].op = "bput"
  /\ storage' = [storage EXCEPT ![at[up].blk] = buf]
  /\ dirty0' = FALSE
  /\ AfterSave(at[up].word, at[up].k)
  /\ UNCHANGED <<buf, seen>>

(* Mutant of GetDone: without bget's swap the copy goes the other way. *)
GetDoneBackwards ==
  /\ at[up].op = "bget"
  /\ storage' = [storage EXCEPT ![at[up].blk] = buf]
  /\ GoOn(at[up].k)
  /\ UNCHANGED <<blk0, dirty0, buf, seen, did>>
GetDone ==
  /\ at[up].op = "bget"
  /\ buf' = storage[at[up].blk]
  /\ GoOn(at[up].k)
  /\ UNCHANGED <<blk0, dirty0, storage, seen, did>>

Update ==
  /\ Program
  /\ dirty0' = TRUE
  /\ UNCHANGED <<blk0, buf, storage, up, at, held, seen, did>>

EmptyBuffers ==
  /\ Program
  /\ dirty0' = FALSE /\ blk0' = NoBlock
  /\ held' = Nothing
  /\ UNCHANGED <<buf, storage, up, at, seen, did>>

(* The program writes into the buffer, reads it, or pauses. *)
Store ==
  /\ Program /\ held # Nothing
  /\ buf' \in Data
  /\ UNCHANGED <<blk0, dirty0, storage, up, at, held, seen, did>>

Read ==
  /\ Program /\ held # Nothing
  /\ seen' = buf
  /\ UNCHANGED <<blk0, dirty0, buf, storage, up, at, held, did>>

Pausing ==
  /\ Program /\ Pause(Run)
  /\ UNCHANGED <<blk0, dirty0, buf, storage, seen, did>>

Next ==
  \/ \E k \in Key : BlockWord(k) \/ BufferWord(k) \/ Throws(k)
  \/ SaveOrFlush \/ PutDone \/ GetDone
  \/ Update \/ EmptyBuffers \/ Store \/ Read \/ Pausing

Spec == Init /\ [][Next]_vars
------------------------------------------------------------------------------
(* A block on its way into the buffer is open already, and its text is    *)
(* what the store holds: the copy must leave exactly that in the buffer.   *)
Getting    == \E t \in DOMAIN at : at[t].op = "bget"
DeviceText == IF Getting /\ Valid(blk0) THEN storage[blk0] ELSE buf

Device == INSTANCE BlockDevice
            WITH saved <- storage, cur <- blk0, marked <- dirty0,
                 text <- DeviceText, coming <- Getting

(* One task sees a store of blocks with one open at a time: block k has    *)
(* the program read what was saved of k, after every update of it and of   *)
(* whatever was open before has been written back, and buffer k reads      *)
(* nothing, through any order of block, buffer, update, flush,             *)
(* empty-buffers, invalid numbers and programs that write without update.  *)
ImplementsDevice == Device!Spec
==============================================================================
