---------------------------- MODULE BlocksProofs ----------------------------
(***************************************************************************)
(* For any number of blocks, any contents and any tasks: the block words   *)
(* keep their types.  For one task: they implement BlockDevice.            *)
(***************************************************************************)
EXTENDS Blocks, TLAPS

USE TasksAssumption, KeyAssumption

LEMMA NextTask == ASSUME NEW t \in 0 .. Tasks - 1 PROVE (t + 1) % Tasks \in 0 .. Tasks - 1
BY Z3

LEMMA ValidIsBlock == ASSUME NEW k \in Int PROVE Valid(k) <=> k \in Block
BY DEF Valid, Block

LEMMA PauseType ==
  ASSUME TypeOK, NEW p \in Places, Pause(p)
  PROVE  up' \in 0 .. Tasks - 1 /\ at' \in [0 .. Tasks - 1 -> Places] /\ held' = Nothing
BY NextTask DEF TypeOK, Pause

LEMMA GoOnType ==
  ASSUME TypeOK, NEW h, GoOn(h)
  PROVE  up' \in 0 .. Tasks - 1 /\ at' \in [0 .. Tasks - 1 -> Places] /\ held' = h
BY DEF TypeOK, GoOn, Places

(* A word and its operand: block and buffer come with a valid number, the  *)
(* other two with none.                                                    *)
Operands(word, k) ==
  \/ word \in {"block", "buffer"} /\ k \in Block
  \/ word \in {"save-buffers", "flush"} /\ k = NoBlock

(* What a word may leave in did. *)
Reports == {"none", "block", "buffer", "save-buffers", "flush", "throw"}
             \X (Key \cup {NoBlock})

LEMMA ReportType ==
  ASSUME NEW word, NEW k, Operands(word, k) PROVE <<word, k>> \in Reports
<1>1. k \in Key \cup {NoBlock}
  BY DEF Operands, Block
<1>2. word \in {"none", "block", "buffer", "save-buffers", "flush", "throw"}
  BY DEF Operands
<1> QED BY <1>1, <1>2 DEF Reports

LEMMA AfterSaveType ==
  ASSUME TypeOK, NEW word, NEW k, Operands(word, k), AfterSave(word, k)
  PROVE  /\ did' \in Reports
         /\ blk0' \in Block \cup {NoBlock}
         /\ up' \in 0 .. Tasks - 1 /\ at' \in [0 .. Tasks - 1 -> Places]
         /\ held' \in Block \cup {NoBlock, Nothing}
<1>0. did' \in Reports
  BY ReportType DEF AfterSave
<1>1. CASE word = "block"
  <2>1. [op |-> "bget", blk |-> k, word |-> word, k |-> k] \in Places
    BY <1>1 DEF Operands, Places
  <2> QED BY <1>0, <1>1, <2>1, PauseType DEF AfterSave, Operands
<1>2. CASE word = "buffer"
  BY <1>0, <1>2, GoOnType DEF AfterSave, Operands
<1>3. CASE word = "save-buffers"
  BY <1>0, <1>3, GoOnType DEF AfterSave, TypeOK
<1>4. CASE word = "flush"
  BY <1>0, <1>4, GoOnType DEF AfterSave
<1> QED BY <1>1, <1>2, <1>3, <1>4 DEF AfterSave

LEMMA SaveThenType ==
  ASSUME TypeOK, NEW word, NEW k, Operands(word, k), SaveThen(word, k)
  PROVE  /\ did' \in Reports
         /\ blk0' \in Block \cup {NoBlock} /\ dirty0' \in BOOLEAN
         /\ up' \in 0 .. Tasks - 1 /\ at' \in [0 .. Tasks - 1 -> Places]
         /\ held' \in Block \cup {NoBlock, Nothing}
<1>1. CASE MustPut
  <2>1. [op |-> "bput", blk |-> blk0, word |-> word, k |-> k] \in Places
    <3>1. blk0 \in Block
      BY <1>1 DEF MustPut, Valid, Block, TypeOK, NoBlock
    <3> QED BY <3>1 DEF Operands, Places
  <2> QED BY <1>1, <2>1, PauseType DEF SaveThen, TypeOK, Reports
<1>2. CASE ~MustPut
  BY <1>2, AfterSaveType DEF SaveThen
<1> QED BY <1>1, <1>2

LEMMA BlockOrBufferType ==
  ASSUME TypeOK, NEW word \in {"block", "buffer"}, NEW k \in Key, BlockOrBuffer(word, k)
  PROVE  TypeOK'
<1>1. CASE /\ Loaded(k) /\ UNCHANGED <<blk0, dirty0, up, at>>
           /\ held' = k /\ did' = <<word, k>>
  BY <1>1 DEF BlockOrBuffer, Loaded, TypeOK
<1>2. CASE Valid(k) /\ SaveThen(word, k)
  <2>1. Operands(word, k)
    BY <1>2, ValidIsBlock DEF Operands
  <2> QED BY <1>2, <2>1, SaveThenType DEF BlockOrBuffer, TypeOK, Reports
<1> QED BY <1>1, <1>2 DEF BlockOrBuffer

LEMMA PutDoneType == ASSUME TypeOK, PutDone PROVE TypeOK'
<1>1. Operands(at[up].word, at[up].k) /\ at[up].blk \in Block
  BY DEF PutDone, TypeOK, Places, Run, Operands
<1>2. storage' \in [Block -> Data]
  BY <1>1 DEF PutDone, TypeOK
<1> QED BY <1>1, <1>2, AfterSaveType DEF PutDone, TypeOK, Reports

LEMMA GetDoneType == ASSUME TypeOK, GetDone PROVE TypeOK'
<1>1. at[up].k \in Block /\ at[up].blk \in Block
  BY DEF GetDone, TypeOK, Places, Run
<1> QED BY <1>1, GoOnType DEF GetDone, TypeOK

LEMMA TypeStep == TypeOK /\ [Next]_vars => TypeOK'
<1> SUFFICES ASSUME TypeOK, [Next]_vars PROVE TypeOK'
  OBVIOUS
<1>1. ASSUME NEW k \in Key, BlockWord(k) PROVE TypeOK'
  BY <1>1, BlockOrBufferType DEF BlockWord
<1>2. ASSUME NEW k \in Key, BufferWord(k) PROVE TypeOK'
  BY <1>2, BlockOrBufferType DEF BufferWord
<1>3. ASSUME NEW k \in Key, Throws(k) PROVE TypeOK'
  BY <1>3 DEF Throws, TypeOK
<1>4. CASE SaveOrFlush
  <2> PICK word \in {"save-buffers", "flush"} : SaveThen(word, NoBlock)
    BY <1>4 DEF SaveOrFlush
  <2> QED BY <1>4, SaveThenType DEF SaveOrFlush, Operands, TypeOK, Reports
<1>5. CASE PutDone
  BY <1>5, PutDoneType
<1>6. CASE GetDone
  BY <1>6, GetDoneType
<1>7. CASE Update \/ EmptyBuffers \/ Store \/ Read
  BY <1>7 DEF Update, EmptyBuffers, Store, Read, TypeOK
<1>8. CASE Pausing
  BY <1>8, PauseType DEF Pausing, Places, TypeOK
<1>9. CASE UNCHANGED vars
  BY <1>9 DEF vars, TypeOK
<1> QED BY <1>1, <1>2, <1>3, <1>4, <1>5, <1>6, <1>7, <1>8, <1>9 DEF Next

LEMMA TypeInit == Init => TypeOK
<1>1. 0 \in 0 .. Tasks - 1 /\ Run \in Places
  BY DEF Places
<1>2. <<"none", NoBlock>> \in Reports
  BY DEF Reports
<1> QED BY <1>1, <1>2 DEF Init, TypeOK, Reports

(* Every word leaves a valid block, or none, booked in the buffer, and     *)
(* every transfer is between the buffer and a valid block.                 *)
THEOREM TypeCorrect == Spec => []TypeOK
<1>1. Init => TypeOK
  BY TypeInit
<1> QED BY <1>1, TypeStep, PTL DEF Spec

(***************************************************************************)
(* One task: the pauses inside block and flush are nobody's chance.        *)
(***************************************************************************)
(* Nothing happens between the two halves of a transfer: what was to be    *)
(* written is still dirty and still booked, and what is on its way in is.  *)
TransferIsAlone ==
  /\ at[0].op = "bput" =>
       /\ dirty0 /\ blk0 = at[0].blk
       /\ at[0].word \in {"block", "buffer"} => at[0].k # blk0
  /\ at[0].op = "bget" => ~dirty0 /\ blk0 = at[0].blk

AloneInv == TypeOK /\ TransferIsAlone

LEMMA OneTask ==
  ASSUME Tasks = 1, TypeOK
  PROVE  /\ up = 0 /\ DOMAIN at = {0} /\ at \in [{0} -> Places]
         /\ Getting <=> at[0].op = "bget"
         /\ (up + 1) % Tasks = 0
BY DEF TypeOK, Getting

LEMMA PauseAlone ==
  ASSUME Tasks = 1, TypeOK, NEW p, Pause(p) PROVE at'[0] = p
BY OneTask DEF Pause

LEMMA GoOnAlone ==
  ASSUME Tasks = 1, TypeOK, NEW h, GoOn(h) PROVE at'[0] = Run
BY OneTask DEF GoOn

LEMMA AfterSaveAlone ==
  ASSUME Tasks = 1, TypeOK, NEW word, NEW k, Operands(word, k),
         AfterSave(word, k), dirty0' = FALSE
  PROVE  /\ TransferIsAlone'
         /\ \/ word = "block" /\ blk0' = k /\ at'[0].op = "bget"
            \/ word = "buffer" /\ blk0' = k /\ at'[0] = Run
            \/ word = "save-buffers" /\ blk0' = blk0 /\ at'[0] = Run
            \/ word = "flush" /\ blk0' = NoBlock /\ at'[0] = Run
<1>1. CASE word = "block"
  <2>1. at'[0] = [op |-> "bget", blk |-> k, word |-> word, k |-> k] /\ blk0' = k
    BY <1>1, PauseAlone DEF AfterSave
  <2> QED BY <1>1, <2>1 DEF TransferIsAlone
<1>2. CASE word # "block"
  <2>1. at'[0] = Run
    BY <1>2, GoOnAlone DEF AfterSave
  <2> QED BY <1>2, <2>1 DEF AfterSave, TransferIsAlone, Run
<1> QED BY <1>1, <1>2

LEMMA SaveThenAlone ==
  ASSUME Tasks = 1, TypeOK, NEW word, NEW k, Operands(word, k), k # blk0 \/ k = NoBlock,
         SaveThen(word, k)
  PROVE  TransferIsAlone'
<1>1. CASE MustPut
  <2>1. /\ at'[0] = [op |-> "bput", blk |-> blk0, word |-> word, k |-> k]
        /\ blk0' = blk0 /\ dirty0' = TRUE
    BY <1>1, PauseAlone DEF SaveThen, MustPut, TypeOK
  <2>2. word \in {"block", "buffer"} => k # blk0
    BY <1>1, ValidIsBlock DEF MustPut, Operands, Block, NoBlock, Valid, TypeOK
  <2> QED BY <2>1, <2>2 DEF TransferIsAlone
<1>2. CASE ~MustPut
  BY <1>2, AfterSaveAlone DEF SaveThen
<1> QED BY <1>1, <1>2

LEMMA BlockOrBufferAlone ==
  ASSUME Tasks = 1, AloneInv, NEW word \in {"block", "buffer"}, NEW k \in Key,
         BlockOrBuffer(word, k)
  PROVE  TransferIsAlone'
<1> USE DEF AloneInv
<1>1. CASE UNCHANGED <<blk0, dirty0, at>>
  BY <1>1 DEF TransferIsAlone
<1>2. CASE ~Loaded(k) /\ Valid(k) /\ SaveThen(word, k)
  <2>1. Operands(word, k) /\ k # blk0
    BY <1>2, ValidIsBlock DEF Operands, Loaded
  <2> QED BY <1>2, <2>1, SaveThenAlone
<1> QED BY <1>1, <1>2 DEF BlockOrBuffer

LEMMA AloneStep == Tasks = 1 /\ AloneInv /\ [Next]_vars => AloneInv'
<1> SUFFICES ASSUME Tasks = 1, AloneInv, [Next]_vars PROVE TransferIsAlone'
  BY TypeStep DEF AloneInv
<1> USE DEF AloneInv
<1>1. ASSUME NEW k \in Key, BlockWord(k) \/ BufferWord(k) PROVE TransferIsAlone'
  BY <1>1, BlockOrBufferAlone DEF BlockWord, BufferWord
<1>2. CASE SaveOrFlush
  <2>1. PICK word \in {"save-buffers", "flush"} : SaveThen(word, NoBlock)
    BY <1>2 DEF SaveOrFlush
  <2> QED BY <2>1, SaveThenAlone DEF Operands
<1>3. CASE PutDone
  <2>1. Operands(at[up].word, at[up].k)
    BY <1>3 DEF PutDone, TypeOK, Places, Run, Operands
  <2> QED BY <1>3, <2>1, AfterSaveAlone DEF PutDone
<1>4. CASE GetDone
  BY <1>4, GoOnAlone DEF GetDone, TransferIsAlone, Run
<1>5. CASE Pausing
  BY <1>5, PauseAlone DEF Pausing, TransferIsAlone, Run
<1>6. ASSUME at[up] = Run, UNCHANGED at PROVE TransferIsAlone'
  BY <1>6, OneTask DEF TransferIsAlone, Run
<1>7. ASSUME NEW k \in Key, Throws(k) PROVE TransferIsAlone'
  BY <1>6, <1>7 DEF Throws, Program
<1>8. CASE Update \/ EmptyBuffers \/ Store \/ Read
  BY <1>6, <1>8 DEF Update, EmptyBuffers, Store, Read, Program
<1>9. CASE UNCHANGED vars
  BY <1>9 DEF vars, TransferIsAlone
<1> QED BY <1>1, <1>2, <1>3, <1>4, <1>5, <1>7, <1>8, <1>9 DEF Next

LEMMA AloneInvariant == ASSUME Tasks = 1 PROVE Spec => []AloneInv
<1>1. Init => AloneInv
  <2>1. Init => at[0].op = "run"
    BY DEF Init, Run
  <2> QED BY <2>1, TypeInit DEF AloneInv, TransferIsAlone
<1>2. AloneInv /\ [Next]_vars => AloneInv'
  BY AloneStep
<1> QED BY <1>1, <1>2, PTL DEF Spec

(***************************************************************************)
(* Refinement: a word is one step of the device, taken where its last      *)
(* write to blk0 or storage is, and the copy into the buffer is the        *)
(* arrival of the text, which must be what the store holds.                *)
(***************************************************************************)
LEMMA TextOf ==
  ASSUME Tasks = 1, TypeOK
  PROVE  /\ at[0].op # "bget" => Getting = FALSE /\ DeviceText = buf
         /\ at[0].op = "bget" /\ Valid(blk0) => DeviceText = storage[blk0]
BY OneTask DEF DeviceText, Getting

LEMMA TextOfPrime ==
  ASSUME Tasks = 1, TypeOK'
  PROVE  /\ at'[0].op # "bget" => Getting' = FALSE /\ DeviceText' = buf'
         /\ at'[0].op = "bget" => Getting' = TRUE
         /\ at'[0].op = "bget" /\ Valid(blk0') => DeviceText' = storage'[blk0']
<1>1. DOMAIN at' = {0}
  BY DEF TypeOK
<1>2. /\ at'[0].op = "bget" => Getting' = TRUE
      /\ at'[0].op # "bget" => Getting' = FALSE
  BY <1>1 DEF Getting
<1> QED BY <1>2 DEF DeviceText, Valid

(* What is left after save-buffers is open, assign, save or close. *)
LEMMA AfterSaveDevice ==
  ASSUME Tasks = 1, TypeOK, TypeOK', NEW word, NEW k, Operands(word, k),
         word \in {"block", "buffer"} => k # blk0,
         AfterSave(word, k), Device!PutBack, dirty0' = FALSE,
         Getting = FALSE, DeviceText = buf, UNCHANGED <<buf, seen>>
  PROVE  Device!Next
<1>0. did' = <<word, k>>
  BY DEF AfterSave
<1>1. CASE word = "block"
  <2>1. blk0' = k /\ at'[0].op = "bget" /\ k \in Block
    BY <1>1, AfterSaveAlone DEF Operands
  <2>2. Valid(k)
    BY <2>1 DEF Valid, Block
  <2>3. Device!Open(k)
    BY <1>0, <1>1, <2>1, <2>2, TextOfPrime DEF Device!Open
  <2> QED BY <2>1, <2>3 DEF Device!Next
<1>2. CASE word = "buffer"
  <2>1. blk0' = k /\ at'[0] = Run /\ k \in Block
    BY <1>2, AfterSaveAlone DEF Operands
  <2>2. Getting' = FALSE /\ DeviceText' = DeviceText
    BY <2>1, TextOfPrime DEF Run
  <2>3. Device!Assign(k)
    BY <1>0, <1>2, <2>1, <2>2 DEF Device!Assign, Operands
  <2> QED BY <2>1, <2>3 DEF Device!Next
<1>3. CASE word = "save-buffers"
  <2>1. blk0' = blk0 /\ at'[0] = Run
    BY <1>3, AfterSaveAlone DEF Operands
  <2>2. Getting' = FALSE /\ DeviceText' = DeviceText
    BY <2>1, TextOfPrime DEF Run
  <2>3. Device!Save
    BY <1>0, <1>3, <2>1, <2>2 DEF Device!Save, Operands
  <2> QED BY <2>3 DEF Device!Next
<1>4. CASE word = "flush"
  <2>1. blk0' = NoBlock /\ at'[0] = Run
    BY <1>4, AfterSaveAlone DEF Operands
  <2>2. Getting' = FALSE /\ DeviceText' = DeviceText
    BY <2>1, TextOfPrime DEF Run
  <2>3. Device!Close
    BY <1>0, <1>4, <2>1, <2>2 DEF Device!Close, Operands
  <2> QED BY <2>3 DEF Device!Next
<1> QED BY <1>1, <1>2, <1>3, <1>4 DEF Operands

LEMMA SaveThenDevice ==
  ASSUME Tasks = 1, TypeOK, TypeOK', NEW word, NEW k, Operands(word, k), at[0] = Run,
         word \in {"block", "buffer"} => k # blk0,
         SaveThen(word, k), UNCHANGED <<buf, storage, seen>>
  PROVE  Device!Next \/ UNCHANGED Device!vars
<1>1. Getting = FALSE /\ DeviceText = buf
  BY TextOf DEF Run
<1>2. CASE MustPut
  <2>1. at'[0].op = "bput" /\ UNCHANGED <<blk0, dirty0, did>>
    BY <1>2, PauseAlone DEF SaveThen
  <2>2. Getting' = FALSE /\ DeviceText' = buf'
    BY <2>1, TextOfPrime
  <2> QED BY <1>1, <2>1, <2>2 DEF Device!vars
<1>3. CASE ~MustPut
  <2>1. Device!PutBack
    <3>1. ~(dirty0 /\ blk0 \in Block)
      BY <1>3 DEF MustPut, Valid, Block
    <3> QED BY <1>1, <1>3, <3>1 DEF Device!PutBack, SaveThen
  <2> QED BY <1>1, <1>3, <2>1, AfterSaveDevice DEF SaveThen
<1> QED BY <1>2, <1>3

LEMMA PutDoneDevice ==
  ASSUME Tasks = 1, AloneInv, TypeOK', PutDone PROVE Device!Next
<1> USE DEF AloneInv
<1>1. up = 0 /\ at[0].op = "bput"
  BY OneTask DEF PutDone
<1>2. Operands(at[0].word, at[0].k) /\ at[0].blk \in Block
  BY <1>1 DEF TypeOK, Places, Run, Operands
<1>3. dirty0 /\ blk0 = at[0].blk
  BY <1>1 DEF TransferIsAlone
<1>4. Getting = FALSE /\ DeviceText = buf
  BY <1>1, TextOf
<1>5. Device!PutBack
  BY <1>1, <1>2, <1>3, <1>4 DEF PutDone, Device!PutBack
<1>6. at[0].word \in {"block", "buffer"} => at[0].k # blk0
  BY <1>1 DEF TransferIsAlone
<1> QED BY <1>1, <1>2, <1>4, <1>5, <1>6, AfterSaveDevice DEF PutDone

LEMMA GetDoneDevice ==
  ASSUME Tasks = 1, AloneInv, TypeOK', GetDone PROVE Device!Arrive
<1> USE DEF AloneInv
<1>1. up = 0 /\ at[0].op = "bget"
  BY OneTask DEF GetDone
<1>2. blk0 = at[0].blk /\ Valid(blk0)
  BY <1>1, ValidIsBlock DEF TransferIsAlone, TypeOK, Places, Run, Block, Valid
<1>3. Getting = TRUE /\ DeviceText = storage[blk0]
  BY <1>1, <1>2, OneTask, TextOf DEF Getting
<1>4. at'[0] = Run
  BY GoOnAlone DEF GetDone
<1>5. Getting' = FALSE /\ DeviceText' = buf'
  BY <1>4, TextOfPrime DEF Run
<1>6. buf' = storage[blk0]
  BY <1>1, <1>2 DEF GetDone
<1> QED BY <1>3, <1>5, <1>6 DEF GetDone, Device!Arrive

(* With one task, through every order of words, valid numbers or not, one  *)
(* word is one step of the store of blocks, block k gives its program what *)
(* was saved of k, and what is marked is put back before another is open.  *)
THEOREM BlocksImplementDevice == ASSUME Tasks = 1 PROVE Spec => ImplementsDevice
<1>1. Init => Device!Init
  <2> SUFFICES ASSUME Init PROVE Device!Init
    OBVIOUS
  <2>1. TypeOK /\ at[0].op # "bget"
    BY TypeInit DEF Init, Run
  <2>2. Getting = FALSE /\ DeviceText = buf
    BY <2>1, TextOf DEF Init
  <2> QED BY <2>2 DEF Init, Device!Init
<1>2. AloneInv /\ AloneInv' /\ [Next]_vars => [Device!Next]_(Device!vars)
  <2> SUFFICES ASSUME AloneInv, AloneInv', [Next]_vars
               PROVE  Device!Next \/ UNCHANGED Device!vars
    OBVIOUS
  <2> USE DEF AloneInv
  <2>1. ASSUME UNCHANGED at, at[0] = Run
        PROVE  Getting = FALSE /\ Getting' = FALSE /\ DeviceText = buf /\ DeviceText' = buf'
    BY <2>1, TextOf, TextOfPrime DEF Run
  <2>2. ASSUME NEW word \in {"block", "buffer"}, NEW k \in Key, BlockOrBuffer(word, k)
        PROVE  Device!Next \/ UNCHANGED Device!vars
    <3>1. at[0] = Run
      BY <2>2, OneTask DEF BlockOrBuffer, Program
    <3>2. CASE Loaded(k) /\ did' = <<word, k>> /\ UNCHANGED <<blk0, dirty0, up, at>>
      <4>1. Device!Again(word)
        BY <2>1, <2>2, <3>1, <3>2 DEF BlockOrBuffer, Loaded, Device!Again, Device!Report
      <4> QED BY <4>1 DEF Device!Next
    <3>3. CASE ~Loaded(k) /\ Valid(k) /\ SaveThen(word, k)
      <4>1. Operands(word, k) /\ k # blk0
        BY <3>3, ValidIsBlock DEF Operands, Loaded
      <4> QED BY <2>2, <3>1, <3>3, <4>1, SaveThenDevice DEF BlockOrBuffer
    <3> QED BY <2>2, <3>2, <3>3 DEF BlockOrBuffer
  <2>3. ASSUME NEW k \in Key, BlockWord(k) \/ BufferWord(k)
        PROVE  Device!Next \/ UNCHANGED Device!vars
    BY <2>2, <2>3 DEF BlockWord, BufferWord
  <2>4. CASE SaveOrFlush
    <3>1. PICK word \in {"save-buffers", "flush"} : SaveThen(word, NoBlock)
      BY <2>4 DEF SaveOrFlush
    <3>2. at[0] = Run
      BY <2>4, OneTask DEF SaveOrFlush, Program
    <3> QED BY <2>4, <3>1, <3>2, SaveThenDevice DEF SaveOrFlush, Operands
  <2>5. CASE PutDone
    BY <2>5, PutDoneDevice
  <2>6. CASE GetDone
    BY <2>6, GetDoneDevice DEF Device!Next
  <2>7. CASE Update
    BY <2>1, <2>7, OneTask DEF Update, Program, Device!Mark, Device!Next
  <2>8. CASE EmptyBuffers
    BY <2>1, <2>8, OneTask DEF EmptyBuffers, Program, Device!Drop, Device!Next
  <2>9. CASE Store
    BY <2>1, <2>9, OneTask DEF Store, Program, Device!Edit, Device!Next
  <2>10. CASE Read
    BY <2>1, <2>10, OneTask DEF Read, Program, Device!Look, Device!Next
  <2>11. CASE Pausing
    <3>1. at[0] = Run /\ at'[0] = Run
      BY <2>11, OneTask, PauseAlone DEF Pausing, Program
    <3>2. Getting = FALSE /\ Getting' = FALSE /\ DeviceText = buf /\ DeviceText' = buf'
      BY <3>1, TextOf, TextOfPrime DEF Run
    <3> QED BY <2>11, <3>2 DEF Pausing, Device!vars
  <2>12. ASSUME NEW k \in Key, Throws(k) PROVE Device!Next
    <3>1. Device!Refuse(k)
      BY <2>1, <2>12, OneTask, ValidIsBlock DEF Throws, Program, Device!Refuse, Device!Report
    <3> QED BY <3>1 DEF Device!Next
  <2>13. CASE UNCHANGED vars
    BY <2>13 DEF vars, Device!vars, DeviceText, Getting
  <2> QED BY <2>3, <2>4, <2>5, <2>6, <2>7, <2>8, <2>9, <2>10, <2>11, <2>12, <2>13 DEF Next
<1>3. Spec => []AloneInv
  BY AloneInvariant
<1> QED BY <1>1, <1>2, <1>3, PTL DEF Spec, ImplementsDevice, Device!Spec
==============================================================================
