---------------------------- MODULE EepromProofs ----------------------------
(***************************************************************************)
(* Theorems of Eeprom, for every table, page size, set of values and       *)
(* number of power losses.                                                 *)
(*                                                                         *)
(* The argument: types and the order of used slots (for every step, flash  *)
(* errors included); which headers the pages can have at each step of a    *)
(* call (PageShape) and what the copy loop has done so far (Contents);     *)
(* from these, whenever power fails, no page holds an older value than     *)
(* allowed (HeldInv), and, when it does not fail in the window, what a     *)
(* boot would recover, Recovered, changes only where the address of a new  *)
(* value is programmed and where a swap drops the unlisted variables       *)
(* (StoreStep); hence durability, and, with the room that the used slots   *)
(* leave (RoomInv), that the pages implement NvMap.                        *)
(***************************************************************************)
EXTENDS Eeprom, TLAPS

WritingVa == {"write_va", "put_va", "copy_va"}

Half == [data : Data \cup {Blank}, va : Vars \cup {Blank}]

(***************************************************************************)
(* What TypeOK needs to be inductive: the arguments of EE_WriteVariable    *)
(* are there as long as it runs, and VarIdx is in range when it is used.   *)
(***************************************************************************)
ArgsOK ==
  /\ job = "EE_WriteVariable" => req \in [va : Vars, data : Data]
  /\ pc \in {"write", "write_va", "mark_receive", "put", "put_va"} =>
       job = "EE_WriteVariable"
  /\ pc = "copy_va" => idx <= Len(Table)
  /\ pc \in WritingVa => at \in Slots

TypeInv == TypeOK /\ ArgsOK

LEMMA TableFacts ==
  /\ Len(Table) \in Nat
  /\ \A i \in 1..Len(Table) : Table[i] \in Vars
BY VarAssumption

LEMMA WritePageType == WritePage \in Pages /\ ReadPage \in Pages
BY DEF WritePage, ReadPage, Pages

\* The value found in a page is a half-word of that page.
LEMMA LookupType ==
  ASSUME TypeOK, NEW p \in Pages, NEW v \in Vars, Found(p, v)
  PROVE  Lookup(p, v) \in Data \cup {Blank}
<1> DEFINE i == CHOOSE k \in Slots : Latest(p, v, k)
<1>1. i \in Slots BY DEF Found
<1>2. slot[p][i] \in Half BY <1>1 DEF TypeOK, Half
<1> QED BY <1>2 DEF Lookup, Half

\* Programming a half-word keeps the type of the flash.
LEMMA ProgramDataType ==
  ASSUME TypeOK, NEW d \in Data \cup {Blank}, ProgramData(d)
  PROVE  /\ status' \in [Pages -> Status]
         /\ slot' \in [Pages -> [Slots -> Half]]
         /\ at' \in Slots
<1>1. PICK i \in Slots : slot' = [slot EXCEPT ![WritePage][i] = [data |-> d, va |-> Blank]]
                            /\ at' = i /\ UNCHANGED status
  BY DEF ProgramData
<1>2. [data |-> d, va |-> Blank] \in Half BY DEF Half
<1>3. slot \in [Pages -> [Slots -> Half]] BY DEF TypeOK, Half
<1>4. slot' \in [Pages -> [Slots -> Half]] BY <1>1, <1>2, <1>3, WritePageType
<1> QED BY <1>1, <1>4 DEF TypeOK

LEMMA ProgramVaType ==
  ASSUME TypeOK, NEW v \in Vars \cup {Blank},
         slot' = [slot EXCEPT ![WritePage][at] = [data |-> @.data, va |-> v]],
         at \in Slots
  PROVE  slot' \in [Pages -> [Slots -> Half]]
BY WritePageType DEF TypeOK, Half

LEMMA EraseType ==
  ASSUME TypeOK, NEW p \in Pages, Erase(p)
  PROVE  /\ status' \in [Pages -> Status]
         /\ slot' \in [Pages -> [Slots -> Half]]
BY DEF TypeOK, Erase, Half, BlankSlot, Status

LEMMA MarkType ==
  ASSUME TypeOK, NEW p \in Pages, NEW st \in Status, Mark(p, st)
  PROVE  /\ status' \in [Pages -> Status]
         /\ slot' \in [Pages -> [Slots -> Half]]
BY DEF TypeOK, Mark, Half, Status

LEMMA TypeInit == Init => TypeInv
<1> SUFFICES ASSUME Init PROVE TypeInv
  OBVIOUS
<1>1. allowed \in [Vars -> SUBSET Values] BY DEF Init, Values
<1>2. slot \in [Pages -> [Slots -> Half]] BY DEF Init, Half, BlankSlot
<1>3. status \in [Pages -> Status] BY DEF Init, Status
<1>4. req \in [va : Vars \cup {Blank}, data : Data \cup {Blank}] BY DEF Init, NoReq
<1>5. idx \in 1..Len(Table) + 1 /\ losses \in 0..MaxLosses
  BY TableFacts, LossAssumption DEF Init
<1> QED
  BY <1>1, <1>2, <1>3, <1>4, <1>5
  DEF Init, TypeInv, TypeOK, ArgsOK, Labels, Half, WritingVa, Pages

LEMMA TypeStep == TypeInv /\ [Next]_vars => TypeInv'
<1> SUFFICES ASSUME TypeInv, [Next]_vars PROVE TypeInv'
  OBVIOUS
<1> USE DEF TypeInv
<1> DEFINE FlashOK == /\ status' \in [Pages -> Status]
                      /\ slot' \in [Pages -> [Slots -> Half]]
<1>A. UNCHANGED flash => FlashOK BY DEF flash, TypeOK, Half
<1>B. ClearLocals => /\ job' \in {"none", "EE_Init", "EE_WriteVariable"}
                     /\ req' \in [va : Vars \cup {Blank}, data : Data \cup {Blank}]
                     /\ at' \in Slots \cup {0} /\ new' \in Pages /\ idx' \in 1..Len(Table) + 1
                     /\ job' # "EE_WriteVariable"
  BY TableFacts DEF ClearLocals, NoReq, Pages
<1>C. \A p \in Pages : Other(p) \in Pages BY DEF Pages, Other
<1>D. FlashOK /\ Done => TypeInv'
  <2> SUFFICES ASSUME FlashOK, Done PROVE TypeInv'
    OBVIOUS
  <2>1. allowed' \in [Vars -> SUBSET Values]
    <3>1. CASE job = "EE_WriteVariable"
      <4>1. allowed \in [Vars -> SUBSET Values] /\ req.va \in Vars /\ req.data \in Values
        BY <3>1 DEF TypeOK, ArgsOK, Values
      <4>2. allowed' = [allowed EXCEPT ![req.va] = IF failed THEN @ \cup {req.data} ELSE {req.data}]
        BY <3>1 DEF Done, Narrowed
      <4> QED BY <4>1, <4>2
    <3>2. CASE job # "EE_WriteVariable"
      BY <3>2 DEF Done, TypeOK, Values
    <3> QED BY <3>1, <3>2
  <2>2. losses' \in 0..MaxLosses
    BY LossAssumption DEF Done, TypeOK
  <2> QED BY <1>B, <2>1, <2>2 DEF Done, TypeOK, ArgsOK, Labels, Half, WritingVa
<1>E. FlashOK /\ Fail => TypeInv'
  BY <1>B DEF Fail, TypeOK, ArgsOK, Labels, Half, WritingVa
<1> DEFINE Boots == \E l \in {"format", "clean", "swap_erase", "copy"}, p \in Pages : Boot(l, p)
<1>1. CASE EE_Init
  <2>1. PICK l \in {"format", "clean", "swap_erase", "copy"}, p \in Pages : Boot(l, p)
    <3>1. 0 \in Pages BY DEF Pages
    <3> QED BY <1>1, <3>1 DEF EE_Init, InitErase, InitFinishSwap, InitCopy, InitFormat
  <2> QED BY <2>1, <1>A DEF Boot, GoTo, ghosts, TypeOK, ArgsOK, Labels, Half, WritingVa
<1>2. CASE FormatErase
  <2>1. FlashOK BY <1>2, EraseType DEF FormatErase, Pages
  <2> QED BY <1>2, <2>1 DEF FormatErase, GoTo, ghosts, locals, TypeOK, ArgsOK, Labels, Half, WritingVa
<1>3. CASE FormatValid
  <2>1. FlashOK BY <1>3, MarkType DEF FormatValid, Pages, Status
  <2> QED BY <1>3, <2>1 DEF FormatValid, GoTo, ghosts, locals, TypeOK, ArgsOK, Labels, Half, WritingVa
<1>4. CASE InitValid
  <2>1. FlashOK BY <1>4, MarkType DEF InitValid, Status, TypeOK
  <2> QED BY <1>4, <2>1 DEF InitValid, GoTo, ghosts, locals, TypeOK, ArgsOK, Labels, Half, WritingVa
<1>5. CASE InitClean
  BY <1>5, <1>C, <1>D, EraseType DEF InitClean, TypeOK
<1>6. CASE Write
  <2>1. PICK v \in Vars, d \in Data : WriteUnchanged(v, d) \/ WriteCall(v, d)
    BY <1>6 DEF Write
  <2>2. CASE WriteUnchanged(v, d)
    <3>1. allowed' \in [Vars -> SUBSET Values]
      BY <2>2 DEF WriteUnchanged, Narrowed, TypeOK, Values
    <3> QED BY <2>2, <3>1, <1>A DEF WriteUnchanged, locals, TypeOK, ArgsOK, Labels, Half, WritingVa
  <2>3. CASE WriteCall(v, d)
    <3>1. allowed' \in [Vars -> SUBSET Values]
      BY <2>3 DEF WriteCall, TypeOK, Values
    <3> QED BY <2>3, <3>1, <1>A DEF WriteCall, TypeOK, ArgsOK, Labels, Half, WritingVa
  <2> QED BY <2>1, <2>2, <2>3
<1>7. CASE WriteData
  <2>1. FlashOK /\ at' \in Slots
    BY <1>7, ProgramDataType DEF WriteData, TypeOK
  <2> QED BY <1>7, <2>1 DEF WriteData, GoTo, ghosts, TypeOK, ArgsOK, Labels, Half, WritingVa
<1>8. CASE WriteVa
  BY <1>8, <1>D, ProgramVaType DEF WriteVa, TypeOK, ArgsOK, WritingVa
<1>9. CASE WriteFull
  BY <1>9, <1>A, <1>C, WritePageType
  DEF WriteFull, GoTo, ghosts, TypeOK, ArgsOK, Labels, Half, WritingVa
<1>10. CASE TransferMark
  <2>1. FlashOK BY <1>10, MarkType DEF TransferMark, Status, TypeOK
  <2> QED BY <1>10, <2>1 DEF TransferMark, GoTo, ghosts, locals, TypeOK, ArgsOK, Labels, Half, WritingVa
<1>11. CASE TransferData
  <2>1. FlashOK /\ at' \in Slots
    BY <1>11, ProgramDataType DEF TransferData, TypeOK
  <2> QED BY <1>11, <2>1 DEF TransferData, GoTo, ghosts, TypeOK, ArgsOK, Labels, Half, WritingVa
<1>12. CASE TransferVa
  <2>1. FlashOK
    BY <1>12, ProgramVaType DEF TransferVa, ProgramVa, TypeOK, ArgsOK, WritingVa
  <2> QED BY <1>12, <2>1 DEF TransferVa, ProgramVa, GoTo, ghosts, TypeOK, ArgsOK, Labels, Half, WritingVa
<1>13. CASE CopySkip
  BY <1>13, <1>A, TableFacts DEF CopySkip, ghosts, TypeOK, ArgsOK, Labels, Half, WritingVa
<1>14. CASE CopyData
  <2>1. Table[idx] \in Vars /\ Found(ReadPage, Table[idx]) /\ idx <= Len(Table)
    BY <1>14, TableFacts DEF CopyData, ToCopy, TypeOK
  <2>2. Lookup(ReadPage, Table[idx]) \in Data \cup {Blank}
    BY <2>1, LookupType, WritePageType
  <2>3. FlashOK /\ at' \in Slots
    BY <1>14, <2>2, ProgramDataType DEF CopyData
  <2> QED BY <1>14, <2>1, <2>3 DEF CopyData, GoTo, ghosts, TypeOK, ArgsOK, Labels, Half, WritingVa
<1>15. CASE CopyVa
  <2>1. Table[idx] \in Vars /\ idx <= Len(Table)
    BY <1>15, TableFacts DEF CopyVa, ArgsOK, TypeOK
  <2>2. FlashOK
    BY <1>15, <2>1, ProgramVaType DEF CopyVa, ProgramVa, TypeOK, ArgsOK, WritingVa
  <2> QED
    BY <1>15, <2>1, <2>2, TableFacts
    DEF CopyVa, ProgramVa, GoTo, ghosts, TypeOK, ArgsOK, Labels, Half, WritingVa
<1>16. CASE CopyEnd
  BY <1>16, <1>A DEF CopyEnd, GoTo, ghosts, locals, TypeOK, ArgsOK, Labels, Half, WritingVa
<1>17. CASE SwapErase
  <2>1. FlashOK BY <1>17, <1>C, EraseType DEF SwapErase, TypeOK
  <2> QED BY <1>17, <2>1 DEF SwapErase, GoTo, ghosts, locals, TypeOK, ArgsOK, Labels, Half, WritingVa
<1>18. CASE SwapValid
  BY <1>18, <1>D, MarkType DEF SwapValid, Status, TypeOK
<1>19. CASE NoValidPage
  BY <1>19, <1>A, <1>E DEF NoValidPage
<1>20. CASE NewPageFull
  BY <1>20, <1>A, <1>E DEF NewPageFull
<1>21. CASE FlashError
  BY <1>21, <1>A, <1>E DEF FlashError
<1>22. CASE PowerLoss
  <2>1. losses' \in 0..MaxLosses
    BY <1>22, LossAssumption DEF PowerLoss, TypeOK
  <2> QED BY <1>22, <2>1, <1>A, <1>B DEF PowerLoss, TypeOK, ArgsOK, Labels, Half, WritingVa
<1>23. CASE UNCHANGED vars
  BY <1>23 DEF vars, TypeOK, ArgsOK
<1> QED
  BY <1>1, <1>2, <1>3, <1>4, <1>5, <1>6, <1>7, <1>8, <1>9, <1>10, <1>11, <1>12,
     <1>13, <1>14, <1>15, <1>16, <1>17, <1>18, <1>19, <1>20, <1>21, <1>22, <1>23
  DEF Next

\* Type correctness: every header, slot, label and argument of driver/eeprom.c
\* keeps to its type.
THEOREM TypeCorrect == Spec => []TypeOK
<1>1. Spec => []TypeInv
  BY TypeInit, TypeStep, PTL DEF Spec
<1> QED BY <1>1, PTL DEF TypeInv

(***************************************************************************)
(* The used slots come first.  Between the two halves of a slot, the slots *)
(* before it are used and those after it blank.                            *)
(***************************************************************************)
UsedBefore(p, k) ==
  \A j \in Slots : /\ j < k => slot[p][j] # BlankSlot
                   /\ j > k => slot[p][j] = BlankSlot

HalfWritten == pc \in WritingVa => UsedBefore(WritePage, at)

UsedInv == UsedFirst /\ HalfWritten

LEMMA UsedProgramData ==
  ASSUME TypeInv, UsedFirst, NEW d, ProgramData(d)
  PROVE  UsedFirst' /\ UsedBefore(WritePage, at)'
<1>1. PICK w \in Pages, i \in Slots :
         /\ w = WritePage /\ FirstBlank(w, i)
         /\ slot' = [slot EXCEPT ![w][i] = [data |-> d, va |-> Blank]]
         /\ at' = i /\ UNCHANGED status
  BY WritePageType DEF ProgramData
<1>2. WritePage' = w BY <1>1 DEF WritePage
<1>3. \A p \in Pages, j \in Slots : p # w \/ j # i => slot'[p][j] = slot[p][j]
  BY <1>1 DEF TypeInv, TypeOK
<1>4. \A p \in Pages, j, k \in Slots :
        j < k /\ slot[p][j] = BlankSlot => slot[p][k] = BlankSlot
  BY DEF UsedFirst, IsBlank
<1>5. \A j \in Slots : /\ j < i => slot[w][j] # BlankSlot
                       /\ j > i => slot[w][j] = BlankSlot
  <2>1. slot[w][i] = BlankSlot
    BY <1>1 DEF FirstBlank, IsBlank
  <2>2. \A j \in 1..i-1 : slot[w][j] # BlankSlot
    BY <1>1 DEF FirstBlank, IsBlank
  <2> QED BY <2>1, <2>2, <1>4, SlotAssumption DEF Slots
<1>6. \A j \in Slots : /\ j < i => slot'[w][j] # BlankSlot
                       /\ j > i => slot'[w][j] = BlankSlot
  BY <1>3, <1>5, SlotAssumption DEF Slots
<1>7. \A p \in Pages, j, k \in Slots :
        j < k /\ slot'[p][j] = BlankSlot => slot'[p][k] = BlankSlot
  <2> TAKE p \in Pages, j \in Slots, k \in Slots
  <2> HAVE j < k /\ slot'[p][j] = BlankSlot
  <2>0. j \in Int /\ k \in Int /\ i \in Int BY SlotAssumption DEF Slots
  <2>1. CASE p # w BY <2>1, <1>3, <1>4
  <2>2. CASE p = w
    <3>1. ~(j < i) BY <2>2, <1>6
    <3>2. k > i BY <2>0, <3>1
    <3> QED BY <2>2, <3>2, <1>6
  <2> QED BY <2>1, <2>2
<1> QED BY <1>1, <1>2, <1>6, <1>7 DEF UsedFirst, IsBlank, UsedBefore

LEMMA UsedProgramVa ==
  ASSUME TypeInv, UsedInv, pc \in WritingVa, NEW v \in Vars,
         slot' = [slot EXCEPT ![WritePage][at] = [data |-> @.data, va |-> v]]
  PROVE  UsedFirst'
<1>1. PICK w \in Pages : w = WritePage BY WritePageType
<1>2. \A p \in Pages, j \in Slots :
        slot'[p][j] = IF p = w /\ j = at THEN [data |-> slot[p][j].data, va |-> v]
                      ELSE slot[p][j]
  BY <1>1 DEF TypeInv, TypeOK
<1>3. at \in Slots BY DEF TypeInv, ArgsOK
<1>4. slot'[w][at] # BlankSlot
  <2>1. v # Blank BY VarAssumption
  <2>2. slot'[w][at] = [data |-> slot[w][at].data, va |-> v]
    BY <1>2, <1>3
  <2> QED BY <2>1, <2>2 DEF BlankSlot
<1>5. \A j \in Slots : /\ j < at => slot[w][j] # BlankSlot
                       /\ j > at => slot[w][j] = BlankSlot
  BY <1>1 DEF UsedInv, HalfWritten, UsedBefore
<1>6. \A p \in Pages, i, j \in Slots :
        i < j /\ slot'[p][i] = BlankSlot => slot'[p][j] = BlankSlot
  <2> TAKE p \in Pages, i \in Slots, j \in Slots
  <2> HAVE i < j /\ slot'[p][i] = BlankSlot
  <2>0. i \in Int /\ j \in Int /\ at \in Int BY <1>3, SlotAssumption DEF Slots
  <2>1. CASE p # w
    BY <2>1, <1>2 DEF UsedInv, UsedFirst, IsBlank
  <2>2. CASE p = w
    <3>1. i # at BY <2>2, <1>4
    <3>2. ~(i < at) BY <2>0, <2>2, <3>1, <1>2, <1>5, SlotAssumption DEF Slots
    <3>3. j > at BY <2>0, <3>1, <3>2
    <3>4. j # at BY <2>0, <3>3
    <3> QED BY <2>2, <3>3, <3>4, <1>2, <1>5
  <2> QED BY <2>1, <2>2
<1> QED BY <1>6 DEF UsedFirst, IsBlank

LEMMA UsedErase ==
  ASSUME TypeInv, UsedFirst, NEW p \in Pages, Erase(p)
  PROVE  UsedFirst'
<1>1. \A q \in Pages, j \in Slots : slot'[q][j] = IF q = p THEN BlankSlot ELSE slot[q][j]
  BY DEF Erase, TypeInv, TypeOK
<1> QED BY <1>1 DEF UsedFirst, IsBlank

LEMMA UsedInit == Init => UsedInv
<1> SUFFICES ASSUME Init PROVE UsedInv
  OBVIOUS
<1>1. \A p \in Pages, j \in Slots : slot[p][j] = BlankSlot BY DEF Init
<1> QED BY <1>1 DEF Init, UsedInv, UsedFirst, IsBlank, HalfWritten, WritingVa

LEMMA UsedStep == TypeInv /\ UsedInv /\ [Next]_vars => UsedInv'
<1> SUFFICES ASSUME TypeInv, UsedInv, [Next]_vars PROVE UsedInv'
  OBVIOUS
<1> USE DEF UsedInv
<1>A. UNCHANGED slot => UsedFirst' BY DEF UsedFirst, IsBlank
<1>B. pc' \notin WritingVa => HalfWritten' BY DEF HalfWritten
<1>C. Other(new) \in Pages /\ 0 \in Pages BY DEF TypeInv, TypeOK, Pages, Other
<1>D. \A l : GoTo(l) => pc' = l BY DEF GoTo
<1>E. Done \/ Fail => pc' \notin WritingVa BY DEF Done, Fail, WritingVa
<1>1. CASE EE_Init
  <2>1. UNCHANGED slot /\ pc' \notin WritingVa
    BY <1>1, <1>D DEF EE_Init, InitErase, InitFinishSwap, InitCopy, InitFormat, Boot,
                      flash, WritingVa
  <2> QED BY <2>1, <1>A, <1>B
<1>2. CASE FormatErase \/ SwapErase
  <2>1. UsedFirst' BY <1>2, <1>C, UsedErase DEF FormatErase, SwapErase
  <2>2. pc' \notin WritingVa BY <1>2, <1>D DEF FormatErase, SwapErase, WritingVa
  <2> QED BY <2>1, <2>2, <1>B
<1>3. CASE InitClean
  <2>1. UsedFirst' BY <1>3, <1>C, UsedErase DEF InitClean
  <2> QED BY <1>3, <2>1, <1>B, <1>E DEF InitClean
<1>4. CASE FormatValid \/ InitValid \/ TransferMark
  <2>1. UNCHANGED slot BY <1>4 DEF FormatValid, InitValid, TransferMark, Mark
  <2>2. pc' \notin WritingVa
    BY <1>4, <1>D DEF FormatValid, InitValid, TransferMark, WritingVa
  <2> QED BY <2>1, <2>2, <1>A, <1>B
<1>5. CASE SwapValid
  BY <1>5, <1>A, <1>B, <1>E DEF SwapValid, Mark
<1>6. CASE Write
  <2>1. PICK v \in Vars, d \in Data : WriteUnchanged(v, d) \/ WriteCall(v, d)
    BY <1>6 DEF Write
  <2>2. UNCHANGED slot /\ pc' \notin WritingVa
    BY <2>1 DEF WriteUnchanged, WriteCall, flash, WritingVa
  <2> QED BY <2>2, <1>A, <1>B
<1>7. CASE WriteData \/ TransferData
  <2>1. ProgramData(req.data) BY <1>7 DEF WriteData, TransferData
  <2> QED BY <2>1, UsedProgramData DEF HalfWritten
<1>8. CASE CopyData
  <2>1. ProgramData(Lookup(ReadPage, Table[idx])) BY <1>8 DEF CopyData
  <2> QED BY <2>1, UsedProgramData DEF HalfWritten
<1>9. CASE WriteVa \/ TransferVa
  <2>1. pc \in WritingVa /\ req.va \in Vars
    BY <1>9 DEF WriteVa, TransferVa, WritingVa, TypeInv, ArgsOK
  <2>2. slot' = [slot EXCEPT ![WritePage][at] = [data |-> @.data, va |-> req.va]]
    BY <1>9 DEF WriteVa, TransferVa, ProgramVa
  <2>3. UsedFirst' BY <2>1, <2>2, UsedProgramVa
  <2>4. pc' \notin WritingVa
    BY <1>9, <1>D, <1>E DEF WriteVa, TransferVa, WritingVa
  <2> QED BY <2>3, <2>4, <1>B
<1>10. CASE CopyVa
  <2>1. pc \in WritingVa /\ Table[idx] \in Vars
    BY <1>10, TableFacts DEF CopyVa, WritingVa, TypeInv, TypeOK, ArgsOK
  <2>2. slot' = [slot EXCEPT ![WritePage][at] = [data |-> @.data, va |-> Table[idx]]]
    BY <1>10 DEF CopyVa, ProgramVa
  <2>3. UsedFirst' BY <2>1, <2>2, UsedProgramVa
  <2>4. pc' \notin WritingVa BY <1>10, <1>D DEF CopyVa, WritingVa
  <2> QED BY <2>3, <2>4, <1>B
<1>11. CASE WriteFull \/ CopySkip \/ CopyEnd
  <2>1. UNCHANGED slot /\ pc' \notin WritingVa
    BY <1>11, <1>D DEF WriteFull, CopySkip, CopyEnd, flash, WritingVa
  <2> QED BY <2>1, <1>A, <1>B
<1>12. CASE NoValidPage \/ NewPageFull \/ FlashError
  BY <1>12, <1>A, <1>B, <1>E DEF NoValidPage, NewPageFull, FlashError, flash
<1>13. CASE PowerLoss
  BY <1>13, <1>A, <1>B DEF PowerLoss, flash, WritingVa
<1>14. CASE UNCHANGED vars
  BY <1>14 DEF vars, UsedFirst, IsBlank, HalfWritten, UsedBefore, WritePage
<1> QED
  BY <1>1, <1>2, <1>3, <1>4, <1>5, <1>6, <1>7, <1>8, <1>9, <1>10, <1>11, <1>12,
     <1>13, <1>14
  DEF Next

\* The used slots of a page come first, also after interrupted writes and flash
\* errors: EE_VerifyPageFullWriteVariable, which takes the first blank slot, appends
\* behind everything that EE_ReadVariable searches from the end of the page.
THEOREM UsedSlotsFirst == Spec => []UsedFirst
<1>1. Spec => [](TypeInv /\ UsedInv)
  BY TypeInit, TypeStep, UsedInit, UsedStep, PTL DEF Spec
<1> QED BY <1>1, PTL DEF UsedInv

(***************************************************************************)
(* Pages.  Which headers there can be at each step of a call.              *)
(***************************************************************************)
BlankPage(p) == \A i \in Slots : slot[p][i] = BlankSlot

BothErased   == \A p \in Pages : status[p] = "ERASED"
BothValid    == \A p \in Pages : status[p] = "VALID_PAGE"
OneValid(p)  == status[p] = "VALID_PAGE" /\ status[Other(p)] = "ERASED"
Receiving(p) == status[p] = "RECEIVE_DATA" /\ status[Other(p)] = "VALID_PAGE"
Received(p)  == status[p] = "RECEIVE_DATA" /\ status[Other(p)] = "ERASED"

\* Two valid pages, which EE_Init formats: only a loss in the window leaves them.
Lost == WindowLoss /\ BothValid

Bootable ==
  BothErased \/ Lost \/ \E p \in Pages : OneValid(p) \/ Receiving(p) \/ Received(p)

PageShape ==
  /\ \A p \in Pages : status[p] = "ERASED" => BlankPage(p)
  /\ pc = "off" => Bootable
  /\ pc = "format" => BothErased \/ Lost
  /\ pc = "format_valid" => BothErased \/ (WindowLoss /\ OneValid(1))
  /\ pc \in {"idle", "write", "write_va"} => \E p \in Pages : OneValid(p)
  /\ pc = "clean" => status[new] = "VALID_PAGE" /\ status[Other(new)] # "RECEIVE_DATA"
  /\ pc = "mark_receive" => OneValid(Other(new))
  /\ pc \in {"put", "put_va", "copy", "copy_va", "init_valid"} => Receiving(new)
  /\ pc = "swap_erase" => Receiving(new) \/ Received(new)
  /\ pc = "swap_valid" => Received(new)

Calls ==
  /\ pc \in {"off", "idle"} => job = "none"
  /\ pc \in {"format", "format_valid", "clean", "init_valid"} => job = "EE_Init"
  /\ pc \in {"copy", "copy_va", "swap_erase", "swap_valid"} => job # "none"
  /\ pc \in {"off", "idle", "write", "write_va", "mark_receive", "put", "put_va"} => idx = 1
  /\ pc \in {"format", "format_valid"} => new = 0

\* The copy loop has dealt with v: page n reads as page o does.
CopiedOver(n, o, v) == Found(o, v) /\ slot[n][1].va # v => Lookup(n, v) = Lookup(o, v)

\* What page n receives from page o.
Transfer(n, o) ==
  /\ pc = "put" => BlankPage(n)
  /\ pc = "put_va" => at = 1
  /\ pc = "copy_va" =>
       \A v \in Vars : v = Table[idx] =>
         /\ slot[n][at] = [data |-> Lookup(o, v), va |-> Blank]
         /\ ~Skipped(v) /\ Found(o, v)
  /\ pc \in {"copy", "copy_va", "swap_erase", "swap_valid"} /\ job = "EE_WriteVariable" =>
       /\ slot[n][1] = [data |-> req.data, va |-> req.va]
       /\ \A j \in 2..N : slot[n][j].va # req.va
  /\ pc \in {"copy", "copy_va"} => \A i \in 1..idx-1 : CopiedOver(n, o, Table[i])
  /\ pc = "init_valid" \/ (pc = "swap_erase" /\ Receiving(n)) =>
       \A i \in 1..Len(Table) : CopiedOver(n, o, Table[i])

Contents ==
  /\ pc \in {"write_va", "put_va"} =>
       \A w \in Pages : w = WritePage => slot[w][at] = [data |-> req.data, va |-> Blank]
  /\ \A n, o \in Pages : n = new /\ o = Other(n) => Transfer(n, o)

LEMMA PageFacts ==
  \A p \in Pages : /\ Other(p) \in Pages /\ Other(p) # p /\ Other(Other(p)) = p
                   /\ \A q \in Pages : q = p \/ q = Other(p)
BY DEF Pages, Other

WhichPage ==
  \A p \in Pages :
    /\ OneValid(p) => ReadPage = p /\ WritePage = p /\ Readable
    /\ Receiving(p) => ReadPage = Other(p) /\ WritePage = p /\ Readable

LEMMA PageIs == WhichPage
BY DEF WhichPage, OneValid, Receiving, ReadPage, WritePage, Readable, Pages, Other

LEMMA PageIsNext == WhichPage'
BY PageIs, PTL

\* What a step does to the flash.
LEMMA ProgramDataAt ==
  ASSUME TypeOK, NEW d, NEW w \in Pages, w = WritePage, ProgramData(d)
  PROVE  /\ at' \in Slots /\ FirstBlank(w, at')
         /\ slot' = [slot EXCEPT ![w] = [slot[w] EXCEPT ![at'] = [data |-> d, va |-> Blank]]]
         /\ slot'[w] = [slot[w] EXCEPT ![at'] = [data |-> d, va |-> Blank]]
         /\ slot'[Other(w)] = slot[Other(w)]
         /\ status' = status
BY PageFacts DEF ProgramData, TypeOK

LEMMA ProgramVaAt ==
  ASSUME TypeOK, NEW v, NEW w \in Pages, w = WritePage, at \in Slots,
         slot' = [slot EXCEPT ![WritePage][at] = [data |-> @.data, va |-> v]]
  PROVE  /\ slot'[w] = [slot[w] EXCEPT ![at] = [data |-> slot[w][at].data, va |-> v]]
         /\ slot'[Other(w)] = slot[Other(w)]
BY PageFacts DEF TypeOK

LEMMA EraseAt ==
  ASSUME TypeOK, NEW p \in Pages, Erase(p)
  PROVE  /\ status'[p] = "ERASED" /\ status'[Other(p)] = status[Other(p)]
         /\ slot'[p] = [i \in Slots |-> BlankSlot] /\ slot'[Other(p)] = slot[Other(p)]
         /\ BlankPage(p)'
BY PageFacts DEF Erase, TypeOK, BlankPage

LEMMA MarkAt ==
  ASSUME TypeOK, NEW p \in Pages, NEW st, status[p] # "VALID_PAGE", Mark(p, st)
  PROVE  /\ status'[p] = st /\ status'[Other(p)] = status[Other(p)] /\ slot' = slot
BY PageFacts DEF Mark, TypeOK

LEMMA MarkValid ==
  ASSUME TypeOK, NEW p \in Pages, Mark(p, "VALID_PAGE")
  PROVE  status'[p] = "VALID_PAGE" /\ status'[Other(p)] = status[Other(p)] /\ slot' = slot
BY PageFacts DEF Mark, TypeOK

ErasedBlank == \A p \in Pages : status[p] = "ERASED" => BlankPage(p)

LEMMA ErasedBlankStep ==
  ASSUME ErasedBlank, NEW w \in Pages,
         status'[w] = "ERASED" => BlankPage(w)',
         status'[Other(w)] = status[Other(w)], slot'[Other(w)] = slot[Other(w)]
  PROVE  ErasedBlank'
<1>1. \A q \in Pages : q = w \/ q = Other(w) BY PageFacts
<1>2. \A q \in Pages : q = Other(w) => status'[q] = status[q] /\ slot'[q] = slot[q]
  OBVIOUS
<1>3. \A q \in Pages : q = Other(w) => (status'[q] = "ERASED" => BlankPage(q)')
  BY <1>2 DEF ErasedBlank, BlankPage
<1> QED BY <1>1, <1>3 DEF ErasedBlank

LEMMA MarkedBlankStep ==
  ASSUME ErasedBlank, slot' = slot,
         \A q \in Pages : status'[q] = "ERASED" => status[q] = "ERASED"
  PROVE  ErasedBlank'
BY DEF ErasedBlank, BlankPage

LEMMA ShapeInit == Init => PageShape /\ Calls /\ Contents
<1> SUFFICES ASSUME Init PROVE PageShape /\ Calls /\ Contents
  OBVIOUS
<1>1. BothErased /\ \A p \in Pages : BlankPage(p)
  BY DEF Init, BothErased, BlankPage
<1> QED BY <1>1 DEF Init, PageShape, Bootable, Calls, Contents, Transfer

(***************************************************************************)
(* The pages keep their shape.                                             *)
(***************************************************************************)
ShapeAndCalls == PageShape /\ Calls

LEMMA BootCases ==
  ASSUME ShapeAndCalls, EE_Init
  PROVE  \E l \in {"format", "clean", "swap_erase", "copy"}, p \in Pages :
           /\ Boot(l, p)
           /\ l = "format" => p = 0 /\ (BothErased \/ Lost)
           /\ l = "clean" => OneValid(p)
           /\ l = "swap_erase" => Received(p)
           /\ l = "copy" => Receiving(p)
<1>1. 0 \in Pages BY DEF Pages
<1>2. Bootable
  BY DEF ShapeAndCalls, PageShape, EE_Init, InitErase, InitFinishSwap, InitCopy, InitFormat, Boot
<1>3. status[0] = status[1] => BothErased \/ Lost
  BY <1>2 DEF Bootable, BothErased, OneValid, Receiving, Received, Pages, Other
<1> QED
  BY <1>1, <1>3
  DEF EE_Init, InitErase, InitFinishSwap, InitCopy, InitFormat, OneValid, Received, Receiving

LEMMA BootShape ==
  ASSUME TypeInv, ShapeAndCalls, EE_Init
  PROVE  ShapeAndCalls'
<1> USE DEF ShapeAndCalls
<1>1. PICK l \in {"format", "clean", "swap_erase", "copy"}, p \in Pages :
        /\ Boot(l, p)
        /\ l = "format" => p = 0 /\ (BothErased \/ Lost)
        /\ l = "clean" => OneValid(p)
        /\ l = "swap_erase" => Received(p)
        /\ l = "copy" => Receiving(p)
  BY BootCases
<1>2. /\ pc = "off" /\ pc' = l /\ UNCHANGED <<status, slot, idx>> /\ new' = p /\ job' = "EE_Init"
  BY <1>1 DEF Boot, GoTo, flash
<1>5. ErasedBlank' BY <1>2 DEF PageShape, ErasedBlank, BlankPage
<1>6. PageShape'
  BY <1>1, <1>2, <1>5
  DEF PageShape, BothErased, BothValid, Lost, OneValid, Receiving, Received, ErasedBlank, Other
<1> QED BY <1>1, <1>2, <1>6 DEF Calls

LEMMA DoneShape ==
  ASSUME Done, ErasedBlank', NEW p \in Pages, OneValid(p)'
  PROVE  ShapeAndCalls'
BY DEF Done, ClearLocals, ErasedBlank, ShapeAndCalls, PageShape, Calls

LEMMA InitShape ==
  ASSUME TypeInv, ShapeAndCalls, FormatErase \/ FormatValid \/ InitValid \/ InitClean
  PROVE  ShapeAndCalls'
<1> USE DEF ShapeAndCalls
<1>0. ErasedBlank /\ new \in Pages /\ 0 \in Pages /\ TypeOK
  BY DEF PageShape, ErasedBlank, TypeInv, TypeOK, Pages
<1>1. CASE FormatErase
  <2>1. /\ pc' = "format_valid" /\ job' = job /\ new' = new /\ pc = "format" /\ Erase(0)
    BY <1>1 DEF FormatErase, GoTo, locals
  <2>2. ErasedBlank' BY <1>0, <2>1, EraseAt, ErasedBlankStep
  <2>3. (BothErased \/ (WindowLoss /\ OneValid(1)))'
    <3>1. status'[0] = "ERASED" /\ status'[1] = status[1] /\ Other(1) = 0 /\ Other(0) = 1
      BY <1>0, <2>1, EraseAt DEF Other
    <3>2. CASE BothErased BY <3>1, <3>2 DEF BothErased, Pages
    <3>3. CASE Lost BY <3>1, <3>3 DEF Lost, BothValid, OneValid, Pages
    <3> QED BY <2>1, <3>2, <3>3 DEF PageShape
  <2> QED BY <2>1, <2>2, <2>3 DEF PageShape, ErasedBlank, Calls
<1>2. CASE FormatValid
  <2>1. /\ pc' = "clean" /\ job' = job /\ new' = new /\ pc = "format_valid"
        /\ Mark(0, "VALID_PAGE") /\ new = 0
        /\ status[0] = "ERASED" /\ status[Other(0)] # "RECEIVE_DATA"
    BY <1>2 DEF FormatValid, GoTo, locals, PageShape, Calls, BothErased, OneValid, Pages, Other
  <2>2. status'[0] = "VALID_PAGE" /\ status'[Other(0)] = status[Other(0)] /\ slot' = slot
    BY <1>0, <2>1, MarkAt
  <2>3. ErasedBlank'
    <3>1. \A q \in Pages : status'[q] = "ERASED" => status[q] = "ERASED"
      BY <1>0, <2>2, PageFacts
    <3> QED BY <1>0, <2>2, <3>1, MarkedBlankStep
  <2> QED BY <2>1, <2>2, <2>3 DEF PageShape, ErasedBlank, Calls, Other
<1>3. CASE InitValid
  <2>1. /\ pc' = "clean" /\ job' = job /\ new' = new /\ pc = "init_valid"
        /\ Mark(new, "VALID_PAGE") /\ Receiving(new)
    BY <1>3 DEF InitValid, GoTo, locals, PageShape
  <2>2. status'[new] = "VALID_PAGE" /\ status'[Other(new)] = "VALID_PAGE" /\ slot' = slot
    BY <1>0, <2>1, MarkAt DEF Receiving
  <2>3. ErasedBlank' BY <1>0, <2>2, <2>1, PageFacts, MarkedBlankStep
  <2> QED BY <2>1, <2>2, <2>3 DEF PageShape, ErasedBlank, Calls, Other
<1>4. CASE InitClean
  <2>1. PICK n \in Pages : n = new BY <1>0
  <2>2. PICK o \in Pages : o = Other(n) BY PageFacts
  <2>3. Erase(o) /\ Done /\ status[n] = "VALID_PAGE" /\ Other(o) = n
    BY <1>4, <2>1, <2>2, PageFacts DEF InitClean, PageShape
  <2>4. /\ status'[o] = "ERASED" /\ BlankPage(o)'
        /\ status'[n] = "VALID_PAGE" /\ slot'[n] = slot[n]
    BY <1>0, <2>3, EraseAt
  <2>5. ErasedBlank' BY <1>0, <2>3, <2>4, ErasedBlankStep
  <2>6. OneValid(n)' BY <2>2, <2>4 DEF OneValid, Other
  <2> QED BY <2>3, <2>5, <2>6, DoneShape
<1> QED BY <1>1, <1>2, <1>3, <1>4

\* Programming a page that is not erased.
LEMMA ProgramBlankStep ==
  ASSUME TypeOK, ErasedBlank, NEW w \in Pages, w = WritePage, status[w] # "ERASED",
         status' = status, slot'[Other(w)] = slot[Other(w)]
  PROVE  ErasedBlank'
BY ErasedBlankStep

LEMMA WriteShape ==
  ASSUME TypeInv, ShapeAndCalls, Write \/ WriteData \/ WriteVa \/ WriteFull
  PROVE  ShapeAndCalls'
<1> USE DEF ShapeAndCalls
<1>0. ErasedBlank /\ TypeOK BY DEF PageShape, ErasedBlank, TypeInv
<1>1. PICK w \in Pages : OneValid(w)
  BY DEF Write, WriteUnchanged, WriteCall, WriteData, WriteVa, WriteFull, PageShape
<1>2. WritePage = w /\ ReadPage = w /\ status[w] # "ERASED" BY <1>1, PageIs DEF WhichPage, OneValid
<1>3. status' = status => OneValid(w)' BY <1>1 DEF OneValid, Other
<1>4. flash' = flash => ErasedBlank' BY <1>0 DEF flash, ErasedBlank, BlankPage
<1>5. CASE Write
  <2>1. PICK v \in Vars, d \in Data : WriteUnchanged(v, d) \/ WriteCall(v, d)
    BY <1>5 DEF Write
  <2>2. flash' = flash /\ status' = status /\ pc = "idle" /\ idx' = idx
    BY <2>1 DEF WriteUnchanged, WriteCall, flash, locals
  <2>3. (pc' = "idle" /\ job' = job) \/ (pc' = "write" /\ job' = "EE_WriteVariable")
    BY <2>1 DEF WriteUnchanged, WriteCall, locals
  <2> QED BY <2>2, <2>3, <1>3, <1>4 DEF PageShape, Calls, ErasedBlank
<1>6. CASE WriteData
  <2>1. /\ pc = "write" /\ pc' = "write_va" /\ UNCHANGED <<job, new, idx>>
        /\ ProgramData(req.data)
    BY <1>6 DEF WriteData, GoTo
  <2>2. ErasedBlank' /\ status' = status
    BY <1>0, <1>2, <2>1, ProgramDataAt, ProgramBlankStep
  <2> QED BY <2>1, <2>2, <1>3 DEF PageShape, Calls, ErasedBlank
<1>7. CASE WriteVa
  <2>1. /\ pc = "write_va" /\ Done /\ status' = status
        /\ slot' = [slot EXCEPT ![WritePage][at] = [data |-> @.data, va |-> req.va]]
        /\ at \in Slots
    BY <1>7 DEF WriteVa, TypeInv, ArgsOK, WritingVa
  <2>2. ErasedBlank' BY <1>0, <1>2, <2>1, ProgramVaAt, ProgramBlankStep
  <2> QED BY <2>1, <2>2, <1>3, DoneShape
<1>8. CASE WriteFull
  <2>1. /\ pc = "write" /\ pc' = "mark_receive" /\ UNCHANGED <<job, idx>> /\ flash' = flash
        /\ status' = status /\ new' = Other(w)
    BY <1>8, <1>2 DEF WriteFull, GoTo, flash
  <2>2. OneValid(Other(new))' BY <2>1, <1>3 DEF OneValid, Other, Pages
  <2> QED BY <2>1, <2>2, <1>4 DEF PageShape, Calls, ErasedBlank
<1> QED BY <1>5, <1>6, <1>7, <1>8

LEMMA TransferShape ==
  ASSUME TypeInv, ShapeAndCalls, TransferMark \/ TransferData \/ TransferVa
  PROVE  ShapeAndCalls'
<1> USE DEF ShapeAndCalls
<1>0. ErasedBlank /\ TypeOK /\ new \in Pages BY DEF PageShape, ErasedBlank, TypeInv, TypeOK
<1>1. CASE TransferMark
  <2>1. /\ pc = "mark_receive" /\ pc' = "put" /\ UNCHANGED locals /\ OneValid(Other(new))
        /\ Mark(new, "RECEIVE_DATA")
    BY <1>1 DEF TransferMark, GoTo, PageShape
  <2>2. status[new] = "ERASED" /\ status[Other(new)] = "VALID_PAGE"
    BY <1>0, <2>1, PageFacts DEF OneValid
  <2>3. /\ status'[new] = "RECEIVE_DATA" /\ status'[Other(new)] = "VALID_PAGE"
        /\ slot' = slot
    BY <1>0, <2>1, <2>2, MarkAt
  <2>4. ErasedBlank' BY <1>0, <2>3, PageFacts, MarkedBlankStep
  <2>5. Receiving(new)' BY <2>1, <2>3 DEF Receiving, Other, locals
  <2> QED BY <2>1, <2>4, <2>5 DEF PageShape, Calls, ErasedBlank, locals
<1>2. CASE TransferData \/ TransferVa
  <2>1. PICK w \in Pages : w = new BY <1>0
  <2>2. /\ Receiving(w) /\ WritePage = w /\ status[w] # "ERASED"
        /\ UNCHANGED <<job, new, idx, status>>
    BY <1>2, <2>1, PageIs
    DEF WhichPage, TransferData, TransferVa, ProgramData, ProgramVa, PageShape, Receiving
  <2>3. Receiving(w)' BY <2>2 DEF Receiving, Other
  <2>4. ErasedBlank'
    <3>1. CASE TransferData
      BY <3>1, <1>0, <2>2, ProgramDataAt, ProgramBlankStep DEF TransferData
    <3>2. CASE TransferVa
      <4>1. /\ slot' = [slot EXCEPT ![WritePage][at] = [data |-> @.data, va |-> req.va]]
            /\ at \in Slots
        BY <3>2 DEF TransferVa, ProgramVa, TypeInv, ArgsOK, WritingVa
      <4> QED BY <4>1, <1>0, <2>2, ProgramVaAt, ProgramBlankStep
    <3> QED BY <1>2, <3>1, <3>2
  <2>5. pc' = "put_va" \/ (pc' = "copy" /\ job = "EE_WriteVariable")
    BY <1>2 DEF TransferData, TransferVa, GoTo, TypeInv, ArgsOK
  <2>6. pc \in {"put", "put_va"} BY <1>2 DEF TransferData, TransferVa
  <2> QED BY <2>1, <2>2, <2>3, <2>4, <2>5, <2>6 DEF PageShape, Calls, ErasedBlank
<1> QED BY <1>1, <1>2

LEMMA CopyShape ==
  ASSUME TypeInv, ShapeAndCalls, CopySkip \/ CopyData \/ CopyVa \/ CopyEnd
  PROVE  ShapeAndCalls'
<1> USE DEF ShapeAndCalls
<1>0. ErasedBlank /\ TypeOK /\ new \in Pages BY DEF PageShape, ErasedBlank, TypeInv, TypeOK
<1>1. PICK w \in Pages : w = new BY <1>0
<1>2. /\ pc \in {"copy", "copy_va"} /\ UNCHANGED <<job, new, status>>
  BY DEF CopySkip, CopyData, CopyVa, CopyEnd, ProgramData, ProgramVa, flash, locals
<1>3. Receiving(w) /\ WritePage = w /\ status[w] # "ERASED" /\ job # "none"
  BY <1>1, <1>2, PageIs DEF WhichPage, PageShape, Receiving, Calls
<1>4. Receiving(w)' BY <1>2, <1>3 DEF Receiving, Other
<1>5. ErasedBlank'
  <2>1. CASE CopySkip \/ CopyEnd
    BY <2>1, <1>0 DEF CopySkip, CopyEnd, flash, ErasedBlank, BlankPage
  <2>2. CASE CopyData
    BY <2>2, <1>0, <1>3, ProgramDataAt, ProgramBlankStep DEF CopyData
  <2>3. CASE CopyVa
    <3>1. /\ slot' = [slot EXCEPT ![WritePage][at] = [data |-> @.data, va |-> Table[idx]]]
          /\ at \in Slots /\ status' = status
      BY <2>3 DEF CopyVa, ProgramVa, TypeInv, ArgsOK, WritingVa
    <3> QED BY <3>1, <1>0, <1>3, ProgramVaAt, ProgramBlankStep
  <2> QED BY <2>1, <2>2, <2>3
<1>6. pc' \in {"copy", "copy_va", "swap_erase"} \/ (pc' = "init_valid" /\ job = "EE_Init")
  BY DEF CopySkip, CopyData, CopyVa, CopyEnd, GoTo
<1> QED BY <1>1, <1>2, <1>3, <1>4, <1>5, <1>6 DEF PageShape, Calls, ErasedBlank

LEMMA SwapShape ==
  ASSUME TypeInv, ShapeAndCalls, SwapErase \/ SwapValid
  PROVE  ShapeAndCalls'
<1> USE DEF ShapeAndCalls
<1>0. ErasedBlank /\ TypeOK BY DEF PageShape, ErasedBlank, TypeInv
<1>1. PICK w \in Pages : w = new BY DEF TypeInv, TypeOK
<1>2. PICK o \in Pages : o = Other(w) BY PageFacts
<1>3. status[w] = "RECEIVE_DATA" /\ Other(o) = w
  BY <1>1, <1>2, PageFacts DEF SwapErase, SwapValid, PageShape, Receiving, Received
<1>4. CASE SwapErase
  <2>1. /\ pc = "swap_erase" /\ pc' = "swap_valid" /\ Erase(o) /\ UNCHANGED locals
    BY <1>1, <1>2, <1>4 DEF SwapErase, GoTo
  <2>2. /\ status'[o] = "ERASED" /\ BlankPage(o)'
        /\ status'[w] = "RECEIVE_DATA" /\ slot'[w] = slot[w]
    BY <1>0, <1>3, <2>1, EraseAt
  <2>3. ErasedBlank' BY <1>0, <1>3, <2>2, ErasedBlankStep
  <2>4. Received(w)' BY <1>2, <2>2 DEF Received, Other
  <2> QED BY <1>1, <2>1, <2>3, <2>4 DEF PageShape, Calls, ErasedBlank, locals
<1>5. CASE SwapValid
  <2>1. /\ Mark(w, "VALID_PAGE") /\ Done /\ status[Other(w)] = "ERASED"
    BY <1>1, <1>5 DEF SwapValid, PageShape, Received
  <2>2. status'[w] = "VALID_PAGE" /\ status'[Other(w)] = "ERASED" /\ slot' = slot
    BY <1>0, <1>3, <2>1, MarkAt
  <2>3. ErasedBlank' BY <1>0, <2>1, <2>2, PageFacts, MarkedBlankStep
  <2>4. OneValid(w)' BY <2>2 DEF OneValid, Other
  <2> QED BY <2>1, <2>3, <2>4, DoneShape
<1> QED BY <1>4, <1>5

\* Only between EE_Init's last two steps are both pages valid.
LEMMA CleanShape ==
  ASSUME TypeInv, ShapeAndCalls, PowerLoss, pc = "clean"
  PROVE  OneValid(new) \/ Lost
<1>1. status = [p \in Pages |-> "VALID_PAGE"] => WindowLoss BY DEF PowerLoss, InWindow
<1>2. status \in [Pages -> Status] /\ new \in Pages BY DEF TypeInv, TypeOK
<1>3. CASE BothValid BY <1>1, <1>2, <1>3 DEF Lost, BothValid
<1>4. CASE ~BothValid
  <2>1. PICK p \in Pages : status[p] # "VALID_PAGE" BY <1>4 DEF BothValid
  <2> QED BY <1>2, <2>1, PageFacts DEF ShapeAndCalls, PageShape, Status, OneValid
<1> QED BY <1>3, <1>4

LEMMA LossShape ==
  ASSUME TypeInv, ShapeAndCalls, PowerLoss
  PROVE  ShapeAndCalls'
<1> USE DEF ShapeAndCalls
<1>1. pc = "clean" => OneValid(new) \/ Lost BY CleanShape
<1>2. Bootable
  <2>1. pc \in Labels /\ pc # "off" /\ new \in Pages /\ Other(new) \in Pages /\ 1 \in Pages
    BY PageFacts DEF PowerLoss, TypeInv, TypeOK, Pages
  <2> QED BY <1>1, <2>1 DEF PageShape, Labels, Bootable
<1>3. /\ pc' = "off" /\ job' = "none" /\ idx' = 1 /\ UNCHANGED flash
  BY DEF PowerLoss, ClearLocals
<1>4. ErasedBlank' BY <1>3 DEF PageShape, flash, ErasedBlank, BlankPage
<1>5. Bootable'
  BY <1>2, <1>3
  DEF Bootable, flash, BothErased, BothValid, Lost, OneValid, Receiving, Received, Other
<1> QED BY <1>3, <1>4, <1>5 DEF PageShape, Calls, ErasedBlank

ErrorReturn == NoValidPage \/ NewPageFull \/ FlashError

LEMMA ShapeStep ==
  ASSUME TypeInv, ShapeAndCalls, [Next]_vars, ~ErrorReturn
  PROVE  ShapeAndCalls'
<1>1. CASE UNCHANGED vars
  BY <1>1
  DEF vars, ShapeAndCalls, PageShape, Bootable, Calls, BlankPage, BothErased, BothValid, Lost,
      OneValid, Receiving, Received, Other
<1> QED
  BY <1>1, BootShape, InitShape, WriteShape, TransferShape, CopyShape, SwapShape, LossShape
  DEF Next, ErrorReturn

\* An error is over when EE_Init succeeds, and not before.
Settling == (InitClean \/ SwapValid) /\ job # "EE_WriteVariable"

LEMMA Failed ==
  ASSUME TypeInv, [Next]_vars
  PROVE  /\ ErrorReturn => failed'
         /\ failed => failed' \/ Settling
         /\ ~failed /\ ~ErrorReturn => ~failed'
<1>1. ErrorReturn => failed' BY DEF ErrorReturn, NoValidPage, NewPageFull, FlashError, Fail
<1>2. InitClean \/ SwapValid \/ WriteVa => (Settling /\ ~failed') \/ UNCHANGED failed
  BY DEF Settling, InitClean, SwapValid, WriteVa, Done, TypeInv, ArgsOK
<1>3. ErrorReturn \/ InitClean \/ SwapValid \/ WriteVa \/ UNCHANGED failed
  BY DEF ErrorReturn, Next, vars, EE_Init, InitErase, InitFinishSwap, InitCopy, InitFormat,
         Boot, GoTo, ghosts, FormatErase, FormatValid, InitValid, Write,
         WriteUnchanged, WriteCall, WriteData, WriteFull, TransferMark, TransferData,
         TransferVa, CopySkip, CopyData, CopyVa, CopyEnd, SwapErase, PowerLoss
<1> QED BY <1>1, <1>2, <1>3

(***************************************************************************)
(* What holds of a boot whatever failed before it.                         *)
(***************************************************************************)
LEMMA CallsStep == TypeInv /\ Calls /\ [Next]_vars => Calls'
<1> SUFFICES ASSUME TypeInv, Calls, [Next]_vars PROVE Calls'
  OBVIOUS
<1> USE DEF Calls
<1>1. CASE EE_Init
  BY <1>1 DEF EE_Init, InitErase, InitFinishSwap, InitCopy, InitFormat, Boot, GoTo
<1>2. CASE FormatErase \/ FormatValid \/ InitValid \/ TransferMark \/ SwapErase \/ CopyEnd
  BY <1>2 DEF FormatErase, FormatValid, InitValid, TransferMark, SwapErase, CopyEnd, GoTo, locals,
              TypeInv, ArgsOK
<1>3. CASE InitClean \/ WriteVa \/ SwapValid \/ ErrorReturn \/ PowerLoss
  BY <1>3 DEF InitClean, WriteVa, SwapValid, ErrorReturn, NoValidPage, NewPageFull, FlashError, Fail,
              PowerLoss, Done, ClearLocals
<1>4. CASE Write BY <1>4 DEF Write, WriteUnchanged, WriteCall, locals
<1>5. CASE WriteData \/ WriteFull \/ TransferData \/ CopySkip \/ CopyData
  BY <1>5 DEF WriteData, WriteFull, TransferData, CopySkip, CopyData, GoTo, ProgramData, TypeInv, ArgsOK
<1>6. CASE TransferVa \/ CopyVa
  BY <1>6 DEF TransferVa, CopyVa, GoTo, ProgramVa, TypeInv, ArgsOK
<1>7. CASE UNCHANGED vars BY <1>7 DEF vars
<1> QED BY <1>1, <1>2, <1>3, <1>4, <1>5, <1>6, <1>7 DEF Next, ErrorReturn

BootInv ==
  /\ pc = "clean" => status[new] = "VALID_PAGE"
  /\ pc = "swap_valid" =>
       \A o \in Pages : o = Other(new) => status[o] = "ERASED" /\ BlankPage(o)

LEMMA BootStep ==
  ASSUME TypeInv, Calls, BootInv, [Next]_vars
  PROVE  BootInv'
<1>1. PICK n \in Pages : n = new BY DEF TypeInv, TypeOK
<1>2. PICK o \in Pages : o = Other(n) BY PageFacts
<1>3. TypeOK /\ 0 \in Pages BY DEF TypeInv, Pages
<1>4. CASE EE_Init
  BY <1>4 DEF EE_Init, InitErase, InitFinishSwap, InitCopy, InitFormat, Boot, GoTo, flash, BootInv
<1>5. CASE FormatValid \/ InitValid
  <2>1. pc' = "clean" /\ new' = n /\ Mark(n, "VALID_PAGE")
    BY <1>1, <1>5 DEF FormatValid, InitValid, GoTo, locals, Calls
  <2>2. status'[n] = "VALID_PAGE" BY <2>1, <1>3, MarkValid
  <2> QED BY <2>1, <2>2 DEF BootInv
<1>6. CASE SwapErase
  <2>1. pc' = "swap_valid" /\ new' = n /\ Erase(o)
    BY <1>1, <1>2, <1>6 DEF SwapErase, GoTo, locals
  <2>2. status'[o] = "ERASED" /\ BlankPage(o)' BY <2>1, <1>3, EraseAt
  <2> QED BY <2>1, <2>2, <1>2 DEF BootInv
<1>7. CASE UNCHANGED vars BY <1>7 DEF vars, BootInv, BlankPage
<1>8. CASE ~(EE_Init \/ FormatValid \/ InitValid \/ SwapErase \/ UNCHANGED vars)
  <2>1. pc' \notin {"clean", "swap_valid"}
    BY <1>8
    DEF Next, vars, FormatErase, InitClean, Write, WriteUnchanged, WriteCall, WriteData, WriteVa,
        WriteFull, TransferMark, TransferData, TransferVa, CopySkip, CopyData, CopyVa, CopyEnd,
        SwapValid, NoValidPage, NewPageFull, FlashError, PowerLoss, GoTo, Done, Fail, ClearLocals,
        locals, flash, ghosts
  <2> QED BY <2>1 DEF BootInv
<1> QED BY <1>4, <1>5, <1>6, <1>7, <1>8

\* A boot that succeeds leaves a valid page and a blank one.
LEMMA SettlingShape ==
  ASSUME TypeInv, Calls, BootInv, Settling
  PROVE  ShapeAndCalls' /\ pc' = "idle" /\ ~failed'
<1>1. PICK n \in Pages : n = new BY DEF TypeInv, TypeOK
<1>2. PICK o \in Pages : o = Other(n) BY PageFacts
<1>3. TypeOK /\ Other(o) = n /\ \A q \in Pages : q = n \/ q = o BY <1>2, PageFacts DEF TypeInv
<1>4. Done /\ job # "EE_WriteVariable" BY DEF Settling, InitClean, SwapValid
<1>5. status'[n] = "VALID_PAGE" /\ status'[o] = "ERASED" /\ BlankPage(o)'
  <2>1. CASE InitClean
    <3>1. status[n] = "VALID_PAGE" /\ Erase(o) BY <1>1, <1>2, <2>1 DEF InitClean, BootInv
    <3> QED BY <1>3, <3>1, EraseAt
  <2>2. CASE SwapValid
    <3>1. status[o] = "ERASED" /\ BlankPage(o) /\ Mark(n, "VALID_PAGE")
      BY <1>1, <1>2, <2>2 DEF SwapValid, BootInv
    <3>2. status'[n] = "VALID_PAGE" /\ status'[o] = status[o] /\ slot' = slot
      BY <1>2, <1>3, <3>1, MarkValid
    <3> QED BY <3>1, <3>2 DEF BlankPage
  <2> QED BY <2>1, <2>2 DEF Settling
<1>6. OneValid(n)' BY <1>2, <1>5 DEF OneValid, Other
<1>7. ErasedBlank' BY <1>3, <1>5 DEF ErasedBlank
<1>8. ShapeAndCalls' BY <1>4, <1>6, <1>7, DoneShape
<1> QED BY <1>4, <1>8 DEF Done

(***************************************************************************)
(* What a page reads as.                                                   *)
(***************************************************************************)
LookupFacts ==
  \A p \in Pages, v \in Vars :
    /\ \A i \in Slots : Latest(p, v, i) => Found(p, v) /\ Lookup(p, v) = slot[p][i].data
    /\ ~Found(p, v) => Lookup(p, v) = None

LEMMA LookupIs == LookupFacts
<1> SUFFICES ASSUME NEW p \in Pages, NEW v \in Vars, NEW i \in Slots, Latest(p, v, i)
             PROVE  Found(p, v) /\ Lookup(p, v) = slot[p][i].data
  BY DEF LookupFacts, Lookup
<1>1. Found(p, v) BY DEF Found
<1> DEFINE k == CHOOSE j \in Slots : Latest(p, v, j)
<1>2. k \in Slots /\ Latest(p, v, k) BY <1>1 DEF Found
<1>3. k = i
  <2>1. i \in Int /\ k \in Int /\ N \in Int BY <1>2, SlotAssumption DEF Slots
  <2>2. ~(i < k) BY <1>2, <2>1, SlotAssumption DEF Latest, Slots
  <2>3. ~(k < i) BY <1>2, <2>1, SlotAssumption DEF Latest, Slots
  <2> QED BY <2>1, <2>2, <2>3
<1> QED BY <1>1, <1>3 DEF Lookup

LEMMA LookupIsNext == LookupFacts'
BY LookupIs, PTL

\* A page whose slots of v are the same reads the same for v.
LEMMA SameLookup ==
  ASSUME NEW p \in Pages, NEW v \in Vars,
         \A i \in Slots : /\ slot'[p][i].va = v <=> slot[p][i].va = v
                          /\ slot[p][i].va = v => slot'[p][i].data = slot[p][i].data
  PROVE  /\ Found(p, v)' <=> Found(p, v)
         /\ Lookup(p, v)' = Lookup(p, v)
<1>1. \A i \in Slots : Latest(p, v, i)' <=> Latest(p, v, i)
  BY SlotAssumption DEF Latest, Slots
<1>2. Found(p, v)' <=> Found(p, v) BY <1>1 DEF Found
<1>3. CASE Found(p, v)
  <2>1. PICK i \in Slots : Latest(p, v, i) BY <1>3 DEF Found
  <2>2. Lookup(p, v) = slot[p][i].data BY <2>1, LookupIs DEF LookupFacts
  <2>3. Lookup(p, v)' = slot'[p][i].data BY <2>1, <1>1, LookupIsNext DEF LookupFacts
  <2>4. slot[p][i].va = v BY <2>1 DEF Latest
  <2> QED BY <1>2, <2>2, <2>3, <2>4
<1>4. CASE ~Found(p, v)
  BY <1>2, <1>4, LookupIs, LookupIsNext DEF LookupFacts
<1> QED BY <1>2, <1>3, <1>4

LEMMA SamePage ==
  ASSUME NEW p \in Pages, slot'[p] = slot[p]
  PROVE  \A v \in Vars : (Found(p, v)' <=> Found(p, v)) /\ Lookup(p, v)' = Lookup(p, v)
BY SameLookup

\* A blank page holds nothing.
BlankHolds == \A p \in Pages, v \in Vars : BlankPage(p) => ~Found(p, v) /\ Lookup(p, v) = None

LEMMA BlankLookup == BlankHolds
<1> SUFFICES ASSUME NEW p \in Pages, NEW v \in Vars, BlankPage(p)
             PROVE  ~Found(p, v) /\ Lookup(p, v) = None
  BY DEF BlankHolds
<1>1. \A i \in Slots : slot[p][i].va # v
  BY VarAssumption DEF BlankPage, BlankSlot
<1>2. ~Found(p, v) BY <1>1 DEF Found, Latest
<1> QED BY <1>2, LookupIs DEF LookupFacts

LEMMA BlankLookupNext == BlankHolds'
BY BlankLookup, PTL

\* Programming the data half-word of a blank slot changes what no page reads as.
LEMMA DataKeeps ==
  ASSUME TypeOK, NEW d, NEW w \in Pages, w = WritePage, ProgramData(d)
  PROVE  /\ \A p \in Pages, v \in Vars :
              (Found(p, v)' <=> Found(p, v)) /\ Lookup(p, v)' = Lookup(p, v)
         /\ \A p \in Pages, i \in Slots : slot'[p][i].va = slot[p][i].va
         /\ status' = status
<1>1. /\ at' \in Slots /\ FirstBlank(w, at') /\ status' = status
      /\ slot'[w] = [slot[w] EXCEPT ![at'] = [data |-> d, va |-> Blank]]
      /\ slot'[Other(w)] = slot[Other(w)]
  BY ProgramDataAt
<1>2. PICK k \in Slots : k = at' BY <1>1
<1>3. slot[w] \in [Slots -> Half] BY DEF TypeOK, Half
<1>4. slot[w][k] = BlankSlot BY <1>1, <1>2 DEF FirstBlank, IsBlank
<1>5. \A i \in Slots : slot'[w][i] = IF i = k THEN [data |-> d, va |-> Blank] ELSE slot[w][i]
  BY <1>1, <1>2, <1>3
<1>6. \A i \in Slots : /\ slot'[w][i].va = slot[w][i].va
                       /\ slot[w][i].va # Blank => slot'[w][i] = slot[w][i]
  BY <1>4, <1>5 DEF BlankSlot
<1>7. \A v \in Vars : (Found(w, v)' <=> Found(w, v)) /\ Lookup(w, v)' = Lookup(w, v)
  <2> TAKE v \in Vars
  <2>1. v # Blank BY VarAssumption
  <2> QED BY <1>6, <2>1, SameLookup
<1>8. PICK o \in Pages : o = Other(w) BY PageFacts
<1>9. \A v \in Vars : (Found(o, v)' <=> Found(o, v)) /\ Lookup(o, v)' = Lookup(o, v)
  BY <1>1, <1>8, SamePage
<1>10. \A p \in Pages : p = w \/ p = o BY <1>8, PageFacts
<1> QED BY <1>1, <1>6, <1>7, <1>8, <1>9, <1>10

AddressSet(u) == slot' = [slot EXCEPT ![WritePage][at] = [data |-> @.data, va |-> u]]

\* Programming the address that follows: the page reads as the data for that address,
\* as before for every other.
LEMMA VaSets ==
  ASSUME TypeOK, NEW u \in Vars, NEW d, NEW w \in Pages, w = WritePage, at \in Slots,
         AddressSet(u),
         slot[w][at] = [data |-> d, va |-> Blank], UsedBefore(w, at)
  PROVE  /\ Lookup(w, u)' = d
         /\ \A v \in Vars : v # u => (Found(w, v)' <=> Found(w, v)) /\ Lookup(w, v)' = Lookup(w, v)
         /\ \A o \in Pages, v \in Vars :
              o # w => (Found(o, v)' <=> Found(o, v)) /\ Lookup(o, v)' = Lookup(o, v)
         /\ \A i \in Slots : slot'[w][i] = IF i = at THEN [data |-> d, va |-> u] ELSE slot[w][i]
<1>1. /\ slot'[w] = [slot[w] EXCEPT ![at] = [data |-> slot[w][at].data, va |-> u]]
      /\ slot'[Other(w)] = slot[Other(w)]
  BY ProgramVaAt DEF AddressSet
<1>2. slot[w] \in [Slots -> Half] BY DEF TypeOK, Half
<1>3. \A i \in Slots : slot'[w][i] = IF i = at THEN [data |-> d, va |-> u] ELSE slot[w][i]
  BY <1>1, <1>2
<1>4. PICK k \in Slots : k = at OBVIOUS
<1>5. u # Blank BY VarAssumption
<1>6. \A j \in Slots : j > k => slot'[w][j] = BlankSlot
  BY <1>3, <1>4, SlotAssumption DEF UsedBefore, Slots
<1>7. Latest(w, u, k)'
  <2>1. slot'[w][k].va = u BY <1>3, <1>4
  <2>2. \A j \in k+1..N : slot'[w][j].va # u
    BY <1>5, <1>6, SlotAssumption DEF Slots, BlankSlot
  <2> QED BY <2>1, <2>2 DEF Latest
<1>8. Lookup(w, u)' = d
  <2>1. Lookup(w, u)' = slot'[w][k].data BY <1>7, LookupIsNext DEF LookupFacts
  <2> QED BY <2>1, <1>3, <1>4
<1>9. \A v \in Vars : v # u => (Found(w, v)' <=> Found(w, v)) /\ Lookup(w, v)' = Lookup(w, v)
  <2> TAKE v \in Vars
  <2> HAVE v # u
  <2>1. v # Blank BY VarAssumption
  <2>2. \A i \in Slots : /\ slot'[w][i].va = v <=> slot[w][i].va = v
                         /\ slot[w][i].va = v => slot'[w][i].data = slot[w][i].data
    BY <1>3, <2>1
  <2> QED BY <2>2, SameLookup
<1>10. \A o \in Pages : o # w => slot'[o] = slot[o]
  BY <1>1, PageFacts
<1>11. \A o \in Pages, v \in Vars :
        o # w => (Found(o, v)' <=> Found(o, v)) /\ Lookup(o, v)' = Lookup(o, v)
  BY <1>10, SamePage
<1> QED BY <1>3, <1>8, <1>9, <1>11

(***************************************************************************)
(* What a boot recovers, by the shape of the pages.                        *)
(***************************************************************************)
KeepsOld(p, o, v) == Found(o, v) /\ v \in Listed /\ slot[p][1].va # v

RecoveredFacts ==
  \A p, o \in Pages, v \in Vars : o = Other(p) =>
    /\ pc = "clean" /\ new = p => Recovered(v) = Lookup(p, v)
    /\ pc # "clean" /\ (OneValid(p) \/ Received(p)) => Recovered(v) = Lookup(p, v)
    /\ pc # "clean" /\ Receiving(p) =>
         /\ KeepsOld(p, o, v) => Recovered(v) = Lookup(o, v)
         /\ ~KeepsOld(p, o, v) => Recovered(v) = Lookup(p, v)
    /\ pc # "clean" /\ BothErased => Recovered(v) = None

LEMMA RecoveredIs == RecoveredFacts
<1> SUFFICES ASSUME NEW p \in Pages, NEW o \in Pages, NEW v \in Vars, o = Other(p)
             PROVE  RecoveredFacts!(p, o, v)!2
  BY DEF RecoveredFacts
<1>1. CASE p = 0
  <2>1. o = 1 BY <1>1 DEF Other
  <2> QED
    BY <1>1, <2>1
    DEF Recovered, Swapped, EE_ReadVariable, Readable, ReadPage, OneValid, Received,
        Receiving, BothErased, KeepsOld, Other, Pages
<1>2. CASE p = 1
  <2>1. o = 0 BY <1>2 DEF Other
  <2> QED
    BY <1>2, <2>1
    DEF Recovered, Swapped, EE_ReadVariable, Readable, ReadPage, OneValid, Received,
        Receiving, BothErased, KeepsOld, Other, Pages
<1> QED BY <1>1, <1>2 DEF Pages

LEMMA RecoveredIsNext == RecoveredFacts'
BY RecoveredIs, PTL

(***************************************************************************)
(* What a step does to the values that a boot recovers.                    *)
(***************************************************************************)
StoreKept == \A v \in Vars : Recovered(v)' = Recovered(v)

DataInv == TypeInv /\ UsedInv /\ ShapeAndCalls /\ Contents

\* The steps that have a part of a call's work to remember.
CarryingOn == {"write_va", "put", "put_va", "copy", "copy_va", "init_valid", "swap_erase",
               "swap_valid"}

LEMMA NoContents == pc' \notin CarryingOn => Contents'
BY DEF CarryingOn, Contents, Transfer

LEMMA SameSlots ==
  ASSUME slot' = slot
  PROVE  \A p \in Pages, v \in Vars :
           (Found(p, v)' <=> Found(p, v)) /\ Lookup(p, v)' = Lookup(p, v)
BY SamePage

LEMMA SameFlash ==
  ASSUME UNCHANGED flash, pc # "clean", pc' # "clean"
  PROVE  StoreKept
<1> SUFFICES ASSUME NEW v \in Vars PROVE Recovered(v)' = Recovered(v)
  BY DEF StoreKept
<1>1. /\ Found(0, v)' <=> Found(0, v)
      /\ Found(1, v)' <=> Found(1, v)
      /\ Lookup(0, v)' = Lookup(0, v)
      /\ Lookup(1, v)' = Lookup(1, v)
  BY SameSlots DEF flash, Pages
<1>2. status' = status /\ slot' = slot BY DEF flash
<1>3. Other(0) = 1 /\ Other(1) = 0 BY DEF Other
<1>4. Swapped(0, v)' = Swapped(0, v)
  <2>1. Swapped(0, v) = IF /\ status[1] = "VALID_PAGE" /\ Found(1, v)
                           /\ v \in Listed /\ slot[0][1].va # v
                        THEN Lookup(1, v) ELSE Lookup(0, v)
    BY <1>3 DEF Swapped
  <2>2. Swapped(0, v)' = IF /\ status'[1] = "VALID_PAGE" /\ Found(1, v)'
                            /\ v \in Listed /\ slot'[0][1].va # v
                         THEN Lookup(1, v)' ELSE Lookup(0, v)'
    BY DEF Swapped, Other
  <2> QED BY <1>1, <1>2, <2>1, <2>2
<1>5. Swapped(1, v)' = Swapped(1, v)
  <2>1. Swapped(1, v) = IF /\ status[0] = "VALID_PAGE" /\ Found(0, v)
                           /\ v \in Listed /\ slot[1][1].va # v
                        THEN Lookup(0, v) ELSE Lookup(1, v)
    BY <1>3 DEF Swapped
  <2>2. Swapped(1, v)' = IF /\ status'[0] = "VALID_PAGE" /\ Found(0, v)'
                            /\ v \in Listed /\ slot'[1][1].va # v
                         THEN Lookup(0, v)' ELSE Lookup(1, v)'
    BY DEF Swapped, Other
  <2> QED BY <1>1, <1>2, <2>1, <2>2
<1>6. EE_ReadVariable(v)' = EE_ReadVariable(v)
  BY <1>1, <1>2 DEF EE_ReadVariable, Readable, ReadPage
<1> QED BY <1>2, <1>4, <1>5, <1>6 DEF Recovered

\* A receiving page, once every variable of the table is copied, reads as the pair.
LEMMA CopiedReads ==
  ASSUME NEW n \in Pages, NEW o \in Pages, o = Other(n), Receiving(n), pc # "clean",
         \A i \in 1..Len(Table) : CopiedOver(n, o, Table[i])
  PROVE  \A v \in Vars : Recovered(v) = Lookup(n, v)
<1> TAKE v \in Vars
<1>1. v \in Listed => CopiedOver(n, o, v) BY DEF Listed
<1> QED BY <1>1, RecoveredIs DEF RecoveredFacts, KeepsOld, CopiedOver

LEMMA BootStore ==
  ASSUME DataInv, EE_Init
  PROVE  StoreKept /\ Contents'
<1> USE DEF DataInv
<1>1. PICK l \in {"format", "clean", "swap_erase", "copy"}, p \in Pages :
        /\ Boot(l, p)
        /\ l = "format" => p = 0 /\ (BothErased \/ Lost)
        /\ l = "clean" => OneValid(p)
        /\ l = "swap_erase" => Received(p)
        /\ l = "copy" => Receiving(p)
  BY BootCases
<1>2. /\ pc = "off" /\ pc' = l /\ UNCHANGED <<status, slot, idx>> /\ new' = p /\ job' = "EE_Init"
  BY <1>1 DEF Boot, GoTo, flash
<1>3. StoreKept
  <2>1. CASE l # "clean" BY <1>2, <2>1, SameFlash DEF flash
  <2>2. CASE l = "clean"
    <3>1. PICK o \in Pages : o = Other(p) BY PageFacts
    <3>2. \A v \in Vars : Recovered(v) = Lookup(p, v)
      BY <1>1, <1>2, <2>2, <3>1, RecoveredIs DEF RecoveredFacts
    <3>3. \A v \in Vars : Recovered(v)' = Lookup(p, v)'
      BY <1>2, <2>2, <3>1, RecoveredIsNext DEF RecoveredFacts
    <3> QED BY <1>2, <3>2, <3>3, SameSlots DEF StoreKept
  <2> QED BY <2>1, <2>2
<1>4. Contents'
  <2>1. l = "swap_erase" => ~Receiving(p)' 
    BY <1>1, <1>2 DEF Received, Receiving, Other
  <2>2. idx' = 1 BY <1>2 DEF ShapeAndCalls, Calls
  <2>3. \A n, o \in Pages : n = new' => Transfer(n, o)'
    BY <1>1, <1>2, <2>1, <2>2 DEF Transfer
  <2> QED BY <1>2, <2>3 DEF Contents
<1> QED BY <1>3, <1>4

LEMMA InitStore ==
  ASSUME DataInv, FormatErase \/ FormatValid \/ InitValid \/ InitClean
  PROVE  (~WindowLoss => StoreKept) /\ Contents'
<1> USE DEF DataInv
<1>0. /\ ShapeAndCalls' /\ Contents'
  <2>1. pc' \notin CarryingOn
    BY DEF FormatErase, FormatValid, InitValid, InitClean, GoTo, Done, CarryingOn
  <2> QED BY <2>1, InitShape, NoContents
<1>1. PICK n \in Pages : n = new BY DEF TypeInv, TypeOK
<1>2. PICK o \in Pages : o = Other(n) BY PageFacts
<1>3. 0 \in Pages /\ TypeOK BY DEF Pages, TypeInv
<1>4. CASE FormatErase /\ ~WindowLoss
  <2>1. /\ pc = "format" /\ pc' = "format_valid" BY <1>4 DEF FormatErase, GoTo
  <2>2. BothErased /\ BothErased' BY <1>0, <1>4, <2>1 DEF ShapeAndCalls, PageShape, Lost
  <2>3. \A v \in Vars : Recovered(v) = None
    BY <1>2, <2>1, <2>2, RecoveredIs DEF RecoveredFacts
  <2>4. \A v \in Vars : Recovered(v)' = None
    BY <1>2, <2>1, <2>2, RecoveredIsNext DEF RecoveredFacts
  <2> QED BY <1>0, <2>3, <2>4 DEF StoreKept
<1>5. CASE FormatValid /\ ~WindowLoss
  <2>1. /\ pc = "format_valid" /\ pc' = "clean" /\ new' = new /\ slot' = slot
    BY <1>5 DEF FormatValid, GoTo, Mark, locals
  <2>2. BothErased /\ BlankPage(n)
    BY <1>1, <1>5, <2>1 DEF ShapeAndCalls, PageShape, BothErased
  <2>3. \A v \in Vars : Recovered(v) = None /\ Lookup(n, v) = None
    BY <1>2, <2>1, <2>2, RecoveredIs, BlankLookup DEF RecoveredFacts, BlankHolds
  <2>4. \A v \in Vars : Recovered(v)' = Lookup(n, v)'
    BY <1>1, <1>2, <2>1, RecoveredIsNext DEF RecoveredFacts
  <2> QED BY <1>0, <2>1, <2>3, <2>4, SameSlots DEF StoreKept
<1>6. CASE InitValid
  <2>1. /\ pc = "init_valid" /\ pc' = "clean" /\ new' = new /\ slot' = slot
    BY <1>1, <1>3, <1>6 DEF InitValid, GoTo, locals, Mark
  <2>2. Receiving(n) /\ \A i \in 1..Len(Table) : CopiedOver(n, o, Table[i])
    BY <1>1, <1>2, <2>1 DEF ShapeAndCalls, PageShape, Contents, Transfer
  <2>3. \A v \in Vars : Recovered(v) = Lookup(n, v)
    BY <1>2, <2>1, <2>2, CopiedReads
  <2>4. \A v \in Vars : Recovered(v)' = Lookup(n, v)'
    BY <1>1, <1>2, <2>1, RecoveredIsNext DEF RecoveredFacts
  <2> QED BY <1>0, <2>1, <2>3, <2>4, SameSlots DEF StoreKept
<1>7. CASE InitClean
  <2>1. /\ pc = "clean" /\ pc' = "idle" /\ Erase(o) /\ Other(o) = n /\ status[n] = "VALID_PAGE"
    BY <1>1, <1>2, <1>7, PageFacts DEF InitClean, Done, ShapeAndCalls, PageShape
  <2>2. /\ status'[o] = "ERASED" /\ status'[n] = "VALID_PAGE" /\ slot'[n] = slot[n]
    BY <1>3, <2>1, EraseAt
  <2>3. OneValid(n)' BY <1>2, <2>2 DEF OneValid, Other
  <2>4. \A v \in Vars : Recovered(v) = Lookup(n, v)
    BY <1>1, <1>2, <2>1, RecoveredIs DEF RecoveredFacts
  <2>5. \A v \in Vars : Recovered(v)' = Lookup(n, v)'
    BY <1>2, <2>1, <2>3, RecoveredIsNext DEF RecoveredFacts
  <2> QED BY <1>0, <2>2, <2>4, <2>5, SamePage DEF StoreKept
<1> QED BY <1>0, <1>4, <1>5, <1>6, <1>7

LEMMA WriteStore ==
  ASSUME DataInv, Write \/ WriteData \/ WriteFull
  PROVE  StoreKept /\ Contents'
<1> USE DEF DataInv
<1>1. CASE Write \/ WriteFull
  <2>1. UNCHANGED flash /\ pc # "clean" /\ pc' \in {"idle", "write", "mark_receive"}
    BY <1>1 DEF Write, WriteUnchanged, WriteCall, WriteFull, GoTo
  <2> QED BY <2>1, SameFlash, NoContents DEF CarryingOn
<1>2. CASE WriteData
  <2>1. /\ pc = "write" /\ pc' = "write_va" /\ ProgramData(req.data) /\ req' = req
    BY <1>2 DEF WriteData, GoTo
  <2>2. PICK w \in Pages : OneValid(w) BY <2>1 DEF ShapeAndCalls, PageShape
  <2>3. w = WritePage BY <2>2, PageIs DEF WhichPage
  <2>4. /\ \A v \in Vars : Lookup(w, v)' = Lookup(w, v)
        /\ status' = status
    BY <2>1, <2>3, DataKeeps DEF TypeInv
  <2>5. OneValid(w)' BY <2>2, <2>4 DEF OneValid, Other
  <2>6. PICK o \in Pages : o = Other(w) BY PageFacts
  <2>7. \A v \in Vars : Recovered(v) = Lookup(w, v) /\ Recovered(v)' = Lookup(w, v)'
    BY <2>1, <2>2, <2>5, <2>6, RecoveredIs, RecoveredIsNext DEF RecoveredFacts
  <2>8. at' \in Slots /\ slot'[w] = [slot[w] EXCEPT ![at'] = [data |-> req.data, va |-> Blank]]
    BY <2>1, <2>3, ProgramDataAt DEF TypeInv
  <2>9. slot'[w][at'] = [data |-> req.data, va |-> Blank]
    BY <2>8 DEF TypeInv, TypeOK
  <2>10. WritePage' = w BY <2>5, PageIsNext DEF WhichPage
  <2>11. Contents' BY <2>1, <2>9, <2>10 DEF Contents, Transfer
  <2> QED BY <2>4, <2>7, <2>11 DEF StoreKept
<1> QED BY <1>1, <1>2

StoreSet(u, d) == \A v \in Vars : Recovered(v)' = IF v = u THEN d ELSE Recovered(v)

LEMMA WriteVaStore ==
  ASSUME DataInv, WriteVa
  PROVE  StoreSet(req.va, req.data) /\ Contents'
<1> USE DEF DataInv
<1>1. /\ pc = "write_va" /\ pc' = "idle" /\ status' = status /\ at \in Slots /\ req.va \in Vars
      /\ AddressSet(req.va)
  BY DEF WriteVa, Done, TypeInv, ArgsOK, WritingVa, AddressSet
<1>2. PICK w \in Pages : OneValid(w) BY <1>1 DEF ShapeAndCalls, PageShape
<1>3. PICK o \in Pages : o = Other(w) BY PageFacts
<1>4. w = WritePage BY <1>2, PageIs DEF WhichPage
<1>5. slot[w][at] = [data |-> req.data, va |-> Blank] BY <1>1, <1>4 DEF Contents
<1>6. UsedBefore(w, at) BY <1>1, <1>4 DEF UsedInv, HalfWritten, WritingVa
<1>7. PICK u \in Vars : u = req.va BY <1>1
<1>8. PICK d : d = req.data OBVIOUS
<1>9. /\ Lookup(w, u)' = d
      /\ \A v \in Vars : v # u => Lookup(w, v)' = Lookup(w, v)
  <2>1. /\ AddressSet(u)
        /\ slot[w][at] = [data |-> d, va |-> Blank]
    BY <1>1, <1>5, <1>7, <1>8
  <2>2. TypeOK /\ at \in Slots BY <1>1 DEF TypeInv
  <2>3. /\ Lookup(w, u)' = d
        /\ \A v \in Vars : v # u => (Found(w, v)' <=> Found(w, v)) /\ Lookup(w, v)' = Lookup(w, v)
        /\ \A q \in Pages, v \in Vars :
             q # w => (Found(q, v)' <=> Found(q, v)) /\ Lookup(q, v)' = Lookup(q, v)
        /\ \A i \in Slots : slot'[w][i] = IF i = at THEN [data |-> d, va |-> u] ELSE slot[w][i]
    BY <1>4, <1>6, <2>1, <2>2, VaSets
  <2> QED BY <2>3
<1>10. OneValid(w)' BY <1>1, <1>2 DEF OneValid, Other
<1>11. \A v \in Vars : Recovered(v) = Lookup(w, v) /\ Recovered(v)' = Lookup(w, v)'
  BY <1>1, <1>2, <1>3, <1>10, RecoveredIs, RecoveredIsNext DEF RecoveredFacts
<1>12. Contents' BY <1>1, NoContents DEF CarryingOn
<1> QED BY <1>7, <1>8, <1>9, <1>11, <1>12 DEF StoreSet

\* Marking the new page drops the variables that the table does not list.
StoreDrops == \A v \in Vars : Recovered(v)' = IF v \in Listed THEN Recovered(v) ELSE None

LEMMA TransferMarkStore ==
  ASSUME DataInv, TransferMark
  PROVE  StoreDrops /\ Contents'
<1> USE DEF DataInv
<1>1. PICK n \in Pages : n = new BY DEF TypeInv, TypeOK
<1>2. PICK o \in Pages : o = Other(n) BY PageFacts
<1>3. /\ pc = "mark_receive" /\ pc' = "put" /\ new' = new /\ slot' = slot
  BY DEF TransferMark, GoTo, locals, Mark
<1>4. OneValid(o) /\ Other(o) = n /\ BlankPage(n)
  BY <1>1, <1>2, <1>3, PageFacts DEF ShapeAndCalls, PageShape, OneValid
<1>5. Receiving(n)'
  <2>1. ShapeAndCalls' BY TransferShape
  <2>2. \A p \in Pages : p = new' => Receiving(p)'
    BY <2>1, <1>3 DEF ShapeAndCalls, PageShape, Receiving
  <2> QED BY <2>2, <1>1, <1>3
<1>6. \A v \in Vars : ~Found(n, v) /\ Lookup(n, v) = None /\ slot[n][1].va # v
  <2>1. 1 \in Slots BY SlotAssumption DEF Slots
  <2> QED BY <2>1, <1>4, BlankLookup, VarAssumption DEF BlankHolds, BlankPage, BlankSlot
<1>7. \A v \in Vars : Recovered(v) = Lookup(o, v)
  BY <1>1, <1>3, <1>4, RecoveredIs DEF RecoveredFacts
<1>8. \A v \in Vars : /\ KeepsOld(n, o, v)' => Recovered(v)' = Lookup(o, v)'
                      /\ ~KeepsOld(n, o, v)' => Recovered(v)' = Lookup(n, v)'
  BY <1>2, <1>3, <1>5, RecoveredIsNext DEF RecoveredFacts
<1>9. \A v \in Vars : KeepsOld(n, o, v)' <=> Found(o, v) /\ v \in Listed
  BY <1>3, <1>6, SameSlots DEF KeepsOld
<1>10. \A v \in Vars : ~Found(o, v) => Lookup(o, v) = None
  BY LookupIs DEF LookupFacts
<1>11. StoreDrops
  <2>1. \A v \in Vars : Lookup(o, v)' = Lookup(o, v) /\ Lookup(n, v)' = None
    BY <1>3, <1>6, SameSlots
  <2> QED BY <1>7, <1>8, <1>9, <1>10, <2>1 DEF StoreDrops
<1>12. BlankPage(n)' BY <1>3, <1>4 DEF BlankPage
<1>13. \A p, q \in Pages : p = new' => Transfer(p, q)'
  BY <1>1, <1>3, <1>12 DEF Transfer
<1>14. Contents' BY <1>3, <1>13 DEF Contents
<1> QED BY <1>11, <1>14

\* Programming a data half-word of the receiving page changes nothing that is recovered.
LEMMA ReceivedData ==
  ASSUME TypeOK, pc # "clean", pc' # "clean", NEW n \in Pages, Receiving(n), NEW d, ProgramData(d)
  PROVE  /\ StoreKept
         /\ Receiving(n)' /\ WritePage' = n
         /\ at' \in Slots /\ FirstBlank(n, at')
         /\ slot'[n] = [slot[n] EXCEPT ![at'] = [data |-> d, va |-> Blank]]
         /\ slot'[n][at'] = [data |-> d, va |-> Blank]
         /\ \A p \in Pages, v \in Vars :
              (Found(p, v)' <=> Found(p, v)) /\ Lookup(p, v)' = Lookup(p, v)
         /\ \A p \in Pages, i \in Slots : slot'[p][i].va = slot[p][i].va
<1>1. PICK o \in Pages : o = Other(n) BY PageFacts
<1>2. n = WritePage BY PageIs DEF WhichPage
<1>3. /\ \A p \in Pages, v \in Vars :
           (Found(p, v)' <=> Found(p, v)) /\ Lookup(p, v)' = Lookup(p, v)
      /\ \A p \in Pages, i \in Slots : slot'[p][i].va = slot[p][i].va
      /\ status' = status
  BY <1>2, DataKeeps
<1>4. /\ at' \in Slots /\ FirstBlank(n, at')
      /\ slot'[n] = [slot[n] EXCEPT ![at'] = [data |-> d, va |-> Blank]]
  BY <1>2, ProgramDataAt
<1>5. slot'[n][at'] = [data |-> d, va |-> Blank] BY <1>4 DEF TypeOK
<1>6. Receiving(n)' BY <1>3 DEF Receiving, Other
<1>7. WritePage' = n BY <1>6, PageIsNext DEF WhichPage
<1>8. \A v \in Vars : KeepsOld(n, o, v)' <=> KeepsOld(n, o, v)
  <2>1. 1 \in Slots BY SlotAssumption DEF Slots
  <2> QED BY <1>3, <2>1 DEF KeepsOld
<1>9. \A v \in Vars : /\ KeepsOld(n, o, v) => Recovered(v) = Lookup(o, v)
                      /\ ~KeepsOld(n, o, v) => Recovered(v) = Lookup(n, v)
  BY <1>1, RecoveredIs DEF RecoveredFacts
<1>10. \A v \in Vars : /\ KeepsOld(n, o, v)' => Recovered(v)' = Lookup(o, v)'
                       /\ ~KeepsOld(n, o, v)' => Recovered(v)' = Lookup(n, v)'
  BY <1>1, <1>6, RecoveredIsNext DEF RecoveredFacts
<1>11. StoreKept BY <1>3, <1>8, <1>9, <1>10 DEF StoreKept
<1> QED BY <1>3, <1>4, <1>5, <1>6, <1>7, <1>11

LEMMA TransferDataStore ==
  ASSUME DataInv, TransferData
  PROVE  StoreKept /\ Contents'
<1> USE DEF DataInv
<1>1. PICK n \in Pages : n = new BY DEF TypeInv, TypeOK
<1>2. /\ pc = "put" /\ pc' = "put_va" /\ ProgramData(req.data) /\ UNCHANGED <<req, new>>
  BY DEF TransferData, GoTo
<1>3. Receiving(n) /\ BlankPage(n)
  <2>1. PICK o \in Pages : o = Other(n) BY PageFacts
  <2> QED BY <1>1, <1>2, <2>1 DEF ShapeAndCalls, PageShape, Contents, Transfer
<1>4. /\ StoreKept /\ WritePage' = n /\ at' \in Slots /\ FirstBlank(n, at')
      /\ slot'[n][at'] = [data |-> req.data, va |-> Blank]
  BY <1>2, <1>3, ReceivedData DEF TypeInv
<1>5. at' = 1
  <2>1. PICK k \in Slots : k = at' BY <1>4
  <2>2. 1 \in Slots /\ k \in 1..N /\ N \in Nat BY SlotAssumption DEF Slots
  <2>3. \A j \in Slots : ~(j < k)
    <3>1. \A j \in 1..k-1 : slot[n][j] # BlankSlot BY <1>4, <2>1 DEF FirstBlank, IsBlank
    <3>2. \A j \in Slots : j < k => j \in 1..k-1 BY <2>2 DEF Slots
    <3> QED BY <1>3, <3>1, <3>2 DEF BlankPage
  <2>4. ~(1 < k) BY <2>2, <2>3
  <2> QED BY <2>1, <2>2, <2>4
<1>6. \A p, q \in Pages : Transfer(p, q)' BY <1>2, <1>5 DEF Transfer
<1>7. Contents' BY <1>2, <1>4, <1>6 DEF Contents
<1> QED BY <1>4, <1>7

\* Programming the address of a value in the receiving page: v reads as that value,
\* whatever the old page holds, if it is in the first slot or equals the old one.
LEMMA ReceivedVa ==
  ASSUME DataInv, pc \in WritingVa, pc' # "clean", NEW n \in Pages, NEW o \in Pages, o = Other(n),
         Receiving(n), status' = status, NEW u \in Vars, NEW d,
         AddressSet(u),
         slot[n][at] = [data |-> d, va |-> Blank],
         at = 1 \/ (Lookup(o, u) = d /\ KeepsOld(n, o, u))
  PROVE  /\ StoreSet(u, d)
         /\ at \in Slots /\ UsedBefore(n, at) /\ Receiving(n)'
         /\ Lookup(n, u)' = d
         /\ \A v \in Vars : v # u => (Found(n, v)' <=> Found(n, v)) /\ Lookup(n, v)' = Lookup(n, v)
         /\ \A v \in Vars : (Found(o, v)' <=> Found(o, v)) /\ Lookup(o, v)' = Lookup(o, v)
         /\ \A i \in Slots : slot'[n][i] = IF i = at THEN [data |-> d, va |-> u] ELSE slot[n][i]
<1> USE DEF DataInv
<1>1. n = WritePage BY PageIs DEF WhichPage
<1>2. TypeOK /\ at \in Slots /\ UsedBefore(n, at)
  BY <1>1 DEF TypeInv, ArgsOK, UsedInv, HalfWritten
<1>3. o # n BY PageFacts
<1>4. /\ Lookup(n, u)' = d
      /\ \A v \in Vars : v # u => (Found(n, v)' <=> Found(n, v)) /\ Lookup(n, v)' = Lookup(n, v)
      /\ \A v \in Vars : (Found(o, v)' <=> Found(o, v)) /\ Lookup(o, v)' = Lookup(o, v)
      /\ \A i \in Slots : slot'[n][i] = IF i = at THEN [data |-> d, va |-> u] ELSE slot[n][i]
  <2>1. /\ Lookup(n, u)' = d
        /\ \A v \in Vars : v # u => (Found(n, v)' <=> Found(n, v)) /\ Lookup(n, v)' = Lookup(n, v)
        /\ \A q \in Pages, v \in Vars :
             q # n => (Found(q, v)' <=> Found(q, v)) /\ Lookup(q, v)' = Lookup(q, v)
        /\ \A i \in Slots : slot'[n][i] = IF i = at THEN [data |-> d, va |-> u] ELSE slot[n][i]
    BY <1>1, <1>2, VaSets
  <2> QED BY <1>3, <2>1
<1>5. Receiving(n)' BY DEF Receiving, Other
<1>6. pc # "clean" BY DEF WritingVa
<1>7. \A v \in Vars : /\ KeepsOld(n, o, v) => Recovered(v) = Lookup(o, v)
                      /\ ~KeepsOld(n, o, v) => Recovered(v) = Lookup(n, v)
  BY <1>6, RecoveredIs DEF RecoveredFacts
<1>8. \A v \in Vars : /\ KeepsOld(n, o, v)' => Recovered(v)' = Lookup(o, v)'
                      /\ ~KeepsOld(n, o, v)' => Recovered(v)' = Lookup(n, v)'
  BY <1>5, RecoveredIsNext DEF RecoveredFacts
<1>9. 1 \in Slots BY SlotAssumption DEF Slots
<1>10. \A v \in Vars : v # u => (KeepsOld(n, o, v)' <=> KeepsOld(n, o, v))
  <2>1. \A v \in Vars : v # Blank BY VarAssumption
  <2>2. \A v \in Vars : v # u => (slot'[n][1].va = v <=> slot[n][1].va = v)
    BY <1>4, <1>9, <2>1
  <2> QED BY <1>4, <2>2 DEF KeepsOld
<1>11. Recovered(u)' = d
  <2>1. CASE at = 1
    <3>1. ~KeepsOld(n, o, u)' BY <1>4, <1>9, <2>1 DEF KeepsOld
    <3> QED BY <3>1, <1>4, <1>8
  <2>2. CASE Lookup(o, u) = d /\ KeepsOld(n, o, u)
    BY <2>2, <1>4, <1>8
  <2> QED BY <2>1, <2>2
<1>12. StoreSet(u, d) BY <1>4, <1>7, <1>8, <1>10, <1>11 DEF StoreSet
<1> QED BY <1>2, <1>4, <1>5, <1>12

LEMMA TransferVaStore ==
  ASSUME DataInv, TransferVa
  PROVE  StoreSet(req.va, req.data) /\ Contents'
<1> USE DEF DataInv
<1>1. PICK n \in Pages : n = new BY DEF TypeInv, TypeOK
<1>2. PICK o \in Pages : o = Other(n) BY PageFacts
<1>3. /\ pc = "put_va" /\ pc' = "copy" /\ status' = status /\ UNCHANGED <<job, req, new, idx>>
      /\ AddressSet(req.va)
      /\ req.va \in Vars
  BY DEF TransferVa, ProgramVa, GoTo, TypeInv, ArgsOK, AddressSet
<1>4. PICK u \in Vars : u = req.va BY <1>3
<1>5. PICK d : d = req.data OBVIOUS
<1>6. Receiving(n) /\ at = 1 BY <1>1, <1>2, <1>3 DEF ShapeAndCalls, PageShape, Contents, Transfer
<1>7. n = WritePage BY <1>6, PageIs DEF WhichPage
<1>8. slot[n][at] = [data |-> d, va |-> Blank] BY <1>3, <1>5, <1>7 DEF Contents
<1>9. AddressSet(u) BY <1>3, <1>4
<1>10. pc \in WritingVa /\ pc' # "clean" BY <1>3 DEF WritingVa
<1>11. /\ StoreSet(u, d) /\ UsedBefore(n, at)
       /\ \A i \in Slots : slot'[n][i] = IF i = at THEN [data |-> d, va |-> u] ELSE slot[n][i]
  BY <1>2, <1>3, <1>6, <1>8, <1>9, <1>10, ReceivedVa
<1>12. slot'[n][1] = [data |-> d, va |-> u]
  <2>1. 1 \in Slots BY SlotAssumption DEF Slots
  <2> QED BY <1>6, <1>11, <2>1
<1>13. \A j \in 2..N : slot'[n][j].va # u
  <2>1. \A j \in 2..N : j \in Slots /\ j > 1 /\ j # 1 BY SlotAssumption DEF Slots
  <2>2. \A j \in 2..N : slot'[n][j] = BlankSlot BY <1>6, <1>11, <2>1 DEF UsedBefore
  <2>3. u # Blank BY VarAssumption
  <2> QED BY <2>2, <2>3 DEF BlankSlot
<1>14. Transfer(n, o)'
  <2>1. idx' = 1 BY <1>3 DEF ShapeAndCalls, Calls
  <2> QED BY <1>3, <1>4, <1>5, <1>12, <1>13, <2>1 DEF Transfer
<1>15. \A p, q \in Pages : p = new' /\ q = Other(p) => Transfer(p, q)'
  BY <1>1, <1>2, <1>3, <1>14
<1>16. Contents' BY <1>3, <1>15 DEF Contents
<1> QED BY <1>4, <1>5, <1>11, <1>16

LEMMA CopySkipStore ==
  ASSUME DataInv, CopySkip \/ CopyEnd
  PROVE  StoreKept /\ Contents'
<1> USE DEF DataInv
<1>1. PICK n \in Pages : n = new BY DEF TypeInv, TypeOK
<1>2. PICK o \in Pages : o = Other(n) BY PageFacts
<1>3. /\ pc = "copy" /\ pc' \in {"copy", "init_valid", "swap_erase"}
      /\ UNCHANGED <<flash, job, req, at, new>>
      /\ pc' = "init_valid" => job = "EE_Init"
  BY DEF CopySkip, CopyEnd, GoTo, locals
<1>4. StoreKept BY <1>3, SameFlash
<1>5. Receiving(n) /\ Transfer(n, o) /\ ReadPage = o
  BY <1>1, <1>2, <1>3, PageIs DEF WhichPage, ShapeAndCalls, PageShape, Contents
<1>6. slot' = slot BY <1>3 DEF flash
<1>7. \A v \in Vars : CopiedOver(n, o, v)' <=> CopiedOver(n, o, v)
  BY <1>6, SameSlots DEF CopiedOver
<1>8. \A i \in 1..Len(Table) : Table[i] \in Vars BY TableFacts
<1>9. \A i \in 1..idx-1 : CopiedOver(n, o, Table[i]) BY <1>3, <1>5 DEF Transfer
<1>10. idx \in 1..Len(Table) + 1 /\ Len(Table) \in Nat BY TableFacts DEF TypeInv, TypeOK
<1>11. CASE CopySkip
  <2>1. pc' = "copy" /\ idx' = idx + 1 /\ idx <= Len(Table) /\ ~ToCopy BY <1>11 DEF CopySkip
  <2>2. CopiedOver(n, o, Table[idx])
    <3>1. PICK v \in Vars : v = Table[idx] BY <1>8, <1>10, <2>1
    <3>2. Skipped(v) \/ ~Found(o, v) BY <1>5, <2>1, <3>1 DEF ToCopy
    <3>3. Skipped(v) => slot[n][1].va = v
      <4>1. CASE job = "EE_Init" BY <4>1, <1>1 DEF Skipped
      <4>2. CASE job # "EE_Init"
        <5>1. job = "EE_WriteVariable"
          BY <1>3, <4>2 DEF ShapeAndCalls, Calls, TypeInv, TypeOK
        <5> QED BY <1>3, <1>5, <4>2, <5>1 DEF Transfer, Skipped
      <4> QED BY <4>1, <4>2
    <3> QED BY <3>1, <3>2, <3>3 DEF CopiedOver
  <2>3. \A i \in 1..idx : CopiedOver(n, o, Table[i]) BY <1>9, <1>10, <2>2
  <2>4. \A i \in 1..idx'-1 : CopiedOver(n, o, Table[i])'
    BY <1>7, <1>8, <1>10, <2>1, <2>3
  <2>5. Transfer(n, o)' BY <1>3, <1>5, <1>6, <2>1, <2>4 DEF Transfer
  <2>6. \A p, q \in Pages : p = new' /\ q = Other(p) => Transfer(p, q)'
    BY <1>1, <1>2, <1>3, <2>5
  <2>7. Contents' BY <2>1, <2>6 DEF Contents
  <2> QED BY <1>4, <2>7
<1>12. CASE CopyEnd
  <2>1. pc' \in {"init_valid", "swap_erase"} /\ idx > Len(Table)
    BY <1>12 DEF CopyEnd, GoTo
  <2>2. \A i \in 1..Len(Table) : CopiedOver(n, o, Table[i])'
    BY <1>7, <1>8, <1>9, <1>10, <2>1
  <2>3. Transfer(n, o)' BY <1>3, <1>5, <1>6, <2>1, <2>2 DEF Transfer
  <2>4. \A p, q \in Pages : p = new' /\ q = Other(p) => Transfer(p, q)'
    BY <1>1, <1>2, <1>3, <2>3
  <2>5. Contents' BY <2>1, <2>4 DEF Contents
  <2> QED BY <1>4, <2>5
<1> QED BY <1>11, <1>12

LEMMA CopyDataStore ==
  ASSUME DataInv, CopyData
  PROVE  StoreKept /\ Contents'
<1> USE DEF DataInv
<1>1. PICK n \in Pages : n = new BY DEF TypeInv, TypeOK
<1>2. PICK o \in Pages : o = Other(n) BY PageFacts
<1>3. /\ pc = "copy" /\ pc' = "copy_va" /\ ToCopy /\ ProgramData(Lookup(ReadPage, Table[idx]))
      /\ UNCHANGED <<job, req, new, idx>>
  BY DEF CopyData, GoTo
<1>4. Receiving(n) /\ Transfer(n, o) /\ ReadPage = o
  BY <1>1, <1>2, <1>3, PageIs DEF WhichPage, ShapeAndCalls, PageShape, Contents
<1>5. PICK u \in Vars : u = Table[idx] /\ ~Skipped(u) /\ Found(o, u)
  BY <1>3, <1>4, TableFacts DEF ToCopy, TypeInv, TypeOK
<1>6. PICK d : d = Lookup(o, u) OBVIOUS
<1>7. ProgramData(d) BY <1>3, <1>4, <1>5, <1>6
<1>8. /\ StoreKept /\ Receiving(n)' /\ at' \in Slots /\ FirstBlank(n, at')
      /\ slot'[n] = [slot[n] EXCEPT ![at'] = [data |-> d, va |-> Blank]]
      /\ slot'[n][at'] = [data |-> d, va |-> Blank]
      /\ \A p \in Pages, v \in Vars :
           (Found(p, v)' <=> Found(p, v)) /\ Lookup(p, v)' = Lookup(p, v)
      /\ \A p \in Pages, i \in Slots : slot'[p][i].va = slot[p][i].va
  BY <1>3, <1>4, <1>7, ReceivedData DEF TypeInv
<1>9. 1 \in Slots /\ \A j \in 2..N : j \in Slots BY SlotAssumption DEF Slots
<1>10. \A v \in Vars : CopiedOver(n, o, v)' <=> CopiedOver(n, o, v)
  BY <1>8, <1>9 DEF CopiedOver
<1>11. \A i \in 1..idx-1 : CopiedOver(n, o, Table[i])'
  <2>1. \A i \in 1..idx-1 : Table[i] \in Vars BY TableFacts DEF TypeInv, TypeOK
  <2> QED BY <1>3, <1>4, <1>10, <2>1 DEF Transfer
<1>12. \A v \in Vars : v = Table[idx]' =>
         /\ slot'[n][at'] = [data |-> Lookup(o, v)', va |-> Blank]
         /\ ~Skipped(v)' /\ Found(o, v)'
  <2>1. Table[idx]' = u BY <1>3, <1>5
  <2>2. Skipped(u)' <=> Skipped(u) BY <1>1, <1>3, <1>8, <1>9 DEF Skipped
  <2> QED BY <1>5, <1>6, <1>8, <2>1, <2>2
<1>13. job = "EE_WriteVariable" =>
         slot'[n][1] = slot[n][1] /\ slot[n][1] = [data |-> req.data, va |-> req.va]
  <2> SUFFICES ASSUME job = "EE_WriteVariable"
               PROVE  slot'[n][1] = slot[n][1] /\ slot[n][1] = [data |-> req.data, va |-> req.va]
    OBVIOUS
  <2>1. slot[n][1] = [data |-> req.data, va |-> req.va] BY <1>3, <1>4 DEF Transfer
  <2>2. req.va # Blank BY VarAssumption DEF TypeInv, ArgsOK
  <2>3. slot[n][at'] = BlankSlot BY <1>8 DEF FirstBlank, IsBlank
  <2>4. at' # 1 BY <2>1, <2>2, <2>3 DEF BlankSlot
  <2> QED BY <1>8, <1>9, <2>1, <2>4 DEF TypeInv, TypeOK
<1>14. Transfer(n, o)'
  BY <1>3, <1>4, <1>8, <1>9, <1>11, <1>12, <1>13 DEF Transfer
<1>15. \A p, q \in Pages : p = new' /\ q = Other(p) => Transfer(p, q)'
  BY <1>1, <1>2, <1>3, <1>14
<1>16. Contents' BY <1>3, <1>15 DEF Contents
<1> QED BY <1>8, <1>16

LEMMA CopyVaStore ==
  ASSUME DataInv, CopyVa
  PROVE  StoreKept /\ Contents'
<1> USE DEF DataInv
<1>1. PICK n \in Pages : n = new BY DEF TypeInv, TypeOK
<1>2. PICK o \in Pages : o = Other(n) BY PageFacts
<1>3. /\ pc = "copy_va" /\ pc' = "copy" /\ AddressSet(Table[idx]) /\ idx' = idx + 1
      /\ UNCHANGED <<job, req, new>> /\ status' = status
  BY DEF CopyVa, ProgramVa, GoTo, AddressSet
<1>4. Receiving(n) /\ Transfer(n, o)
  BY <1>1, <1>2, <1>3 DEF ShapeAndCalls, PageShape, Contents
<1>5. idx \in 1..Len(Table) /\ Len(Table) \in Nat
  BY <1>3, TableFacts DEF TypeInv, TypeOK, ArgsOK
<1>6. PICK u \in Vars : u = Table[idx] BY <1>5, TableFacts
<1>7. PICK d : d = Lookup(o, u) OBVIOUS
<1>8. /\ slot[n][at] = [data |-> d, va |-> Blank]
      /\ ~Skipped(u) /\ Found(o, u)
  BY <1>3, <1>4, <1>6, <1>7 DEF Transfer
<1>9. job = "EE_WriteVariable" => /\ slot[n][1] = [data |-> req.data, va |-> req.va]
                                  /\ \A j \in 2..N : slot[n][j].va # req.va
                                  /\ u # req.va
  BY <1>3, <1>4, <1>8 DEF Transfer, Skipped
<1>10. job = "EE_Init" \/ job = "EE_WriteVariable"
  BY <1>3 DEF ShapeAndCalls, Calls, TypeInv, TypeOK
<1>11. u \in Listed BY <1>5, <1>6 DEF Listed
<1>12. KeepsOld(n, o, u)
  <2>1. slot[n][1].va # u BY <1>1, <1>8, <1>9, <1>10 DEF Skipped
  <2> QED BY <1>8, <1>11, <2>1 DEF KeepsOld
<1>13. pc \in WritingVa /\ pc' # "clean" /\ AddressSet(u) BY <1>3, <1>6 DEF WritingVa
<1>14. /\ StoreSet(u, d) /\ at \in Slots
       /\ Lookup(n, u)' = d
       /\ \A v \in Vars : v # u => (Found(n, v)' <=> Found(n, v)) /\ Lookup(n, v)' = Lookup(n, v)
       /\ \A v \in Vars : (Found(o, v)' <=> Found(o, v)) /\ Lookup(o, v)' = Lookup(o, v)
       /\ \A i \in Slots : slot'[n][i] = IF i = at THEN [data |-> d, va |-> u] ELSE slot[n][i]
  BY <1>2, <1>3, <1>4, <1>7, <1>8, <1>12, <1>13, ReceivedVa
<1>15. StoreKept
  <2>1. pc # "clean" BY <1>3
  <2>2. Recovered(u) = d
    BY <1>2, <1>4, <1>7, <1>12, <2>1, RecoveredIs DEF RecoveredFacts
  <2> QED BY <1>14, <2>2 DEF StoreSet, StoreKept
<1>16. 1 \in Slots /\ \A j \in 2..N : j \in Slots BY SlotAssumption DEF Slots
<1>17. \A v \in Vars : v # u /\ CopiedOver(n, o, v) => CopiedOver(n, o, v)'
  <2>1. \A v \in Vars : v # Blank BY VarAssumption
  <2>2. \A v \in Vars : v # u => (slot'[n][1].va = v <=> slot[n][1].va = v)
    BY <1>8, <1>14, <1>16, <2>1
  <2> QED BY <1>14, <2>2 DEF CopiedOver
<1>18. CopiedOver(n, o, u)' BY <1>7, <1>14 DEF CopiedOver
<1>19. \A i \in 1..idx'-1 : CopiedOver(n, o, Table[i])'
  <2> TAKE i \in 1..idx'-1
  <2>1. i \in 1..Len(Table) /\ (i = idx \/ i \in 1..idx-1) BY <1>3, <1>5
  <2>2. CASE i = idx BY <2>2, <1>6, <1>18
  <2>3. CASE i \in 1..idx-1
    <3>1. PICK v \in Vars : v = Table[i] BY <2>1, TableFacts
    <3>2. i # idx BY <2>3, <1>5
    <3>3. v # u BY <2>1, <3>1, <3>2, <1>5, <1>6, VarAssumption
    <3>4. CopiedOver(n, o, v) BY <2>3, <3>1, <1>3, <1>4 DEF Transfer
    <3>5. CopiedOver(n, o, v)' BY <1>17, <3>3, <3>4
    <3> QED BY <3>1, <3>5
  <2> QED BY <2>1, <2>2, <2>3
<1>20. job = "EE_WriteVariable" => /\ slot'[n][1] = [data |-> req.data, va |-> req.va]
                                   /\ \A j \in 2..N : slot'[n][j].va # req.va
  <2> SUFFICES ASSUME job = "EE_WriteVariable"
               PROVE  /\ slot'[n][1] = [data |-> req.data, va |-> req.va]
                      /\ \A j \in 2..N : slot'[n][j].va # req.va
    OBVIOUS
  <2>1. req.va # Blank BY VarAssumption DEF TypeInv, ArgsOK
  <2>2. at # 1 BY <1>8, <1>9, <2>1
  <2> QED BY <1>9, <1>14, <1>16, <2>2
<1>21. Transfer(n, o)' BY <1>3, <1>19, <1>20 DEF Transfer
<1>22. \A p, q \in Pages : p = new' /\ q = Other(p) => Transfer(p, q)'
  BY <1>1, <1>2, <1>3, <1>21
<1>23. Contents' BY <1>3, <1>22 DEF Contents
<1> QED BY <1>15, <1>23

LEMMA SwapStore ==
  ASSUME DataInv, SwapErase \/ SwapValid
  PROVE  StoreKept /\ Contents'
<1> USE DEF DataInv
<1>1. PICK n \in Pages : n = new BY DEF TypeInv, TypeOK
<1>2. PICK o \in Pages : o = Other(n) BY PageFacts
<1>3. Other(o) = n /\ 1 \in Slots /\ TypeOK BY <1>2, PageFacts, SlotAssumption DEF Slots, TypeInv
<1>4. CASE SwapErase
  <2>1. /\ pc = "swap_erase" /\ pc' = "swap_valid" /\ Erase(o) /\ UNCHANGED locals
    BY <1>1, <1>2, <1>4 DEF SwapErase, GoTo
  <2>2. Receiving(n) \/ Received(n) BY <1>1, <2>1 DEF ShapeAndCalls, PageShape
  <2>3. Transfer(n, o) BY <1>1, <1>2 DEF Contents
  <2>4. \A v \in Vars : Recovered(v) = Lookup(n, v)
    <3>1. CASE Receiving(n)
      <4>1. \A i \in 1..Len(Table) : CopiedOver(n, o, Table[i])
        BY <2>1, <2>3, <3>1 DEF Transfer
      <4> QED BY <1>2, <2>1, <3>1, <4>1, CopiedReads
    <3>2. CASE Received(n)
      BY <1>2, <2>1, <3>2, RecoveredIs DEF RecoveredFacts
    <3> QED BY <2>2, <3>1, <3>2
  <2>5. slot'[n] = slot[n] BY <1>3, <2>1, EraseAt
  <2>6. Received(n)'
    <3>1. ShapeAndCalls' BY <1>4, SwapShape
    <3>2. \A p \in Pages : p = new' => Received(p)'
      BY <2>1, <3>1 DEF ShapeAndCalls, PageShape
    <3> QED BY <1>1, <2>1, <3>2 DEF locals
  <2>7. \A v \in Vars : Recovered(v)' = Lookup(n, v)'
    BY <1>2, <2>1, <2>6, RecoveredIsNext DEF RecoveredFacts
  <2>8. StoreKept BY <2>4, <2>5, <2>7, SamePage DEF StoreKept
  <2>9. Transfer(n, o)' BY <2>1, <2>3, <2>5 DEF Transfer, locals
  <2>10. \A p, q \in Pages : p = new' /\ q = Other(p) => Transfer(p, q)'
    BY <1>1, <1>2, <2>1, <2>9 DEF locals
  <2>11. Contents' BY <2>1, <2>10 DEF Contents
  <2> QED BY <2>8, <2>11
<1>5. CASE SwapValid
  <2>1. /\ pc = "swap_valid" /\ pc' = "idle" /\ Mark(n, "VALID_PAGE") /\ Received(n)
    BY <1>1, <1>5 DEF SwapValid, Done, ShapeAndCalls, PageShape
  <2>2. status'[n] = "VALID_PAGE" /\ status'[Other(n)] = "ERASED" /\ slot' = slot
    BY <1>3, <2>1, MarkAt DEF Received
  <2>3. OneValid(n)' BY <2>2 DEF OneValid, Other
  <2>4. \A v \in Vars : Recovered(v) = Lookup(n, v)
    BY <1>2, <2>1, RecoveredIs DEF RecoveredFacts
  <2>5. \A v \in Vars : Recovered(v)' = Lookup(n, v)'
    BY <1>2, <2>1, <2>3, RecoveredIsNext DEF RecoveredFacts
  <2>6. StoreKept BY <2>2, <2>4, <2>5, SameSlots DEF StoreKept
  <2>7. Contents' BY <2>1, NoContents DEF CarryingOn
  <2> QED BY <2>6, <2>7
<1> QED BY <1>4, <1>5

LEMMA LossStore ==
  ASSUME DataInv, PowerLoss
  PROVE  (~WindowLoss => StoreKept) /\ Contents'
<1> USE DEF DataInv
<1>1. /\ pc' = "off" /\ UNCHANGED flash BY DEF PowerLoss
<1>2. CASE pc # "clean" BY <1>1, <1>2, SameFlash, NoContents DEF CarryingOn
<1>3. CASE pc = "clean" /\ ~WindowLoss
  <2>1. PICK n \in Pages : n = new BY DEF TypeInv, TypeOK
  <2>2. PICK o \in Pages : o = Other(n) BY PageFacts
  <2>3. OneValid(n) BY <1>3, <2>1, CleanShape DEF Lost
  <2>4. OneValid(n)' BY <1>1, <2>3 DEF OneValid, flash, Other
  <2>5. \A v \in Vars : Recovered(v) = Lookup(n, v)
    BY <1>3, <2>1, <2>2, RecoveredIs DEF RecoveredFacts
  <2>6. \A v \in Vars : Recovered(v)' = Lookup(n, v)'
    BY <1>1, <2>2, <2>4, RecoveredIsNext DEF RecoveredFacts
  <2>7. StoreKept BY <1>1, <2>5, <2>6, SameSlots DEF StoreKept, flash
  <2> QED BY <1>1, <2>7, NoContents DEF CarryingOn
<1>4. Contents' BY <1>1, NoContents DEF CarryingOn
<1> QED BY <1>2, <1>3, <1>4

LEMMA StutterStore ==
  ASSUME DataInv, UNCHANGED vars
  PROVE  StoreKept /\ Contents'
<1> USE DEF DataInv
<1>1. /\ UNCHANGED <<status, slot, pc, job, req, at, new, idx>> /\ UNCHANGED flash
  BY DEF vars, flash
<1>2. \A n, o \in Pages : Transfer(n, o) => Transfer(n, o)'
  <2> SUFFICES ASSUME NEW n \in Pages, NEW o \in Pages, Transfer(n, o) PROVE Transfer(n, o)'
    OBVIOUS
  <2>1. BlankPage(n)' <=> BlankPage(n) BY <1>1 DEF BlankPage
  <2>2. Receiving(n)' <=> Receiving(n) BY <1>1 DEF Receiving, Other
  <2>3. \A v \in Vars : CopiedOver(n, o, v)' <=> CopiedOver(n, o, v)
    BY <1>1, SameSlots DEF CopiedOver
  <2>4. \A v \in Vars : /\ Skipped(v)' <=> Skipped(v)
                        /\ Found(o, v)' <=> Found(o, v)
                        /\ Lookup(o, v)' = Lookup(o, v)
    BY <1>1, SameSlots DEF Skipped
  <2>5. \A i \in 1..Len(Table) : Table[i] \in Vars BY TableFacts
  <2>6. idx \in 1..Len(Table) + 1 /\ Len(Table) \in Nat BY TableFacts DEF TypeInv, TypeOK
  <2>7. \A i \in 1..Len(Table) : CopiedOver(n, o, Table[i])' <=> CopiedOver(n, o, Table[i])
    BY <2>3, <2>5
  <2>8. \A i \in 1..idx-1 : i \in 1..Len(Table) BY <2>6
  <2> QED BY <1>1, <2>1, <2>2, <2>4, <2>7, <2>8 DEF Transfer
<1>3. Contents' BY <1>1, <1>2 DEF Contents, WritePage
<1>4. CASE pc # "clean" BY <1>1, <1>3, <1>4, SameFlash
<1>5. CASE pc = "clean"
  <2>1. PICK n \in Pages : n = new BY DEF TypeInv, TypeOK
  <2>2. PICK o \in Pages : o = Other(n) BY PageFacts
  <2>3. \A v \in Vars : Recovered(v) = Lookup(n, v) /\ Recovered(v)' = Lookup(n, v)'
    BY <1>1, <1>5, <2>1, <2>2, RecoveredIs, RecoveredIsNext DEF RecoveredFacts
  <2> QED BY <1>1, <1>3, <2>3, SameSlots DEF StoreKept
<1> QED BY <1>4, <1>5

\* Of all steps, only three kinds change what is recovered.
LEMMA StoreStep ==
  ASSUME DataInv, [Next]_vars, ~ErrorReturn
  PROVE  /\ Contents'
         /\ IF WriteVa \/ TransferVa THEN StoreSet(req.va, req.data)
            ELSE IF TransferMark THEN StoreDrops
            ELSE ~WindowLoss => StoreKept
<1>1. CASE TransferMark
  <2>1. ~WriteVa /\ ~TransferVa BY <1>1 DEF TransferMark, WriteVa, TransferVa
  <2> QED BY <1>1, <2>1, TransferMarkStore
<1>2. CASE WriteVa \/ TransferVa BY <1>2, WriteVaStore, TransferVaStore
<1>3. CASE ~(WriteVa \/ TransferVa \/ TransferMark)
  <2>1. \/ EE_Init \/ FormatErase \/ FormatValid \/ InitValid \/ InitClean
        \/ Write \/ WriteData \/ WriteFull \/ TransferData
        \/ CopySkip \/ CopyData \/ CopyVa \/ CopyEnd \/ SwapErase \/ SwapValid
        \/ PowerLoss \/ UNCHANGED vars
    BY <1>3 DEF Next, ErrorReturn
  <2>2. (~WindowLoss => StoreKept) /\ Contents'
    BY <2>1, BootStore, InitStore, WriteStore, TransferDataStore, CopySkipStore,
       CopyDataStore, CopyVaStore, SwapStore, LossStore, StutterStore
  <2> QED BY <1>3, <2>2
<1> QED BY <1>1, <1>2, <1>3

(***************************************************************************)
(* Until a call returns an error the pages keep their shape, and what they *)
(* receive is known, whenever power fails.                                 *)
(***************************************************************************)
DurableInv == TypeInv /\ UsedInv /\ Calls /\ BootInv /\ (~failed => ShapeAndCalls /\ Contents)

LEMMA DurableStep == DurableInv /\ [Next]_vars => DurableInv'
<1> SUFFICES ASSUME DurableInv, [Next]_vars PROVE DurableInv'
  OBVIOUS
<1>1. TypeInv' /\ UsedInv' /\ Calls' /\ BootInv'
  BY TypeStep, UsedStep, CallsStep, BootStep DEF DurableInv
<1>2. ASSUME ~failed' PROVE (ShapeAndCalls /\ Contents)'
  <2>1. CASE ~failed
    <3>1. ~ErrorReturn BY <1>2, Failed DEF DurableInv
    <3>2. DataInv BY <2>1 DEF DurableInv, DataInv
    <3> QED BY <3>1, <3>2, ShapeStep, StoreStep DEF DataInv
  <2>2. CASE failed
    <3>1. Settling BY <1>2, <2>2, Failed DEF DurableInv
    <3>2. ShapeAndCalls' /\ pc' = "idle" BY <3>1, SettlingShape DEF DurableInv
    <3> QED BY <3>2, NoContents DEF CarryingOn
  <2> QED BY <2>1, <2>2
<1> QED BY <1>1, <1>2 DEF DurableInv

LEMMA DurableInit == Init => DurableInv
<1>1. Init => BootInv BY DEF Init, BootInv
<1> QED BY <1>1, TypeInit, UsedInit, ShapeInit DEF DurableInv, ShapeAndCalls

\* A boot that succeeds leaves one valid page and one that is erased throughout, ready
\* for the next swap, whatever flash operations failed before it and whenever power
\* failed, in the window too; and so does every call after it that succeeds, until one
\* fails again.
THEOREM PagesSettle == Spec => []PagesSettled
<1>1. Spec => []DurableInv BY DurableInit, DurableStep, PTL DEF Spec
<1>2. DurableInv => PagesSettled
  BY PageFacts
  DEF DurableInv, ShapeAndCalls, PageShape, OneValid, PagesSettled, BlankPage, IsBlank
<1> QED BY <1>1, <1>2, PTL

\* What the next boot recovers is allowed, and the call in progress may store its value.
AllowedInv ==
  /\ \A v \in Listed : Recovered(v) \in allowed[v]
  /\ job = "EE_WriteVariable" => req.data \in allowed[req.va]

LEMMA ListedVars == Listed \subseteq Vars
BY TableFacts DEF Listed

\* A call that is about to return has stored its value.
LEMMA SwapStores ==
  ASSUME DataInv, pc = "swap_valid", job = "EE_WriteVariable"
  PROVE  Recovered(req.va) = req.data
<1> USE DEF DataInv
<1>1. PICK n \in Pages : n = new BY DEF TypeInv, TypeOK
<1>2. PICK o \in Pages : o = Other(n) BY PageFacts
<1>3. /\ Received(n) /\ slot[n][1] = [data |-> req.data, va |-> req.va]
      /\ \A j \in 2..N : slot[n][j].va # req.va
  BY <1>1, <1>2 DEF ShapeAndCalls, PageShape, Contents, Transfer
<1>4. PICK u \in Vars : u = req.va BY DEF TypeInv, ArgsOK
<1>5. 1 \in Slots /\ Latest(n, u, 1) BY <1>3, <1>4, SlotAssumption DEF Latest, Slots
<1>6. Lookup(n, u) = req.data BY <1>3, <1>5, LookupIs DEF LookupFacts
<1> QED BY <1>2, <1>3, <1>4, <1>6, RecoveredIs DEF RecoveredFacts

\* Between two calls a read returns what a boot would recover.
LEMMA IdleReads ==
  ASSUME DataInv, pc = "idle"
  PROVE  \A v \in Vars : EE_ReadVariable(v) = Recovered(v)
<1>1. PICK p \in Pages : OneValid(p) BY DEF DataInv, ShapeAndCalls, PageShape
<1>2. PICK o \in Pages : o = Other(p) BY PageFacts
<1>3. ReadPage = p /\ Readable BY <1>1, PageIs DEF WhichPage
<1> QED BY <1>1, <1>2, <1>3, RecoveredIs DEF RecoveredFacts, EE_ReadVariable

LEMMA AllowedStep ==
  ASSUME DataInv, AllowedInv, ~failed, ~WindowLoss, [Next]_vars, ~ErrorReturn
  PROVE  AllowedInv'
<1> USE DEF DataInv
<1>1. allowed \in [Vars -> SUBSET Values] BY DEF TypeInv, TypeOK
<1>2. CASE Write
  <2>0. StoreKept BY <1>2, WriteStore
  <2>1. PICK v \in Vars, d \in Data : WriteUnchanged(v, d) \/ WriteCall(v, d)
    BY <1>2 DEF Write
  <2>2. CASE WriteUnchanged(v, d)
    <3>1. /\ pc = "idle" /\ EE_ReadVariable(v) = d /\ allowed' = [allowed EXCEPT ![v] = {d}]
          /\ job' = job
      BY <2>2 DEF WriteUnchanged, Narrowed, locals
    <3>2. Recovered(v) = d /\ job' # "EE_WriteVariable"
      BY <3>1, IdleReads DEF ShapeAndCalls, Calls
    <3> QED BY <1>1, <2>0, <3>1, <3>2, ListedVars DEF AllowedInv, StoreKept
  <2>3. CASE WriteCall(v, d)
    <3>1. /\ req' = [va |-> v, data |-> d] /\ allowed' = [allowed EXCEPT ![v] = @ \cup {d}]
      BY <2>3 DEF WriteCall
    <3>2. \A w \in Vars : allowed[w] \subseteq allowed'[w] BY <1>1, <3>1
    <3>3. req'.data \in allowed'[req'.va] BY <1>1, <3>1
    <3> QED BY <2>0, <3>2, <3>3, ListedVars DEF AllowedInv, StoreKept
  <2> QED BY <2>1, <2>2, <2>3
<1>3. CASE WriteVa \/ (SwapValid /\ job = "EE_WriteVariable")
  <2>1. PICK u \in Vars : u = req.va BY <1>3 DEF WriteVa, TypeInv, ArgsOK
  <2>2. /\ Recovered(u)' = req.data
        /\ \A v \in Vars : v # u => Recovered(v)' = Recovered(v)
    <3>1. CASE WriteVa BY <3>1, <2>1, WriteVaStore DEF StoreSet
    <3>2. CASE SwapValid /\ job = "EE_WriteVariable"
      BY <3>2, <2>1, SwapStore, SwapStores DEF StoreKept, SwapValid
    <3> QED BY <1>3, <3>1, <3>2
  <2>3. allowed' = [allowed EXCEPT ![u] = {req.data}] /\ job' = "none"
    BY <1>3, <2>1 DEF WriteVa, SwapValid, Done, Narrowed, ClearLocals, TypeInv, ArgsOK
  <2> QED BY <1>1, <2>1, <2>2, <2>3, ListedVars DEF AllowedInv
<1>4. CASE ~(Write \/ WriteVa \/ (SwapValid /\ job = "EE_WriteVariable"))
  <2>1. /\ allowed' = allowed
        /\ job' = "EE_WriteVariable" => job = "EE_WriteVariable" /\ req' = req
    BY <1>4
    DEF ErrorReturn, Next, vars, EE_Init, InitErase, InitFinishSwap, InitCopy, InitFormat, Boot, GoTo,
        ghosts, locals, Done, ClearLocals, FormatErase, FormatValid, InitValid, InitClean,
        WriteData, WriteFull, TransferMark, TransferData, TransferVa, CopySkip, CopyData,
        CopyVa, CopyEnd, SwapErase, SwapValid, PowerLoss, ShapeAndCalls, Calls, TypeInv, TypeOK
  <2>2. \A v \in Listed : Recovered(v)' \in allowed[v]
    <3>1. CASE TransferVa
      BY <3>1, TransferVaStore, ListedVars DEF StoreSet, AllowedInv, TransferVa, TypeInv, ArgsOK
    <3>2. CASE TransferMark
      BY <3>2, TransferMarkStore, ListedVars DEF StoreDrops, AllowedInv
    <3>3. CASE ~(TransferVa \/ TransferMark)
      <4>1. StoreKept BY <1>4, <3>3, StoreStep
      <4> QED BY <4>1, ListedVars DEF StoreKept, AllowedInv
    <3> QED BY <3>1, <3>2, <3>3
  <2> QED BY <2>1, <2>2 DEF AllowedInv
<1> QED BY <1>2, <1>3, <1>4

(***************************************************************************)
(* What the two pages hold, whenever power fails and whatever failed       *)
(* before.  An old value may be left in a page only as long as the write   *)
(* that replaces it has not returned with no error before it.              *)
(***************************************************************************)
PagesHold == \A p \in Pages, v \in Vars : Lookup(p, v) \in allowed[v] \cup {None}

\* What a call is about to give an address.
Pending ==
  /\ job = "EE_WriteVariable" => req.data \in allowed[req.va]
  /\ pc \in {"write_va", "put_va"} =>
       \A w \in Pages : w = WritePage => slot[w][at] = [data |-> req.data, va |-> Blank]
  /\ pc = "copy_va" =>
       \A w \in Pages, v \in Vars : w = WritePage /\ v = Table[idx] =>
         \E d \in allowed[v] \cup {None} : slot[w][at] = [data |-> d, va |-> Blank]

HeldInv == PagesHold /\ Pending

Grows == \A v \in Vars : allowed[v] \subseteq allowed'[v]

SameCall == job' = "EE_WriteVariable" => job = "EE_WriteVariable" /\ req' = req

\* A step that programs no slot and ends no write.
LEMMA HeldQuiet ==
  ASSUME TypeInv, HeldInv, Grows, SameCall, pc' \notin WritingVa,
         \A p \in Pages, v \in Vars : Lookup(p, v)' = Lookup(p, v) \/ Lookup(p, v)' = None
  PROVE  HeldInv'
<1>1. PagesHold' BY DEF HeldInv, PagesHold, Grows
<1>2. job' = "EE_WriteVariable" => req'.data \in allowed'[req'.va]
  BY DEF HeldInv, Pending, Grows, SameCall, TypeInv, ArgsOK
<1> QED BY <1>1, <1>2 DEF HeldInv, Pending, WritingVa

\* One page is set to d for u, the other holds nothing: u may be the only value allowed.
LEMMA HeldReturn ==
  ASSUME TypeOK, HeldInv, NEW u \in Vars, NEW d, NEW w \in Pages, NEW o \in Pages, o = Other(w),
         allowed' = [allowed EXCEPT ![u] = {d}], Lookup(w, u)' = d,
         \A v \in Vars : v # u => Lookup(w, v)' = Lookup(w, v),
         BlankPage(o)', job' # "EE_WriteVariable", pc' \notin WritingVa
  PROVE  HeldInv'
<1>1. \A v \in Vars : Lookup(o, v)' = None BY BlankLookupNext DEF BlankHolds
<1>2. \A v \in Vars : Lookup(w, v)' \in allowed'[v] \cup {None}
  BY DEF TypeOK, HeldInv, PagesHold
<1>3. \A p \in Pages : p = w \/ p = o BY PageFacts
<1>4. PagesHold' BY <1>1, <1>2, <1>3 DEF PagesHold
<1> QED BY <1>4 DEF HeldInv, Pending, WritingVa

LEMMA ErasedReads ==
  ASSUME TypeOK, NEW p \in Pages, Erase(p)
  PROVE  \A q \in Pages, v \in Vars : Lookup(q, v)' = Lookup(q, v) \/ Lookup(q, v)' = None
<1>1. PICK o \in Pages : o = Other(p) BY PageFacts
<1>2. BlankPage(p)' /\ slot'[o] = slot[o] BY <1>1, EraseAt
<1>3. \A v \in Vars : Lookup(p, v)' = None BY <1>2, BlankLookupNext DEF BlankHolds
<1>4. \A v \in Vars : Lookup(o, v)' = Lookup(o, v) BY <1>2, SamePage
<1>5. \A q \in Pages : q = p \/ q = o BY <1>1, PageFacts
<1> QED BY <1>3, <1>4, <1>5

\* What a successful return does to the values allowed.
LEMMA DoneGrows ==
  ASSUME TypeInv, Done, failed \/ job # "EE_WriteVariable"
  PROVE  Grows /\ SameCall /\ pc' = "idle"
<1>1. allowed \in [Vars -> SUBSET Values] BY DEF TypeInv, TypeOK
<1>2. Grows
  <2>1. CASE job = "EE_WriteVariable"
    <3>1. failed /\ allowed' = [allowed EXCEPT ![req.va] = allowed[req.va] \cup {req.data}]
      BY <2>1 DEF Done, Narrowed
    <3> QED BY <1>1, <3>1 DEF Grows
  <2>2. CASE job # "EE_WriteVariable" BY <1>1, <2>2 DEF Done, Grows
  <2> QED BY <2>1, <2>2
<1> QED BY <1>2 DEF Done, ClearLocals, SameCall

LEMMA HeldWriteVa ==
  ASSUME TypeInv, UsedInv, HeldInv, ~failed => ShapeAndCalls, WriteVa
  PROVE  HeldInv'
<1>0. TypeOK /\ allowed \in [Vars -> SUBSET Values] BY DEF TypeInv, TypeOK
<1>A. at \in Slots BY DEF WriteVa, TypeInv, ArgsOK, WritingVa
<1>1. /\ pc = "write_va" /\ status' = status /\ AddressSet(req.va)
      /\ job = "EE_WriteVariable" /\ job' # "EE_WriteVariable" /\ pc' = "idle"
      /\ allowed' = Narrowed(req.va, req.data) /\ Done
  BY DEF WriteVa, Done, ClearLocals, TypeInv, ArgsOK, WritingVa, AddressSet
<1>2. PICK w \in Pages : w = WritePage BY WritePageType
<1>3. PICK u \in Vars : u = req.va BY <1>1 DEF TypeInv, ArgsOK
<1>4. PICK d : d = req.data OBVIOUS
<1>5. slot[w][at] = [data |-> d, va |-> Blank] BY <1>1, <1>2, <1>4 DEF HeldInv, Pending
<1>6. UsedBefore(w, at) BY <1>1, <1>2 DEF UsedInv, HalfWritten, WritingVa
<1>7. AddressSet(u) BY <1>1, <1>3
<1>8. /\ Lookup(w, u)' = d
      /\ \A v \in Vars : v # u => (Found(w, v)' <=> Found(w, v)) /\ Lookup(w, v)' = Lookup(w, v)
      /\ \A o \in Pages, v \in Vars :
           o # w => (Found(o, v)' <=> Found(o, v)) /\ Lookup(o, v)' = Lookup(o, v)
      /\ \A i \in Slots : slot'[w][i] = IF i = at THEN [data |-> d, va |-> u] ELSE slot[w][i]
  BY <1>0, <1>A, <1>2, <1>5, <1>6, <1>7, VaSets
<1>9. CASE failed
  <2>1. allowed' = [allowed EXCEPT ![u] = allowed[u] \cup {d}] BY <1>1, <1>3, <1>4, <1>9 DEF Narrowed
  <2>2. Grows /\ d \in allowed'[u] BY <1>0, <2>1 DEF Grows
  <2>3. \A p \in Pages, v \in Vars :
          Lookup(p, v)' = Lookup(p, v) \/ (v = u /\ Lookup(p, v)' = d)
    BY <1>8
  <2>4. PagesHold' BY <2>2, <2>3 DEF HeldInv, PagesHold, Grows
  <2> QED BY <1>1, <2>4 DEF HeldInv, Pending
<1>10. CASE ~failed
  <2>1. PICK p \in Pages : OneValid(p) BY <1>1, <1>10 DEF ShapeAndCalls, PageShape
  <2>2. p = w BY <1>2, <2>1, PageIs DEF WhichPage
  <2>3. PICK q \in Pages : q = Other(w) BY PageFacts
  <2>4. BlankPage(q)'
    <3>1. BlankPage(q) BY <1>10, <2>1, <2>2, <2>3 DEF ShapeAndCalls, PageShape, OneValid
    <3>2. slot'[q] = slot[q] BY <1>0, <1>1, <1>2, <2>3, ProgramVaAt, <1>A DEF AddressSet
    <3> QED BY <3>1, <3>2 DEF BlankPage
  <2>5. allowed' = [allowed EXCEPT ![u] = {d}] BY <1>1, <1>3, <1>4, <1>10 DEF Narrowed
  <2>6. pc' \notin WritingVa BY <1>1 DEF WritingVa
  <2>7. Lookup(w, u)' = d /\ \A v \in Vars : v # u => Lookup(w, v)' = Lookup(w, v) BY <1>8
  <2>8. job' # "EE_WriteVariable" BY <1>1
  <2> QED BY <1>0, <2>3, <2>4, <2>5, <2>6, <2>7, <2>8, HeldReturn
<1> QED BY <1>9, <1>10

LEMMA HeldSwapValid ==
  ASSUME DataInv, HeldInv, ~failed, SwapValid, job = "EE_WriteVariable"
  PROVE  HeldInv'
<1> USE DEF DataInv
<1>0. TypeOK BY DEF TypeInv
<1>1. PICK n \in Pages : n = new BY DEF TypeInv, TypeOK
<1>2. PICK o \in Pages : o = Other(n) BY PageFacts
<1>3. /\ pc = "swap_valid" /\ slot' = slot /\ job' # "EE_WriteVariable" /\ pc' \notin WritingVa
      /\ allowed' = [allowed EXCEPT ![req.va] = {req.data}]
  BY DEF SwapValid, Mark, Done, Narrowed, ClearLocals, WritingVa
<1>4. /\ Received(n) /\ slot[n][1] = [data |-> req.data, va |-> req.va]
      /\ \A j \in 2..N : slot[n][j].va # req.va
  BY <1>1, <1>2, <1>3 DEF ShapeAndCalls, PageShape, Contents, Transfer
<1>5. PICK u \in Vars : u = req.va BY DEF TypeInv, ArgsOK
<1>6. PICK d : d = req.data OBVIOUS
<1>7. 1 \in Slots /\ Latest(n, u, 1) BY <1>4, <1>5, SlotAssumption DEF Latest, Slots
<1>8. Lookup(n, u) = d BY <1>4, <1>5, <1>6, <1>7, LookupIs DEF LookupFacts
<1>9. BlankPage(o)'
  BY <1>2, <1>3, <1>4 DEF ShapeAndCalls, PageShape, Received, BlankPage
<1>10. Lookup(n, u)' = d /\ \A v \in Vars : v # u => Lookup(n, v)' = Lookup(n, v)
  BY <1>3, <1>8, SameSlots
<1>11. allowed' = [allowed EXCEPT ![u] = {d}] BY <1>3, <1>5, <1>6
<1> QED BY <1>0, <1>2, <1>3, <1>9, <1>10, <1>11, HeldReturn

LEMMA HeldWrite ==
  ASSUME TypeInv, HeldInv, Calls, ~failed => ShapeAndCalls, Write
  PROVE  HeldInv'
<1>0. TypeOK /\ allowed \in [Vars -> SUBSET Values] BY DEF TypeInv, TypeOK
<1>1. PICK v \in Vars, d \in Data : WriteUnchanged(v, d) \/ WriteCall(v, d) BY DEF Write
<1>2. slot' = slot /\ status' = status /\ pc = "idle" /\ job = "none"
  BY <1>1 DEF WriteUnchanged, WriteCall, flash, Calls
<1>3. \A p \in Pages, u \in Vars : Lookup(p, u)' = Lookup(p, u) BY <1>2, SameSlots
<1>4. CASE WriteUnchanged(v, d)
  <2>1. pc' \notin WritingVa /\ SameCall /\ job' # "EE_WriteVariable" /\ allowed' = Narrowed(v, d)
    BY <1>2, <1>4 DEF WriteUnchanged, locals, WritingVa, SameCall
  <2>2. CASE failed
    <3>1. allowed' = [allowed EXCEPT ![v] = allowed[v] \cup {d}] BY <2>1, <2>2 DEF Narrowed
    <3>2. Grows BY <1>0, <3>1 DEF Grows
    <3> QED BY <1>3, <2>1, <3>2, HeldQuiet
  <2>3. CASE ~failed
    <3>1. PICK w \in Pages : OneValid(w) BY <1>2, <2>3 DEF ShapeAndCalls, PageShape
    <3>2. PICK q \in Pages : q = Other(w) BY PageFacts
    <3>3. EE_ReadVariable(v) = Lookup(w, v)
      BY <3>1, PageIs DEF WhichPage, EE_ReadVariable
    <3>4. Lookup(w, v)' = d /\ \A u \in Vars : u # v => Lookup(w, u)' = Lookup(w, u)
      BY <1>3, <1>4, <3>3 DEF WriteUnchanged
    <3>5. BlankPage(q)'
      BY <1>2, <2>3, <3>1, <3>2 DEF ShapeAndCalls, PageShape, OneValid, BlankPage
    <3>6. allowed' = [allowed EXCEPT ![v] = {d}] BY <2>1, <2>3 DEF Narrowed
    <3> QED BY <1>0, <2>1, <3>2, <3>4, <3>5, <3>6, HeldReturn
  <2> QED BY <2>2, <2>3
<1>5. CASE WriteCall(v, d)
  <2>1. /\ req' = [va |-> v, data |-> d] /\ pc' = "write"
        /\ allowed' = [allowed EXCEPT ![v] = @ \cup {d}]
    BY <1>5 DEF WriteCall
  <2>2. Grows BY <1>0, <2>1 DEF Grows
  <2>3. req'.data \in allowed'[req'.va] BY <1>0, <2>1
  <2>4. PagesHold' BY <1>3, <2>2 DEF HeldInv, PagesHold, Grows
  <2> QED BY <2>1, <2>3, <2>4 DEF HeldInv, Pending
<1> QED BY <1>1, <1>4, <1>5

LEMMA HeldData ==
  ASSUME TypeInv, HeldInv, WriteData \/ TransferData \/ CopyData
  PROVE  HeldInv'
<1>0. TypeOK BY DEF TypeInv
<1>1. PICK w \in Pages : w = WritePage BY WritePageType
<1>2. PICK d : /\ ProgramData(d)
               /\ WriteData \/ TransferData => d = req.data
               /\ CopyData => d = Lookup(ReadPage, Table[idx])
  <2>1. CASE CopyData
    <3>1. ~WriteData /\ ~TransferData BY <2>1 DEF CopyData, WriteData, TransferData
    <3> QED BY <2>1, <3>1 DEF CopyData
  <2>2. CASE ~CopyData BY <2>2 DEF WriteData, TransferData
  <2> QED BY <2>1, <2>2
<1>3. /\ \A p \in Pages, v \in Vars : Lookup(p, v)' = Lookup(p, v)
      /\ status' = status
  BY <1>0, <1>1, <1>2, DataKeeps
<1>4. /\ allowed' = allowed /\ UNCHANGED <<job, req, idx>>
      /\ pc' = IF CopyData THEN "copy_va" ELSE IF WriteData THEN "write_va" ELSE "put_va"
  <2>1. ~(CopyData /\ (WriteData \/ TransferData)) /\ ~(WriteData /\ TransferData)
    BY DEF CopyData, WriteData, TransferData
  <2> QED BY <2>1 DEF WriteData, TransferData, CopyData, GoTo, ghosts
<1>5. PagesHold' BY <1>3, <1>4 DEF HeldInv, PagesHold
<1>6. WritePage' = w BY <1>1, <1>3 DEF WritePage
<1>7. slot'[w][at'] = [data |-> d, va |-> Blank]
  <2>1. at' \in Slots /\ slot'[w] = [slot[w] EXCEPT ![at'] = [data |-> d, va |-> Blank]]
    BY <1>0, <1>1, <1>2, ProgramDataAt
  <2>2. slot[w] \in [Slots -> Half] BY <1>0 DEF TypeOK, Half
  <2> QED BY <2>1, <2>2
<1>8. job' = "EE_WriteVariable" => req'.data \in allowed'[req'.va]
  BY <1>4 DEF HeldInv, Pending
<1>9. CASE CopyData
  <2>1. \A v \in Vars : v = Table[idx] => d \in allowed[v] \cup {None}
    <3>1. PICK r \in Pages : r = ReadPage BY WritePageType
    <3>2. \A v \in Vars : Lookup(r, v) \in allowed[v] \cup {None} BY DEF HeldInv, PagesHold
    <3> QED BY <1>2, <1>9, <3>1, <3>2
  <2> QED BY <1>4, <1>5, <1>6, <1>7, <1>8, <1>9, <2>1 DEF HeldInv, Pending
<1>10. CASE ~CopyData
  <2>1. d = req'.data BY <1>2, <1>4, <1>10
  <2> QED BY <1>4, <1>5, <1>6, <1>7, <1>8, <1>10, <2>1 DEF HeldInv, Pending
<1> QED BY <1>9, <1>10

LEMMA HeldVa ==
  ASSUME TypeInv, UsedInv, HeldInv, TransferVa \/ CopyVa
  PROVE  HeldInv'
<1>0. TypeOK /\ allowed \in [Vars -> SUBSET Values] BY DEF TypeInv, TypeOK
<1>A. at \in Slots BY DEF TransferVa, CopyVa, TypeInv, ArgsOK, WritingVa
<1>1. /\ pc \in {"put_va", "copy_va"} /\ allowed' = allowed /\ pc' = "copy"
      /\ UNCHANGED <<job, req>>
  BY DEF TransferVa, CopyVa, GoTo, ghosts, TypeInv, ArgsOK, WritingVa
<1>2. PICK w \in Pages : w = WritePage BY WritePageType
<1>3. UsedBefore(w, at) BY <1>1, <1>2 DEF UsedInv, HalfWritten, WritingVa
<1>4. PICK u \in Vars, d \in Values :
        /\ AddressSet(u) /\ slot[w][at] = [data |-> d, va |-> Blank]
        /\ d \in allowed[u] \cup {None}
  <2>1. CASE TransferVa
    <3>1. pc = "put_va" /\ req.va \in Vars /\ AddressSet(req.va) /\ job = "EE_WriteVariable"
      BY <2>1 DEF TransferVa, ProgramVa, TypeInv, ArgsOK, AddressSet
    <3>2. slot[w][at] = [data |-> req.data, va |-> Blank] /\ req.data \in allowed[req.va]
      BY <1>2, <3>1 DEF HeldInv, Pending
    <3>3. PICK v \in Vars : v = req.va BY <3>1
    <3>4. allowed[v] \subseteq Values BY <1>0
    <3> QED BY <3>1, <3>2, <3>3, <3>4
  <2>2. CASE CopyVa
    <3>1. pc = "copy_va" /\ AddressSet(Table[idx]) BY <2>2 DEF CopyVa, ProgramVa, AddressSet
    <3>2. PICK v \in Vars : v = Table[idx]
      BY <3>1, TableFacts DEF TypeInv, TypeOK, ArgsOK
    <3>3. PICK d \in allowed[v] \cup {None} : slot[w][at] = [data |-> d, va |-> Blank]
      BY <1>2, <3>1, <3>2 DEF HeldInv, Pending
    <3>4. allowed[v] \cup {None} \subseteq Values BY <1>0 DEF Values
    <3> QED BY <3>1, <3>2, <3>3, <3>4
  <2> QED BY <2>1, <2>2
<1>5. /\ Lookup(w, u)' = d
      /\ \A v \in Vars : v # u => (Found(w, v)' <=> Found(w, v)) /\ Lookup(w, v)' = Lookup(w, v)
      /\ \A o \in Pages, v \in Vars :
           o # w => (Found(o, v)' <=> Found(o, v)) /\ Lookup(o, v)' = Lookup(o, v)
      /\ \A i \in Slots : slot'[w][i] = IF i = at THEN [data |-> d, va |-> u] ELSE slot[w][i]
  BY <1>0, <1>A, <1>2, <1>3, <1>4, VaSets
<1>6. PagesHold' BY <1>1, <1>4, <1>5 DEF HeldInv, PagesHold
<1>7. job' = "EE_WriteVariable" => req'.data \in allowed'[req'.va]
  BY <1>1 DEF HeldInv, Pending
<1> QED BY <1>1, <1>6, <1>7 DEF HeldInv, Pending

LEMMA HeldStep ==
  ASSUME DurableInv, HeldInv, [Next]_vars
  PROVE  HeldInv'
<1>0. TypeInv /\ TypeOK /\ UsedInv /\ Calls /\ (~failed => DataInv)
  BY DEF DurableInv, TypeInv, DataInv
<1>1. CASE \/ EE_Init \/ FormatValid \/ InitValid \/ WriteFull \/ TransferMark \/ CopySkip
           \/ CopyEnd \/ PowerLoss \/ ErrorReturn
  <2>1. /\ slot' = slot /\ Grows /\ SameCall /\ pc' \notin WritingVa
    BY <1>1
    DEF EE_Init, InitErase, InitFinishSwap, InitCopy, InitFormat, Boot, GoTo, FormatValid,
        InitValid, WriteFull, TransferMark, CopySkip, CopyEnd, PowerLoss, ErrorReturn,
        NoValidPage, NewPageFull, FlashError, Fail, ClearLocals, Mark, flash, locals, ghosts,
        Grows, SameCall, WritingVa
  <2> QED BY <1>0, <2>1, SameSlots, HeldQuiet
<1>2. CASE FormatErase \/ SwapErase \/ InitClean
  <2>1. PICK p \in Pages : Erase(p)
    <3>1. new \in Pages /\ Other(new) \in Pages /\ 0 \in Pages
      BY <1>0, PageFacts DEF TypeOK, Pages
    <3> QED BY <1>2, <3>1 DEF FormatErase, SwapErase, InitClean
  <2>2. Grows /\ SameCall /\ pc' \notin WritingVa
    <3>1. CASE InitClean
      <4>1. Done /\ job # "EE_WriteVariable" BY <1>0, <3>1 DEF InitClean, Calls
      <4> QED BY <1>0, <4>1, DoneGrows DEF WritingVa
    <3>2. CASE FormatErase \/ SwapErase
      BY <3>2 DEF FormatErase, SwapErase, GoTo, locals, ghosts, Grows, SameCall, WritingVa
    <3> QED BY <1>2, <3>1, <3>2
  <2> QED BY <1>0, <2>1, <2>2, ErasedReads, HeldQuiet
<1>3. CASE WriteData \/ TransferData \/ CopyData BY <1>0, <1>3, HeldData
<1>4. CASE Write BY <1>0, <1>4, HeldWrite DEF DataInv
<1>5. CASE WriteVa BY <1>0, <1>5, HeldWriteVa DEF DataInv
<1>6. CASE TransferVa \/ CopyVa BY <1>0, <1>6, HeldVa
<1>7. CASE SwapValid
  <2>1. CASE ~failed /\ job = "EE_WriteVariable" BY <1>0, <1>7, <2>1, HeldSwapValid
  <2>2. CASE failed \/ job # "EE_WriteVariable"
    <3>1. Done /\ slot' = slot BY <1>7 DEF SwapValid, Mark
    <3>2. Grows /\ SameCall /\ pc' \notin WritingVa
      BY <1>0, <2>2, <3>1, DoneGrows DEF WritingVa
    <3> QED BY <1>0, <3>1, <3>2, SameSlots, HeldQuiet
  <2> QED BY <2>1, <2>2
<1>8. CASE UNCHANGED vars
  <2>1. /\ UNCHANGED <<allowed, pc, job, req, status, slot, at, idx>> BY <1>8 DEF vars
  <2>2. \A p \in Pages, v \in Vars : Lookup(p, v)' = Lookup(p, v) BY <2>1, SameSlots
  <2>3. WritePage' = WritePage BY <2>1 DEF WritePage
  <2>4. PagesHold' BY <2>1, <2>2 DEF HeldInv, PagesHold
  <2>5. Pending' BY <2>1, <2>3 DEF HeldInv, Pending
  <2> QED BY <2>4, <2>5 DEF HeldInv
<1> QED
  BY <1>1, <1>2, <1>3, <1>4, <1>5, <1>6, <1>7, <1>8 DEF Next, ErrorReturn

LEMMA HeldInit == Init => HeldInv
<1> SUFFICES ASSUME Init PROVE HeldInv
  OBVIOUS
<1>1. \A p \in Pages : BlankPage(p) BY DEF Init, BlankPage
<1>2. PagesHold BY <1>1, BlankLookup DEF PagesHold, BlankHolds
<1> QED BY <1>2 DEF Init, HeldInv, Pending

LEMMA HeldInvariant == Spec => [](DurableInv /\ HeldInv)
BY HeldInit, DurableInit, DurableStep, HeldStep, PTL DEF Spec

HeldReads ==
  \A v \in Vars : /\ Recovered(v) \in allowed[v] \cup {None}
                  /\ EE_ReadVariable(v) \in allowed[v] \cup {None}

LEMMA HeldRecovers == TypeInv /\ HeldInv => HeldReads
<1> SUFFICES ASSUME TypeInv, HeldInv, NEW v \in Vars
             PROVE  /\ Recovered(v) \in allowed[v] \cup {None}
                    /\ EE_ReadVariable(v) \in allowed[v] \cup {None}
  BY DEF HeldReads
<1>1. new \in Pages BY DEF TypeInv, TypeOK
<1>2. \A p \in Pages : Lookup(p, v) \in allowed[v] \cup {None} BY DEF HeldInv, PagesHold
<1>3. \E p \in Pages : Recovered(v) = Lookup(p, v) \/ Recovered(v) = None
  BY <1>1 DEF Recovered, Swapped, EE_ReadVariable, ReadPage, Other, Pages
<1>4. EE_ReadVariable(v) \in allowed[v] \cup {None}
  BY <1>2, WritePageType DEF EE_ReadVariable
<1> QED BY <1>2, <1>3, <1>4

LEMMA HeldRecoversNext == (TypeInv /\ HeldInv => HeldReads)'
BY HeldRecovers, PTL

\* Whatever fails, and whenever power fails, in the window of EE_Init too, no page brings an
\* older value back: what a boot recovers of any variable, listed or not, and what is read
\* meanwhile, is the last value reported as stored while no call had failed since the
\* boot, one written after it, or nothing.
THEOREM NothingStale == Spec => []NoStaleValue
<1>1. TypeInv /\ HeldInv => NoStaleValue BY HeldRecovers DEF HeldReads, NoStaleValue
<1> QED BY <1>1, HeldInvariant, PTL DEF DurableInv

LEMMA RecoversNothing == Init => \A v \in Vars : Recovered(v) = None
<1> SUFFICES ASSUME Init PROVE \A v \in Vars : Recovered(v) = None
  OBVIOUS
<1>1. pc = "off" /\ BothErased BY DEF Init, BothErased
<1>2. PICK p \in Pages : p = 0 BY DEF Pages
<1>3. PICK o \in Pages : o = Other(p) BY PageFacts
<1> QED BY <1>1, <1>2, <1>3, RecoveredIs DEF RecoveredFacts

KeptInv == DurableInv /\ HeldInv /\ (~failed => AllowedInv)

\* A boot that ends an error recovers a value that was allowed, or nothing.
LEMMA SettlingAllowed ==
  ASSUME DurableInv, HeldInv, failed, Settling, (TypeInv /\ HeldInv)'
  PROVE  AllowedInv'
<1>1. Done /\ job # "EE_WriteVariable" BY DEF Settling, InitClean, SwapValid
<1>2. job' = "none" /\ \A v \in Vars : None \in allowed'[v]
  BY <1>1 DEF Done, ClearLocals, DurableInv, TypeInv, TypeOK
<1>3. HeldReads' BY HeldRecoversNext
<1> QED BY <1>2, <1>3, ListedVars DEF AllowedInv, HeldReads

LEMMA KeptInvariant ==
  ASSUME ~WindowLoss
  PROVE  Spec => []KeptInv
<1>1. Init => (~failed => AllowedInv)
  BY RecoversNothing, ListedVars DEF Init, AllowedInv
<1>2. KeptInv /\ [Next]_vars => (~failed => AllowedInv)'
  <2> SUFFICES ASSUME KeptInv, [Next]_vars, ~failed' PROVE AllowedInv'
    OBVIOUS
  <2>1. CASE ~failed
    <3>1. ~ErrorReturn BY Failed DEF KeptInv, DurableInv
    <3>2. DataInv /\ AllowedInv BY <2>1 DEF KeptInv, DurableInv, DataInv
    <3> QED BY <2>1, <3>1, <3>2, AllowedStep
  <2>2. CASE failed
    <3>1. Settling BY <2>2, Failed DEF KeptInv, DurableInv
    <3>2. (TypeInv /\ HeldInv)' BY DurableStep, HeldStep DEF KeptInv, DurableInv
    <3> QED BY <2>2, <3>1, <3>2, SettlingAllowed DEF KeptInv
  <2> QED BY <2>1, <2>2
<1>3. KeptInv /\ [Next]_vars => DurableInv' /\ HeldInv' BY DurableStep, HeldStep DEF KeptInv
<1>4. Init => DurableInv /\ HeldInv BY DurableInit, HeldInit
<1> QED BY <1>1, <1>2, <1>3, <1>4, PTL DEF Spec, KeptInv

\* Wherever power fails, what the next boot recovers of a listed variable is the last
\* value reported as stored or one whose write was cut; after a call that fails, again
\* from the next boot that succeeds.
THEOREM StoredIsDurable ==
  ASSUME ~WindowLoss
  PROVE  Spec => []Durable
<1>1. KeptInv => Durable BY DEF KeptInv, AllowedInv, Durable
<1> QED BY <1>1, KeptInvariant, PTL

(***************************************************************************)
(* The room of the receiving page: one slot for the variable written and   *)
(* one for every entry of the table and every power loss.                  *)
(***************************************************************************)
Room == ~FlashErrors /\ N >= 1 + Len(Table) * (MaxLosses + 1)

BlankFrom(p, k) == \A j \in Slots : j > k => slot[p][j] = BlankSlot

Copies == 1 + Len(Table) * losses

RoomInv ==
  /\ pc = "off" => \A p \in Pages : Receiving(p) => BlankFrom(p, Copies)
  /\ \A n \in Pages : n = new =>
       /\ pc = "put" => BlankPage(n)
       /\ pc = "put_va" => BlankFrom(n, 1) /\ at = 1
       /\ pc = "copy" => BlankFrom(n, Copies + idx - 1)
       /\ pc = "copy_va" => BlankFrom(n, Copies + idx) /\ at <= Copies + idx
       /\ pc = "init_valid" \/ (pc = "swap_erase" /\ Receiving(n)) =>
            BlankFrom(n, Copies + Len(Table))

LEMMA CopiesFacts ==
  ASSUME TypeOK
  PROVE  /\ Copies \in Nat /\ Copies >= 1 /\ losses \in Nat /\ Len(Table) \in Nat
         /\ losses' = losses => Copies' = Copies
         /\ losses' = losses + 1 => Copies' = Copies + Len(Table)
<1>1. losses \in Nat /\ Len(Table) \in Nat BY TableFacts, LossAssumption DEF TypeOK
<1>2. \A m, k \in Nat : m * k \in Nat /\ m * (k + 1) = m * k + m OBVIOUS
<1>3. PICK m \in Nat : m = Len(Table) BY <1>1
<1>4. PICK k \in Nat : k = losses BY <1>1
<1>5. Copies = 1 + m * k BY <1>3, <1>4 DEF Copies
<1>6. losses' = losses => Copies' = Copies BY DEF Copies
<1>7. losses' = losses + 1 => Copies' = 1 + m * (k + 1) BY <1>3, <1>4 DEF Copies
<1>8. m * k \in Nat /\ m * (k + 1) = m * k + m BY <1>2
<1> QED BY <1>1, <1>3, <1>5, <1>6, <1>7, <1>8

\* A page with that room has a blank slot for every copy.
LEMMA EnoughRoom ==
  ASSUME TypeOK, Room
  PROVE  /\ N >= 1 /\ N \in Slots
         /\ N > Copies + Len(Table) - 1
<1>1. losses \in Nat /\ Len(Table) \in Nat /\ losses <= MaxLosses /\ MaxLosses \in Nat
  BY TableFacts, LossAssumption DEF TypeOK
<1>2. PICK m \in Nat : m = Len(Table) BY <1>1
<1>3. PICK k \in Nat : k = losses BY <1>1
<1>4. PICK x \in Nat : x = MaxLosses BY <1>1
<1>5. \A i, j, l \in Nat : i <= j => l * i <= l * j /\ l * i \in Nat /\ l * j \in Nat
  OBVIOUS
<1>6. m * (k + 1) <= m * (x + 1) /\ m * (k + 1) \in Nat /\ m * (x + 1) \in Nat
  <2>1. k + 1 \in Nat /\ x + 1 \in Nat /\ k + 1 <= x + 1 BY <1>1, <1>3, <1>4
  <2> QED BY <1>5, <2>1
<1>7. m * (k + 1) = m * k + m /\ m * k \in Nat OBVIOUS
<1>8. Copies = 1 + m * k BY <1>2, <1>3 DEF Copies
<1>9. N >= 1 + m * (x + 1) BY <1>2, <1>4 DEF Room
<1>10. N \in Nat /\ N >= 1 BY SlotAssumption
<1> QED BY <1>2, <1>6, <1>7, <1>8, <1>9, <1>10 DEF Slots

\* The first blank slot comes right behind the used ones.
LEMMA NextSlot ==
  ASSUME NEW p \in Pages, NEW k \in Nat, BlankFrom(p, k), NEW i \in Slots, FirstBlank(p, i)
  PROVE  i <= k + 1
<1>1. N \in Nat /\ i \in 1..N BY SlotAssumption DEF Slots
<1>2. SUFFICES ASSUME i > k + 1 PROVE FALSE
  BY <1>1
<1>3. k + 1 \in Slots BY <1>1, <1>2 DEF Slots
<1>4. slot[p][k + 1] = BlankSlot BY <1>3 DEF BlankFrom
<1>5. k + 1 \in 1..i-1 BY <1>1, <1>2
<1> QED BY <1>4, <1>5 DEF FirstBlank, IsBlank

\* With that room no call returns an error.
LEMMA NoError ==
  ASSUME TypeInv, ShapeAndCalls, RoomInv, Room, [Next]_vars
  PROVE  ~ErrorReturn
<1>1. ~FlashError BY DEF Room, FlashError
<1>2. ~NoValidPage
  <2> SUFFICES ASSUME NoValidPage PROVE FALSE
    OBVIOUS
  <2>1. PICK p \in Pages : OneValid(p) BY DEF NoValidPage, ShapeAndCalls, PageShape
  <2> QED BY <2>1, PageIs DEF WhichPage, NoValidPage
<1>3. ~NewPageFull
  <2> SUFFICES ASSUME NewPageFull PROVE FALSE
    OBVIOUS
  <2>1. PICK n \in Pages : n = new BY DEF TypeInv, TypeOK
  <2>3. Receiving(n) /\ WritePage = n
    BY <2>1, PageIs DEF WhichPage, NewPageFull, ShapeAndCalls, PageShape
  <2>4. N \in Slots /\ N >= 1 /\ N > Copies + Len(Table) - 1 /\ TypeOK
    BY EnoughRoom DEF TypeInv
  <2>5. slot[n][N] # BlankSlot BY <2>3, <2>4 DEF NewPageFull, PageFull, IsBlank
  <2>6. CASE pc = "put"
    BY <2>1, <2>4, <2>5, <2>6 DEF RoomInv, BlankPage
  <2>7. CASE pc = "copy" /\ ToCopy
    <3>1. BlankFrom(n, Copies + idx - 1) BY <2>1, <2>7 DEF RoomInv
    <3>2. idx <= Len(Table) /\ idx \in Nat /\ Copies \in Nat /\ Len(Table) \in Nat /\ N \in Nat
      BY <2>4, <2>7, CopiesFacts, SlotAssumption DEF ToCopy, TypeOK
    <3>3. N > Copies + idx - 1 BY <2>4, <3>2
    <3> QED BY <2>4, <2>5, <3>1, <3>3 DEF BlankFrom
  <2> QED BY <2>6, <2>7 DEF NewPageFull
<1> QED BY <1>1, <1>2, <1>3 DEF ErrorReturn

LEMMA RoomStep ==
  ASSUME TypeInv, ShapeAndCalls, RoomInv, [Next]_vars, ~ErrorReturn
  PROVE  RoomInv'
<1>1. PICK n \in Pages : n = new BY DEF TypeInv, TypeOK
<1>2. PICK o \in Pages : o = Other(n) BY PageFacts
<1>3. /\ Copies \in Nat /\ Copies >= 1 /\ losses \in Nat /\ Len(Table) \in Nat
      /\ losses' = losses => Copies' = Copies
      /\ losses' = losses + 1 => Copies' = Copies + Len(Table)
      /\ TypeOK /\ N \in Nat
  BY CopiesFacts, SlotAssumption DEF TypeInv
<1>4. idx \in 1..Len(Table) + 1 BY <1>3 DEF TypeOK
<1>5. pc' \notin {"off", "put", "put_va", "copy", "copy_va", "init_valid", "swap_erase"} => RoomInv'
  BY DEF RoomInv
<1>6. CASE EE_Init
  <2>1. PICK l \in {"format", "clean", "swap_erase", "copy"}, p \in Pages :
          /\ Boot(l, p)
          /\ l = "format" => p = 0 /\ (BothErased \/ Lost)
          /\ l = "clean" => OneValid(p)
          /\ l = "swap_erase" => Received(p)
          /\ l = "copy" => Receiving(p)
    BY <1>6, BootCases
  <2>2. /\ pc = "off" /\ pc' = l /\ UNCHANGED <<status, slot, idx, losses>> /\ new' = p
        /\ idx' = 1
    BY <2>1 DEF Boot, GoTo, flash, ghosts, ShapeAndCalls, Calls
  <2>3. l = "copy" => BlankFrom(p, Copies) BY <2>1, <2>2 DEF RoomInv
  <2>4. l = "copy" => BlankFrom(p, Copies + idx - 1)'
    BY <1>3, <2>2, <2>3 DEF BlankFrom
  <2>5. l = "swap_erase" => ~Receiving(p)' BY <2>1, <2>2 DEF Received, Receiving, Other
  <2> QED BY <2>2, <2>4, <2>5 DEF RoomInv
<1>7. CASE TransferData
  <2>1. /\ pc = "put" /\ pc' = "put_va" /\ ProgramData(req.data) /\ new' = new
    BY <1>7 DEF TransferData, GoTo
  <2>2. BlankPage(n) /\ Receiving(n)
    BY <1>1, <2>1 DEF ShapeAndCalls, PageShape, RoomInv
  <2>3. /\ at' \in Slots /\ FirstBlank(n, at')
        /\ slot'[n] = [slot[n] EXCEPT ![at'] = [data |-> req.data, va |-> Blank]]
    BY <2>1, <2>2, ReceivedData DEF TypeInv
  <2>4. at' = 1
    <3>1. PICK i \in Slots : i = at' BY <2>3
    <3>2. BlankFrom(n, 0) /\ FirstBlank(n, i) BY <2>2, <2>3, <3>1 DEF BlankFrom, BlankPage
    <3>3. i <= 0 + 1 BY <3>2, NextSlot
    <3> QED BY <1>3, <3>1, <3>3 DEF Slots
  <2>5. BlankFrom(n, 1)'
    <3>1. \A j \in Slots : j > 1 => j # 1 BY DEF Slots
    <3>2. \A j \in Slots : j # 1 => slot'[n][j] = slot[n][j] BY <1>3, <2>3, <2>4 DEF TypeOK
    <3> QED BY <2>2, <3>1, <3>2 DEF BlankFrom, BlankPage
  <2> QED BY <1>1, <2>1, <2>4, <2>5 DEF RoomInv
<1>8. CASE TransferVa
  <2>1. /\ pc = "put_va" /\ pc' = "copy" /\ UNCHANGED <<new, idx, losses>> /\ idx = 1
        /\ AddressSet(req.va) /\ at \in Slots
    BY <1>8
    DEF TransferVa, ProgramVa, GoTo, ghosts, AddressSet, ShapeAndCalls, Calls, TypeInv,
        ArgsOK, WritingVa
  <2>2. Receiving(n) /\ at = 1 /\ BlankFrom(n, 1)
    BY <1>1, <2>1 DEF ShapeAndCalls, PageShape, RoomInv
  <2>3. n = WritePage BY <2>2, PageIs DEF WhichPage
  <2>4. slot'[n] = [slot[n] EXCEPT ![at] = [data |-> slot[n][at].data, va |-> req.va]]
    BY <1>3, <2>1, <2>3, ProgramVaAt DEF AddressSet
  <2>5. \A j \in Slots : j > 1 => slot'[n][j] = slot[n][j]
    BY <1>3, <2>2, <2>4 DEF Slots
  <2>6. BlankFrom(n, Copies + idx - 1)'
    <3>1. Copies' = Copies BY <1>3, <2>1
    <3>2. \A j \in Slots : j > Copies + 1 - 1 => j > 1 BY <1>3 DEF Slots
    <3> QED BY <2>1, <2>2, <2>5, <3>1, <3>2 DEF BlankFrom
  <2> QED BY <1>1, <2>1, <2>6 DEF RoomInv
<1>9. CASE CopyData
  <2>1. /\ pc = "copy" /\ pc' = "copy_va" /\ UNCHANGED <<new, idx, losses>>
        /\ ProgramData(Lookup(ReadPage, Table[idx]))
    BY <1>9 DEF CopyData, GoTo, ghosts
  <2>2. Receiving(n) /\ BlankFrom(n, Copies + idx - 1)
    BY <1>1, <2>1 DEF ShapeAndCalls, PageShape, RoomInv
  <2>3. PICK d : d = Lookup(ReadPage, Table[idx]) OBVIOUS
  <2>4. /\ at' \in Slots /\ FirstBlank(n, at')
        /\ slot'[n] = [slot[n] EXCEPT ![at'] = [data |-> d, va |-> Blank]]
    BY <2>1, <2>2, <2>3, ReceivedData DEF TypeInv
  <2>5. PICK i \in Slots : i = at' BY <2>4
  <2>6. PICK k \in Nat : k = Copies + idx - 1 BY <1>3, <1>4
  <2>7. i <= k + 1
    <3>1. FirstBlank(n, i) BY <2>4, <2>5 DEF FirstBlank
    <3> QED BY <2>2, <2>6, <3>1, NextSlot
  <2>8. \A j \in Slots : j > k + 1 => slot'[n][j] = slot[n][j]
    <3>1. \A j \in Slots : j > k + 1 => j # i BY <1>3, <2>7 DEF Slots
    <3> QED BY <1>3, <2>4, <2>5, <3>1 DEF TypeOK
  <2>9. \A j \in Slots : j > k + 1 => j > k BY <1>3 DEF Slots
  <2>10. BlankFrom(n, k + 1)' BY <2>2, <2>6, <2>8, <2>9 DEF BlankFrom
  <2>11. (Copies + idx)' = k + 1 BY <1>3, <1>4, <2>1, <2>6
  <2>12. BlankFrom(n, Copies + idx)' BY <2>10, <2>11 DEF BlankFrom
  <2>13. at' <= (Copies + idx)' BY <2>5, <2>7, <2>11
  <2> QED BY <1>1, <2>1, <2>12, <2>13 DEF RoomInv
<1>10. CASE CopyVa
  <2>1. /\ pc = "copy_va" /\ pc' = "copy" /\ UNCHANGED <<new, losses>> /\ idx' = idx + 1
        /\ AddressSet(Table[idx]) /\ at \in Slots
    BY <1>10
    DEF CopyVa, ProgramVa, GoTo, ghosts, AddressSet, TypeInv, ArgsOK, WritingVa
  <2>2. Receiving(n) /\ BlankFrom(n, Copies + idx) /\ at <= Copies + idx
    BY <1>1, <2>1 DEF ShapeAndCalls, PageShape, RoomInv
  <2>3. n = WritePage BY <2>2, PageIs DEF WhichPage
  <2>4. slot'[n] = [slot[n] EXCEPT ![at] = [data |-> slot[n][at].data, va |-> Table[idx]]]
    BY <1>3, <2>1, <2>3, ProgramVaAt DEF AddressSet
  <2>5. PICK i \in Slots : i = at BY <2>1
  <2>6. PICK k \in Nat : k = Copies + idx BY <1>3, <1>4
  <2>7. \A j \in Slots : j > k => j # i BY <1>3, <2>2, <2>5, <2>6 DEF Slots
  <2>8. \A j \in Slots : j > k => slot'[n][j] = slot[n][j]
    BY <1>3, <2>4, <2>5, <2>7 DEF TypeOK
  <2>9. BlankFrom(n, k)' BY <2>2, <2>6, <2>8 DEF BlankFrom
  <2>10. (Copies + idx - 1)' = k BY <1>3, <1>4, <2>1, <2>6
  <2>11. BlankFrom(n, Copies + idx - 1)' BY <2>9, <2>10 DEF BlankFrom
  <2> QED BY <1>1, <2>1, <2>11 DEF RoomInv
<1>11. CASE CopySkip \/ CopyEnd
  <2>1. /\ pc = "copy" /\ UNCHANGED <<slot, new, losses>>
    BY <1>11 DEF CopySkip, CopyEnd, flash, locals, ghosts, GoTo
  <2>2. BlankFrom(n, Copies + idx - 1) BY <1>1, <2>1 DEF RoomInv
  <2>3. CASE CopySkip
    <3>1. pc' = "copy" /\ idx' = idx + 1 BY <2>3 DEF CopySkip
    <3>2. BlankFrom(n, Copies + idx - 1)'
      <4>1. (Copies + idx - 1)' = Copies + idx BY <1>3, <1>4, <2>1, <3>1
      <4>2. BlankFrom(n, Copies + idx) BY <1>3, <1>4, <2>2 DEF BlankFrom, Slots
      <4> QED BY <2>1, <4>1, <4>2 DEF BlankFrom
    <3> QED BY <1>1, <2>1, <3>1, <3>2 DEF RoomInv
  <2>4. CASE CopyEnd
    <3>1. pc' \in {"init_valid", "swap_erase"} /\ idx > Len(Table) BY <2>4 DEF CopyEnd, GoTo
    <3>2. BlankFrom(n, Copies + Len(Table))'
      <4>1. Copies' = Copies /\ idx = Len(Table) + 1 BY <1>3, <1>4, <2>1, <3>1
      <4>2. BlankFrom(n, Copies + Len(Table)) BY <1>3, <2>2, <4>1 DEF BlankFrom, Slots
      <4> QED BY <2>1, <4>1, <4>2 DEF BlankFrom
    <3> QED BY <1>1, <2>1, <3>1, <3>2 DEF RoomInv
  <2> QED BY <1>11, <2>3, <2>4
<1>12. CASE PowerLoss
  <2>1. /\ pc' = "off" /\ UNCHANGED <<status, slot>>
        /\ pc # "off" /\ (pc = "idle" \/ losses' = losses + 1)
    BY <1>12 DEF PowerLoss, flash
  <2>2. ASSUME NEW p \in Pages, Receiving(p) PROVE BlankFrom(p, Copies)'
    <3>1. p = n /\ pc \in {"put", "put_va", "copy", "copy_va", "init_valid", "swap_erase"}
      <4>1. ~\E q \in Pages : OneValid(q) \/ Received(q)
        BY <2>2 DEF OneValid, Receiving, Received, Pages, Other
      <4>2. ~BothErased /\ ~Lost BY <2>2 DEF BothErased, BothValid, Lost, Receiving
      <4>3. Receiving(n) => p = n BY <2>2 DEF Receiving, Pages, Other
      <4>4. pc # "clean"
        BY <1>1, <2>2, PageFacts DEF ShapeAndCalls, PageShape, Receiving
      <4>5. pc \in Labels BY <1>3 DEF TypeOK
      <4>6. pc \notin {"format", "format_valid", "idle", "write", "write_va", "mark_receive",
                       "swap_valid"}
        <5>1. 1 \in Pages BY DEF Pages
        <5> QED BY <1>1, <4>1, <4>2, <5>1, PageFacts DEF ShapeAndCalls, PageShape
      <4> QED BY <1>1, <2>1, <4>1, <4>3, <4>4, <4>5, <4>6
          DEF Labels, ShapeAndCalls, PageShape
    <3>2. Copies' = Copies + Len(Table) BY <1>3, <2>1, <3>1
    <3>3. \A j \in Slots : j > Copies + Len(Table) => slot[n][j] = BlankSlot
      <4> SUFFICES ASSUME NEW j \in Slots, j > Copies + Len(Table)
                   PROVE  slot[n][j] = BlankSlot
        OBVIOUS
      <4>0. j \in Int BY DEF Slots
      <4>1. CASE pc = "put"
        BY <1>1, <4>1 DEF RoomInv, BlankPage
      <4>2. CASE pc = "put_va"
        <5>1. BlankFrom(n, 1) BY <1>1, <4>2 DEF RoomInv
        <5>2. j > 1 BY <1>3, <4>0
        <5> QED BY <5>1, <5>2 DEF BlankFrom
      <4>3. CASE pc = "copy"
        <5>1. BlankFrom(n, Copies + idx - 1) BY <1>1, <4>3 DEF RoomInv
        <5>2. j > Copies + idx - 1 BY <1>3, <1>4, <4>0
        <5> QED BY <5>1, <5>2 DEF BlankFrom
      <4>4. CASE pc = "copy_va"
        <5>1. BlankFrom(n, Copies + idx) BY <1>1, <4>4 DEF RoomInv
        <5>2. idx <= Len(Table) BY <4>4 DEF TypeInv, ArgsOK
        <5>3. j > Copies + idx BY <1>3, <1>4, <4>0, <5>2
        <5> QED BY <5>1, <5>3 DEF BlankFrom
      <4>5. CASE pc \in {"init_valid", "swap_erase"}
        <5>1. BlankFrom(n, Copies + Len(Table)) BY <1>1, <2>2, <3>1, <4>5 DEF RoomInv
        <5> QED BY <5>1 DEF BlankFrom
      <4> QED BY <3>1, <4>1, <4>2, <4>3, <4>4, <4>5
    <3> QED BY <2>1, <3>1, <3>2, <3>3 DEF BlankFrom
  <2>3. \A p \in Pages : Receiving(p)' => Receiving(p) BY <2>1 DEF Receiving, Other
  <2> QED BY <2>1, <2>2, <2>3 DEF RoomInv
<1>13. CASE UNCHANGED vars
  <2>1. Copies' = Copies /\ UNCHANGED <<status, slot, pc, new, idx, at>>
    BY <1>3, <1>13 DEF vars
  <2>2. \A p \in Pages : Receiving(p)' <=> Receiving(p) BY <2>1 DEF Receiving, Other
  <2> QED BY <2>1, <2>2 DEF RoomInv, BlankFrom, BlankPage
<1>14. CASE \/ FormatErase \/ FormatValid \/ InitValid \/ InitClean
            \/ Write \/ WriteData \/ WriteVa \/ WriteFull
            \/ SwapErase \/ SwapValid
  <2>1. pc' \notin {"off", "put", "put_va", "copy", "copy_va", "init_valid", "swap_erase"}
    BY <1>14
    DEF FormatErase, FormatValid, InitValid, InitClean, Write, WriteUnchanged, WriteCall,
        WriteData, WriteVa, WriteFull, SwapErase, SwapValid, GoTo, Done
  <2> QED BY <2>1, <1>5
<1>15. CASE TransferMark
  <2>1. /\ pc = "mark_receive" /\ pc' = "put" /\ new' = new /\ slot' = slot
    BY <1>15 DEF TransferMark, GoTo, locals, Mark
  <2>2. BlankPage(n)
    BY <1>1, <2>1, PageFacts DEF ShapeAndCalls, PageShape, OneValid
  <2>3. BlankPage(n)' BY <2>1, <2>2 DEF BlankPage
  <2> QED BY <1>1, <2>1, <2>3 DEF RoomInv
<1> QED
  BY <1>6, <1>7, <1>8, <1>9, <1>10, <1>11, <1>12, <1>13, <1>14, <1>15 DEF Next, ErrorReturn

FitInv == DurableInv /\ ~failed /\ RoomInv

LEMMA FitInvariant ==
  ASSUME Room
  PROVE  Spec => []FitInv
<1>1. Init => FitInv
  <2>1. Init => RoomInv
    <3>1. Init => \A p \in Pages : slot[p] = [i \in Slots |-> BlankSlot] /\ pc = "off"
      BY DEF Init
    <3> QED BY <3>1 DEF RoomInv, BlankFrom, Pages
  <2> QED BY <2>1, DurableInit DEF FitInv, Init
<1>2. FitInv /\ [Next]_vars => FitInv'
  <2> SUFFICES ASSUME FitInv, [Next]_vars PROVE FitInv'
    OBVIOUS
  <2>1. TypeInv /\ ShapeAndCalls /\ RoomInv BY DEF FitInv, DurableInv
  <2>2. ~ErrorReturn BY <2>1, NoError
  <2>3. ~failed' BY <2>1, <2>2, Failed DEF FitInv
  <2>4. DurableInv' BY DurableStep DEF FitInv
  <2>5. RoomInv' BY <2>1, <2>2, RoomStep
  <2> QED BY <2>3, <2>4, <2>5 DEF FitInv
<1> QED BY <1>1, <1>2, PTL DEF Spec

\* A page with room for one copy of the table per power loss, and one more, is never
\* found full by EE_PageTransfer or EE_Init, whenever power fails.
THEOREM RecoveryHasRoom == Spec => []RecoveryFits
<1>1. CASE Room
  <2>1. FitInv => RecoveryFits BY DEF FitInv, RecoveryFits
  <2> QED BY <1>1, <2>1, FitInvariant, PTL
<1>2. CASE ~Room
  <2>1. RecoveryFits BY <1>2 DEF Room, RecoveryFits
  <2> QED BY <2>1, PTL
<1> QED BY <1>1, <1>2

\* "The last stored variable data" is what EE_ReadVariable returns as long as no call
\* has returned an error, whatever the room of the pages.
THEOREM ReadsUntilError ==
  ASSUME ~WindowLoss
  PROVE  Spec => [](~failed => ReadsLastStored)
<1>1. KeptInv => (~failed => ReadsLastStored)
  <2> SUFFICES ASSUME KeptInv, ~failed, pc = "idle", NEW v \in Listed
               PROVE  EE_ReadVariable(v) \in allowed[v]
    BY DEF ReadsLastStored
  <2>1. DataInv /\ AllowedInv BY DEF KeptInv, DurableInv, DataInv
  <2> QED BY <2>1, IdleReads, ListedVars DEF AllowedInv
<1> QED BY <1>1, KeptInvariant, PTL

\* EE_ReadVariable "returns the last stored variable data", whatever swaps, power losses
\* and recoveries came before.
THEOREM ReadsReturnLastStored ==
  ASSUME ~WindowLoss, Room
  PROVE  Spec => []ReadsLastStored
<1>1. FitInv => ~failed BY DEF FitInv
<1> QED BY <1>1, FitInvariant, ReadsUntilError, PTL

\* With every variable in use listed in VirtAddVarTab, no swap loses one: the table is
\* all that the disagreement with the header comment of driver/eeprom.c depends on.
THEOREM ListedTableKeepsAll ==
  ASSUME ~WindowLoss, Room, Listed = Vars
  PROVE  Spec => []SwapKeepsEveryVariable
<1>1. ReadsLastStored => SwapKeepsEveryVariable
  BY DEF ReadsLastStored, SwapKeepsEveryVariable
<1> QED BY <1>1, ReadsReturnLastStored, PTL

Stored == [v \in Vars |-> Recovered(v)]

On == pc # "off"

(***************************************************************************)
(* The steps of the map, as conditions on what they are mapped from: first *)
(* those of calls that do not fail, then those after an error.             *)
(***************************************************************************)
LEMMA MapSteps ==
  ASSUME failed = FALSE, failed' = FALSE
  PROVE
  /\ ~On /\ On' /\ Stored' = Stored /\ InCall' = InCall /\ allowed' = allowed => Map!Next
  /\ On /\ ~On' /\ Stored' = Stored /\ InCall' = {} /\ allowed' = allowed => Map!Next
  /\ \A v \in Vars, d \in Data : On /\ On' =>
       /\ InCall = {} /\ InCall' = {<<v, d>>} /\ Stored' = Stored
            /\ allowed' = [allowed EXCEPT ![v] = @ \cup {d}] => Map!Next
       /\ InCall = {<<v, d>>} /\ InCall' \in {InCall, {}}
            /\ allowed' = (IF InCall' = {} THEN [allowed EXCEPT ![v] = {d}] ELSE allowed)
            /\ Stored' = [Stored EXCEPT ![v] = d] => Map!Next
       /\ InCall \in {{}, {<<v, d>>}} /\ InCall' = {} /\ Stored[v] = d /\ Stored' = Stored
            /\ allowed' = [allowed EXCEPT ![v] = {d}] => Map!Next
  /\ (On <=> On') /\ InCall # {} /\ InCall' = InCall /\ allowed' = allowed
       /\ Stored' = [v \in Vars |-> IF v \in Vars \ Listed THEN None ELSE Stored[v]] => Map!Next
  /\ (On <=> On') /\ InCall' = InCall /\ Stored' = Stored /\ allowed' = allowed
       => UNCHANGED Map!vars
<1> USE DEF Stored, On, Map!Stays, Map!Settles
<1>1. ~On /\ On' /\ Stored' = Stored /\ InCall' = InCall /\ allowed' = allowed => Map!PowerOn
  BY DEF Map!PowerOn
<1>2. On /\ ~On' /\ Stored' = Stored /\ InCall' = {} /\ allowed' = allowed => Map!PowerOff
  BY DEF Map!PowerOff
<1>3. ASSUME NEW v \in Vars, NEW d \in Data, On, On'
      PROVE  /\ InCall = {} /\ InCall' = {<<v, d>>} /\ Stored' = Stored
                  /\ allowed' = [allowed EXCEPT ![v] = @ \cup {d}] => Map!Begin(v, d)
             /\ InCall = {<<v, d>>} /\ InCall' \in {InCall, {}}
                  /\ allowed' = (IF InCall' = {} THEN [allowed EXCEPT ![v] = {d}] ELSE allowed)
                  /\ Stored' = [Stored EXCEPT ![v] = d] => Map!Commit(v, d)
             /\ InCall \in {{}, {<<v, d>>}} /\ InCall' = {} /\ Stored[v] = d /\ Stored' = Stored
                  /\ allowed' = [allowed EXCEPT ![v] = {d}] => Map!Return(v, d)
  BY <1>3 DEF Map!Begin, Map!Commit, Map!Return
<1>4. (On <=> On') /\ InCall # {} /\ InCall' = InCall /\ allowed' = allowed
        /\ Stored' = [v \in Vars |-> IF v \in Vars \ Listed THEN None ELSE Stored[v]]
           => Map!Drop(Vars \ Listed)
  BY DEF Map!Drop
<1>5. (On <=> On') /\ InCall' = InCall /\ Stored' = Stored /\ allowed' = allowed
        => UNCHANGED Map!vars
  BY DEF Map!vars
<1> QED BY <1>1, <1>2, <1>3, <1>4, <1>5 DEF Map!Next

\* After an error the map promises no more than HeldInv does.
Shifted ==
  /\ Stored' \in [Vars -> Data \cup {None}]
  /\ \A v \in Vars : Stored'[v] \in allowed'[v] \cup {None}

LEMMA MapShifts ==
  ASSUME Shifted, failed \/ failed', failed \in BOOLEAN, failed' \in BOOLEAN
  PROVE
  /\ ~On /\ On' /\ InCall' = InCall /\ allowed' = allowed /\ failed' = failed => Map!Next
  /\ On /\ ~On' /\ InCall' = {} /\ allowed' = allowed /\ failed' = failed => Map!Next
  /\ On /\ On' /\ InCall' = {} /\ allowed' = allowed /\ failed' = TRUE => Map!Next
  /\ On /\ On' /\ InCall = {} /\ InCall' = {} /\ failed' = FALSE
       /\ allowed' = [v \in Vars |-> allowed[v] \cup {None}] => Map!Next
  /\ \A v \in Vars, d \in Data : On /\ On' /\ InCall = {} /\ InCall' = {<<v, d>>}
       /\ failed' = failed /\ allowed' = [allowed EXCEPT ![v] = @ \cup {d}] => Map!Next
  /\ (On <=> On') /\ InCall' = InCall /\ failed' = TRUE /\ failed = TRUE /\ allowed' = allowed
       => Map!Next
<1> USE DEF Stored, On, Shifted, Map!Stays, Map!Settles, Map!Shifts
<1>1. ~On /\ On' /\ InCall' = InCall /\ allowed' = allowed /\ failed' = failed => Map!PowerOn
  BY DEF Map!PowerOn
<1>2. On /\ ~On' /\ InCall' = {} /\ allowed' = allowed /\ failed' = failed => Map!PowerOff
  BY DEF Map!PowerOff
<1>3. On /\ On' /\ InCall' = {} /\ allowed' = allowed /\ failed' = TRUE => Map!Fail
  BY DEF Map!Fail
<1>4. On /\ On' /\ InCall = {} /\ InCall' = {} /\ failed' = FALSE
        /\ allowed' = [v \in Vars |-> allowed[v] \cup {None}] => Map!Settle
  BY DEF Map!Settle
<1>5. ASSUME NEW v \in Vars, NEW d \in Data
      PROVE  On /\ On' /\ InCall = {} /\ InCall' = {<<v, d>>} /\ failed' = failed
               /\ allowed' = [allowed EXCEPT ![v] = @ \cup {d}] => Map!Begin(v, d)
  BY DEF Map!Begin
<1>6. (On <=> On') /\ InCall' = InCall /\ failed' = TRUE /\ failed = TRUE /\ allowed' = allowed
        => Map!Shift
  BY DEF Map!Shift
<1> QED BY <1>1, <1>2, <1>3, <1>4, <1>5, <1>6 DEF Map!Next

LEMMA MapStep ==
  ASSUME DataInv, ~failed, ~WindowLoss, [Next]_vars, ~ErrorReturn
  PROVE  [Map!Next]_(Map!vars)
<1> USE DEF DataInv
<1>0. failed = FALSE /\ failed' = FALSE /\ allowed \in [Vars -> SUBSET Values]
  <2>1. ~failed' BY Failed
  <2>2. TypeOK' BY TypeStep DEF TypeInv
  <2> QED BY <2>1, <2>2 DEF TypeInv, TypeOK
<1>1. StoreKept => Stored' = Stored BY DEF StoreKept, Stored
<1>2. CASE EE_Init
  <2>1. StoreKept BY <1>2, BootStore
  <2>2. PICK l \in {"format", "clean", "swap_erase", "copy"}, p \in Pages : Boot(l, p)
    BY <1>2, BootCases
  <2>3. ~On /\ On' /\ job = "none" /\ job' = "EE_Init" /\ allowed' = allowed
    BY <2>2 DEF Boot, GoTo, ghosts, On, ShapeAndCalls, Calls
  <2>4. InCall = {} /\ InCall' = {} BY <2>3 DEF InCall
  <2> QED BY <1>0, <1>1, <2>1, <2>3, <2>4, MapSteps
<1>3. CASE PowerLoss
  <2>1. StoreKept BY <1>3, LossStore
  <2>2. On /\ ~On' /\ job' = "none" /\ allowed' = allowed BY <1>3 DEF PowerLoss, ClearLocals, On
  <2>3. InCall' = {} BY <2>2 DEF InCall
  <2> QED BY <1>0, <1>1, <2>1, <2>2, <2>3, MapSteps
<1>4. CASE Write
  <2>0. StoreKept BY <1>4, WriteStore
  <2>1. PICK v \in Vars, d \in Data : WriteUnchanged(v, d) \/ WriteCall(v, d)
    BY <1>4 DEF Write
  <2>2. On /\ On' /\ job = "none" /\ pc = "idle"
    BY <2>1 DEF WriteUnchanged, WriteCall, On, ShapeAndCalls, Calls
  <2>3. CASE WriteUnchanged(v, d)
    <3>1. /\ InCall = {} /\ InCall' = {} /\ EE_ReadVariable(v) = d
          /\ allowed' = [allowed EXCEPT ![v] = {d}]
      BY <2>2, <2>3 DEF WriteUnchanged, Narrowed, locals, InCall
    <3>2. Stored[v] = d BY <2>2, <3>1, IdleReads DEF Stored
    <3> QED BY <1>0, <1>1, <2>0, <2>2, <3>1, <3>2, MapSteps
  <2>4. CASE WriteCall(v, d)
    <3>1. /\ job' = "EE_WriteVariable" /\ req' = [va |-> v, data |-> d]
          /\ allowed' = [allowed EXCEPT ![v] = @ \cup {d}]
      BY <2>4 DEF WriteCall
    <3>2. InCall = {} BY <2>2 DEF InCall
    <3>3. InCall' = {<<v, d>>} BY <3>1 DEF InCall
    <3> QED BY <1>0, <1>1, <2>0, <2>2, <3>1, <3>2, <3>3, MapSteps
  <2> QED BY <2>1, <2>3, <2>4
<1>5. CASE WriteVa \/ TransferVa
  <2>1. StoreSet(req.va, req.data) BY <1>5, WriteVaStore, TransferVaStore
  <2>2. job = "EE_WriteVariable" /\ On /\ On'
    BY <1>5
    DEF WriteVa, TransferVa, GoTo, Done, On, TypeInv, ArgsOK
  <2>3. PICK v \in Vars, d \in Data : v = req.va /\ d = req.data
    BY <2>2 DEF TypeInv, ArgsOK
  <2>4. InCall = {<<v, d>>} BY <2>2, <2>3 DEF InCall
  <2>5. Stored' = [Stored EXCEPT ![v] = d] BY <2>1, <2>3 DEF StoreSet, Stored
  <2>6. /\ InCall' \in {InCall, {}}
        /\ allowed' = IF InCall' = {} THEN [allowed EXCEPT ![v] = {d}] ELSE allowed
    <3>1. CASE WriteVa
      <4>1. job' = "none" /\ allowed' = Narrowed(req.va, req.data)
        BY <2>2, <3>1 DEF WriteVa, Done, ClearLocals
      <4>2. InCall' = {} BY <4>1 DEF InCall
      <4> QED BY <2>3, <4>1, <4>2 DEF Narrowed
    <3>2. CASE TransferVa
      <4>1. UNCHANGED <<job, req, allowed>> BY <3>2 DEF TransferVa, GoTo, ghosts
      <4>2. InCall' = InCall BY <4>1 DEF InCall
      <4> QED BY <2>4, <4>1, <4>2
    <3> QED BY <1>5, <3>1, <3>2
  <2> QED BY <1>0, <2>2, <2>4, <2>5, <2>6, MapSteps
<1>6. CASE TransferMark
  <2>1. StoreDrops BY <1>6, TransferMarkStore
  <2>2. job = "EE_WriteVariable" /\ job' = job /\ req' = req /\ On /\ On' /\ allowed' = allowed
    BY <1>6 DEF TransferMark, GoTo, ghosts, locals, On, TypeInv, ArgsOK
  <2>3. InCall # {} /\ InCall' = InCall BY <2>2 DEF InCall
  <2>4. Stored' = [v \in Vars |-> IF v \in Vars \ Listed THEN None ELSE Stored[v]]
    BY <2>1 DEF StoreDrops, Stored
  <2> QED BY <1>0, <2>2, <2>3, <2>4, MapSteps
<1>7. CASE SwapValid /\ job = "EE_WriteVariable"
  <2>1. StoreKept BY <1>7, SwapStore
  <2>2. /\ job' = "none" /\ On /\ On' /\ allowed' = Narrowed(req.va, req.data)
    BY <1>7 DEF SwapValid, Done, ClearLocals, On
  <2>3. PICK v \in Vars, d \in Data : v = req.va /\ d = req.data
    BY <1>7 DEF TypeInv, ArgsOK
  <2>4. InCall = {<<v, d>>} /\ InCall' = {} BY <1>7, <2>2, <2>3 DEF InCall
  <2>5. Stored[v] = d
    <3>1. Recovered(req.va) = req.data BY <1>7, SwapStores DEF SwapValid
    <3> QED BY <2>3, <3>1 DEF Stored
  <2>6. allowed' = [allowed EXCEPT ![v] = {d}] BY <2>2, <2>3 DEF Narrowed
  <2> QED BY <1>0, <1>1, <2>1, <2>2, <2>4, <2>5, <2>6, MapSteps
<1>8. CASE ~(EE_Init \/ PowerLoss \/ Write \/ WriteVa \/ TransferVa \/ TransferMark
             \/ (SwapValid /\ job = "EE_WriteVariable"))
  <2>1. StoreKept BY <1>8, StoreStep
  <2>2. /\ On <=> On'
        /\ job' = job \/ (job # "EE_WriteVariable" /\ job' # "EE_WriteVariable")
        /\ job' = job => req' = req \/ job # "EE_WriteVariable"
    BY <1>8
    DEF ErrorReturn, Next, vars, GoTo, ghosts, locals, Done, ClearLocals, FormatErase,
        FormatValid, InitValid, InitClean, WriteData, WriteFull, TransferData, CopySkip,
        CopyData, CopyVa, CopyEnd, SwapErase, SwapValid, On, ShapeAndCalls, Calls
  <2>3. InCall' = InCall BY <2>2 DEF InCall
  <2>4. allowed' = allowed
    <3>1. CASE InitClean \/ SwapValid
      <4>1. Done /\ job # "EE_WriteVariable"
        BY <1>8, <3>1 DEF InitClean, SwapValid, ShapeAndCalls, Calls
      <4>2. allowed' = [v \in Vars |-> allowed[v] \cup {}] BY <4>1 DEF Done
      <4> QED BY <1>0, <4>2
    <3>2. CASE ~(InitClean \/ SwapValid)
      BY <1>8, <3>2
      DEF ErrorReturn, Next, vars, GoTo, ghosts, FormatErase, FormatValid, InitValid, WriteData,
          WriteFull, TransferData, CopySkip, CopyData, CopyVa, CopyEnd, SwapErase
    <3> QED BY <3>1, <3>2
  <2> QED BY <1>0, <1>1, <2>1, <2>2, <2>3, <2>4, MapSteps
<1> QED BY <1>2, <1>3, <1>4, <1>5, <1>6, <1>7, <1>8

LEMMA MapFailed ==
  ASSUME DurableInv, HeldInv, (TypeInv /\ HeldInv)', [Next]_vars, failed \/ failed'
  PROVE  [Map!Next]_(Map!vars)
<1>0. /\ TypeInv /\ Calls /\ allowed \in [Vars -> SUBSET Values]
      /\ failed \in BOOLEAN /\ failed' \in BOOLEAN
  BY DEF DurableInv, TypeInv, TypeOK
<1>1. Shifted
  <2>1. HeldReads' /\ allowed' \in [Vars -> SUBSET Values]
    BY HeldRecoversNext DEF TypeInv, TypeOK
  <2> QED BY <2>1 DEF Shifted, Stored, HeldReads, Values
<1>2. CASE EE_Init
  <2>1. ~On /\ On' /\ job = "none" /\ job' = "EE_Init" /\ UNCHANGED <<allowed, failed>>
    BY <1>0, <1>2
    DEF EE_Init, InitErase, InitFinishSwap, InitCopy, InitFormat, Boot, GoTo, ghosts, On, Calls
  <2>2. InCall = {} /\ InCall' = {} BY <2>1 DEF InCall
  <2> QED BY <1>0, <1>1, <2>1, <2>2, MapShifts
<1>3. CASE PowerLoss
  <2>1. On /\ ~On' /\ job' = "none" /\ UNCHANGED <<allowed, failed>>
    BY <1>3 DEF PowerLoss, ClearLocals, On
  <2>2. InCall' = {} BY <2>1 DEF InCall
  <2> QED BY <1>0, <1>1, <2>1, <2>2, MapShifts
<1>4. CASE ErrorReturn
  <2>1. On /\ On' /\ job' = "none" /\ allowed' = allowed /\ failed' = TRUE
    BY <1>4
    DEF ErrorReturn, NoValidPage, NewPageFull, FlashError, FlashBusy, Fail, ClearLocals, On
  <2>2. InCall' = {} BY <2>1 DEF InCall
  <2> QED BY <1>0, <1>1, <2>1, <2>2, MapShifts
<1>5. CASE Settling
  <2>1. /\ On /\ On' /\ job # "EE_WriteVariable" /\ job' = "none" /\ failed' = FALSE
        /\ allowed' = [v \in Vars |-> allowed[v] \cup IF failed THEN {None} ELSE {}]
    BY <1>5 DEF Settling, InitClean, SwapValid, Done, ClearLocals, On
  <2>2. InCall = {} /\ InCall' = {} BY <2>1 DEF InCall
  <2>3. allowed' = [v \in Vars |-> allowed[v] \cup {None}] BY <2>1
  <2> QED BY <1>0, <1>1, <2>1, <2>2, <2>3, MapShifts
<1>6. CASE Write
  <2>1. PICK v \in Vars, d \in Data : WriteUnchanged(v, d) \/ WriteCall(v, d)
    BY <1>6 DEF Write
  <2>2. On /\ On' /\ job = "none" /\ failed' = failed
    BY <1>0, <2>1 DEF WriteUnchanged, WriteCall, On, Calls
  <2>3. InCall = {} BY <2>2 DEF InCall
  <2>4. CASE WriteUnchanged(v, d)
    <3>1. InCall' = {} /\ EE_ReadVariable(v) = d /\ allowed' = Narrowed(v, d)
      BY <2>2, <2>4 DEF WriteUnchanged, locals, InCall
    <3>2. d \in allowed[v]
      <4>1. HeldReads BY <1>0, HeldRecovers
      <4>2. d # None BY DataAssumption
      <4> QED BY <3>1, <4>1, <4>2 DEF HeldReads
    <3>3. failed = TRUE BY <1>0, <2>2
    <3>4. allowed[v] \cup {d} = allowed[v] BY <3>2
    <3>5. allowed' = allowed BY <1>0, <3>1, <3>3, <3>4 DEF Narrowed
    <3> QED BY <1>1, <2>2, <2>3, <3>1, <3>3, <3>5, MapShifts
  <2>5. CASE WriteCall(v, d)
    <3>1. /\ job' = "EE_WriteVariable" /\ req' = [va |-> v, data |-> d]
          /\ allowed' = [allowed EXCEPT ![v] = @ \cup {d}]
      BY <2>5 DEF WriteCall
    <3>2. InCall' = {<<v, d>>} BY <3>1 DEF InCall
    <3> QED BY <1>1, <2>2, <2>3, <3>1, <3>2, MapShifts
  <2> QED BY <2>1, <2>4, <2>5
<1>7. CASE WriteVa \/ (SwapValid /\ job = "EE_WriteVariable")
  <2>1. /\ job = "EE_WriteVariable" /\ On /\ On' /\ job' = "none" /\ failed' = failed
        /\ allowed' = Narrowed(req.va, req.data)
    BY <1>0, <1>7 DEF WriteVa, SwapValid, Done, ClearLocals, On, TypeInv, ArgsOK
  <2>2. PICK v \in Vars, d \in Data : v = req.va /\ d = req.data
    BY <1>0, <2>1 DEF TypeInv, ArgsOK
  <2>3. InCall' = {} BY <2>1 DEF InCall
  <2>4. d \in allowed[v] BY <2>1, <2>2 DEF HeldInv, Pending
  <2>5. failed = TRUE BY <1>0, <2>1
  <2>6. allowed[v] \cup {d} = allowed[v] BY <2>4
  <2>7. allowed' = allowed BY <1>0, <2>1, <2>2, <2>5, <2>6 DEF Narrowed
  <2> QED BY <1>1, <2>1, <2>3, <2>5, <2>7, MapShifts
<1>8. CASE FormatErase \/ FormatValid \/ InitValid \/ TransferMark \/ SwapErase \/ CopyEnd
  <2>1. (On <=> On') /\ UNCHANGED <<job, req, allowed, failed>>
    BY <1>8 DEF FormatErase, FormatValid, InitValid, TransferMark, SwapErase, CopyEnd, GoTo, locals,
                ghosts, On
  <2>2. InCall' = InCall /\ failed = TRUE BY <1>0, <2>1 DEF InCall
  <2> QED BY <1>0, <1>1, <2>1, <2>2, MapShifts
<1>9. CASE WriteData \/ WriteFull \/ TransferData \/ TransferVa \/ CopySkip \/ CopyData \/ CopyVa
  <2>1. (On <=> On') /\ UNCHANGED <<job, req, allowed, failed>>
    BY <1>9 DEF WriteData, WriteFull, TransferData, TransferVa, CopySkip, CopyData, CopyVa, GoTo,
                ghosts, On
  <2>2. InCall' = InCall /\ failed = TRUE BY <1>0, <2>1 DEF InCall
  <2> QED BY <1>0, <1>1, <2>1, <2>2, MapShifts
<1>10. CASE UNCHANGED vars
  <2>1. (On <=> On') /\ UNCHANGED <<job, req, allowed, failed>> BY <1>10 DEF vars, On
  <2>2. InCall' = InCall /\ failed = TRUE BY <1>0, <2>1 DEF InCall
  <2> QED BY <1>0, <1>1, <2>1, <2>2, MapShifts
<1>11. InitClean => Settling BY <1>0 DEF Settling, InitClean, Calls
<1>12. SwapValid /\ job # "EE_WriteVariable" => Settling BY DEF Settling
<1> QED
  BY <1>2, <1>3, <1>4, <1>5, <1>6, <1>7, <1>8, <1>9, <1>10, <1>11, <1>12 DEF Next, ErrorReturn

LEMMA MapInit == Init => Map!Init
<1> SUFFICES ASSUME Init PROVE Map!Init
  OBVIOUS
<1>1. \A v \in Vars : Recovered(v) = None BY RecoversNothing
<1>2. InCall = {} /\ pc = "off" BY DEF Init, InCall
<1> QED BY <1>1, <1>2 DEF Init, Map!Init

\* The emulated EEPROM is a map that keeps its contents across power losses, whatever the
\* room of its pages; when a call fails, until the next boot that succeeds, it is what NvMap
\* says of a map whose calls have failed.
THEOREM EepromImplementsNvMap ==
  ASSUME ~WindowLoss
  PROVE  Spec => ImplementsNvMap
<1>1. KeptInv /\ [Next]_vars => [Map!Next]_(Map!vars)
  <2> SUFFICES ASSUME KeptInv, [Next]_vars PROVE [Map!Next]_(Map!vars)
    OBVIOUS
  <2>1. DurableInv' /\ HeldInv' BY DurableStep, HeldStep DEF KeptInv
  <2>2. CASE failed \/ failed'
    <3>1. (TypeInv /\ HeldInv)' BY <2>1 DEF DurableInv
    <3> QED BY <2>2, <3>1, MapFailed DEF KeptInv
  <2>3. CASE ~failed /\ ~failed'
    <3>1. DataInv BY <2>3 DEF KeptInv, DurableInv, DataInv
    <3>2. ~ErrorReturn BY <2>3, Failed DEF KeptInv, DurableInv
    <3> QED BY <2>3, <3>1, <3>2, MapStep
  <2> QED BY <2>2, <2>3
<1> QED BY <1>1, MapInit, KeptInvariant, PTL DEF Spec, ImplementsNvMap, Map!Spec
==============================================================================
