---------------------------- MODULE Eeprom ----------------------------
(***************************************************************************)
(* The emulated EEPROM of driver/eeprom.c on two flash sectors, as         *)
(* conf_general.c uses it: one header half-word and N slots per page, each *)
(* slot a data half-word followed by the virtual address it belongs to.    *)
(*                                                                         *)
(* One step is one call of FLASH_ProgramHalfWord or FLASH_EraseSector, so  *)
(* that a power loss can fall between any two of them; what the code does  *)
(* between two flash operations changes no flash and is part of the step   *)
(* that follows.  The calls run to completion under utils_sys_lock_cnt:    *)
(* there is no second writer.                                              *)
(*                                                                         *)
(* Ghost state: allowed[v], the values a later read of v may return;       *)
(* failed, from a call that returns an error to the next EE_Init that      *)
(* succeeds; losses, the power losses since the pages were last settled    *)
(* (at most MaxLosses).                                                    *)
(***************************************************************************)
EXTENDS Integers, Sequences

CONSTANTS Vars,         \* virtual addresses in use
          Table,        \* VirtAddVarTab, in order
          Data,         \* half-word values; 0xFFFF, which is Blank, may be one
          Blank,        \* an erased half-word, 0xFFFF
          None,         \* "variable not found"
          N,            \* slots of a page
          MaxLosses,    \* bound on power losses before the pages settle
          WindowLoss,   \* may power fail between EE_Init's last two steps?
          FlashErrors   \* may a flash operation report an error?

Pages  == {0, 1}
Slots  == 1..N
Listed == {Table[i] : i \in 1..Len(Table)}
Status == {"ERASED", "RECEIVE_DATA", "VALID_PAGE"}

ASSUME SlotAssumption == N \in Nat \ {0}
ASSUME VarAssumption ==
  /\ Table \in Seq(Vars)
  /\ \A i, j \in 1..Len(Table) : Table[i] = Table[j] => i = j
  /\ Blank \notin Vars
ASSUME DataAssumption == None \notin Data
ASSUME LossAssumption ==
  MaxLosses \in Nat /\ WindowLoss \in BOOLEAN /\ FlashErrors \in BOOLEAN

VARIABLES status,    \* header half-word of each page
          slot,      \* slot[p][i] = [data, va]
          pc,        \* the flash operation that comes next
          job,       \* the entry point that is running
          req,       \* VirtAddress and Data of EE_WriteVariable
          at,        \* the slot whose data half-word was just programmed
          new,       \* NewPageAddress: the page that becomes valid
          idx,       \* VarIdx
          allowed, failed, losses

flash  == <<status, slot>>
locals == <<job, req, at, new, idx>>
ghosts == <<allowed, failed, losses>>
vars   == <<status, slot, pc, job, req, at, new, idx, allowed, failed, losses>>

Other(p) == 1 - p

BlankSlot == [data |-> Blank, va |-> Blank]

IsBlank(p, i) == slot[p][i] = BlankSlot

(***************************************************************************)
(* EE_FindValidPage.                                                       *)
(***************************************************************************)
ReadPage == IF status[0] = "VALID_PAGE" THEN 0 ELSE 1

Readable == \E p \in Pages : status[p] = "VALID_PAGE"

WritePage ==
  IF status[1] = "VALID_PAGE"
  THEN IF status[0] = "RECEIVE_DATA" THEN 0 ELSE 1
  ELSE IF status[1] = "RECEIVE_DATA" THEN 1 ELSE 0

(***************************************************************************)
(* EE_ReadVariable scans a page from its end: the last slot that bears the *)
(* address counts.  EE_VerifyPageFullWriteVariable scans from the start:   *)
(* the first blank word is taken.                                          *)
(***************************************************************************)
Latest(p, v, i) == slot[p][i].va = v /\ \A j \in i+1..N : slot[p][j].va # v

Found(p, v) == \E i \in Slots : Latest(p, v, i)

Lookup(p, v) ==
  IF Found(p, v) THEN slot[p][CHOOSE i \in Slots : Latest(p, v, i)].data ELSE None

EE_ReadVariable(v) == IF Readable THEN Lookup(ReadPage, v) ELSE None

\* Mutant: any blank word is taken, not the first.
AnyBlank(p, i) == IsBlank(p, i)

FirstBlank(p, i) == IsBlank(p, i) /\ \A j \in 1..i-1 : ~IsBlank(p, j)

PageFull == \A i \in Slots : ~IsBlank(WritePage, i)

(***************************************************************************)
(* The flash operations.  Programming only clears bits: 0xEEEE programmed  *)
(* over a valid header (0x0000) leaves it valid.                           *)
(***************************************************************************)
Mark(p, st) ==
  /\ status' = [status EXCEPT ![p] = IF @ = "VALID_PAGE" THEN @ ELSE st]
  /\ UNCHANGED slot

Erase(p) ==
  /\ status' = [status EXCEPT ![p] = "ERASED"]
  /\ slot' = [slot EXCEPT ![p] = [i \in Slots |-> BlankSlot]]

ProgramData(d) ==
  \E i \in Slots :
    /\ Readable
    /\ FirstBlank(WritePage, i)
    /\ slot' = [slot EXCEPT ![WritePage][i] = [data |-> d, va |-> Blank]]
    /\ at' = i
    /\ UNCHANGED status

ProgramVa(v) ==
  /\ slot' = [slot EXCEPT ![WritePage][at] = [data |-> @.data, va |-> v]]
  /\ at' = 0
  /\ UNCHANGED status

(***************************************************************************)
(* A call returns: its locals are gone.  A write that returns with success *)
(* leaves one value allowed.  After an error it does not: a transfer that  *)
(* failed leaves a page that receives the writes beside the one that is    *)
(* read, and a write may be lost though it is reported as done.  The boot  *)
(* that ends this may have had to format both pages.                       *)
(***************************************************************************)
NoReq == [va |-> Blank, data |-> Blank]

ClearLocals ==
  /\ job' = "none" /\ req' = NoReq /\ at' = 0 /\ new' = 0 /\ idx' = 1

Narrowed(v, d) == [allowed EXCEPT ![v] = IF failed THEN @ \cup {d} ELSE {d}]

Done ==
  /\ pc' = "idle"
  /\ ClearLocals
  /\ IF job = "EE_WriteVariable"
     THEN /\ allowed' = Narrowed(req.va, req.data)
          /\ UNCHANGED <<losses, failed>>
     ELSE /\ losses' = 0 /\ failed' = FALSE
          /\ allowed' = [v \in Vars |-> allowed[v] \cup IF failed THEN {None} ELSE {}]

Fail ==
  /\ pc' = "idle"
  /\ ClearLocals
  /\ failed' = TRUE
  /\ UNCHANGED <<allowed, losses>>

GoTo(label) == pc' = label /\ UNCHANGED ghosts

(***************************************************************************)
(* EE_Init, by the status of the two pages.                                *)
(***************************************************************************)
Boot(label, page) ==
  /\ pc = "off"
  /\ GoTo(label)
  /\ job' = "EE_Init" /\ new' = page
  /\ UNCHANGED <<flash, req, at, idx>>

\* One page valid, the other erased: make sure that it really is.
InitErase ==
  \E p \in Pages : status[p] = "VALID_PAGE" /\ status[Other(p)] = "ERASED" /\ Boot("clean", p)

\* The swap was cut between the erasure of the old page and the last mark.
\* Mutant: an erased page beside a receiving one is formatted away.
InitFinishSwapFormats ==
  \E p \in Pages :
    status[p] = "RECEIVE_DATA" /\ status[Other(p)] = "ERASED" /\ Boot("format", p)

InitFinishSwap ==
  \E p \in Pages :
    status[p] = "RECEIVE_DATA" /\ status[Other(p)] = "ERASED" /\ Boot("swap_erase", p)

\* The swap was cut while variables were being copied: copy them again.
InitCopy ==
  \E p \in Pages :
    status[p] = "RECEIVE_DATA" /\ status[Other(p)] = "VALID_PAGE" /\ Boot("copy", p)

\* First use, or a pair of headers that EE_Init calls invalid.
InitFormat ==
  /\ status[0] = status[1]
  /\ Boot("format", 0)

EE_Init == InitErase \/ InitFinishSwap \/ InitCopy \/ InitFormat

FormatErase ==
  /\ pc = "format"
  /\ Erase(0)
  /\ GoTo("format_valid")
  /\ UNCHANGED locals

FormatValid ==
  /\ pc = "format_valid"
  /\ Mark(0, "VALID_PAGE")
  /\ GoTo("clean")
  /\ UNCHANGED locals

InitValid ==
  /\ pc = "init_valid"
  /\ Mark(new, "VALID_PAGE")
  /\ GoTo("clean")
  /\ UNCHANGED locals

\* Mutant: the other page is left as it is.
InitCleanOmitted == pc = "clean" /\ UNCHANGED flash /\ Done

InitClean ==
  /\ pc = "clean"
  /\ Erase(Other(new))
  /\ Done

(***************************************************************************)
(* EE_WriteVariable.                                                       *)
(***************************************************************************)
WriteUnchanged(v, d) ==
  /\ pc = "idle"
  /\ EE_ReadVariable(v) = d
  /\ allowed' = Narrowed(v, d)
  /\ UNCHANGED <<flash, pc, locals, failed, losses>>

WriteCall(v, d) ==
  /\ pc = "idle"
  /\ EE_ReadVariable(v) # d
  /\ pc' = "write"
  /\ job' = "EE_WriteVariable" /\ req' = [va |-> v, data |-> d]
  /\ allowed' = [allowed EXCEPT ![v] = @ \cup {d}]
  /\ UNCHANGED <<flash, at, new, idx, failed, losses>>

WriteData ==
  /\ pc = "write"
  /\ ProgramData(req.data)
  /\ GoTo("write_va")
  /\ UNCHANGED <<job, req, new, idx>>

WriteVa ==
  /\ pc = "write_va"
  /\ slot' = [slot EXCEPT ![WritePage][at] = [data |-> @.data, va |-> req.va]]
  /\ UNCHANGED status
  /\ Done

\* Mutant: the full page itself is taken for the new one.
WriteFullSamePage ==
  /\ pc = "write"
  /\ Readable /\ PageFull
  /\ GoTo("mark_receive")
  /\ new' = ReadPage
  /\ UNCHANGED <<flash, job, req, at, idx>>

WriteFull ==
  /\ pc = "write"
  /\ Readable /\ PageFull
  /\ GoTo("mark_receive")
  /\ new' = Other(ReadPage)
  /\ UNCHANGED <<flash, job, req, at, idx>>

(***************************************************************************)
(* EE_PageTransfer.                                                        *)
(***************************************************************************)
TransferMark ==
  /\ pc = "mark_receive"
  /\ Mark(new, "RECEIVE_DATA")
  /\ GoTo("put")
  /\ UNCHANGED locals

TransferData ==
  /\ pc = "put"
  /\ ProgramData(req.data)
  /\ GoTo("put_va")
  /\ UNCHANGED <<job, req, new, idx>>

TransferVa ==
  /\ pc = "put_va"
  /\ ProgramVa(req.va)
  /\ GoTo("copy")
  /\ UNCHANGED <<job, req, new, idx>>

(***************************************************************************)
(* The copy loop, which EE_PageTransfer and EE_Init share: the transfer    *)
(* leaves out the variable being written, EE_Init the one whose address is *)
(* in the first slot of the new page.                                      *)
(***************************************************************************)
\* Mutant: EE_Init copies the variable of the first slot as well.
NoneSkipped(v) == job # "EE_Init" /\ req.va = v

Skipped(v) == IF job = "EE_Init" THEN slot[new][1].va = v ELSE req.va = v

\* Mutant: the last entry of the table is not copied.
ToCopyButLast ==
  idx < Len(Table) /\ ~Skipped(Table[idx]) /\ Found(ReadPage, Table[idx])

ToCopy == idx <= Len(Table) /\ ~Skipped(Table[idx]) /\ Found(ReadPage, Table[idx])

\* Mutant: the loop runs one entry past the table.
CopySkipPastEnd ==
  /\ pc = "copy"
  /\ idx <= Len(Table) + 1 /\ ~ToCopy
  /\ idx' = idx + 1
  /\ UNCHANGED <<flash, pc, job, req, at, new, ghosts>>

CopySkip ==
  /\ pc = "copy"
  /\ idx <= Len(Table) /\ ~ToCopy
  /\ idx' = idx + 1
  /\ UNCHANGED <<flash, pc, job, req, at, new, ghosts>>

CopyData ==
  /\ pc = "copy" /\ ToCopy
  /\ ProgramData(Lookup(ReadPage, Table[idx]))
  /\ GoTo("copy_va")
  /\ UNCHANGED <<job, req, new, idx>>

CopyVa ==
  /\ pc = "copy_va"
  /\ ProgramVa(Table[idx])
  /\ GoTo("copy")
  /\ idx' = idx + 1
  /\ UNCHANGED <<job, req, new>>

CopyEnd ==
  /\ pc = "copy"
  /\ idx > Len(Table)
  /\ GoTo(IF job = "EE_Init" THEN "init_valid" ELSE "swap_erase")
  /\ UNCHANGED <<flash, locals>>

\* EE_PageTransfer erases the old page before it marks the new one; so does
\* EE_Init when it only has to finish that.
SwapErase ==
  /\ pc = "swap_erase"
  /\ Erase(Other(new))
  /\ GoTo("swap_valid")
  /\ UNCHANGED locals

SwapValid ==
  /\ pc = "swap_valid"
  /\ Mark(new, "VALID_PAGE")
  /\ Done

(***************************************************************************)
(* The error returns: no page to write to, a full page where another call  *)
(* of EE_PageTransfer is not made, and an operation of the flash that does *)
(* not end with FLASH_COMPLETE.  conf_general_init ignores EE_Init's.      *)
(***************************************************************************)
NoValidPage ==
  /\ pc = "write" /\ ~Readable
  /\ Fail
  /\ UNCHANGED flash

NewPageFull ==
  /\ pc = "put" \/ (pc = "copy" /\ ToCopy)
  /\ PageFull
  /\ Fail
  /\ UNCHANGED flash

NotEmpty(p) == status[p] # "ERASED" \/ \E i \in Slots : ~IsBlank(p, i)

FlashBusy ==
  \/ pc \in {"write_va", "put_va", "copy_va", "mark_receive", "swap_valid",
             "init_valid", "format_valid"}
  \/ pc \in {"write", "put"} /\ ~PageFull
  \/ pc = "copy" /\ ToCopy /\ ~PageFull
  \/ pc \in {"swap_erase", "clean"} /\ NotEmpty(Other(new))
  \/ pc = "format" /\ NotEmpty(0)

FlashError ==
  /\ FlashErrors /\ FlashBusy
  /\ Fail
  /\ UNCHANGED flash

(***************************************************************************)
(* Power fails: the flash keeps what was programmed.  A loss while no call *)
(* runs does not count.                                                    *)
(***************************************************************************)
InWindow == pc = "clean" /\ status = [p \in Pages |-> "VALID_PAGE"]

PowerLoss ==
  /\ pc # "off"
  /\ InWindow => WindowLoss
  /\ IF pc = "idle" THEN UNCHANGED losses
                    ELSE losses < MaxLosses /\ losses' = losses + 1
  /\ pc' = "off"
  /\ ClearLocals
  /\ UNCHANGED <<flash, allowed, failed>>

Write == \E v \in Vars, d \in Data : WriteUnchanged(v, d) \/ WriteCall(v, d)

Init ==
  /\ status = [p \in Pages |-> "ERASED"]
  /\ slot = [p \in Pages |-> [i \in Slots |-> BlankSlot]]
  /\ pc = "off"
  /\ job = "none" /\ req = NoReq /\ at = 0 /\ new = 0 /\ idx = 1
  /\ allowed = [v \in Vars |-> {None}]
  /\ failed = FALSE
  /\ losses = 0

Next ==
  \/ EE_Init \/ FormatErase \/ FormatValid \/ InitValid \/ InitClean
  \/ Write \/ WriteData \/ WriteVa \/ WriteFull
  \/ TransferMark \/ TransferData \/ TransferVa
  \/ CopySkip \/ CopyData \/ CopyVa \/ CopyEnd \/ SwapErase \/ SwapValid
  \/ NoValidPage \/ NewPageFull \/ FlashError \/ PowerLoss

Spec == Init /\ [][Next]_vars

(***************************************************************************)
(* Properties.                                                             *)
(***************************************************************************)
Labels == {"off", "idle", "format", "format_valid", "init_valid", "clean",
           "write", "write_va", "mark_receive", "put", "put_va",
           "copy", "copy_va", "swap_erase", "swap_valid"}

Values == Data \cup {None}

\* Every variable has the values its C counterpart can have.
TypeOK ==
  /\ status \in [Pages -> Status]
  /\ slot \in [Pages -> [Slots -> [data : Data \cup {Blank}, va : Vars \cup {Blank}]]]
  /\ pc \in Labels
  /\ job \in {"none", "EE_Init", "EE_WriteVariable"}
  /\ req \in [va : Vars \cup {Blank}, data : Data \cup {Blank}]
  /\ at \in Slots \cup {0} /\ new \in Pages /\ idx \in 1..Len(Table) + 1
  /\ allowed \in [Vars -> SUBSET Values]
  /\ failed \in BOOLEAN /\ losses \in 0..MaxLosses

\* The value of v once a boot that is not interrupted has recovered the pages.
Swapped(p, v) ==
  LET keepsOld == /\ status[Other(p)] = "VALID_PAGE" /\ Found(Other(p), v)
                  /\ v \in Listed /\ slot[p][1].va # v
  IN  Lookup(IF keepsOld THEN Other(p) ELSE p, v)

Recovered(v) ==
  IF pc = "clean" THEN Lookup(new, v)
  ELSE IF status[0] = "RECEIVE_DATA" THEN Swapped(0, v)
  ELSE IF status[1] = "RECEIVE_DATA" THEN Swapped(1, v)
  ELSE EE_ReadVariable(v)

\* Wherever power fails, what the next boot recovers of a listed variable is the
\* last value that EE_WriteVariable reported as stored or one whose write was cut. A
\* call that fails ends this until a boot succeeds.
Durable == ~failed => \A v \in Listed : Recovered(v) \in allowed[v]

\* EE_ReadVariable "returns the last stored variable data": between two calls a
\* listed variable reads as its last stored value, whatever swaps, power losses
\* and recoveries came before.
ReadsLastStored ==
  pc = "idle" => \A v \in Listed : EE_ReadVariable(v) \in allowed[v]

\* The same of every variable in use, listed in VirtAddVarTab or not.
SwapKeepsEveryVariable ==
  pc = "idle" => \A v \in Vars : EE_ReadVariable(v) \in allowed[v]

\* No page brings an older value back. Whenever power fails, between EE_Init's last two
\* steps too, whichever flash operations failed before, and also of a variable that
\* VirtAddVarTab does not list: what the next boot recovers, and what is read meanwhile,
\* is the last value reported as stored while no call had failed since the boot, one
\* written after it, or nothing.
NoStaleValue ==
  \A v \in Vars : {Recovered(v), EE_ReadVariable(v)} \subseteq allowed[v] \cup {None}

\* A boot that succeeds, whatever failed before it, and every call that succeeds until one
\* fails again leave one valid page and one that is erased throughout, ready for the
\* next swap.
PagesSettled ==
  pc = "idle" /\ ~failed =>
    \E p \in Pages : /\ status[p] = "VALID_PAGE"
                     /\ status[Other(p)] = "ERASED"
                     /\ \A i \in Slots : IsBlank(Other(p), i)

\* The used slots of a page come first: the scan for a free slot stops behind every
\* value the scan for the last update may find.
UsedFirst ==
  \A p \in Pages : \A i, j \in Slots : i < j /\ IsBlank(p, i) => IsBlank(p, j)

\* Each interrupted recovery leaves copies behind in the new page. A page with room
\* for one copy of the table per power loss, and one more, is never found full there,
\* so that EE_Init and EE_PageTransfer do not fail.
RecoveryFits ==
  ~FlashErrors /\ N >= 1 + Len(Table) * (MaxLosses + 1) => ~failed

\* The EEPROM implements the map, failing calls included.
InCall == IF job = "EE_WriteVariable" THEN {<<req.va, req.data>>} ELSE {}
Map == INSTANCE NvMap
         WITH Kept <- Listed, store <- [v \in Vars |-> Recovered(v)],
              call <- InCall, power <- pc # "off", may <- allowed
ImplementsNvMap == Map!Spec
======================================================================
