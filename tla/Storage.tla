------------------------------ MODULE Storage ------------------------------
(***************************************************************************)
(* The A/B flash record store of Storage/Src/storage.c.                    *)
(*                                                                         *)
(* Every record type owns two consecutive flash pages, slot A and slot B.  *)
(* A page is abstracted to what Storage_ReadSlot can tell about it: its    *)
(* header reads as erased (Blank), it holds an intact record, or it holds  *)
(* anything else (Junk: a torn program, a torn erase, a failed CRC).       *)
(*                                                                         *)
(* The calls run to completion on one thread, but each of their flash      *)
(* operations is a step of its own: the HAL may refuse it, leaving the     *)
(* page in between, and power may fail during it.  A call is planned from  *)
(* one snapshot of its slots, then erases pages job.at .. job.last in      *)
(* ascending order, then programs and verifies page job.target.            *)
(***************************************************************************)
EXTENDS Integers

CONSTANTS
  RecordTypeCount,  \* STORAGE_RECORD_TYPES, 3 in the firmware
  SeqHalf,          \* half the range of a sequence number, 2^31 in the firmware
  Payloads,         \* the payloads callers write
  Blank, Junk,      \* page contents that are not a record
  NoData            \* the absence of a payload

RecordTypes == 1 .. RecordTypeCount
Slots == {0, 1}
Pages == 0 .. 2 * RecordTypeCount - 1
SeqMod == 2 * SeqHalf
SeqNums == 0 .. SeqMod - 1
Record == [type : RecordTypes, seq : SeqNums, data : Payloads]

(***************************************************************************)
(* Sequence numbers must span enough values for a successor that skips 0   *)
(* (distance 2) to compare as newer.                                       *)
(***************************************************************************)
ASSUME StorageAssumption ==
  /\ RecordTypeCount \in Nat \ {0}
  /\ SeqHalf \in Nat /\ SeqHalf > 2
  /\ Blank \notin Record /\ Junk \notin Record /\ Blank # Junk
  /\ NoData \notin Payloads

NoPage == -1      \* the call programs nothing
NoSlot == -1      \* no slot is safe to overwrite
AllTypes == 0     \* the call concerns every record type

VARIABLES
  flash,  \* contents of every owned page
  pc,     \* where the running call stands; "off" without power
  job,    \* the running call and its plan
  ret     \* result of the last completed call; its data are those read

vars == <<flash, pc, job, ret>>

NoJob == [call |-> "none", type |-> AllTypes, data |-> NoData, seq |-> 0,
          at |-> 0, last |-> 0, target |-> NoPage]
NoRet == [call |-> "none", type |-> AllTypes, status |-> "none", data |-> NoData]

Calls == {"write", "mirror", "recover", "format", "formatAll"}
Statuses == {"OK", "NOT_FOUND", "CORRUPT", "IO_ERROR", "UNSAFE_STATE",
             "VERIFY_FAILED", "DONE", "NOT_NEEDED", "REFUSED", "FAILED", "INVALID_ARGUMENT"}

TypeOK ==
  /\ flash \in [Pages -> Record \cup {Blank, Junk}]
  /\ pc \in {"off", "uninit", "idle", "erase", "program", "verify"}
  /\ job \in [call : Calls \cup {"none"}, type : RecordTypes \cup {AllTypes},
              data : Payloads \cup {NoData}, seq : SeqNums,
              at : Pages, last : Pages, target : Pages \cup {NoPage}]
  /\ ret \in [call : Calls \cup {"none", "read"}, type : RecordTypes \cup {AllTypes},
              status : Statuses \cup {"none"}, data : Payloads \cup {NoData}]

-----------------------------------------------------------------------------
(* Slots, sequence numbers and the state of a record's two copies.         *)

\* Mutant: the slot stride is forgotten, neighbouring types share a page.
OverlappingPageOf(rt, s) == rt - 1 + s
\* The pages of a record type: two consecutive ones, slot A first.
PageOf(rt, s) == (rt - 1) * 2 + s

\* A successor sequence number: a 32-bit increment that skips 0.
NextSeq(n) == IF n + 1 = SeqMod THEN 1 ELSE n + 1

\* (int32_t)(m - n) >= 0 on unsigned numbers: m is the newer one, or equal.
SeqDiff(m, n) == IF m >= n THEN m - n ELSE m - n + SeqMod
NotOlder(m, n) == SeqDiff(m, n) < SeqHalf

At(rt, s) == flash[PageOf(rt, s)]

\* Storage_ReadSlot when the flash reads succeed.
IsValid(rt, s) == At(rt, s) \notin {Blank, Junk} /\ At(rt, s).type = rt
SlotState(rt, s) ==
  IF At(rt, s) = Blank THEN "ERASED" ELSE IF IsValid(rt, s) THEN "VALID" ELSE "CORRUPT"

\* One read of both slots; the reads of the slots in io fail.
Snapshot(rt, io) ==
  [s \in Slots |-> IF s \in io THEN "IO_ERROR" ELSE SlotState(rt, s)]
ValidIn(snap) == {s \in Slots : snap[s] = "VALID"}
IOErrorIn(snap) == \E s \in Slots : snap[s] = "IO_ERROR"
BothErased(snap) == \A s \in Slots : snap[s] = "ERASED"

\* Both copies are valid: the slot the reader prefers.
SelectNewest(rt) == IF NotOlder(At(rt, 0).seq, At(rt, 1).seq) THEN 0 ELSE 1

\* Of the valid slots of a snapshot (there is one), the slot that counts.
NewestIn(rt, snap) ==
  IF ValidIn(snap) = Slots THEN SelectNewest(rt) ELSE IF 0 \in ValidIn(snap) THEN 0 ELSE 1

ReadStatus(rt, io) ==
  LET snap == Snapshot(rt, io) IN
  IF ValidIn(snap) # {} THEN "OK"
  ELSE IF IOErrorIn(snap) THEN "IO_ERROR"
  ELSE IF BothErased(snap) THEN "NOT_FOUND" ELSE "CORRUPT"

\* Mutant: an unreadable slot without a valid peer is taken for a corrupt one.
HealthHidingIO(rt, io) ==
  LET snap == Snapshot(rt, io) IN
  IF ValidIn(snap) = Slots THEN "HEALTHY"
  ELSE IF ValidIn(snap) # {} THEN IF IOErrorIn(snap) THEN "DEGRADED_IO" ELSE "DEGRADED"
  ELSE IF BothErased(snap) THEN "HEALTHY" ELSE "CORRUPT"
Health(rt, io) ==
  LET snap == Snapshot(rt, io) IN
  IF ValidIn(snap) = Slots THEN "HEALTHY"
  ELSE IF IOErrorIn(snap) THEN IF ValidIn(snap) # {} THEN "DEGRADED_IO" ELSE "IO_ERROR"
  ELSE IF ValidIn(snap) # {} THEN "DEGRADED"
  ELSE IF BothErased(snap) THEN "HEALTHY" ELSE "CORRUPT"

\* Mutant: with two valid copies the newer one is overwritten.
SelectNewestAsWriteSlot(rt, snap) ==
  IF IOErrorIn(snap) THEN NoSlot
  ELSE IF BothErased(snap) THEN 0
  ELSE IF ValidIn(snap) = {} THEN NoSlot
  ELSE IF ValidIn(snap) = Slots THEN SelectNewest(rt) ELSE 1 - NewestIn(rt, snap)
\* The slot a write may overwrite, if there is a safe one.
SelectWriteSlot(rt, snap) ==
  IF IOErrorIn(snap) THEN NoSlot
  ELSE IF BothErased(snap) THEN 0
  ELSE IF ValidIn(snap) = {} THEN NoSlot ELSE 1 - NewestIn(rt, snap)

\* The sequence number the write follows on.
BaseSeq(rt, snap) == IF BothErased(snap) THEN 0 ELSE At(rt, NewestIn(rt, snap)).seq

-----------------------------------------------------------------------------
(* Starting and finishing a call.                                          *)

Call(call, rt, data) == [call |-> call, type |-> rt, data |-> data]

Return(j, status) ==
  /\ pc' = "idle"
  /\ job' = NoJob
  /\ ret' = [call |-> j.call, type |-> j.type, status |-> status, data |-> NoData]

\* The call ends after reading its slots.
Refuse(j, status) == Return(j, status) /\ UNCHANGED flash

\* The call goes on to erase the pages lo .. hi and to program page target.
Proceed(j, lo, hi, target, seq) ==
  /\ pc' = "erase"
  /\ job' = [call |-> j.call, type |-> j.type, data |-> j.data, seq |-> seq,
             at |-> lo, last |-> hi, target |-> target]
  /\ ret' = NoRet
  /\ UNCHANGED flash

\* Storage_Read: no step of it changes the flash.
Read(rt) ==
  /\ pc = "idle"
  /\ \E io \in SUBSET Slots :
       LET snap == Snapshot(rt, io) IN
       ret' = [call |-> "read", type |-> rt, status |-> ReadStatus(rt, io),
               data |-> IF ReadStatus(rt, io) = "OK"
                        THEN At(rt, NewestIn(rt, snap)).data ELSE NoData]
  /\ UNCHANGED <<flash, pc, job>>

\* Storage_WriteEx up to its first flash operation.
WriteEx(rt, data) ==
  /\ pc = "idle"
  /\ \E io \in SUBSET Slots :
       LET snap == Snapshot(rt, io)
           slot == SelectWriteSlot(rt, snap)
           page == PageOf(rt, slot)
           call == Call("write", rt, data)
       IN IF slot = NoSlot THEN Refuse(call, "UNSAFE_STATE")
          ELSE Proceed(call, page, page, page, NextSeq(BaseSeq(rt, snap)))

\* Storage_EnsureRedundancy: the valid copy is mirrored into its peer.
EnsureRedundancy(rt) ==
  /\ pc = "idle"
  /\ \E io \in SUBSET Slots :
       LET snap == Snapshot(rt, io)
           source == At(rt, NewestIn(rt, snap))
           peer == PageOf(rt, 1 - NewestIn(rt, snap))
           call == Call("mirror", rt, NoData)
       IN IF ValidIn(snap) = Slots THEN Refuse(call, "NOT_NEEDED")
          ELSE IF BothErased(snap) THEN Refuse(call, "NOT_FOUND")
          ELSE IF IOErrorIn(snap) \/ ValidIn(snap) = {} THEN Refuse(call, "REFUSED")
          ELSE Proceed(Call("mirror", rt, source.data), peer, peer, peer, NextSeq(source.seq))

\* Mutant: only slot A is erased.
RecoverIntoSlotA(rt, data) ==
  /\ pc = "idle"
  /\ \E io \in SUBSET Slots :
       LET snap == Snapshot(rt, io)
           call == Call("recover", rt, data)
       IN IF IOErrorIn(snap) THEN Refuse(call, "IO_ERROR")
          ELSE IF ValidIn(snap) # {} \/ BothErased(snap) THEN Refuse(call, "NOT_NEEDED")
          ELSE Proceed(call, PageOf(rt, 0), PageOf(rt, 0), PageOf(rt, 0), 1)
\* Storage_RecoverCorruptRecord: both pages are erased, a first record written, if
\* neither holds a valid copy.  The header would erase a valid copy beside a corrupt
\* one too (storage.h:153-156, see RecoveredUnlessHealthy).
RecoverCorruptRecord(rt, data) ==
  /\ pc = "idle"
  /\ \E io \in SUBSET Slots :
       LET snap == Snapshot(rt, io)
           call == Call("recover", rt, data)
       IN IF IOErrorIn(snap) THEN Refuse(call, "IO_ERROR")
          ELSE IF ValidIn(snap) # {} \/ BothErased(snap) THEN Refuse(call, "NOT_NEEDED")
          ELSE Proceed(call, PageOf(rt, 0), PageOf(rt, 1), PageOf(rt, 0), 1)

\* Storage_FormatRecord and Storage_Format erase without looking.
FormatRecord(rt) ==
  /\ pc = "idle"
  /\ Proceed(Call("format", rt, NoData), PageOf(rt, 0), PageOf(rt, 1), NoPage, 0)

Format ==
  /\ pc = "idle"
  /\ Proceed(Call("formatAll", AllTypes, NoData), 0, 2 * RecordTypeCount - 1, NoPage, 0)

-----------------------------------------------------------------------------
(* The flash operations of a running call.                                 *)

\* Platform_FlashErase succeeds; the call erases on, programs, or is done.
ErasePage ==
  /\ pc = "erase"
  /\ flash' = [flash EXCEPT ![job.at] = Blank]
  /\ IF job.at < job.last
     THEN job' = [job EXCEPT !.at = @ + 1] /\ UNCHANGED <<pc, ret>>
     ELSE IF job.target = NoPage THEN Return(job, "OK")
     ELSE pc' = "program" /\ UNCHANGED <<job, ret>>

\* What each caller makes of a failed flash operation.
Failure(status) ==
  IF job.call = "write" THEN status ELSE IF job.call = "mirror" THEN "REFUSED" ELSE "FAILED"
Success == IF job.call = "mirror" THEN "DONE" ELSE "OK"

\* Platform_FlashErase fails and leaves the page as it was, erased or torn.
EraseFails ==
  /\ pc = "erase"
  /\ \E c \in {flash[job.at], Blank, Junk} : flash' = [flash EXCEPT ![job.at] = c]
  /\ Return(job, Failure("IO_ERROR"))

NewRecord == [type |-> job.type, seq |-> job.seq, data |-> job.data]

\* Platform_FlashWrite reports success; the bytes may still have gone wrong.
ProgramRecord ==
  /\ pc = "program"
  /\ \E c \in {NewRecord, Junk} : flash' = [flash EXCEPT ![job.target] = c]
  /\ pc' = "verify"
  /\ UNCHANGED <<job, ret>>

\* Platform_FlashWrite fails after some of the record's words.
ProgramFails ==
  /\ pc = "program"
  /\ \E c \in {Blank, Junk, NewRecord} : flash' = [flash EXCEPT ![job.target] = c]
  /\ Return(job, Failure("IO_ERROR"))

\* Mutant: the bytes read back are not compared.
VerifyNothing ==
  /\ pc = "verify"
  /\ Return(job, Success)
  /\ UNCHANGED flash
\* The record is read back and compared; the read itself may fail.
VerifyRecord ==
  /\ pc = "verify"
  /\ \/ Return(job, Failure("IO_ERROR"))
     \/ flash[job.target] # NewRecord /\ Return(job, Failure("VERIFY_FAILED"))
     \/ flash[job.target] = NewRecord /\ Return(job, Success)
  /\ UNCHANGED flash

-----------------------------------------------------------------------------
(* Power.                                                                  *)

\* What a page may hold when power fails during an operation on it.
TornPages ==
  IF pc = "erase" THEN {[flash EXCEPT ![job.at] = c] : c \in {flash[job.at], Blank, Junk}}
  ELSE IF pc = "program" THEN {[flash EXCEPT ![job.target] = c] : c \in {Blank, Junk, NewRecord}}
  ELSE {flash}

PowerLoss ==
  /\ pc # "off"
  /\ flash' \in TornPages
  /\ pc' = "off"
  /\ job' = NoJob
  /\ ret' = NoRet

\* Storage_Init: it fails closed when the flash mapping is not the expected one.
StorageInit ==
  /\ pc = "off"
  /\ pc' \in {"idle", "uninit"}
  /\ UNCHANGED <<flash, job, ret>>

\* Every call of an uninitialized store fails without touching the flash.
CallUninitialized(rt) ==
  /\ pc = "uninit"
  /\ \/ \E call \in {"read", "write"} :
          ret' = [call |-> call, type |-> rt, status |-> "IO_ERROR", data |-> NoData]
     \/ ret' = [call |-> "mirror", type |-> rt, status |-> "INVALID_ARGUMENT", data |-> NoData]
     \/ \E call \in {"recover", "format"} :
          ret' = [call |-> call, type |-> rt, status |-> "FAILED", data |-> NoData]
  /\ UNCHANGED <<flash, pc, job>>

\* A device leaves the factory with an erased store and no power.
Init ==
  /\ flash = [p \in Pages |-> Blank]
  /\ pc = "off"
  /\ job = NoJob
  /\ ret = NoRet

Next ==
  \/ \E rt \in RecordTypes :
       \/ Read(rt)
       \/ \E data \in Payloads : WriteEx(rt, data) \/ RecoverCorruptRecord(rt, data)
       \/ EnsureRedundancy(rt)
       \/ FormatRecord(rt)
       \/ CallUninitialized(rt)
  \/ Format
  \/ ErasePage \/ EraseFails
  \/ ProgramRecord \/ ProgramFails
  \/ VerifyRecord
  \/ PowerLoss \/ StorageInit

Spec == Init /\ [][Next]_vars

-----------------------------------------------------------------------------
(* Properties.                                                             *)

Valid(rt) == {s \in Slots : IsValid(rt, s)}
Newest(rt) ==
  IF Valid(rt) = Slots THEN SelectNewest(rt) ELSE IF 0 \in Valid(rt) THEN 0 ELSE 1

\* What a record type's flash amounts to: the payload a reader gets, and the
\* payload of the other copy.
Stored(rt) ==
  IF Valid(rt) = {} THEN NoData ELSE At(rt, Newest(rt)).data
Spare(rt) ==
  IF Valid(rt) = Slots THEN At(rt, 1 - SelectNewest(rt)).data ELSE NoData

\* Both pages read as erased.
Untouched(rt) == At(rt, 0) = Blank /\ At(rt, 1) = Blank

\* Two valid copies are one increment apart, across the wrap-around too, so the
\* signed comparison always tells which is newer (storage.c:216, 352, 443).
SequencesAdjacent ==
  \A rt \in RecordTypes :
    Valid(rt) = Slots => \/ At(rt, 0).seq = NextSeq(At(rt, 1).seq)
                        \/ At(rt, 1).seq = NextSeq(At(rt, 0).seq)

\* Whatever step fails or loses power, what a reader gets changes only to the
\* payload being written, unless the record is being formatted: the last valid
\* copy is never given up on the way (storage.c:446, 498, 535).  Of a recovery this
\* is what the code keeps to, which leaves a valid copy beside a corrupt one alone;
\* the header says otherwise (RecoveredUnlessHealthy).
OnlyNewValueReplacesOld ==
  [][\A rt \in RecordTypes :
       Stored(rt)' # Stored(rt) =>
         \/ job.call \in {"format", "formatAll"}
         \/ job.type = rt /\ Stored(rt)' = job.data]_vars

\* A call changes no page of another record type (storage.c:542, 550, 581).
OtherTypesUntouched ==
  [][\A rt \in RecordTypes, s \in Slots :
       At(rt, s)' # At(rt, s) => job.type \in {rt, AllTypes}]_vars

\* Over the same slot reads, the health report and the read result tell the
\* same story: data is readable exactly when health says usable, and an IO
\* error never shows up as corruption or health (storage.c:229-251, 289-307).
HealthAgreesWithRead ==
  \A rt \in RecordTypes, io \in SUBSET Slots :
    /\ ReadStatus(rt, io) = "IO_ERROR" <=> Health(rt, io) = "IO_ERROR"
    /\ ReadStatus(rt, io) = "CORRUPT" <=> Health(rt, io) = "CORRUPT"
    /\ ReadStatus(rt, io) = "NOT_FOUND" => Health(rt, io) = "HEALTHY"
    /\ Health(rt, io) \in {"DEGRADED", "DEGRADED_IO"} => ReadStatus(rt, io) = "OK"

\* storage.h:153-156: "region fully healthy (both valid, or both erased) ->
\* STORAGE_RECOVERY_NOT_NEEDED; otherwise (at least one CORRUPT slot, no IO
\* uncertainty) -> erase + reinit".  Where a slot is corrupt, recovery is needed.  The
\* code does not keep to it: it leaves a record with one valid copy as it is
\* (storage.c:535-536), so that no valid copy is erased.
RecoveredUnlessHealthy ==
  ret.call = "recover" /\ ret.status = "NOT_NEEDED" =>
    \A s \in Slots : SlotState(ret.type, s) # "CORRUPT"

-----------------------------------------------------------------------------
(* The inductive invariant: a running call stays on a plan that was safe    *)
(* when it was made, and the flash is as far along as the plan says.        *)

Target(s) == PageOf(job.type, s)

\* A write or a mirror: page s is overwritten, and the other slot holds the
\* newest valid copy, or the record had none and its pages were erased.
OverwritesOneSlot ==
  \E s \in Slots :
    /\ job.type \in RecordTypes /\ job.data \in Payloads
    /\ job.at = Target(s) /\ job.last = Target(s) /\ job.target = Target(s)
    /\ \/ /\ IsValid(job.type, 1 - s)
          /\ job.seq = NextSeq(At(job.type, 1 - s).seq)
          /\ job.call = "mirror" => job.data = At(job.type, 1 - s).data
          /\ pc = "erase" /\ IsValid(job.type, s) =>
               At(job.type, 1 - s).seq = NextSeq(At(job.type, s).seq)
       \/ /\ job.call = "write" /\ job.seq = 1
          /\ At(job.type, 1 - s) = Blank
          /\ pc = "erase" => At(job.type, s) = Blank

\* A recovery: neither slot holds a valid copy until slot A is written.
RewritesBothSlots ==
  /\ job.type \in RecordTypes /\ job.data \in Payloads
  /\ job.at \in {Target(0), Target(1)} /\ job.last = Target(1)
  /\ job.target = Target(0) /\ job.seq = 1
  /\ ~IsValid(job.type, 1)
  /\ pc = "erase" => ~IsValid(job.type, 0)
  /\ pc # "erase" \/ job.at = Target(1) => At(job.type, 0) = Blank \/ pc = "verify"
  /\ pc # "erase" => At(job.type, 1) = Blank

\* What the running call may rely on (storage.c:384-424, 446-449, 535-561).
JobSafe ==
  /\ pc \in {"off", "uninit", "idle"} <=> job = NoJob
  /\ job.call = "none" <=> job = NoJob
  /\ job.call \in {"write", "mirror"} => OverwritesOneSlot
  /\ job.call = "recover" => RewritesBothSlots
  /\ job.call \in {"format", "formatAll"} => pc = "erase" /\ job.target = NoPage /\ job.at <= job.last
  /\ job.call = "format" =>
       job.type \in RecordTypes /\ job.at \in {Target(0), Target(1)} /\ job.last = Target(1)
  /\ job.call = "formatAll" => job.type = AllTypes
  /\ pc = "program" => flash[job.target] = Blank
  /\ pc = "verify" => flash[job.target] \in {NewRecord, Junk}

\* Type correctness, adjacency and the plan, together inductive.
IInv == TypeOK /\ SequencesAdjacent /\ JobSafe

-----------------------------------------------------------------------------
Running == [call |-> job.call, type |-> job.type, data |-> job.data]

\* The store implements the atomic record: a write takes effect at one moment
\* or not at all, success reported is success, across power losses.  A recovery is
\* promised as the code has it: only of a record without a valid copy.
Promise == INSTANCE AtomicRecord WITH
  value <- [rt \in RecordTypes |-> Stored(rt)],
  backup <- [rt \in RecordTypes |-> Spare(rt)],
  blank <- [rt \in RecordTypes |-> Untouched(rt)],
  running <- Running
ImplementsAtomicRecord == Promise!Spec

=============================================================================
