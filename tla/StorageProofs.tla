---------------------------- MODULE StorageProofs ----------------------------
(***************************************************************************)
(* Proofs about the flash record store, for every number of record types,  *)
(* every payload set and every sequence range: its inductive invariant,    *)
(* what a step may never do to a record, and, on top of both, that the     *)
(* store implements AtomicRecord, by steps of the flash and by whole calls.*)
(***************************************************************************)
EXTENDS Storage, TLAPS

(***************************************************************************)
(* Sequence numbers.                                                       *)
(***************************************************************************)

\* A successor is a sequence number, differs from its base and compares as
\* newer, and the base does not compare as newer: wrap-around included.
LEMMA Successor ==
  ASSUME NEW n \in SeqNums
  PROVE  /\ NextSeq(n) \in SeqNums
         /\ NotOlder(NextSeq(n), n)
         /\ ~NotOlder(n, NextSeq(n))
  BY StorageAssumption DEF SeqNums, SeqMod, NextSeq, NotOlder, SeqDiff

\* The first sequence number a store ever uses is 1.
LEMMA FirstSeq == 1 \in SeqNums /\ 0 \in SeqNums /\ NextSeq(0) = 1
  BY StorageAssumption DEF SeqNums, SeqMod, NextSeq

(***************************************************************************)
(* Pages.                                                                  *)
(***************************************************************************)

\* No two slots share a page.
LEMMA PagesDisjoint ==
  ASSUME NEW r1 \in RecordTypes, NEW r2 \in RecordTypes, NEW s1 \in Slots, NEW s2 \in Slots
  PROVE  /\ PageOf(r1, s1) \in Pages
         /\ PageOf(r1, s1) = PageOf(r2, s2) => r1 = r2 /\ s1 = s2
  BY StorageAssumption DEF RecordTypes, Slots, PageOf, Pages

\* What writing one page does to the slots.
LEMMA OnePageWritten ==
  ASSUME TypeOK, NEW r \in RecordTypes, NEW s \in Slots,
         NEW c \in Record \cup {Blank, Junk},
         flash' = [flash EXCEPT ![PageOf(r, s)] = c]
  PROVE  /\ flash' \in [Pages -> Record \cup {Blank, Junk}]
         /\ At(r, s)' = c
         /\ \A rt \in RecordTypes, t \in Slots :
              rt # r \/ t # s => At(rt, t)' = At(rt, t)
  BY PagesDisjoint DEF TypeOK, At

\* Every page is a slot.
LEMMA PageIsSlot ==
  ASSUME NEW p \in Pages
  PROVE  \E r \in RecordTypes, s \in Slots : p = PageOf(r, s)
<1>1. CASE p % 2 = 0
  <2>1. p \div 2 + 1 \in RecordTypes /\ p = PageOf(p \div 2 + 1, 0)
    BY <1>1, StorageAssumption DEF Pages, RecordTypes, PageOf
  <2>2. QED BY <2>1 DEF Slots
<1>2. CASE p % 2 = 1
  <2>1. p \div 2 + 1 \in RecordTypes /\ p = PageOf(p \div 2 + 1, 1)
    BY <1>2, StorageAssumption DEF Pages, RecordTypes, PageOf
  <2>2. QED BY <2>1 DEF Slots
<1>3. QED BY <1>1, <1>2 DEF Pages

\* A slot's contents are a page's contents; a valid one is a record.
LEMMA SlotContents ==
  ASSUME TypeOK, NEW rt \in RecordTypes, NEW s \in Slots
  PROVE  /\ At(rt, s) \in Record \cup {Blank, Junk}
         /\ IsValid(rt, s) => /\ At(rt, s) \in Record
                              /\ At(rt, s).seq \in SeqNums
                              /\ At(rt, s).data \in Payloads
  BY PagesDisjoint DEF TypeOK, At, IsValid, Record

(***************************************************************************)
(* What writing one page does to the sequence numbers.                     *)
(***************************************************************************)

\* A page that is erased, torn or left alone cannot break adjacency.
LEMMA AdjacentAfterErase ==
  ASSUME TypeOK, SequencesAdjacent, NEW r \in RecordTypes, NEW s \in Slots,
         NEW c \in {Blank, Junk, At(r, s)},
         flash' = [flash EXCEPT ![PageOf(r, s)] = c]
  PROVE  SequencesAdjacent'
<1>1. c \in Record \cup {Blank, Junk}
  BY SlotContents
<1>2. \A rt \in RecordTypes, t \in Slots : At(rt, t)' = At(rt, t) \/ At(rt, t)' \in {Blank, Junk}
  <2>1. At(r, s)' = c /\ \A rt \in RecordTypes, t \in Slots :
                            rt # r \/ t # s => At(rt, t)' = At(rt, t)
    BY <1>1, OnePageWritten
  <2>2. At(r, s)' = At(r, s) \/ At(r, s)' \in {Blank, Junk}
    BY <2>1
  <2>3. QED BY <2>1, <2>2
<1>3. \A rt \in RecordTypes, t \in Slots : IsValid(rt, t)' => At(rt, t)' = At(rt, t) /\ IsValid(rt, t)
  BY <1>2 DEF IsValid
<1>4. SUFFICES ASSUME NEW rt \in RecordTypes, Valid(rt)' = Slots
      PROVE  (\/ At(rt, 0).seq = NextSeq(At(rt, 1).seq)
              \/ At(rt, 1).seq = NextSeq(At(rt, 0).seq))'
  BY DEF SequencesAdjacent
<1>5. IsValid(rt, 0)' /\ IsValid(rt, 1)'
  BY <1>4 DEF Valid, Slots
<1>6. Valid(rt) = Slots /\ At(rt, 0)' = At(rt, 0) /\ At(rt, 1)' = At(rt, 1)
  BY <1>3, <1>5 DEF Valid, Slots
<1>7. QED BY <1>6 DEF SequencesAdjacent

\* Nor can a record that follows on its valid peer.
LEMMA AdjacentAfterProgram ==
  ASSUME TypeOK, SequencesAdjacent, NEW r \in RecordTypes, NEW s \in Slots, NEW c \in Record,
         IsValid(r, 1 - s) => c.seq = NextSeq(At(r, 1 - s).seq),
         flash' = [flash EXCEPT ![PageOf(r, s)] = c]
  PROVE  SequencesAdjacent'
<1>1. At(r, s)' = c /\ \A rt \in RecordTypes, t \in Slots :
                          rt # r \/ t # s => At(rt, t)' = At(rt, t)
  BY OnePageWritten
<1>2. SUFFICES ASSUME NEW rt \in RecordTypes, Valid(rt)' = Slots
      PROVE  (\/ At(rt, 0).seq = NextSeq(At(rt, 1).seq)
              \/ At(rt, 1).seq = NextSeq(At(rt, 0).seq))'
  BY DEF SequencesAdjacent
<1>3. IsValid(rt, 0)' /\ IsValid(rt, 1)'
  BY <1>2 DEF Valid, Slots
<1>4. CASE rt # r
  <2>1. At(rt, 0)' = At(rt, 0) /\ At(rt, 1)' = At(rt, 1)
    BY <1>1, <1>4 DEF Slots
  <2>2. Valid(rt) = Slots
    BY <2>1, <1>3 DEF Valid, Slots, IsValid
  <2>3. QED BY <2>1, <2>2 DEF SequencesAdjacent
<1>5. CASE rt = r
  <2>1. 1 - s \in Slots /\ 1 - s # s
    BY DEF Slots
  <2>2. At(r, 1 - s)' = At(r, 1 - s)
    BY <1>1, <2>1
  <2>3. IsValid(r, 1 - s)
    BY <2>1, <2>2, <1>3, <1>5 DEF IsValid, Slots
  <2>4. At(r, s)'.seq = NextSeq(At(r, 1 - s)'.seq)
    BY <1>1, <2>2, <2>3
  <2>5. QED BY <2>4, <1>5 DEF Slots
<1>6. QED BY <1>4, <1>5

\* Unchanged flash: nothing derived from it changes.
LEMMA SameFlash ==
  ASSUME UNCHANGED flash
  PROVE  /\ \A rt, s : At(rt, s)' = At(rt, s) /\ IsValid(rt, s)' = IsValid(rt, s)
         /\ SequencesAdjacent => SequencesAdjacent'
         /\ \A rt : Stored(rt)' = Stored(rt)
<1>1. \A rt, s : At(rt, s)' = At(rt, s)
  BY DEF At
<1>2. \A rt, s : IsValid(rt, s)' = IsValid(rt, s)
  BY <1>1 DEF IsValid
<1>3. \A rt : Valid(rt)' = Valid(rt)
  BY <1>2 DEF Valid
<1>4. QED BY <1>1, <1>2, <1>3 DEF SequencesAdjacent, Stored, Newest, SelectNewest

(***************************************************************************)
(* Which slot counts.                                                      *)
(***************************************************************************)

\* Of two valid copies the reader prefers the one that follows on the other.
LEMMA NewestFollows ==
  ASSUME TypeOK, SequencesAdjacent, NEW rt \in RecordTypes, Valid(rt) = Slots
  PROVE  /\ SelectNewest(rt) \in Slots
         /\ At(rt, SelectNewest(rt)).seq = NextSeq(At(rt, 1 - SelectNewest(rt)).seq)
<1>1. At(rt, 0).seq \in SeqNums /\ At(rt, 1).seq \in SeqNums
  BY SlotContents DEF Valid, Slots
<1>2. CASE At(rt, 0).seq = NextSeq(At(rt, 1).seq)
  BY <1>1, <1>2, Successor DEF SelectNewest, Slots
<1>3. CASE At(rt, 1).seq = NextSeq(At(rt, 0).seq)
  BY <1>1, <1>3, Successor DEF SelectNewest, Slots
<1>4. QED BY <1>2, <1>3 DEF SequencesAdjacent

\* A slot that reads as valid is valid; a snapshot without IO errors is exact.
LEMMA SnapshotExact ==
  ASSUME NEW rt, NEW io \in SUBSET Slots
  PROVE  /\ ValidIn(Snapshot(rt, io)) \subseteq Valid(rt)
         /\ ~IOErrorIn(Snapshot(rt, io)) => ValidIn(Snapshot(rt, io)) = Valid(rt)
         /\ BothErased(Snapshot(rt, io)) => At(rt, 0) = Blank /\ At(rt, 1) = Blank
<1> DEFINE snap == Snapshot(rt, io)
<1>1. \A s \in Slots : snap[s] = IF s \in io THEN "IO_ERROR" ELSE SlotState(rt, s)
  BY DEF Snapshot
<1>2. \A s \in Slots : /\ SlotState(rt, s) = "VALID" <=> At(rt, s) # Blank /\ IsValid(rt, s)
                       /\ SlotState(rt, s) = "ERASED" <=> At(rt, s) = Blank
                       /\ SlotState(rt, s) # "IO_ERROR"
  BY DEF SlotState
<1>3. \A s \in Slots : IsValid(rt, s) => At(rt, s) # Blank
  BY DEF IsValid
<1>4. ValidIn(snap) \subseteq Valid(rt)
  BY <1>1, <1>2 DEF ValidIn, Valid
<1>5. ~IOErrorIn(snap) => \A s \in Slots : snap[s] = SlotState(rt, s)
  BY <1>1 DEF IOErrorIn
<1>6. ~IOErrorIn(snap) => ValidIn(snap) = Valid(rt)
  BY <1>2, <1>3, <1>5 DEF ValidIn, Valid
<1>7. BothErased(snap) => At(rt, 0) = Blank /\ At(rt, 1) = Blank
  BY <1>1, <1>2 DEF BothErased, Slots
<1>8. QED BY <1>4, <1>6, <1>7

\* A snapshot with a valid slot yields a valid newest slot.
LEMMA NewestIsValid ==
  ASSUME NEW rt, NEW io \in SUBSET Slots, ValidIn(Snapshot(rt, io)) # {}
  PROVE  /\ NewestIn(rt, Snapshot(rt, io)) \in Slots
         /\ NewestIn(rt, Snapshot(rt, io)) \in ValidIn(Snapshot(rt, io))
         /\ IsValid(rt, NewestIn(rt, Snapshot(rt, io)))
<1>1. ValidIn(Snapshot(rt, io)) \subseteq Slots
  BY DEF ValidIn
<1>2. NewestIn(rt, Snapshot(rt, io)) \in ValidIn(Snapshot(rt, io))
  BY <1>1 DEF NewestIn, SelectNewest, Slots
<1>3. QED BY <1>1, <1>2, SnapshotExact DEF Valid

(***************************************************************************)
(* Starting and finishing a call.                                          *)
(***************************************************************************)

\* Without a job there is nothing to be safe about.
LEMMA NoJobSafe ==
  ASSUME job' = NoJob, pc' \in {"off", "uninit", "idle"}
  PROVE  /\ JobSafe'
         /\ job' \in [call : Calls \cup {"none"}, type : RecordTypes \cup {AllTypes},
                       data : Payloads \cup {NoData}, seq : SeqNums,
                       at : Pages, last : Pages, target : Pages \cup {NoPage}]
<1>1. 0 \in Pages
  BY StorageAssumption DEF Pages
<1>2. QED BY <1>1, FirstSeq DEF NoJob, JobSafe, Calls

\* A call that returns leaves nothing running, whatever it reports.
LEMMA ReturnSafe ==
  ASSUME NEW j, j.call \in Calls, j.type \in RecordTypes \cup {AllTypes},
         NEW status \in Statuses, Return(j, status)
  PROVE  JobSafe' /\ (flash' \in [Pages -> Record \cup {Blank, Junk}] => TypeOK')
  BY NoJobSafe DEF Return, TypeOK

\* A call that refuses leaves the store as it found it.
LEMMA RefuseInv ==
  ASSUME IInv, NEW j, j.call \in Calls, j.type \in RecordTypes \cup {AllTypes},
         NEW status \in Statuses, Refuse(j, status)
  PROVE  IInv'
  BY ReturnSafe, SameFlash DEF Refuse, IInv, TypeOK

\* What a call that proceeds has set up.
LEMMA ProceedSets ==
  ASSUME NEW c, NEW rt, NEW d, NEW lo, NEW hi, NEW target, NEW seq,
         Proceed(Call(c, rt, d), lo, hi, target, seq)
  PROVE  /\ job' = [call |-> c, type |-> rt, data |-> d, seq |-> seq,
                    at |-> lo, last |-> hi, target |-> target]
         /\ pc' = "erase" /\ ret' = NoRet /\ flash' = flash
  BY DEF Proceed, Call

\* A plan to overwrite one slot whose peer is the newest copy, or whose record
\* is erased.
LEMMA ProceedOneSlot ==
  ASSUME IInv, NEW rt \in RecordTypes, NEW d \in Payloads, NEW c \in {"write", "mirror"},
         NEW s \in Slots, NEW q \in SeqNums,
         Proceed(Call(c, rt, d), PageOf(rt, s), PageOf(rt, s), PageOf(rt, s), q),
         \/ /\ IsValid(rt, 1 - s)
            /\ q = NextSeq(At(rt, 1 - s).seq)
            /\ c = "mirror" => d = At(rt, 1 - s).data
            /\ IsValid(rt, s) => At(rt, 1 - s).seq = NextSeq(At(rt, s).seq)
         \/ c = "write" /\ q = 1 /\ At(rt, 1 - s) = Blank /\ At(rt, s) = Blank
  PROVE  IInv'
<1>1. /\ job' = [call |-> c, type |-> rt, data |-> d, seq |-> q,
                 at |-> PageOf(rt, s), last |-> PageOf(rt, s), target |-> PageOf(rt, s)]
      /\ pc' = "erase" /\ ret' = NoRet /\ flash' = flash
  BY ProceedSets
<1>2. PageOf(rt, s) \in Pages
  BY PagesDisjoint
<1>3. TypeOK'
  BY <1>1, <1>2 DEF IInv, TypeOK, Calls, NoRet
<1>4. SequencesAdjacent'
  BY <1>1, SameFlash DEF IInv
<1>5. \A r, t : At(r, t)' = At(r, t) /\ IsValid(r, t)' = IsValid(r, t)
  BY <1>1, SameFlash
<1>6. OverwritesOneSlot'
  <2>1. /\ job'.type = rt /\ job'.data = d /\ job'.call = c /\ job'.seq = q
        /\ job'.at = PageOf(rt, s) /\ job'.last = PageOf(rt, s) /\ job'.target = PageOf(rt, s)
    BY <1>1
  <2>2. \A t \in Slots : Target(t)' = PageOf(rt, t)
    BY <2>1 DEF Target
  <2>3. At(job.type, 1 - s)' = At(rt, 1 - s) /\ At(job.type, s)' = At(rt, s)
        /\ IsValid(job.type, 1 - s)' = IsValid(rt, 1 - s) /\ IsValid(job.type, s)' = IsValid(rt, s)
    BY <1>1, <2>1, <1>5 DEF At, IsValid
  <2>4. QED BY <1>1, <2>1, <2>2, <2>3 DEF OverwritesOneSlot
<1>7. JobSafe'
  BY <1>1, <1>6 DEF JobSafe, NoJob
<1>8. QED BY <1>3, <1>4, <1>7 DEF IInv

(***************************************************************************)
(* The calls, up to their first flash operation.                           *)
(***************************************************************************)

\* Storage_WriteEx plans to overwrite the older copy, or a slot of an erased record.
LEMMA WriteExInv ==
  ASSUME IInv, NEW rt \in RecordTypes, NEW data \in Payloads, WriteEx(rt, data)
  PROVE  IInv'
<1>1. PICK io \in SUBSET Slots :
        LET snap == Snapshot(rt, io)
            slot == SelectWriteSlot(rt, snap)
            page == PageOf(rt, slot)
            call == Call("write", rt, data)
        IN IF slot = NoSlot THEN Refuse(call, "UNSAFE_STATE")
           ELSE Proceed(call, page, page, page, NextSeq(BaseSeq(rt, snap)))
  BY DEF WriteEx
<1> DEFINE snap == Snapshot(rt, io)
           slot == SelectWriteSlot(rt, snap)
           page == PageOf(rt, slot)
           n == NewestIn(rt, snap)
<1>2. CASE slot = NoSlot
  BY <1>1, <1>2, RefuseInv DEF Call, Calls, Statuses
<1>3. CASE slot # NoSlot
  <2>1. Proceed(Call("write", rt, data), page, page, page, NextSeq(BaseSeq(rt, snap)))
    BY <1>1, <1>3
  <2>2. CASE BothErased(snap)
    <3>1. slot = 0 /\ NextSeq(BaseSeq(rt, snap)) = 1
      BY <1>3, <2>2, FirstSeq DEF SelectWriteSlot, BaseSeq
    <3>2. At(rt, 0) = Blank /\ At(rt, 1) = Blank
      BY <2>2, SnapshotExact
    <3>3. QED BY <2>1, <3>1, <3>2, FirstSeq, ProceedOneSlot DEF Slots
  <2>3. CASE ~BothErased(snap)
    <3>1. ~IOErrorIn(snap) /\ ValidIn(snap) # {} /\ slot = 1 - n
          /\ BaseSeq(rt, snap) = At(rt, n).seq
      BY <1>3, <2>3 DEF SelectWriteSlot, BaseSeq
    <3>2. n \in Slots /\ IsValid(rt, n) /\ slot \in Slots /\ 1 - slot = n
      BY <3>1, NewestIsValid DEF Slots
    <3>3. NextSeq(At(rt, n).seq) \in SeqNums
      BY <3>2, SlotContents, Successor DEF IInv
    <3>4. IsValid(rt, slot) => At(rt, n).seq = NextSeq(At(rt, slot).seq)
      <4>1. SUFFICES ASSUME IsValid(rt, slot)
            PROVE  At(rt, n).seq = NextSeq(At(rt, slot).seq)
        OBVIOUS
      <4>2. Valid(rt) = Slots /\ ValidIn(snap) = Slots
        BY <3>1, <3>2, <4>1, SnapshotExact DEF Valid, Slots
      <4>3. n = SelectNewest(rt)
        BY <4>2 DEF NewestIn
      <4>4. QED BY <3>2, <4>2, <4>3, NewestFollows, <3>1 DEF IInv
    <3>5. QED BY <2>1, <3>1, <3>2, <3>3, <3>4, ProceedOneSlot
  <2>4. QED BY <2>2, <2>3
<1>4. QED BY <1>2, <1>3

\* Storage_EnsureRedundancy plans to overwrite the peer of the only valid copy.
LEMMA EnsureRedundancyInv ==
  ASSUME IInv, NEW rt \in RecordTypes, EnsureRedundancy(rt)
  PROVE  IInv'
<1>1. PICK io \in SUBSET Slots :
        LET snap == Snapshot(rt, io)
            source == At(rt, NewestIn(rt, snap))
            peer == PageOf(rt, 1 - NewestIn(rt, snap))
            call == Call("mirror", rt, NoData)
        IN IF ValidIn(snap) = Slots THEN Refuse(call, "NOT_NEEDED")
           ELSE IF BothErased(snap) THEN Refuse(call, "NOT_FOUND")
           ELSE IF IOErrorIn(snap) \/ ValidIn(snap) = {} THEN Refuse(call, "REFUSED")
           ELSE Proceed(Call("mirror", rt, source.data), peer, peer, peer, NextSeq(source.seq))
  BY DEF EnsureRedundancy
<1> DEFINE snap == Snapshot(rt, io)
           n == NewestIn(rt, snap)
           peer == PageOf(rt, 1 - n)
<1>2. CASE \E status \in Statuses : Refuse(Call("mirror", rt, NoData), status)
  BY <1>2, RefuseInv DEF Call, Calls
<1>3. CASE /\ ValidIn(snap) # Slots /\ ~IOErrorIn(snap) /\ ValidIn(snap) # {}
           /\ Proceed(Call("mirror", rt, At(rt, n).data), peer, peer, peer, NextSeq(At(rt, n).seq))
  <2>1. n \in Slots /\ IsValid(rt, n) /\ 1 - n \in Slots /\ 1 - (1 - n) = n
    BY <1>3, NewestIsValid DEF Slots
  <2>2. ~IsValid(rt, 1 - n)
    BY <1>3, <2>1, SnapshotExact DEF Valid, Slots
  <2>3. At(rt, n).data \in Payloads /\ NextSeq(At(rt, n).seq) \in SeqNums
    BY <2>1, SlotContents, Successor DEF IInv
  <2>4. QED BY <1>3, <2>1, <2>2, <2>3, ProceedOneSlot
<1>4. QED BY <1>1, <1>2, <1>3 DEF Statuses

\* Storage_RecoverCorruptRecord plans to erase only when neither slot is valid.
LEMMA RecoverCorruptRecordInv ==
  ASSUME IInv, NEW rt \in RecordTypes, NEW data \in Payloads, RecoverCorruptRecord(rt, data)
  PROVE  IInv'
<1>1. PICK io \in SUBSET Slots :
        LET snap == Snapshot(rt, io)
            call == Call("recover", rt, data)
        IN IF IOErrorIn(snap) THEN Refuse(call, "IO_ERROR")
           ELSE IF ValidIn(snap) # {} \/ BothErased(snap) THEN Refuse(call, "NOT_NEEDED")
           ELSE Proceed(call, PageOf(rt, 0), PageOf(rt, 1), PageOf(rt, 0), 1)
  BY DEF RecoverCorruptRecord
<1> DEFINE snap == Snapshot(rt, io)
<1>2. CASE \E status \in Statuses : Refuse(Call("recover", rt, data), status)
  BY <1>2, RefuseInv DEF Call, Calls
<1>3. CASE /\ ~IOErrorIn(snap) /\ ValidIn(snap) = {}
           /\ Proceed(Call("recover", rt, data), PageOf(rt, 0), PageOf(rt, 1), PageOf(rt, 0), 1)
  <2>1. /\ job' = [call |-> "recover", type |-> rt, data |-> data, seq |-> 1,
                   at |-> PageOf(rt, 0), last |-> PageOf(rt, 1), target |-> PageOf(rt, 0)]
        /\ pc' = "erase" /\ ret' = NoRet /\ flash' = flash
    BY <1>3, ProceedSets
  <2>2. PageOf(rt, 0) \in Pages /\ PageOf(rt, 1) \in Pages /\ PageOf(rt, 0) # PageOf(rt, 1)
    BY PagesDisjoint DEF Slots
  <2>3. TypeOK'
    BY <2>1, <2>2, FirstSeq DEF IInv, TypeOK, Calls, NoRet
  <2>4. ~IsValid(rt, 0) /\ ~IsValid(rt, 1)
    BY <1>3, SnapshotExact DEF Valid, Slots
  <2>5. RewritesBothSlots'
    <3>1. \A s : Target(s)' = PageOf(rt, s)
      BY <2>1 DEF Target
    <3>2. ~IsValid(job.type, 0)' /\ ~IsValid(job.type, 1)'
      BY <2>1, <2>4 DEF IsValid, At
    <3>3. QED BY <2>1, <2>2, <3>1, <3>2 DEF RewritesBothSlots
  <2>6. JobSafe'
    BY <2>1, <2>5 DEF JobSafe, NoJob
  <2>7. QED BY <2>1, <2>3, <2>6, SameFlash DEF IInv
<1>4. QED BY <1>1, <1>2, <1>3 DEF Statuses

\* Storage_FormatRecord erases the two pages of its record.
LEMMA FormatRecordInv ==
  ASSUME IInv, NEW rt \in RecordTypes, FormatRecord(rt)
  PROVE  IInv'
<1>1. /\ job' = [call |-> "format", type |-> rt, data |-> NoData, seq |-> 0,
                 at |-> PageOf(rt, 0), last |-> PageOf(rt, 1), target |-> NoPage]
      /\ pc' = "erase" /\ ret' = NoRet /\ flash' = flash
  BY ProceedSets DEF FormatRecord
<1>2. PageOf(rt, 0) \in Pages /\ PageOf(rt, 1) \in Pages
  BY PagesDisjoint DEF Slots
<1>3. TypeOK'
  BY <1>1, <1>2, FirstSeq DEF IInv, TypeOK, Calls, NoRet
<1>4. PageOf(rt, 0) <= PageOf(rt, 1)
  BY DEF PageOf, RecordTypes
<1>5. JobSafe'
  BY <1>1, <1>4 DEF JobSafe, NoJob, Target
<1>6. QED BY <1>1, <1>3, <1>5, SameFlash DEF IInv

\* Storage_Format erases every page.
LEMMA FormatInv ==
  ASSUME IInv, Format
  PROVE  IInv'
<1>1. /\ job' = [call |-> "formatAll", type |-> AllTypes, data |-> NoData, seq |-> 0,
                 at |-> 0, last |-> 2 * RecordTypeCount - 1, target |-> NoPage]
      /\ pc' = "erase" /\ ret' = NoRet /\ flash' = flash
  BY ProceedSets DEF Format
<1>2. 0 \in Pages /\ 2 * RecordTypeCount - 1 \in Pages /\ 0 <= 2 * RecordTypeCount - 1
  BY StorageAssumption DEF Pages
<1>3. TypeOK'
  BY <1>1, <1>2, FirstSeq DEF IInv, TypeOK, Calls, NoRet
<1>4. JobSafe'
  BY <1>1, <1>2 DEF JobSafe, NoJob
<1>5. QED BY <1>1, <1>3, <1>4, SameFlash DEF IInv

\* Reads and refused calls keep the flash and the job.
LEMMA ReadInv ==
  ASSUME IInv, NEW rt \in RecordTypes, Read(rt) \/ CallUninitialized(rt)
  PROVE  IInv'
<1>1. flash' = flash /\ pc' = pc /\ job' = job
  BY DEF Read, CallUninitialized
<1>2. ret' \in [call : Calls \cup {"none", "read"}, type : RecordTypes \cup {AllTypes},
               status : Statuses \cup {"none"}, data : Payloads \cup {NoData}]
  <2>1. CASE CallUninitialized(rt)
    BY <2>1 DEF CallUninitialized, Calls, Statuses
  <2>2. CASE Read(rt)
    <3>1. PICK io \in SUBSET Slots :
            ret' = [call |-> "read", type |-> rt, status |-> ReadStatus(rt, io),
                    data |-> IF ReadStatus(rt, io) = "OK"
                             THEN At(rt, NewestIn(rt, Snapshot(rt, io))).data ELSE NoData]
      BY <2>2 DEF Read
    <3>2. ReadStatus(rt, io) \in Statuses
      BY DEF ReadStatus, Statuses
    <3>3. ReadStatus(rt, io) = "OK" => At(rt, NewestIn(rt, Snapshot(rt, io))).data \in Payloads
      <4>1. ReadStatus(rt, io) = "OK" => ValidIn(Snapshot(rt, io)) # {}
        BY DEF ReadStatus
      <4>2. QED BY <4>1, NewestIsValid, SlotContents DEF IInv
    <3>4. QED BY <3>1, <3>2, <3>3
  <2>3. QED BY <2>1, <2>2
<1>3. TypeOK'
  BY <1>1, <1>2 DEF IInv, TypeOK
<1>4. JobSafe'
  BY <1>1 DEF IInv, JobSafe, OverwritesOneSlot, RewritesBothSlots, IsValid, At, Target, NewRecord
<1>5. QED BY <1>1, <1>3, <1>4, SameFlash DEF IInv

(***************************************************************************)
(* The flash operations of a running call.                                 *)
(***************************************************************************)

\* Erasing a page, well or badly.
LEMMA Erased ==
  ASSUME IInv, pc = "erase", NEW c \in {flash[job.at], Blank, Junk},
         flash' = [flash EXCEPT ![job.at] = c]
  PROVE  SequencesAdjacent' /\ flash' \in [Pages -> Record \cup {Blank, Junk}]
<1>1. PICK r \in RecordTypes, s \in Slots : job.at = PageOf(r, s)
  BY PageIsSlot DEF IInv, TypeOK
<1>2. c \in {Blank, Junk, At(r, s)}
  BY <1>1 DEF At
<1>3. c \in Record \cup {Blank, Junk}
  BY <1>2, SlotContents DEF IInv
<1>4. QED BY <1>1, <1>2, <1>3, AdjacentAfterErase, OnePageWritten DEF IInv

\* The page a running call programs, and the record it programs there.
LEMMA TargetSlot ==
  ASSUME IInv, pc \in {"program", "verify"}
  PROVE  /\ job.type \in RecordTypes /\ NewRecord \in Record
         /\ job.call \in {"write", "mirror", "recover"}
         /\ \E s \in Slots :
              /\ job.target = PageOf(job.type, s)
              /\ IsValid(job.type, 1 - s) => job.seq = NextSeq(At(job.type, 1 - s).seq)
<1>1. job.call \in {"write", "mirror", "recover"}
  <2>1. job.call # "none"
    BY DEF IInv, JobSafe
  <2>2. QED BY <2>1 DEF IInv, JobSafe, TypeOK, Calls
<1>2. job.type \in RecordTypes /\ job.data \in Payloads /\ job.seq \in SeqNums
  BY <1>1 DEF IInv, JobSafe, OverwritesOneSlot, RewritesBothSlots, TypeOK
<1>3. NewRecord \in Record
  BY <1>2 DEF NewRecord, Record
<1>4. CASE job.call \in {"write", "mirror"}
  <2>1. PICK s \in Slots :
          /\ job.target = Target(s)
          /\ \/ job.seq = NextSeq(At(job.type, 1 - s).seq)
             \/ At(job.type, 1 - s) = Blank
    BY <1>4 DEF IInv, JobSafe, OverwritesOneSlot
  <2>2. IsValid(job.type, 1 - s) => job.seq = NextSeq(At(job.type, 1 - s).seq)
    BY <2>1 DEF IsValid
  <2>3. QED BY <1>1, <1>2, <1>3, <2>1, <2>2 DEF Target
<1>5. CASE job.call = "recover"
  <2>1. job.target = PageOf(job.type, 0) /\ ~IsValid(job.type, 1)
    BY <1>5 DEF IInv, JobSafe, RewritesBothSlots, Target
  <2>2. QED BY <1>1, <1>2, <1>3, <2>1 DEF Slots
<1>6. QED BY <1>1, <1>4, <1>5

\* Programming the target page, well or badly.
LEMMA Programmed ==
  ASSUME IInv, pc = "program", NEW c \in {Blank, Junk, NewRecord},
         flash' = [flash EXCEPT ![job.target] = c]
  PROVE  SequencesAdjacent' /\ flash' \in [Pages -> Record \cup {Blank, Junk}]
<1>1. PICK s \in Slots :
        /\ job.target = PageOf(job.type, s)
        /\ IsValid(job.type, 1 - s) => job.seq = NextSeq(At(job.type, 1 - s).seq)
  BY TargetSlot
<1>2. job.type \in RecordTypes /\ NewRecord \in Record
  BY TargetSlot
<1>3. TypeOK /\ SequencesAdjacent /\ flash' = [flash EXCEPT ![PageOf(job.type, s)] = c]
  BY <1>1 DEF IInv
<1>4. c \in Record \cup {Blank, Junk}
  BY <1>2
<1>5. flash' \in [Pages -> Record \cup {Blank, Junk}]
  BY <1>2, <1>3, <1>4, OnePageWritten
<1>6. CASE c \in {Blank, Junk}
  BY <1>2, <1>3, <1>5, <1>6, AdjacentAfterErase
<1>7. CASE c = NewRecord
  <2>1. NewRecord.seq = job.seq
    BY DEF NewRecord
  <2>2. c \in Record
    BY <1>2, <1>7
  <2>3. IsValid(job.type, 1 - s) => c.seq = NextSeq(At(job.type, 1 - s).seq)
    BY <1>1, <1>7, <2>1
  <2>4. SequencesAdjacent'
    BY ZenonT(60), <1>2, <1>3, <2>2, <2>3, AdjacentAfterProgram
  <2>5. QED BY <1>5, <2>4
<1>8. QED BY <1>5, <1>6, <1>7

\* A running job is one of the calls.
LEMMA RunningCall ==
  ASSUME IInv, pc \in {"erase", "program", "verify"}
  PROVE  job.call \in Calls /\ job.type \in RecordTypes \cup {AllTypes}
         /\ Failure("IO_ERROR") \in Statuses /\ Failure("VERIFY_FAILED") \in Statuses
         /\ Success \in Statuses
<1>1. job.call # "none"
  BY DEF IInv, JobSafe
<1>2. QED BY <1>1 DEF IInv, TypeOK, Failure, Success, Statuses

\* A failed erase ends the call safely, however the page was left.
LEMMA EraseFailsInv ==
  ASSUME IInv, EraseFails
  PROVE  IInv'
<1>1. PICK c \in {flash[job.at], Blank, Junk} : flash' = [flash EXCEPT ![job.at] = c]
  BY DEF EraseFails
<1>2. SequencesAdjacent' /\ flash' \in [Pages -> Record \cup {Blank, Junk}]
  BY <1>1, Erased DEF EraseFails
<1>3. TypeOK' /\ JobSafe'
  BY <1>2, RunningCall, ReturnSafe DEF EraseFails
<1>4. QED BY <1>2, <1>3 DEF IInv

\* A failed program ends the call safely, however the page was left.
LEMMA ProgramFailsInv ==
  ASSUME IInv, ProgramFails
  PROVE  IInv'
<1>1. PICK c \in {Blank, Junk, NewRecord} : flash' = [flash EXCEPT ![job.target] = c]
  BY DEF ProgramFails
<1>2. SequencesAdjacent' /\ flash' \in [Pages -> Record \cup {Blank, Junk}]
  BY <1>1, Programmed DEF ProgramFails
<1>3. TypeOK' /\ JobSafe'
  BY <1>2, RunningCall, ReturnSafe DEF ProgramFails
<1>4. QED BY <1>2, <1>3 DEF IInv

\* The verification of a program ends the call, well or badly.
LEMMA VerifyRecordInv ==
  ASSUME IInv, VerifyRecord
  PROVE  IInv'
<1>1. flash' = flash /\ pc = "verify"
  BY DEF VerifyRecord
<1>2. \E status \in Statuses : Return(job, status)
  BY RunningCall DEF VerifyRecord
<1>3. TypeOK' /\ JobSafe'
  BY <1>1, <1>2, RunningCall, ReturnSafe DEF IInv, TypeOK
<1>4. QED BY <1>1, <1>3, SameFlash DEF IInv

\* Power may fail at any point of a call.
LEMMA PowerLossInv ==
  ASSUME IInv, PowerLoss
  PROVE  IInv'
<1>1. job' = NoJob /\ pc' = "off" /\ ret' = NoRet
  BY DEF PowerLoss
<1>2. SequencesAdjacent' /\ flash' \in [Pages -> Record \cup {Blank, Junk}]
  <2>1. CASE pc = "erase"
    <3>1. PICK c \in {flash[job.at], Blank, Junk} : flash' = [flash EXCEPT ![job.at] = c]
      BY <2>1 DEF PowerLoss, TornPages
    <3>2. QED BY <2>1, <3>1, Erased
  <2>2. CASE pc = "program"
    <3>1. PICK c \in {Blank, Junk, NewRecord} : flash' = [flash EXCEPT ![job.target] = c]
      BY <2>2 DEF PowerLoss, TornPages
    <3>2. QED BY <2>2, <3>1, Programmed
  <2>3. CASE pc \notin {"erase", "program"}
    <3>1. flash' = flash
      BY <2>3 DEF PowerLoss, TornPages
    <3>2. QED BY <3>1, SameFlash DEF IInv, TypeOK
  <2>4. QED BY <2>1, <2>2, <2>3
<1>3. TypeOK' /\ JobSafe'
  BY <1>1, <1>2, NoJobSafe DEF TypeOK, NoRet
<1>4. QED BY <1>2, <1>3 DEF IInv

\* Starting up changes nothing in the flash.
LEMMA StorageInitInv ==
  ASSUME IInv, StorageInit
  PROVE  IInv'
<1>1. flash' = flash /\ job' = job /\ ret' = ret /\ pc' \in {"idle", "uninit"} /\ job = NoJob
  BY DEF StorageInit, IInv, JobSafe
<1>2. JobSafe'
  BY <1>1, NoJobSafe
<1>3. QED BY <1>1, <1>2, SameFlash DEF IInv, TypeOK

\* A program reported as successful leaves the record or junk to be verified.
LEMMA ProgramRecordInv ==
  ASSUME IInv, ProgramRecord
  PROVE  IInv'
<1>1. PICK c \in {NewRecord, Junk} : flash' = [flash EXCEPT ![job.target] = c]
  BY DEF ProgramRecord
<1>2. pc = "program" /\ pc' = "verify" /\ job' = job /\ ret' = ret
  BY DEF ProgramRecord
<1>3. SequencesAdjacent' /\ flash' \in [Pages -> Record \cup {Blank, Junk}]
  BY <1>1, <1>2, Programmed
<1>4. TypeOK'
  BY <1>2, <1>3 DEF IInv, TypeOK
<1>5. job.type \in RecordTypes /\ job.call \in {"write", "mirror", "recover"}
  BY <1>2, TargetSlot
<1>6. PICK s \in Slots : job.target = PageOf(job.type, s)
  BY <1>2, TargetSlot
<1>7. At(job.type, s)' = c /\ At(job.type, 1 - s)' = At(job.type, 1 - s)
  <2>1. c \in Record \cup {Blank, Junk} /\ 1 - s \in Slots /\ 1 - s # s
    BY <1>2, TargetSlot DEF Slots
  <2>2. flash' = [flash EXCEPT ![PageOf(job.type, s)] = c]
    BY <1>1, <1>6
  <2>3. At(job.type, s)' = flash'[PageOf(job.type, s)] /\ At(job.type, 1 - s)' = flash'[PageOf(job.type, 1 - s)]
    BY <1>2 DEF At
  <2>4. PageOf(job.type, s) \in Pages /\ PageOf(job.type, 1 - s) \in Pages
        /\ PageOf(job.type, s) # PageOf(job.type, 1 - s)
    BY <1>5, <2>1, PagesDisjoint
  <2>5. QED BY <2>2, <2>3, <2>4 DEF IInv, TypeOK, At
<1>8. flash'[job.target] \in {NewRecord, Junk} /\ NewRecord' = NewRecord
  <2>1. job.target \in Pages
    BY <1>5, <1>6, PagesDisjoint
  <2>2. QED BY <1>1, <1>2, <2>1 DEF IInv, TypeOK, NewRecord
<1>9. \A t : Target(t)' = Target(t)
  BY <1>2 DEF Target
<1>10. CASE job.call \in {"write", "mirror"}
  <2>1. PICK t \in Slots :
          /\ job.type \in RecordTypes /\ job.data \in Payloads
          /\ job.at = Target(t) /\ job.last = Target(t) /\ job.target = Target(t)
          /\ \/ /\ IsValid(job.type, 1 - t)
                /\ job.seq = NextSeq(At(job.type, 1 - t).seq)
                /\ job.call = "mirror" => job.data = At(job.type, 1 - t).data
             \/ /\ job.call = "write" /\ job.seq = 1
                /\ At(job.type, 1 - t) = Blank
    BY <1>10 DEF IInv, JobSafe, OverwritesOneSlot
  <2>2. t = s
    BY <1>5, <1>6, <2>1, PagesDisjoint DEF Target
  <2>3. IsValid(job.type, 1 - t)' = IsValid(job.type, 1 - t) /\ At(job.type, 1 - t)' = At(job.type, 1 - t)
    BY <1>2, <1>7, <2>2 DEF IsValid
  <2>4. OverwritesOneSlot'
    BY <1>2, <1>9, <2>1, <2>3 DEF OverwritesOneSlot
  <2>5. JobSafe'
    BY <1>2, <1>8, <1>10, <2>4 DEF IInv, JobSafe
  <2>6. QED BY <1>3, <1>4, <2>5 DEF IInv
<1>11. CASE job.call = "recover"
  <2>1. RewritesBothSlots /\ s = 0
    BY <1>5, <1>6, <1>11, PagesDisjoint DEF IInv, JobSafe, RewritesBothSlots, Target, Slots
  <2>2. At(job.type, 1)' = At(job.type, 1) /\ IsValid(job.type, 1)' = IsValid(job.type, 1)
    BY <1>2, <1>7, <2>1 DEF IsValid
  <2>3. RewritesBothSlots'
    BY <1>2, <1>9, <2>1, <2>2 DEF RewritesBothSlots
  <2>4. JobSafe'
    BY <1>2, <1>8, <1>11, <2>3 DEF IInv, JobSafe
  <2>5. QED BY <1>3, <1>4, <2>4 DEF IInv
<1>12. QED BY <1>5, <1>10, <1>11

\* An erase goes on to the next page, to the program, or ends the call.
LEMMA ErasePageInv ==
  ASSUME IInv, ErasePage
  PROVE  IInv'
<1>1. pc = "erase" /\ flash' = [flash EXCEPT ![job.at] = Blank] /\ job.at \in Pages
  BY DEF ErasePage, IInv, TypeOK
<1>2. SequencesAdjacent' /\ flash' \in [Pages -> Record \cup {Blank, Junk}]
  BY <1>1, Erased
<1>3. job.call \in Calls /\ job.type \in RecordTypes \cup {AllTypes}
  BY <1>1, RunningCall
<1>4. flash'[job.at] = Blank /\ \A p \in Pages : p # job.at => flash'[p] = flash[p]
  BY <1>1 DEF IInv, TypeOK
<1>5. job.at \in Int /\ job.last \in Int
  BY <1>1 DEF IInv, TypeOK, Pages
<1>6. CASE job.at < job.last
  <2>1. job' = [job EXCEPT !.at = @ + 1] /\ pc' = pc /\ ret' = ret
    BY <1>6 DEF ErasePage
  <2>2. /\ job'.call = job.call /\ job'.type = job.type /\ job'.data = job.data
        /\ job'.seq = job.seq /\ job'.at = job.at + 1 /\ job'.last = job.last
        /\ job'.target = job.target
    BY <2>1 DEF IInv, TypeOK
  <2>3. job.at + 1 \in Pages
    BY <1>6, <1>5, StorageAssumption DEF IInv, TypeOK, Pages
  <2>4. TypeOK'
    BY <1>2, <2>1, <2>3 DEF IInv, TypeOK
  <2>5. job.call \in {"recover", "format", "formatAll"}
    <3>1. job.call \notin {"write", "mirror"}
      BY <1>5, <1>6 DEF IInv, JobSafe, OverwritesOneSlot
    <3>2. QED BY <1>3, <3>1 DEF Calls
  <2>6. \A t : Target(t)' = Target(t)
    BY <2>2 DEF Target
  <2>7. job.call = "recover" => RewritesBothSlots'
    <3>1. SUFFICES ASSUME job.call = "recover" PROVE RewritesBothSlots'
      OBVIOUS
    <3>2. RewritesBothSlots /\ job.type \in RecordTypes
      BY <3>1 DEF IInv, JobSafe, RewritesBothSlots
    <3>3. job.at = Target(0) /\ job.at + 1 = Target(1)
      BY <1>5, <1>6, <3>2 DEF RewritesBothSlots, Target, PageOf, RecordTypes
    <3>4. Target(0) \in Pages /\ Target(1) \in Pages /\ Target(0) # Target(1)
      BY <3>2, PagesDisjoint DEF Target, Slots
    <3>5. At(job.type, 0)' = Blank /\ At(job.type, 1)' = At(job.type, 1)
      BY <1>4, <2>2, <3>3, <3>4 DEF At, Target
    <3>6. ~IsValid(job.type, 0)' /\ ~IsValid(job.type, 1)'
      BY <2>2, <3>2, <3>5, <1>1 DEF IsValid, RewritesBothSlots
    <3>7. QED BY <1>1, <2>1, <2>2, <2>6, <3>2, <3>3, <3>5, <3>6 DEF RewritesBothSlots
  <2>8. job.call = "format" => job.type \in RecordTypes /\ job.at + 1 = Target(1)
    BY <1>5, <1>6 DEF IInv, JobSafe, Target, PageOf, RecordTypes
  <2>9. job' # NoJob
    BY <2>2, <1>3 DEF NoJob, Calls
  <2>10. JobSafe'
    BY <1>1, <1>5, <1>6, <2>1, <2>2, <2>5, <2>6, <2>7, <2>8, <2>9 DEF IInv, JobSafe, Calls
  <2>11. QED BY <1>2, <2>4, <2>10 DEF IInv
<1>7. CASE job.at >= job.last /\ job.target = NoPage
  <2>1. Return(job, "OK")
    BY <1>5, <1>7 DEF ErasePage
  <2>2. TypeOK' /\ JobSafe'
    BY <1>2, <1>3, <2>1, ReturnSafe DEF Statuses
  <2>3. QED BY <1>2, <2>2 DEF IInv
<1>8. CASE job.at >= job.last /\ job.target # NoPage
  <2>1. pc' = "program" /\ job' = job /\ ret' = ret
    BY <1>5, <1>8 DEF ErasePage
  <2>2. TypeOK'
    BY <1>2, <2>1 DEF IInv, TypeOK
  <2>3. job.call \in {"write", "mirror", "recover"} /\ job.type \in RecordTypes
    <3>1. job.call \notin {"format", "formatAll"}
      BY <1>8 DEF IInv, JobSafe
    <3>2. QED BY <1>3, <3>1 DEF IInv, JobSafe, OverwritesOneSlot, RewritesBothSlots, Calls
  <2>4. \A t : Target(t)' = Target(t)
    BY <2>1 DEF Target
  <2>5. \A t \in Slots : Target(t) \in Pages /\ At(job.type, t) = flash[Target(t)]
                        /\ At(job.type, t)' = flash'[Target(t)]
    BY <2>1, <2>3, PagesDisjoint DEF Target, At
  <2>6. CASE job.call \in {"write", "mirror"}
    <3>1. PICK s \in Slots :
            /\ job.type \in RecordTypes /\ job.data \in Payloads
            /\ job.at = Target(s) /\ job.last = Target(s) /\ job.target = Target(s)
            /\ \/ /\ IsValid(job.type, 1 - s)
                  /\ job.seq = NextSeq(At(job.type, 1 - s).seq)
                  /\ job.call = "mirror" => job.data = At(job.type, 1 - s).data
               \/ /\ job.call = "write" /\ job.seq = 1
                  /\ At(job.type, 1 - s) = Blank
      BY <2>6 DEF IInv, JobSafe, OverwritesOneSlot
    <3>2. 1 - s \in Slots /\ Target(1 - s) # Target(s)
      BY <2>3, PagesDisjoint DEF Target, Slots
    <3>3. At(job.type, 1 - s)' = At(job.type, 1 - s)
      BY <1>4, <2>5, <3>1, <3>2
    <3>4. IsValid(job.type, 1 - s)' = IsValid(job.type, 1 - s)
      BY <2>1, <3>3 DEF IsValid
    <3>5. OverwritesOneSlot'
      BY <2>1, <2>4, <3>1, <3>3, <3>4 DEF OverwritesOneSlot
    <3>6. flash'[job.target] = Blank
      BY <1>4, <3>1
    <3>7. JobSafe'
      BY <1>1, <2>1, <2>6, <3>5, <3>6 DEF IInv, JobSafe
    <3>8. QED BY <1>2, <2>2, <3>7 DEF IInv
  <2>7. CASE job.call = "recover"
    <3>1. RewritesBothSlots
      BY <2>7 DEF IInv, JobSafe
    <3>2. job.at = Target(1) /\ Target(0) # Target(1)
      <4>1. Target(0) # Target(1) /\ Target(0) < Target(1)
        BY <2>3 DEF Target, PageOf, RecordTypes
      <4>2. QED BY <1>5, <1>8, <3>1, <4>1 DEF RewritesBothSlots
    <3>3. At(job.type, 1)' = Blank /\ At(job.type, 0)' = At(job.type, 0)
      BY <1>4, <2>5, <3>2 DEF Slots
    <3>4. At(job.type, 0) = Blank /\ job.target = Target(0)
      BY <1>1, <3>1, <3>2 DEF RewritesBothSlots
    <3>5. ~IsValid(job.type, 1)'
      BY <3>3 DEF IsValid
    <3>6. RewritesBothSlots'
      BY <2>1, <2>4, <3>1, <3>3, <3>4, <3>5 DEF RewritesBothSlots
    <3>7. flash'[job.target] = Blank
      BY <2>5, <3>3, <3>4 DEF Slots
    <3>8. JobSafe'
      BY <1>1, <2>1, <2>7, <3>6, <3>7 DEF IInv, JobSafe
    <3>9. QED BY <1>2, <2>2, <3>8 DEF IInv
  <2>8. QED BY <2>3, <2>6, <2>7
<1>9. QED BY <1>5, <1>6, <1>7, <1>8

(***************************************************************************)
(* The invariant.                                                          *)
(***************************************************************************)

\* The factory state is safe.
LEMMA InitInv == Init => IInv
<1> SUFFICES ASSUME Init PROVE IInv
  OBVIOUS
<1>2. TypeOK
  BY StorageAssumption, FirstSeq DEF Init, TypeOK, NoJob, NoRet, Calls, Pages
<1>3. \A rt \in RecordTypes, s \in Slots : At(rt, s) = Blank
  BY PagesDisjoint DEF Init, At
<1>4. SequencesAdjacent
  BY <1>3 DEF SequencesAdjacent, Valid, IsValid, Slots
<1>5. JobSafe
  BY DEF Init, JobSafe, NoJob, Calls
<1>6. QED BY <1>2, <1>4, <1>5 DEF IInv

\* No step of the store, nor a step of anything else, breaks the invariant.
LEMMA NextInv == IInv /\ [Next]_vars => IInv'
<1> SUFFICES ASSUME IInv, [Next]_vars PROVE IInv'
  OBVIOUS
<1>2. CASE UNCHANGED vars
  <2>1. flash' = flash /\ pc' = pc /\ job' = job /\ ret' = ret
    BY <1>2 DEF vars
  <2>2. TypeOK'
    BY <2>1 DEF IInv, TypeOK
  <2>3. JobSafe'
    BY <2>1 DEF IInv, JobSafe, OverwritesOneSlot, RewritesBothSlots, IsValid, At, Target, NewRecord
  <2>4. QED BY <2>1, <2>2, <2>3, SameFlash DEF IInv
<1>3. ASSUME NEW rt \in RecordTypes, Read(rt) \/ CallUninitialized(rt) PROVE IInv'
  BY <1>3, ReadInv
<1>4. ASSUME NEW rt \in RecordTypes, NEW data \in Payloads,
             WriteEx(rt, data) \/ RecoverCorruptRecord(rt, data)
      PROVE IInv'
  BY <1>4, WriteExInv, RecoverCorruptRecordInv
<1>5. ASSUME NEW rt \in RecordTypes, EnsureRedundancy(rt) \/ FormatRecord(rt) PROVE IInv'
  BY <1>5, EnsureRedundancyInv, FormatRecordInv
<1>6. CASE Format
  BY <1>6, FormatInv
<1>7. CASE ErasePage \/ EraseFails
  BY <1>7, ErasePageInv, EraseFailsInv
<1>8. CASE ProgramRecord \/ ProgramFails \/ VerifyRecord
  BY <1>8, ProgramRecordInv, ProgramFailsInv, VerifyRecordInv
<1>9. CASE PowerLoss \/ StorageInit
  BY <1>9, PowerLossInv, StorageInitInv
<1>10. QED BY <1>2, <1>3, <1>4, <1>5, <1>6, <1>7, <1>8, <1>9 DEF Next

\* Every reachable state of the store satisfies the inductive invariant: its
\* types, the adjacency of sequence numbers and the safety of a call's plan.
THEOREM Invariance == Spec => []IInv
  BY InitInv, NextInv, PTL DEF Spec

\* Every variable keeps its type.
THEOREM TypeCorrect == Spec => []TypeOK
<1>1. IInv => TypeOK
  BY DEF IInv
<1>2. QED BY <1>1, Invariance, PTL

\* Two valid copies are always one increment apart, so the signed comparison of
\* storage.c:216 always tells which is newer, for every sequence range.
THEOREM CopiesStayAdjacent == Spec => []SequencesAdjacent
<1>1. IInv => SequencesAdjacent
  BY DEF IInv
<1>2. QED BY <1>1, Invariance, PTL

(***************************************************************************)
(* What a reader gets.                                                     *)
(***************************************************************************)

\* The newest valid copy is the one that follows on the other.
LEMMA StoredIs ==
  ASSUME TypeOK, NEW rt \in RecordTypes, NEW s \in Slots, IsValid(rt, s),
         IsValid(rt, 1 - s) => At(rt, s).seq = NextSeq(At(rt, 1 - s).seq)
  PROVE  Stored(rt) = At(rt, s).data
<1>1. CASE IsValid(rt, 1 - s)
  <2>1. Valid(rt) = Slots
    BY <1>1 DEF Valid, Slots
  <2>2. At(rt, s).seq \in SeqNums /\ At(rt, 1 - s).seq \in SeqNums
    BY <1>1, SlotContents DEF Slots
  <2>3. SelectNewest(rt) = s
    BY <1>1, <2>2, Successor DEF SelectNewest, Slots
  <2>4. QED BY <2>1, <2>3 DEF Stored, Newest, Slots
<1>2. CASE ~IsValid(rt, 1 - s)
  BY <1>2 DEF Stored, Newest, Valid, Slots
<1>3. QED BY <1>1, <1>2

\* The same of the state after a step.
LEMMA StoredWillBe ==
  ASSUME flash' \in [Pages -> Record \cup {Blank, Junk}],
         NEW rt \in RecordTypes, NEW s \in Slots, IsValid(rt, s)',
         IsValid(rt, 1 - s)' => At(rt, s)'.seq = NextSeq(At(rt, 1 - s)'.seq)
  PROVE  Stored(rt)' = At(rt, s)'.data
<1>1. CASE IsValid(rt, 1 - s)'
  <2>1. Valid(rt)' = Slots
    BY <1>1 DEF Valid, Slots
  <2>2. At(rt, s)'.seq \in SeqNums /\ At(rt, 1 - s)'.seq \in SeqNums
    <3>1. At(rt, s)' \in Record /\ At(rt, 1 - s)' \in Record
      BY <1>1, PagesDisjoint DEF At, IsValid, Slots
    <3>2. QED BY <3>1 DEF Record
  <2>3. SelectNewest(rt)' = s
    BY <1>1, <2>2, Successor DEF SelectNewest, Slots
  <2>4. QED BY <2>1, <2>3 DEF Stored, Newest, Slots
<1>2. CASE ~IsValid(rt, 1 - s)'
  BY <1>2 DEF Stored, Newest, Valid, Slots
<1>3. QED BY <1>1, <1>2

\* A record type whose slots keep their contents keeps its value.
LEMMA SameSlots ==
  ASSUME NEW rt, \A s \in Slots : At(rt, s)' = At(rt, s)
  PROVE  Stored(rt)' = Stored(rt)
<1>1. \A s \in Slots : IsValid(rt, s)' = IsValid(rt, s)
  BY DEF IsValid
<1>2. Valid(rt)' = Valid(rt)
  BY <1>1 DEF Valid
<1>3. QED BY <1>2 DEF Stored, Newest, SelectNewest, Slots

\* Erasing, well or badly, never changes what a reader gets, except to format.
LEMMA ErasedKeepsStored ==
  ASSUME IInv, pc = "erase", job.call \notin {"format", "formatAll"},
         NEW c \in {flash[job.at], Blank, Junk},
         flash' = [flash EXCEPT ![job.at] = c], NEW rt \in RecordTypes
  PROVE  Stored(rt)' = Stored(rt)
<1>1. job.call \in {"write", "mirror", "recover"} /\ job.type \in RecordTypes
  <2>1. job.call \in {"write", "mirror", "recover"}
    BY RunningCall DEF Calls
  <2>2. QED BY <2>1 DEF IInv, JobSafe, OverwritesOneSlot, RewritesBothSlots
<1>2. PICK r \in RecordTypes, s \in Slots : r = job.type /\ job.at = PageOf(r, s)
  BY <1>1 DEF IInv, JobSafe, OverwritesOneSlot, RewritesBothSlots, Target, Slots
<1>3. c \in {At(r, s), Blank, Junk} /\ c \in Record \cup {Blank, Junk}
  BY <1>1, <1>2, SlotContents DEF At, IInv
<1>4. /\ flash' \in [Pages -> Record \cup {Blank, Junk}]
      /\ At(r, s)' = c
      /\ \A q \in RecordTypes, t \in Slots : q # r \/ t # s => At(q, t)' = At(q, t)
  <2>1. TypeOK /\ flash' = [flash EXCEPT ![PageOf(r, s)] = c]
    BY <1>2 DEF IInv
  <2>2. flash' \in [Pages -> Record \cup {Blank, Junk}]
    BY <1>3, <2>1, <1>1, OnePageWritten
  <2>3. \A p \in Pages : flash'[p] = IF p = PageOf(r, s) THEN c ELSE flash[p]
    BY <2>1 DEF TypeOK
  <2>4. \A q \in RecordTypes, t \in Slots : flash'[PageOf(q, t)] =
          IF q = r /\ t = s THEN c ELSE flash[PageOf(q, t)]
    BY <1>1, <2>3, PagesDisjoint
  <2>5. QED BY <1>1, <2>2, <2>4 DEF At
<1>5. CASE rt # r
  BY <1>4, <1>5, SameSlots
<1>6. CASE rt = r /\ job.call = "recover"
  <2>1. ~IsValid(rt, 0) /\ ~IsValid(rt, 1)
    BY <1>2, <1>6 DEF IInv, JobSafe, RewritesBothSlots
  <2>2. \A t \in Slots : At(rt, t)' \in {At(rt, t), Blank, Junk}
    BY <1>3, <1>4, <1>6
  <2>3. Valid(rt) = {} /\ Valid(rt)' = {}
    BY <2>1, <2>2 DEF Valid, IsValid, Slots
  <2>4. QED BY <2>3 DEF Stored
<1>7. CASE rt = r /\ job.call \in {"write", "mirror"}
  <2>1. \/ IsValid(rt, 1 - s) /\ (IsValid(rt, s) => At(rt, 1 - s).seq = NextSeq(At(rt, s).seq))
        \/ At(rt, 0) = Blank /\ At(rt, 1) = Blank
    <3>1. PICK t \in Slots :
            /\ job.at = Target(t)
            /\ \/ /\ IsValid(job.type, 1 - t)
                  /\ IsValid(job.type, t) => At(job.type, 1 - t).seq = NextSeq(At(job.type, t).seq)
               \/ At(job.type, 1 - t) = Blank /\ At(job.type, t) = Blank
      BY <1>7 DEF IInv, JobSafe, OverwritesOneSlot
    <3>2. t = s
      BY <1>2, <3>1, PagesDisjoint DEF Target
    <3>3. QED BY <1>2, <1>7, <3>1, <3>2 DEF Slots
  <2>2. At(rt, s)' \in {At(rt, s), Blank, Junk} /\ At(rt, 1 - s)' = At(rt, 1 - s)
        /\ 1 - s \in Slots /\ 1 - (1 - s) = s
    BY <1>3, <1>4, <1>7 DEF Slots
  <2>3. CASE IsValid(rt, 1 - s) /\ (IsValid(rt, s) => At(rt, 1 - s).seq = NextSeq(At(rt, s).seq))
    <3>1. Stored(rt) = At(rt, 1 - s).data
      BY <2>2, <2>3, StoredIs DEF IInv
    <3>2. IsValid(rt, 1 - s)' /\ (IsValid(rt, s)' => At(rt, 1 - s)'.seq = NextSeq(At(rt, s)'.seq))
      BY <2>2, <2>3 DEF IsValid
    <3>3. Stored(rt)' = At(rt, 1 - s)'.data
      BY <1>4, <2>2, <3>2, StoredWillBe
    <3>4. QED BY <2>2, <3>1, <3>3
  <2>4. CASE At(rt, 0) = Blank /\ At(rt, 1) = Blank
    <3>1. \A t \in Slots : At(rt, t) = Blank /\ At(rt, t)' \in {Blank, Junk}
      BY <2>2, <2>4, <1>4, <1>3, <1>7 DEF Slots
    <3>2. Valid(rt) = {} /\ Valid(rt)' = {}
      BY <3>1 DEF Valid, IsValid
    <3>3. QED BY <3>2 DEF Stored
  <2>5. QED BY <2>1, <2>3, <2>4
<1>8. QED BY <1>1, <1>2, <1>5, <1>6, <1>7

\* Programming the target page either changes nothing or makes the new payload
\* what a reader gets.
LEMMA ProgrammedStores ==
  ASSUME IInv, pc = "program", NEW c \in {Blank, Junk, NewRecord},
         flash' = [flash EXCEPT ![job.target] = c], NEW rt \in RecordTypes
  PROVE  Stored(rt)' = Stored(rt) \/ (job.type = rt /\ Stored(rt)' = job.data)
<1>1. PICK r \in RecordTypes, s \in Slots :
        /\ r = job.type /\ job.target = PageOf(r, s)
        /\ IsValid(r, 1 - s) => job.seq = NextSeq(At(r, 1 - s).seq)
  BY TargetSlot
<1>2. NewRecord \in Record /\ c \in Record \cup {Blank, Junk}
  BY TargetSlot
<1>3. TypeOK /\ flash' = [flash EXCEPT ![PageOf(r, s)] = c]
  BY <1>1 DEF IInv
<1>4. /\ flash' \in [Pages -> Record \cup {Blank, Junk}]
      /\ At(r, s)' = c
      /\ \A q \in RecordTypes, t \in Slots : q # r \/ t # s => At(q, t)' = At(q, t)
  BY ZenonT(60), <1>2, <1>3, OnePageWritten
<1>5. At(r, s) = Blank
  BY <1>1 DEF IInv, JobSafe, At
<1>6. 1 - s \in Slots /\ 1 - s # s /\ 1 - (1 - s) = s
  BY DEF Slots
<1>7. CASE rt # r
  BY <1>4, <1>7, SameSlots
<1>8. CASE rt = r /\ c = NewRecord
  <2>1. IsValid(r, s)' /\ At(r, s)'.data = job.data /\ At(r, s)'.seq = job.seq
    <3>1. NewRecord.type = r /\ NewRecord.data = job.data /\ NewRecord.seq = job.seq
      BY <1>1 DEF NewRecord
    <3>2. NewRecord \notin {Blank, Junk}
      BY <1>2, StorageAssumption
    <3>3. QED BY <1>4, <1>8, <3>1, <3>2 DEF IsValid
  <2>2. IsValid(r, 1 - s)' => At(r, s)'.seq = NextSeq(At(r, 1 - s)'.seq)
    <3>1. At(r, 1 - s)' = At(r, 1 - s)
      BY <1>4, <1>6
    <3>2. QED BY <1>1, <2>1, <3>1 DEF IsValid
  <2>3. Stored(r)' = At(r, s)'.data
    BY <1>4, <2>1, <2>2, StoredWillBe
  <2>4. QED BY <1>1, <1>8, <2>1, <2>3
<1>9. CASE rt = r /\ c \in {Blank, Junk}
  <2>1. At(r, 1 - s)' = At(r, 1 - s)
    BY <1>4, <1>6
  <2>2. ~IsValid(r, s) /\ ~IsValid(r, s)'
    BY <1>4, <1>5, <1>9 DEF IsValid
  <2>3. IsValid(r, 1 - s)' = IsValid(r, 1 - s)
    BY <2>1 DEF IsValid
  <2>4. CASE IsValid(r, 1 - s)
    <3>1. Stored(r) = At(r, 1 - s).data
      BY <1>3, <1>6, <2>2, <2>4, StoredIs
    <3>2. Stored(r)' = At(r, 1 - s)'.data
      BY <1>4, <1>6, <2>2, <2>3, <2>4, StoredWillBe
    <3>3. QED BY <1>9, <2>1, <3>1, <3>2
  <2>5. CASE ~IsValid(r, 1 - s)
    <3>1. Valid(r) = {} /\ Valid(r)' = {}
      BY <2>2, <2>3, <2>5 DEF Valid, Slots
    <3>2. QED BY <1>9, <3>1 DEF Stored
  <2>6. QED BY <2>4, <2>5
<1>10. QED BY <1>7, <1>8, <1>9

\* The steps that touch the flash: an erase or a program of the running call.
LEMMA FlashSteps ==
  ASSUME IInv, [Next]_vars
  PROVE  \/ UNCHANGED flash
         \/ pc = "erase" /\ \E c \in {flash[job.at], Blank, Junk} :
              flash' = [flash EXCEPT ![job.at] = c]
         \/ pc = "program" /\ \E c \in {Blank, Junk, NewRecord} :
              flash' = [flash EXCEPT ![job.target] = c]
<1>1. CASE ErasePage \/ EraseFails
  BY <1>1 DEF ErasePage, EraseFails
<1>2. CASE ProgramRecord \/ ProgramFails
  BY <1>2 DEF ProgramRecord, ProgramFails
<1>3. CASE PowerLoss
  BY <1>3 DEF PowerLoss, TornPages
<1>4. CASE VerifyRecord \/ StorageInit \/ Format \/ UNCHANGED vars
  BY <1>4 DEF VerifyRecord, StorageInit, Format, Proceed, vars
<1>5. ASSUME NEW rt \in RecordTypes,
             Read(rt) \/ CallUninitialized(rt) \/ FormatRecord(rt) \/ EnsureRedundancy(rt)
      PROVE  UNCHANGED flash
  BY <1>5 DEF Read, CallUninitialized, FormatRecord, EnsureRedundancy, Proceed, Refuse
<1>6. ASSUME NEW rt \in RecordTypes, NEW data \in Payloads,
             WriteEx(rt, data) \/ RecoverCorruptRecord(rt, data)
      PROVE  UNCHANGED flash
  BY <1>6 DEF WriteEx, RecoverCorruptRecord, Proceed, Refuse
<1>7. QED BY <1>1, <1>2, <1>3, <1>4, <1>5, <1>6 DEF Next

\* Whatever fails and whenever power is lost, what a reader gets of a record
\* changes only to the payload being written, unless it is being formatted.
THEOREM ValueIsAtomic == Spec => OnlyNewValueReplacesOld
<1>1. IInv /\ [Next]_vars =>
        [\A rt \in RecordTypes :
           Stored(rt)' # Stored(rt) =>
             \/ job.call \in {"format", "formatAll"}
             \/ job.type = rt /\ Stored(rt)' = job.data]_vars
  <2> SUFFICES ASSUME IInv, [Next]_vars, NEW rt \in RecordTypes,
                      job.call \notin {"format", "formatAll"}
               PROVE  Stored(rt)' = Stored(rt) \/ (job.type = rt /\ Stored(rt)' = job.data)
    OBVIOUS
  <2>1. CASE UNCHANGED flash
    BY <2>1, SameFlash
  <2>2. ASSUME pc = "erase", NEW c \in {flash[job.at], Blank, Junk},
               flash' = [flash EXCEPT ![job.at] = c]
        PROVE  Stored(rt)' = Stored(rt)
    BY <2>2, ErasedKeepsStored
  <2>3. ASSUME pc = "program", NEW c \in {Blank, Junk, NewRecord},
               flash' = [flash EXCEPT ![job.target] = c]
        PROVE  Stored(rt)' = Stored(rt) \/ (job.type = rt /\ Stored(rt)' = job.data)
    BY <2>3, ProgrammedStores
  <2>4. QED BY <2>1, <2>2, <2>3, FlashSteps
<1>2. QED BY <1>1, Invariance, PTL DEF Spec, OnlyNewValueReplacesOld

\* A call never changes a page of another record type.
THEOREM TypesAreSeparate == Spec => OtherTypesUntouched
<1>1. IInv /\ [Next]_vars =>
        [\A rt \in RecordTypes, s \in Slots :
           At(rt, s)' # At(rt, s) => job.type \in {rt, AllTypes}]_vars
  <2> SUFFICES ASSUME IInv, [Next]_vars, NEW rt \in RecordTypes, NEW s \in Slots,
                      job.type \notin {rt, AllTypes}
               PROVE  At(rt, s)' = At(rt, s)
    OBVIOUS
  <2>1. CASE UNCHANGED flash
    BY <2>1, SameFlash
  <2>2. ASSUME NEW t \in Slots, NEW c, job.type \in RecordTypes,
               flash' = [flash EXCEPT ![PageOf(job.type, t)] = c]
        PROVE  At(rt, s)' = At(rt, s)
    <3>1. PageOf(rt, s) \in Pages /\ PageOf(rt, s) # PageOf(job.type, t)
      BY <2>2, PagesDisjoint
    <3>2. QED BY <2>2, <3>1 DEF IInv, TypeOK, At
  <2>3. CASE pc = "erase" /\ \E c \in {flash[job.at], Blank, Junk} :
               flash' = [flash EXCEPT ![job.at] = c]
    <3>1. job.call \in Calls /\ job.type \in RecordTypes
      BY <2>3, RunningCall
    <3>2. \E t \in Slots : job.at = PageOf(job.type, t)
      BY <3>1 DEF IInv, JobSafe, OverwritesOneSlot, RewritesBothSlots, Target, Slots, Calls
    <3>3. QED BY <2>2, <2>3, <3>1, <3>2
  <2>4. CASE pc = "program" /\ \E c \in {Blank, Junk, NewRecord} :
               flash' = [flash EXCEPT ![job.target] = c]
    <3>1. job.type \in RecordTypes /\ \E t \in Slots : job.target = PageOf(job.type, t)
      BY <2>4, TargetSlot
    <3>2. QED BY <2>2, <2>4, <3>1
  <2>5. QED BY <2>1, <2>3, <2>4, FlashSteps
<1>2. QED BY <1>1, Invariance, PTL DEF Spec, OtherTypesUntouched

-----------------------------------------------------------------------------
\* What the health report and the read result say follows from one snapshot:
\* over the same slot reads they never contradict each other.
THEOREM ReportsAgree == Spec => []HealthAgreesWithRead
<1>1. HealthAgreesWithRead
  <2> SUFFICES ASSUME NEW rt \in RecordTypes, NEW io \in SUBSET Slots
               PROVE  /\ ReadStatus(rt, io) = "IO_ERROR" <=> Health(rt, io) = "IO_ERROR"
                      /\ ReadStatus(rt, io) = "CORRUPT" <=> Health(rt, io) = "CORRUPT"
                      /\ ReadStatus(rt, io) = "NOT_FOUND" => Health(rt, io) = "HEALTHY"
                      /\ Health(rt, io) \in {"DEGRADED", "DEGRADED_IO"}
                           => ReadStatus(rt, io) = "OK"
    BY DEF HealthAgreesWithRead
  <2> DEFINE snap == Snapshot(rt, io)
  <2>1. ValidIn(snap) = {} => ValidIn(snap) # Slots
    BY DEF Slots
  <2>2. BothErased(snap) => ~IOErrorIn(snap)
    BY DEF BothErased, IOErrorIn
  <2>3. ReadStatus(rt, io) =
          IF ValidIn(snap) # {} THEN "OK"
          ELSE IF IOErrorIn(snap) THEN "IO_ERROR"
          ELSE IF BothErased(snap) THEN "NOT_FOUND" ELSE "CORRUPT"
    BY DEF ReadStatus
  <2>4. Health(rt, io) =
          IF ValidIn(snap) = Slots THEN "HEALTHY"
          ELSE IF IOErrorIn(snap) THEN IF ValidIn(snap) # {} THEN "DEGRADED_IO" ELSE "IO_ERROR"
          ELSE IF ValidIn(snap) # {} THEN "DEGRADED"
          ELSE IF BothErased(snap) THEN "HEALTHY" ELSE "CORRUPT"
    BY DEF Health
  <2> HIDE DEF snap
  <2>5. CASE ValidIn(snap) = {}
    BY <2>1, <2>2, <2>3, <2>4, <2>5
  <2>6. CASE ValidIn(snap) # {}
    BY <2>3, <2>4, <2>6
  <2>7. QED BY <2>5, <2>6
<1>2. QED BY <1>1, PTL DEF Spec

-----------------------------------------------------------------------------
(***************************************************************************)
(* The store implements the atomic record.                                 *)
(***************************************************************************)

\* What the flash of a record type amounts to is what it was.
Kept(rt) ==
  /\ Stored(rt)' = Stored(rt) /\ Spare(rt)' = Spare(rt)
  /\ Untouched(rt)' <=> Untouched(rt)

\* A record whose slots keep their contents is kept.
LEMMA SlotsKept == ASSUME NEW rt, \A s \in Slots : At(rt, s)' = At(rt, s) PROVE Kept(rt)
<1>1. \A s \in Slots : IsValid(rt, s)' = IsValid(rt, s)
  BY DEF IsValid
<1>2. Valid(rt)' = Valid(rt)
  BY <1>1 DEF Valid
<1>3. SelectNewest(rt)' = SelectNewest(rt) /\ SelectNewest(rt) \in Slots
  BY DEF SelectNewest, Slots
<1>4. At(rt, 1 - SelectNewest(rt))' = At(rt, 1 - SelectNewest(rt))
  BY <1>3 DEF Slots
<1>5. Spare(rt)' = Spare(rt)
  BY <1>2, <1>3, <1>4 DEF Spare
<1>6. Untouched(rt)' <=> Untouched(rt)
  BY DEF Untouched, Slots
<1>7. QED BY <1>5, <1>6, SameSlots DEF Kept

\* One valid copy is the value, and there is no backup.
LEMMA OneValid ==
  ASSUME NEW rt, NEW s \in Slots, IsValid(rt, s), ~IsValid(rt, 1 - s)
  PROVE  Stored(rt) = At(rt, s).data /\ Spare(rt) = NoData
BY DEF Stored, Spare, Newest, Valid, Slots

\* Of two valid copies the one that follows on the other is the value.
LEMMA BothValid ==
  ASSUME TypeOK, NEW rt \in RecordTypes, NEW s \in Slots, IsValid(rt, s), IsValid(rt, 1 - s),
         At(rt, s).seq = NextSeq(At(rt, 1 - s).seq)
  PROVE  Stored(rt) = At(rt, s).data /\ Spare(rt) = At(rt, 1 - s).data
<1>1. At(rt, s).seq \in SeqNums /\ At(rt, 1 - s).seq \in SeqNums
  BY SlotContents DEF Slots
<1>2. SelectNewest(rt) = s
  BY <1>1, Successor DEF SelectNewest, Slots
<1>3. Valid(rt) = Slots
  BY DEF Valid, Slots
<1>4. QED BY <1>2, <1>3 DEF Stored, Spare, Newest

\* A record with a valid copy has a value.
LEMMA HasValue ==
  ASSUME TypeOK, NEW rt \in RecordTypes
  PROVE  /\ Valid(rt) = {} <=> Stored(rt) = NoData
         /\ Valid(rt) = {} => Spare(rt) = NoData
         /\ Valid(rt) = Slots <=> Spare(rt) # NoData
         /\ Untouched(rt) => Valid(rt) = {}
<1>1. \A s \in Slots : IsValid(rt, s) => At(rt, s).data # NoData
  BY SlotContents, StorageAssumption DEF StorageAssumption
<1>2. Valid(rt) = {} => Stored(rt) = NoData /\ Spare(rt) = NoData
  BY DEF Stored, Spare, Slots
<1>3. Valid(rt) # {} => Stored(rt) # NoData
  <2>1. Valid(rt) # {} => Newest(rt) \in Slots /\ IsValid(rt, Newest(rt))
    BY DEF Newest, SelectNewest, Valid, Slots
  <2>2. QED BY <1>1, <2>1 DEF Stored
<1>4. Valid(rt) = Slots => Spare(rt) # NoData
  <2>1. Valid(rt) = Slots => IsValid(rt, 1 - SelectNewest(rt)) /\ 1 - SelectNewest(rt) \in Slots
    BY DEF SelectNewest, Valid, Slots
  <2>2. QED BY <1>1, <2>1 DEF Spare
<1>5. Untouched(rt) => Valid(rt) = {}
  BY DEF Untouched, Valid, IsValid, Slots
<1>6. Valid(rt) # Slots => Spare(rt) = NoData
  BY DEF Spare
<1>7. QED BY <1>2, <1>3, <1>4, <1>5, <1>6

\* Writing one page concerns one record, and a page that is erased, torn or left
\* alone gives up the backup or the value, or nothing.
LEMMA SlotErased ==
  ASSUME TypeOK, SequencesAdjacent, NEW r \in RecordTypes, NEW s \in Slots,
         NEW c \in {At(r, s), Blank, Junk},
         flash' = [flash EXCEPT ![PageOf(r, s)] = c]
  PROVE  /\ \A rt \in RecordTypes : rt # r => Kept(rt)
         /\ \/ Stored(r)' = Stored(r) /\ Spare(r)' \in {Spare(r), NoData}
            \/ Stored(r)' = Spare(r) /\ Spare(r)' = NoData
<1>1. c \in Record \cup {Blank, Junk}
  BY SlotContents
<1>2. /\ At(r, s)' = c
      /\ \A rt \in RecordTypes, t \in Slots : rt # r \/ t # s => At(rt, t)' = At(rt, t)
  BY <1>1, OnePageWritten
<1>3. \A rt \in RecordTypes : rt # r => Kept(rt)
  BY <1>2, SlotsKept
<1>4. 1 - s \in Slots /\ 1 - s # s /\ 1 - (1 - s) = s
  BY DEF Slots
<1>5. At(r, 1 - s)' = At(r, 1 - s)
  BY <1>2, <1>4
<1>6. IsValid(r, 1 - s)' = IsValid(r, 1 - s)
  BY <1>5 DEF IsValid
<1>7. CASE c = At(r, s)
  <2>1. \A t \in Slots : At(r, t)' = At(r, t)
    BY <1>2, <1>7
  <2>2. QED BY <1>3, <2>1, SlotsKept DEF Kept
<1>8. CASE c \in {Blank, Junk}
  <2>1. ~IsValid(r, s)'
    BY <1>2, <1>8 DEF IsValid
  <2>2. CASE ~IsValid(r, 1 - s)
    <3>1. Valid(r)' = {} /\ Valid(r) # Slots
      BY <1>4, <1>6, <2>1, <2>2 DEF Valid, Slots
    <3>2. Stored(r)' = NoData /\ Spare(r)' = NoData /\ Spare(r) = NoData
      BY <3>1 DEF Stored, Spare, Slots
    <3>3. QED BY <1>3, <3>2
  <2>3. CASE IsValid(r, 1 - s)
    <3>1. Stored(r)' = At(r, 1 - s).data /\ Spare(r)' = NoData
      <4>1. Valid(r)' = {1 - s} /\ Newest(r)' = 1 - s /\ 1 - s # s
        BY <1>4, <1>6, <2>1, <2>3 DEF Valid, Newest, Slots
      <4>2. QED BY <1>5, <4>1, <1>4 DEF Stored, Spare, Slots
    <3>2. CASE ~IsValid(r, s)
      BY <1>3, <1>4, <2>3, <3>1, <3>2, OneValid
    <3>3. CASE IsValid(r, s)
      <4>1. Valid(r) = Slots
        BY <2>3, <3>3 DEF Valid, Slots
      <4>2. \/ At(r, s).seq = NextSeq(At(r, 1 - s).seq)
            \/ At(r, 1 - s).seq = NextSeq(At(r, s).seq)
        BY <4>1 DEF SequencesAdjacent, Slots
      <4>3. Stored(r) = At(r, 1 - s).data \/ Spare(r) = At(r, 1 - s).data
        BY <1>4, <2>3, <3>3, <4>2, BothValid
      <4>4. QED BY <1>3, <3>1, <4>3
    <3>4. QED BY <3>2, <3>3
  <2>4. QED BY <2>2, <2>3
<1>9. QED BY <1>7, <1>8

\* How far formatting has come: the pages before the one to erase are erased.
ErasedSoFar ==
  job.call \in {"format", "formatAll"} =>
    /\ job.last = IF job.call = "format" THEN Target(1) ELSE 2 * RecordTypeCount - 1
    /\ \A p \in Pages :
         (IF job.call = "format" THEN Target(0) ELSE 0) <= p /\ p < job.at => flash[p] = Blank

\* Formatting begins at its first page and goes on page by page.
LEMMA ErasedSoFarStep == ASSUME IInv, ErasedSoFar, [Next]_vars PROVE ErasedSoFar'
<1>1. CASE UNCHANGED <<flash, job>>
  BY <1>1 DEF ErasedSoFar, Target
<1>2. CASE job'.call \notin {"format", "formatAll"}
  BY <1>2 DEF ErasedSoFar
<1>3. ASSUME NEW rt \in RecordTypes, FormatRecord(rt) PROVE ErasedSoFar'
  <2>1. /\ job' = [call |-> "format", type |-> rt, data |-> NoData, seq |-> 0,
                   at |-> PageOf(rt, 0), last |-> PageOf(rt, 1), target |-> NoPage]
    BY <1>3, ProceedSets DEF FormatRecord
  <2>2. PageOf(rt, 0) \in Int /\ \A p \in Pages : p \in Int
    BY DEF PageOf, RecordTypes, Pages
  <2>3. QED BY <2>1, <2>2 DEF ErasedSoFar, Target
<1>4. ASSUME Format PROVE ErasedSoFar'
  <2>1. /\ job' = [call |-> "formatAll", type |-> AllTypes, data |-> NoData, seq |-> 0,
                   at |-> 0, last |-> 2 * RecordTypeCount - 1, target |-> NoPage]
    BY <1>4, ProceedSets DEF Format
  <2>2. \A p \in Pages : p \in Int
    BY DEF Pages
  <2>3. QED BY <2>1, <2>2 DEF ErasedSoFar
<1>5. ASSUME ErasePage, job.call \in {"format", "formatAll"}, job'.call \in {"format", "formatAll"}
      PROVE  ErasedSoFar'
  <2>1. pc = "erase" /\ job.target = NoPage /\ flash' = [flash EXCEPT ![job.at] = Blank]
    BY <1>5 DEF ErasePage, IInv, JobSafe
  <2>2. job' = [job EXCEPT !.at = @ + 1]
    BY <1>5, <2>1 DEF ErasePage, Return, NoJob
  <2>3. /\ job'.call = job.call /\ job'.type = job.type /\ job'.at = job.at + 1
        /\ job'.last = job.last
    BY <2>2 DEF IInv, TypeOK
  <2>4. Target(0)' = Target(0) /\ Target(1)' = Target(1)
    BY <2>3 DEF Target
  <2>5. job.at \in Int /\ \A p \in Pages : p \in Int
    BY DEF IInv, TypeOK, Pages
  <2>6. \A p \in Pages : p < job.at + 1 => p < job.at \/ p = job.at
    BY <2>5
  <2>7. \A p \in Pages : flash'[p] = IF p = job.at THEN Blank ELSE flash[p]
    BY <2>1 DEF IInv, TypeOK
  <2>8. QED BY <1>5, <2>3, <2>4, <2>6, <2>7 DEF ErasedSoFar
<1>6. ASSUME NEW j, NEW status, Return(j, status) PROVE job'.call = "none"
  BY <1>6 DEF Return, NoJob
<1>7. ASSUME NEW rt \in RecordTypes,
             \/ Read(rt) \/ EnsureRedundancy(rt) \/ CallUninitialized(rt)
             \/ \E data \in Payloads : WriteEx(rt, data) \/ RecoverCorruptRecord(rt, data)
      PROVE  UNCHANGED <<flash, job>> \/ job'.call \notin {"format", "formatAll"}
  <2>1. CASE Read(rt) \/ CallUninitialized(rt)
    BY <2>1 DEF Read, CallUninitialized
  <2>2. CASE EnsureRedundancy(rt)
    BY <1>6, <2>2 DEF EnsureRedundancy, Refuse, Proceed, Call
  <2>3. ASSUME NEW data \in Payloads, WriteEx(rt, data) \/ RecoverCorruptRecord(rt, data)
        PROVE  job'.call \notin {"format", "formatAll"}
    BY <1>6, <2>3 DEF WriteEx, RecoverCorruptRecord, Refuse, Proceed, Call
  <2>4. QED BY <1>7, <2>1, <2>2, <2>3
<1>8. CASE EraseFails \/ ProgramFails \/ VerifyRecord
  BY <1>2, <1>6, <1>8 DEF EraseFails, ProgramFails, VerifyRecord
<1>9. CASE PowerLoss
  BY <1>2, <1>9 DEF PowerLoss, NoJob
<1>10. CASE StorageInit \/ UNCHANGED vars
  BY <1>1, <1>10 DEF StorageInit, vars
<1>11. CASE ProgramRecord
  <2>1. job' = job /\ job.call \in {"write", "mirror", "recover"}
    BY <1>11, TargetSlot DEF ProgramRecord
  <2>2. QED BY <1>2, <2>1
<1>12. ASSUME ErasePage, job.call \notin {"format", "formatAll"}
       PROVE  job'.call \notin {"format", "formatAll"}
  <2>1. CASE job' = [job EXCEPT !.at = @ + 1]
    <3>1. job'.call = job.call
      BY <2>1 DEF IInv, TypeOK
    <3>2. QED BY <1>12, <3>1
  <2>2. CASE job' = job \/ Return(job, "OK")
    BY <1>6, <1>12, <2>2
  <2>3. QED BY <1>12, <2>1, <2>2 DEF ErasePage
<1>13. QED
  BY <1>1, <1>2, <1>3, <1>4, <1>5, <1>7, <1>8, <1>9, <1>10, <1>11, <1>12 DEF Next

\* The store is idle exactly when it runs no job.
LEMMA IdleMaps ==
  ASSUME IInv
  PROVE  /\ pc \in {"off", "uninit", "idle"} => Running = Promise!Idle
         /\ pc \notin {"off", "uninit", "idle"} => Running # Promise!Idle
<1>1. job = NoJob => Running = Promise!Idle
  BY DEF Running, NoJob, Promise!Idle
<1>2. job.call # "none" => Running # Promise!Idle
  BY DEF Running, Promise!Idle
<1>3. QED BY <1>1, <1>2 DEF IInv, JobSafe

\* What the flash amounts to does not change where the flash does not.
LEMMA SameFlashMaps ==
  ASSUME UNCHANGED flash
  PROVE  /\ \A rt : Kept(rt)
         /\ UNCHANGED <<[rt \in RecordTypes |-> Stored(rt)], [rt \in RecordTypes |-> Spare(rt)],
                        [rt \in RecordTypes |-> Untouched(rt)]>>
<1>1. \A rt : Kept(rt)
  BY SameFlash, SlotsKept
<1>2. \A rt \in RecordTypes : Untouched(rt)' = Untouched(rt)
  BY SameFlash DEF Untouched
<1>3. QED BY <1>1, <1>2 DEF Kept

\* The factory state has no values and is blank.
LEMMA InitMaps == ASSUME Init PROVE Promise!Init
<1>1. IInv
  BY InitInv
<1>2. \A rt \in RecordTypes : At(rt, 0) = Blank /\ At(rt, 1) = Blank
  BY PagesDisjoint DEF Init, At, Slots
<1>3. \A rt \in RecordTypes : Untouched(rt) = TRUE
  BY <1>2 DEF Untouched
<1>4. \A rt \in RecordTypes : Stored(rt) = NoData /\ Spare(rt) = NoData
  BY <1>1, <1>3, HasValue DEF IInv
<1>5. Running = Promise!Idle /\ ret.status = "none"
  BY <1>1, IdleMaps DEF Init, NoRet
<1>6. QED BY <1>3, <1>4, <1>5 DEF Promise!Init

\* What a snapshot says of the record's value and backup.
LEMMA SnapshotMaps ==
  ASSUME IInv, NEW rt \in RecordTypes, NEW io \in SUBSET Slots
  PROVE  LET snap == Snapshot(rt, io) IN
         /\ BothErased(snap) => Untouched(rt)
         /\ ~IOErrorIn(snap) /\ ~BothErased(snap) => ~Untouched(rt)
         /\ ValidIn(snap) # {} =>
              /\ Stored(rt) # NoData
              /\ At(rt, NewestIn(rt, snap)).data \in {Stored(rt), Spare(rt)} \ {NoData}
         /\ ~IOErrorIn(snap) /\ ValidIn(snap) = {} => Stored(rt) = NoData
         /\ ValidIn(snap) = Slots => Spare(rt) # NoData
         /\ ~IOErrorIn(snap) /\ ValidIn(snap) \notin {{}, Slots} =>
              Spare(rt) = NoData /\ At(rt, NewestIn(rt, snap)).data = Stored(rt)
<1> DEFINE snap == Snapshot(rt, io)
           n == NewestIn(rt, snap)
<1>1. TypeOK /\ SequencesAdjacent
  BY DEF IInv
<1>2. /\ ValidIn(snap) \subseteq Valid(rt)
      /\ ~IOErrorIn(snap) => ValidIn(snap) = Valid(rt)
      /\ BothErased(snap) => Untouched(rt)
  BY SnapshotExact DEF Untouched
<1>3. ~IOErrorIn(snap) /\ ~BothErased(snap) => ~Untouched(rt)
  <2>1. \A s \in Slots : snap[s] = IF s \in io THEN "IO_ERROR" ELSE SlotState(rt, s)
    BY DEF Snapshot
  <2>2. Untouched(rt) => \A s \in Slots : SlotState(rt, s) = "ERASED"
    BY DEF Untouched, SlotState, Slots
  <2>3. QED BY <2>1, <2>2 DEF IOErrorIn, BothErased
<1>4. ValidIn(snap) # {} => n \in Slots /\ IsValid(rt, n)
  BY NewestIsValid
<1>5. ValidIn(snap) \subseteq Slots /\ Valid(rt) \subseteq Slots
  BY DEF ValidIn, Valid
<1>6. ValidIn(snap) = Slots => n = SelectNewest(rt)
  BY DEF NewestIn
<1> HIDE DEF snap, n
<1>7. ASSUME ValidIn(snap) # {} PROVE At(rt, n).data \in {Stored(rt), Spare(rt)}
  <2>1. n \in Slots /\ IsValid(rt, n) /\ 1 - n \in Slots /\ 1 - (1 - n) = n
    BY <1>4, <1>7 DEF Slots
  <2>2. CASE ~IsValid(rt, 1 - n)
    BY <2>1, <2>2, OneValid
  <2>3. CASE IsValid(rt, 1 - n)
    <3>1. Valid(rt) = Slots
      BY <2>1, <2>3 DEF Valid, Slots
    <3>2. \/ At(rt, n).seq = NextSeq(At(rt, 1 - n).seq)
          \/ At(rt, 1 - n).seq = NextSeq(At(rt, n).seq)
      BY <1>1, <2>1, <3>1 DEF SequencesAdjacent, Slots
    <3>3. QED BY <1>1, <2>1, <2>3, <3>2, BothValid
  <2>4. QED BY <2>2, <2>3
<1>8. ValidIn(snap) # {} => At(rt, n).data # NoData /\ Stored(rt) # NoData
  <2>1. IsValid(rt, n) /\ n \in Slots => At(rt, n).data # NoData
    BY <1>1, SlotContents, StorageAssumption
  <2>2. ValidIn(snap) # {} => Valid(rt) # {}
    BY <1>2
  <2>3. QED BY <1>1, <1>4, <2>1, <2>2, HasValue
<1>9. ~IOErrorIn(snap) /\ ValidIn(snap) = {} => Stored(rt) = NoData
  BY <1>1, <1>2, HasValue
<1>10. ValidIn(snap) = Slots => Spare(rt) # NoData
  BY <1>1, <1>2, <1>5, HasValue
<1>11. ASSUME ~IOErrorIn(snap), ValidIn(snap) \notin {{}, Slots}
       PROVE  Spare(rt) = NoData /\ At(rt, n).data = Stored(rt)
  <2>1. n \in Slots /\ IsValid(rt, n) /\ Valid(rt) # Slots
    BY <1>2, <1>4, <1>11
  <2>2. ~IsValid(rt, 1 - n)
    BY <2>1 DEF Valid, Slots
  <2>3. QED BY <2>1, <2>2, OneValid
<1>12. QED BY <1>2, <1>3, <1>7, <1>8, <1>9, <1>10, <1>11 DEF snap, n

\* A call that returns at once leaves the record as it was.
LEMMA RefuseMaps ==
  ASSUME IInv, pc = "idle", NEW call \in {"write", "mirror", "recover"}, NEW rt \in RecordTypes,
         NEW d, NEW status, Refuse(Call(call, rt, d), status),
         status \notin {"OK", "DONE"},
         status = "NOT_NEEDED" =>
           \/ call = "mirror" /\ Stored(rt) # NoData /\ Spare(rt) # NoData
           \/ call = "recover" /\ (Stored(rt) # NoData \/ Untouched(rt))
  PROVE  Promise!ReturnAtOnce
<1>1. /\ ret' = [call |-> call, type |-> rt, status |-> status, data |-> NoData]
      /\ job' = NoJob /\ flash' = flash
  BY DEF Refuse, Return, Call
<1>2. job = NoJob /\ Running' = Running /\ Running = Promise!Idle
  BY <1>1, IdleMaps DEF IInv, JobSafe, Running
<1>3. ret'.call = call /\ ret'.type = rt /\ ret'.status = status
  BY <1>1
<1>4. [r \in RecordTypes |-> Stored(r)][rt] = Stored(rt) /\ [r \in RecordTypes |-> Spare(r)][rt] = Spare(rt)
      /\ [r \in RecordTypes |-> Untouched(r)][rt] = Untouched(rt)
  OBVIOUS
<1>5. Promise!RefusedWith(call, rt, status)
  BY <1>4 DEF Promise!RefusedWith, Promise!Damaged
<1>6. QED BY <1>1, <1>2, <1>3, <1>5, SameFlashMaps DEF Promise!ReturnAtOnce

\* A call that goes on begins.
LEMMA ProceedMaps ==
  ASSUME IInv, pc = "idle", NEW call, NEW rt, NEW d, NEW lo, NEW hi, NEW target, NEW seq,
         Proceed(Call(call, rt, d), lo, hi, target, seq),
         \/ /\ call \in {"write", "recover"} /\ rt \in RecordTypes /\ d \in Payloads
            /\ call = "write" => Stored(rt) # NoData \/ Untouched(rt)
            /\ call = "recover" => Stored(rt) = NoData /\ ~Untouched(rt)
         \/ /\ call = "mirror" /\ rt \in RecordTypes
            /\ d = Stored(rt) /\ Stored(rt) # NoData /\ Spare(rt) = NoData
         \/ call = "format" /\ rt \in RecordTypes /\ d = NoData
         \/ call = "formatAll" /\ rt = AllTypes /\ d = NoData
  PROVE  Promise!Begin
<1>1. /\ job' = [call |-> call, type |-> rt, data |-> d, seq |-> seq,
                 at |-> lo, last |-> hi, target |-> target]
      /\ ret' = NoRet /\ flash' = flash
  BY ProceedSets
<1>2. Running' = [call |-> call, type |-> rt, data |-> d] /\ Running = Promise!Idle
  BY <1>1, IdleMaps DEF Running
<1>3. ret'.status = "none"
  BY <1>1 DEF NoRet
<1>4. rt \in RecordTypes =>
        /\ [r \in RecordTypes |-> Stored(r)][rt] = Stored(rt)
        /\ [r \in RecordTypes |-> Spare(r)][rt] = Spare(rt)
        /\ [r \in RecordTypes |-> Untouched(r)][rt] = Untouched(rt)
  OBVIOUS
<1>5. CASE call \in {"write", "recover"} /\ rt \in RecordTypes
  <2>1. Promise!Accepts(call, rt) /\ d \in Payloads
    BY <1>4, <1>5 DEF Promise!Accepts, Promise!Damaged
  <2>2. QED BY <1>1, <1>2, <1>3, <1>5, <2>1, SameFlashMaps DEF Promise!Begin
<1>6. CASE call = "mirror"
  <2>1. Promise!Accepts(call, rt) /\ Running' = Promise!MirrorOf(rt)
    BY <1>2, <1>4, <1>6 DEF Promise!Accepts, Promise!MirrorOf
  <2>2. QED BY <1>1, <1>2, <1>3, <1>6, <2>1, SameFlashMaps DEF Promise!Begin
<1>7. CASE call = "format" /\ rt \in RecordTypes /\ d = NoData
  BY <1>1, <1>2, <1>3, <1>7, SameFlashMaps DEF Promise!Begin
<1>8. CASE call = "formatAll" /\ rt = AllTypes /\ d = NoData
  <2>1. RecordTypes # {}
    BY StorageAssumption DEF RecordTypes
  <2>2. QED BY <1>1, <1>2, <1>3, <1>8, <2>1, SameFlashMaps DEF Promise!Begin
<1>9. QED BY <1>5, <1>6, <1>7, <1>8

\* Storage_Read gives the value, or the backup where the value cannot be read.
LEMMA ReadMaps == ASSUME IInv, NEW rt \in RecordTypes, Read(rt) PROVE Promise!ReturnAtOnce
<1>1. PICK io \in SUBSET Slots :
        ret' = [call |-> "read", type |-> rt, status |-> ReadStatus(rt, io),
                data |-> IF ReadStatus(rt, io) = "OK"
                         THEN At(rt, NewestIn(rt, Snapshot(rt, io))).data ELSE NoData]
  BY DEF Read
<1> DEFINE snap == Snapshot(rt, io)
           d == At(rt, NewestIn(rt, snap)).data
<1>2. pc = "idle" /\ flash' = flash /\ Running' = Running /\ Running = Promise!Idle
  BY IdleMaps DEF Read, Running
<1>3. /\ BothErased(snap) => Untouched(rt)
      /\ ~IOErrorIn(snap) /\ ~BothErased(snap) => ~Untouched(rt)
      /\ ValidIn(snap) # {} => d \in {Stored(rt), Spare(rt)} \ {NoData}
      /\ ~IOErrorIn(snap) /\ ValidIn(snap) = {} => Stored(rt) = NoData
  BY SnapshotMaps
<1>4. ReadStatus(rt, io) =
        IF ValidIn(snap) # {} THEN "OK"
        ELSE IF IOErrorIn(snap) THEN "IO_ERROR"
        ELSE IF BothErased(snap) THEN "NOT_FOUND" ELSE "CORRUPT"
  BY DEF ReadStatus
<1>5. ret' = [call |-> "read", type |-> rt, status |-> ReadStatus(rt, io),
              data |-> IF ReadStatus(rt, io) = "OK" THEN d ELSE NoData]
  BY <1>1
<1>6. [r \in RecordTypes |-> Stored(r)][rt] = Stored(rt) /\ [r \in RecordTypes |-> Spare(r)][rt] = Spare(rt)
      /\ [r \in RecordTypes |-> Untouched(r)][rt] = Untouched(rt)
  OBVIOUS
<1> HIDE DEF snap, d
<1>7. [status |-> ret'.status, data |-> ret'.data] \in Promise!ReadResults(rt)
  <2>1. CASE ReadStatus(rt, io) = "OK"
    <3>1. [status |-> ret'.status, data |-> ret'.data] = [status |-> "OK", data |-> d]
      BY <1>5, <2>1
    <3>2. d \in {Stored(rt), Spare(rt)} \ {NoData}
      BY <1>3, <1>4, <2>1
    <3>3. QED BY <1>6, <3>1, <3>2 DEF Promise!ReadResults
  <2>2. CASE ReadStatus(rt, io) # "OK"
    <3>1. [status |-> ret'.status, data |-> ret'.data]
            = [status |-> ReadStatus(rt, io), data |-> NoData]
      BY <1>5, <2>2
    <3>2. \/ ReadStatus(rt, io) = "IO_ERROR"
          \/ ReadStatus(rt, io) = "NOT_FOUND" /\ Untouched(rt)
          \/ ReadStatus(rt, io) = "CORRUPT" /\ ~Untouched(rt) /\ Stored(rt) = NoData
      BY <1>3, <1>4, <2>2
    <3>3. QED BY <1>6, <3>1, <3>2 DEF Promise!ReadResults, Promise!Damaged
  <2>3. QED BY <2>1, <2>2
<1>8. ret'.call = "read" /\ ret'.type = rt
  BY <1>5
<1>9. QED BY <1>2, <1>7, <1>8, SameFlashMaps DEF Promise!ReturnAtOnce

\* An uninitialized store answers at once, and never with success.
LEMMA UninitializedMaps ==
  ASSUME IInv, NEW rt \in RecordTypes, CallUninitialized(rt) PROVE Promise!ReturnAtOnce
<1>1. flash' = flash /\ Running' = Running /\ Running = Promise!Idle
  BY IdleMaps DEF CallUninitialized, Running
<1>2. \/ ret' = [call |-> "read", type |-> rt, status |-> "IO_ERROR", data |-> NoData]
      \/ \E call \in Calls, status \in {"IO_ERROR", "INVALID_ARGUMENT", "FAILED"} :
           ret' = [call |-> call, type |-> rt, status |-> status, data |-> NoData]
  BY DEF CallUninitialized, Calls
<1>3. CASE ret' = [call |-> "read", type |-> rt, status |-> "IO_ERROR", data |-> NoData]
  <2>1. ret'.call = "read" /\ [status |-> ret'.status, data |-> ret'.data]
                                = [status |-> "IO_ERROR", data |-> NoData]
    BY <1>3
  <2>2. [status |-> "IO_ERROR", data |-> NoData] \in Promise!ReadResults(ret'.type)
    BY DEF Promise!ReadResults
  <2>3. QED BY <1>1, <2>1, <2>2, SameFlashMaps DEF Promise!ReturnAtOnce
<1>4. CASE \E call \in Calls, status \in {"IO_ERROR", "INVALID_ARGUMENT", "FAILED"} :
             ret' = [call |-> call, type |-> rt, status |-> status, data |-> NoData]
  <2>1. ret'.call # "read" /\ ret'.status \notin {"OK", "DONE", "NOT_NEEDED"}
    BY <1>4 DEF Calls
  <2>2. QED BY <1>1, <2>1, SameFlashMaps DEF Promise!ReturnAtOnce, Promise!RefusedWith
<1>5. QED BY <1>2, <1>3, <1>4

\* Storage_WriteEx refuses, or begins on a record that is not damaged.
LEMMA WriteExMaps ==
  ASSUME IInv, NEW rt \in RecordTypes, NEW data \in Payloads, WriteEx(rt, data)
  PROVE  Promise!Begin \/ Promise!ReturnAtOnce
<1>1. PICK io \in SUBSET Slots :
        LET snap == Snapshot(rt, io)
            slot == SelectWriteSlot(rt, snap)
            page == PageOf(rt, slot)
            call == Call("write", rt, data)
        IN IF slot = NoSlot THEN Refuse(call, "UNSAFE_STATE")
           ELSE Proceed(call, page, page, page, NextSeq(BaseSeq(rt, snap)))
  BY DEF WriteEx
<1> DEFINE snap == Snapshot(rt, io)
           slot == SelectWriteSlot(rt, snap)
           page == PageOf(rt, slot)
<1>2. pc = "idle"
  BY DEF WriteEx
<1>3. CASE slot = NoSlot
  BY <1>1, <1>2, <1>3, RefuseMaps
<1>4. CASE slot # NoSlot
  <2>1. Proceed(Call("write", rt, data), page, page, page, NextSeq(BaseSeq(rt, snap)))
    BY <1>1, <1>4
  <2>2. BothErased(snap) \/ ValidIn(snap) # {}
    BY <1>4 DEF SelectWriteSlot
  <2>3. Stored(rt) # NoData \/ Untouched(rt)
    BY <2>2, SnapshotMaps
  <2>4. QED BY <1>2, <2>1, <2>3, ProceedMaps
<1>5. QED BY <1>3, <1>4

\* Storage_EnsureRedundancy refuses, or begins on a value without a backup.
LEMMA EnsureRedundancyMaps ==
  ASSUME IInv, NEW rt \in RecordTypes, EnsureRedundancy(rt)
  PROVE  Promise!Begin \/ Promise!ReturnAtOnce
<1>1. PICK io \in SUBSET Slots :
        LET snap == Snapshot(rt, io)
            source == At(rt, NewestIn(rt, snap))
            peer == PageOf(rt, 1 - NewestIn(rt, snap))
            call == Call("mirror", rt, NoData)
        IN IF ValidIn(snap) = Slots THEN Refuse(call, "NOT_NEEDED")
           ELSE IF BothErased(snap) THEN Refuse(call, "NOT_FOUND")
           ELSE IF IOErrorIn(snap) \/ ValidIn(snap) = {} THEN Refuse(call, "REFUSED")
           ELSE Proceed(Call("mirror", rt, source.data), peer, peer, peer, NextSeq(source.seq))
  BY DEF EnsureRedundancy
<1> DEFINE snap == Snapshot(rt, io)
           n == NewestIn(rt, snap)
           peer == PageOf(rt, 1 - n)
<1>2. pc = "idle"
  BY DEF EnsureRedundancy
<1>3. CASE ValidIn(snap) = Slots /\ Refuse(Call("mirror", rt, NoData), "NOT_NEEDED")
  <2>1. Stored(rt) # NoData /\ Spare(rt) # NoData
    BY <1>3, SnapshotMaps DEF Slots
  <2>2. QED BY <1>2, <1>3, <2>1, RefuseMaps
<1>4. CASE \E status \in {"NOT_FOUND", "REFUSED"} : Refuse(Call("mirror", rt, NoData), status)
  BY <1>2, <1>4, RefuseMaps
<1>5. CASE /\ ValidIn(snap) # Slots /\ ~IOErrorIn(snap) /\ ValidIn(snap) # {}
           /\ Proceed(Call("mirror", rt, At(rt, n).data), peer, peer, peer, NextSeq(At(rt, n).seq))
  <2>1. At(rt, n).data = Stored(rt) /\ Stored(rt) # NoData /\ Spare(rt) = NoData
    BY <1>5, SnapshotMaps
  <2>2. QED BY <1>2, <1>5, <2>1, ProceedMaps
<1>6. QED BY <1>1, <1>3, <1>4, <1>5

\* Storage_RecoverCorruptRecord refuses, or begins on a damaged record.
LEMMA RecoverCorruptRecordMaps ==
  ASSUME IInv, NEW rt \in RecordTypes, NEW data \in Payloads, RecoverCorruptRecord(rt, data)
  PROVE  Promise!Begin \/ Promise!ReturnAtOnce
<1>1. PICK io \in SUBSET Slots :
        LET snap == Snapshot(rt, io)
            call == Call("recover", rt, data)
        IN IF IOErrorIn(snap) THEN Refuse(call, "IO_ERROR")
           ELSE IF ValidIn(snap) # {} \/ BothErased(snap) THEN Refuse(call, "NOT_NEEDED")
           ELSE Proceed(call, PageOf(rt, 0), PageOf(rt, 1), PageOf(rt, 0), 1)
  BY DEF RecoverCorruptRecord
<1> DEFINE snap == Snapshot(rt, io)
<1>2. pc = "idle"
  BY DEF RecoverCorruptRecord
<1>3. CASE Refuse(Call("recover", rt, data), "IO_ERROR")
  BY <1>2, <1>3, RefuseMaps
<1>4. CASE (ValidIn(snap) # {} \/ BothErased(snap)) /\ Refuse(Call("recover", rt, data), "NOT_NEEDED")
  <2>1. Stored(rt) # NoData \/ Untouched(rt)
    BY <1>4, SnapshotMaps
  <2>2. QED BY <1>2, <1>4, <2>1, RefuseMaps
<1>5. CASE /\ ~IOErrorIn(snap) /\ ValidIn(snap) = {} /\ ~BothErased(snap)
           /\ Proceed(Call("recover", rt, data), PageOf(rt, 0), PageOf(rt, 1), PageOf(rt, 0), 1)
  <2>1. Stored(rt) = NoData /\ ~Untouched(rt)
    BY <1>5, SnapshotMaps
  <2>2. QED BY <1>2, <1>5, <2>1, ProceedMaps
<1>6. QED BY <1>1, <1>3, <1>4, <1>5

\* Formatting begins whatever the record holds.
LEMMA FormatMaps ==
  ASSUME IInv, Format \/ \E rt \in RecordTypes : FormatRecord(rt) PROVE Promise!Begin
BY ProceedMaps DEF Format, FormatRecord

\* A record whose two pages are erased has neither a value nor a backup.
LEMMA ErasedHasNone ==
  ASSUME NEW rt, Untouched(rt)'
  PROVE  Stored(rt)' = NoData /\ Spare(rt)' = NoData
<1>1. Valid(rt)' = {}
  BY DEF Untouched, Valid, IsValid, Slots
<1>2. QED BY <1>1 DEF Stored, Spare, Slots

\* After a step, the other valid copy of a record is its backup.
LEMMA SpareWillBe ==
  ASSUME flash' \in [Pages -> Record \cup {Blank, Junk}],
         NEW rt \in RecordTypes, NEW s \in Slots, IsValid(rt, s)',
         IsValid(rt, 1 - s)' => At(rt, s)'.seq = NextSeq(At(rt, 1 - s)'.seq)
  PROVE  Spare(rt)' = IF IsValid(rt, 1 - s)' THEN At(rt, 1 - s)'.data ELSE NoData
<1>1. CASE IsValid(rt, 1 - s)'
  <2>1. Valid(rt)' = Slots
    BY <1>1 DEF Valid, Slots
  <2>2. At(rt, s)'.seq \in SeqNums /\ At(rt, 1 - s)'.seq \in SeqNums
    <3>1. At(rt, s)' \in Record /\ At(rt, 1 - s)' \in Record
      BY <1>1, PagesDisjoint DEF At, IsValid, Slots
    <3>2. QED BY <3>1 DEF Record
  <2>3. SelectNewest(rt)' = s
    BY <1>1, <2>2, Successor DEF SelectNewest, Slots
  <2>4. QED BY <1>1, <2>1, <2>3 DEF Spare
<1>2. CASE ~IsValid(rt, 1 - s)'
  <2>1. Valid(rt)' # Slots
    BY <1>2 DEF Valid, Slots
  <2>2. QED BY <1>2, <2>1 DEF Spare
<1>3. QED BY <1>1, <1>2

\* A step of a call that changes one record, in a way open to the call.
LEMMA OneRecordEffect ==
  ASSUME IInv, pc \in {"erase", "program", "verify"},
         NEW r \in RecordTypes, job.type \in {r, AllTypes},
         \A rt \in RecordTypes : rt # r => Kept(rt),
         \/ Stored(r)' = Stored(r) /\ Spare(r)' \in {Spare(r), NoData}
         \/ /\ job.call \in {"format", "formatAll"}
            /\ Stored(r)' = Spare(r) /\ Spare(r)' = NoData
         \/ /\ job.call \in {"write", "mirror", "recover"} /\ job.type = r
            /\ Stored(r)' = job.data /\ Spare(r)' = Stored(r),
         Untouched(r)' /\ ~Untouched(r) => job.call \in {"recover", "format", "formatAll"}
  PROVE  Promise!Effect
<1> DEFINE value == [rt \in RecordTypes |-> Stored(rt)]
           backup == [rt \in RecordTypes |-> Spare(rt)]
           blank == [rt \in RecordTypes |-> Untouched(rt)]
<1>1. Running # Promise!Idle
  BY IdleMaps
<1>2. Promise!Concerns(r) /\ Running.call = job.call /\ Running.type = job.type /\ Running.data = job.data
  BY <1>1 DEF Promise!Concerns, Running
<1>3. /\ value' = [value EXCEPT ![r] = Stored(r)']
      /\ backup' = [backup EXCEPT ![r] = Spare(r)']
  BY DEF Kept
<1>4. value[r] = Stored(r) /\ backup[r] = Spare(r)
  OBVIOUS
<1>5. Promise!BlankFollows
  <2>1. blank' \in [RecordTypes -> BOOLEAN]
    BY DEF Untouched
  <2>2. ASSUME NEW rt \in RecordTypes
        PROVE  /\ blank'[rt] => value'[rt] = NoData
               /\ ~Promise!Concerns(rt) => blank'[rt] = blank[rt]
               /\ blank'[rt] /\ ~blank[rt] => Running.call \in {"recover", "format", "formatAll"}
    <3>1. blank'[rt] = Untouched(rt)' /\ blank[rt] = Untouched(rt) /\ value'[rt] = Stored(rt)'
      OBVIOUS
    <3>2. rt # r => (Untouched(rt)' <=> Untouched(rt))
      BY DEF Kept
    <3>3. Untouched(rt)' => Stored(rt)' = NoData
      BY ErasedHasNone
    <3>4. Untouched(rt)' \in BOOLEAN /\ Untouched(rt) \in BOOLEAN
      BY DEF Untouched
    <3>5. CASE rt = r
      BY <1>2, <3>1, <3>3, <3>5
    <3>6. CASE rt # r
      BY <3>1, <3>2, <3>3, <3>4, <3>6
    <3>7. QED BY <3>5, <3>6
  <2>3. QED BY <2>1, <2>2 DEF Promise!BlankFollows
<1>6. CASE Stored(r)' = Stored(r) /\ Spare(r)' = Spare(r)
  <2>1. value' = value /\ backup' = backup
    BY <1>3, <1>6
  <2>2. QED BY <1>5, <2>1 DEF Promise!Effect
<1>7. CASE Stored(r)' = Stored(r) /\ Spare(r)' = NoData
  <2>1. value' = value /\ backup' = [backup EXCEPT ![r] = NoData]
    BY <1>3, <1>7
  <2>2. Promise!DropBackup(r)
    BY <1>2, <2>1 DEF Promise!DropBackup
  <2>3. QED BY <1>5, <2>2 DEF Promise!Effect
<1>8. CASE job.call \in {"format", "formatAll"} /\ Stored(r)' = Spare(r) /\ Spare(r)' = NoData
  <2>1. value' = [value EXCEPT ![r] = backup[r]] /\ backup' = [backup EXCEPT ![r] = NoData]
    BY <1>3, <1>4, <1>8
  <2>2. Promise!GiveUpValue(r)
    BY <1>2, <1>8, <2>1 DEF Promise!GiveUpValue
  <2>3. QED BY <1>5, <2>2 DEF Promise!Effect
<1>9. CASE /\ job.call \in {"write", "mirror", "recover"} /\ job.type = r
           /\ Stored(r)' = job.data /\ Spare(r)' = Stored(r)
  <2>1. /\ value' = [value EXCEPT ![Running.type] = Running.data]
        /\ backup' = [backup EXCEPT ![Running.type] = value[Running.type]]
    BY <1>2, <1>3, <1>4, <1>9
  <2>2. Promise!TakeEffect
    BY <1>2, <1>9, <2>1 DEF Promise!TakeEffect
  <2>3. QED BY <1>5, <2>2 DEF Promise!Effect
<1>10. QED BY <1>6, <1>7, <1>8, <1>9

\* A step of a call that leaves the flash alone.
LEMMA NoEffect ==
  ASSUME IInv, UNCHANGED flash PROVE Promise!Effect
<1>1. \A rt \in RecordTypes : Untouched(rt)' => Stored(rt)' = NoData
  BY ErasedHasNone
<1>2. \A rt \in RecordTypes : Untouched(rt) \in BOOLEAN /\ Untouched(rt)' = Untouched(rt)
  BY SameFlash DEF Untouched
<1>3. Promise!BlankFollows
  BY <1>1, <1>2 DEF Promise!BlankFollows
<1>4. QED BY <1>3, SameFlashMaps DEF Promise!Effect

\* What erasing a page, well or badly, does to the records.
LEMMA EraseFacts ==
  ASSUME IInv, pc = "erase", NEW c \in {flash[job.at], Blank, Junk},
         flash' = [flash EXCEPT ![job.at] = c]
  PROVE  \E r \in RecordTypes :
           /\ job.type \in {r, AllTypes}
           /\ \A rt \in RecordTypes : rt # r => Kept(rt)
           /\ \/ Stored(r)' = Stored(r) /\ Spare(r)' \in {Spare(r), NoData}
              \/ /\ job.call \in {"format", "formatAll"}
                 /\ Stored(r)' = Spare(r) /\ Spare(r)' = NoData
           /\ Untouched(r)' /\ ~Untouched(r) => job.call \in {"recover", "format", "formatAll"}
<1>1. PICK r \in RecordTypes, s \in Slots : job.at = PageOf(r, s)
  BY PageIsSlot DEF IInv, TypeOK
<1>2. TypeOK /\ SequencesAdjacent /\ c \in {At(r, s), Blank, Junk}
      /\ flash' = [flash EXCEPT ![PageOf(r, s)] = c]
  BY <1>1 DEF IInv, At
<1>3. /\ \A rt \in RecordTypes : rt # r => Kept(rt)
      /\ \/ Stored(r)' = Stored(r) /\ Spare(r)' \in {Spare(r), NoData}
         \/ Stored(r)' = Spare(r) /\ Spare(r)' = NoData
  BY <1>2, SlotErased
<1>4. c \in Record \cup {Blank, Junk}
  BY <1>2, SlotContents
<1>5. \A t \in Slots : t # s => At(r, t)' = At(r, t)
  <2>1. TypeOK /\ flash' = [flash EXCEPT ![PageOf(r, s)] = c]
    BY <1>2
  <2>2. \A q \in RecordTypes, t \in Slots : q # r \/ t # s => At(q, t)' = At(q, t)
    BY ZenonT(60), <1>4, <2>1, OnePageWritten
  <2>3. QED BY <2>2
<1>6. CASE job.call \in {"format", "formatAll"}
  <2>1. job.type \in {r, AllTypes}
    <3>1. CASE job.call = "format"
      <4>1. job.type \in RecordTypes /\ \E t \in Slots : job.at = PageOf(job.type, t)
        BY <3>1 DEF IInv, JobSafe, Target, Slots
      <4>2. QED BY <1>1, <4>1, PagesDisjoint
    <3>2. CASE job.call = "formatAll"
      BY <3>2 DEF IInv, JobSafe
    <3>3. QED BY <1>6, <3>1, <3>2
  <2>2. QED BY <1>3, <1>6, <2>1
<1>7. CASE job.call \notin {"format", "formatAll"}
  <2>1. job.call \in {"write", "mirror", "recover"}
    BY <1>7, RunningCall DEF Calls
  <2>2. job.type \in RecordTypes /\ \E t \in Slots : job.at = PageOf(job.type, t)
    BY <2>1 DEF IInv, JobSafe, OverwritesOneSlot, RewritesBothSlots, Target, Slots
  <2>3. job.type = r
    BY <1>1, <2>2, PagesDisjoint
  <2>4. Stored(r)' = Stored(r)
    BY <1>7, ErasedKeepsStored
  <2>5. Spare(r)' \in {Spare(r), NoData}
    BY <1>3
  <2>6. ASSUME job.call \in {"write", "mirror"}, Untouched(r)' PROVE Untouched(r)
    <3>1. PICK t \in Slots :
            /\ job.at = PageOf(r, t)
            /\ IsValid(r, 1 - t) \/ (At(r, 1 - t) = Blank /\ At(r, t) = Blank)
      BY <2>3, <2>6 DEF IInv, JobSafe, OverwritesOneSlot, Target
    <3>2. t = s
      BY <1>1, <3>1, PagesDisjoint
    <3>3. At(r, 1 - s) = Blank
      <4>1. 1 - s \in Slots /\ 1 - s # s
        BY DEF Slots
      <4>2. At(r, 1 - s)' = Blank
        BY <2>6, <4>1 DEF Untouched, Slots
      <4>3. QED BY <1>5, <4>1, <4>2
    <3>4. At(r, s) = Blank /\ At(r, 1 - s) = Blank
      BY <3>1, <3>2, <3>3 DEF IsValid
    <3>5. QED BY <3>4 DEF Untouched, Slots
  <2>7. Untouched(r)' /\ ~Untouched(r) => job.call \in {"recover", "format", "formatAll"}
    BY <2>1, <2>6
  <2>8. QED BY <1>3, <2>3, <2>4, <2>5, <2>7
<1>8. QED BY <1>6, <1>7

\* Such an erase is open to the running call.
LEMMA EraseEffect ==
  ASSUME IInv, pc = "erase", NEW c \in {flash[job.at], Blank, Junk},
         flash' = [flash EXCEPT ![job.at] = c]
  PROVE  Promise!Effect
BY EraseFacts, OneRecordEffect

\* What programming the target page, well or badly, does to the records.
LEMMA ProgramFacts ==
  ASSUME IInv, pc = "program", NEW c \in {Blank, Junk, NewRecord},
         flash' = [flash EXCEPT ![job.target] = c]
  PROVE  \E r \in RecordTypes :
           /\ job.type = r /\ job.call \in {"write", "mirror", "recover"}
           /\ \A rt \in RecordTypes : rt # r => Kept(rt)
           /\ \/ Stored(r)' = Stored(r) /\ Spare(r)' \in {Spare(r), NoData}
              \/ Stored(r)' = job.data /\ Spare(r)' = Stored(r)
           /\ Untouched(r)' => Untouched(r)
<1>1. PICK r \in RecordTypes, s \in Slots :
        /\ r = job.type /\ job.target = PageOf(r, s)
        /\ IsValid(r, 1 - s) => job.seq = NextSeq(At(r, 1 - s).seq)
  BY TargetSlot
<1>2. /\ NewRecord \in Record /\ c \in Record \cup {Blank, Junk}
      /\ job.call \in {"write", "mirror", "recover"}
  BY TargetSlot
<1>3. TypeOK /\ SequencesAdjacent /\ flash' = [flash EXCEPT ![PageOf(r, s)] = c]
  BY <1>1 DEF IInv
<1>4. /\ flash' \in [Pages -> Record \cup {Blank, Junk}]
      /\ At(r, s)' = c
      /\ \A q \in RecordTypes, t \in Slots : q # r \/ t # s => At(q, t)' = At(q, t)
  BY ZenonT(60), <1>2, <1>3, OnePageWritten
<1>5. At(r, s) = Blank /\ ~IsValid(r, s)
  BY <1>1 DEF IInv, JobSafe, At, IsValid
<1>6. 1 - s \in Slots /\ 1 - s # s /\ 1 - (1 - s) = s
  BY DEF Slots
<1>7. \A rt \in RecordTypes : rt # r => Kept(rt)
  BY <1>4, SlotsKept
<1>8. At(r, 1 - s)' = At(r, 1 - s)
  BY <1>4, <1>6
<1>9. Untouched(r)' => Untouched(r)
  BY <1>5, <1>6, <1>8 DEF Untouched, Slots
<1>10. Spare(r) = NoData
  <2>1. Valid(r) # Slots
    BY <1>5 DEF Valid
  <2>2. QED BY <2>1 DEF Spare
<1>11. CASE c = NewRecord
  <2>1. IsValid(r, s)' /\ At(r, s)'.data = job.data /\ At(r, s)'.seq = job.seq
    <3>1. NewRecord.type = r /\ NewRecord.data = job.data /\ NewRecord.seq = job.seq
      BY <1>1 DEF NewRecord
    <3>2. NewRecord \notin {Blank, Junk}
      BY <1>2, StorageAssumption
    <3>3. QED BY <1>4, <1>11, <3>1, <3>2 DEF IsValid
  <2>2. IsValid(r, 1 - s)' = IsValid(r, 1 - s)
    BY <1>8 DEF IsValid
  <2>3. IsValid(r, 1 - s)' => At(r, s)'.seq = NextSeq(At(r, 1 - s)'.seq)
    BY <1>1, <1>8, <2>1, <2>2
  <2>4. Stored(r)' = job.data
    BY <1>4, <2>1, <2>3, StoredWillBe
  <2>5. Spare(r)' = IF IsValid(r, 1 - s)' THEN At(r, 1 - s)'.data ELSE NoData
    BY <1>4, <2>1, <2>3, SpareWillBe
  <2>6. Stored(r) = IF IsValid(r, 1 - s) THEN At(r, 1 - s).data ELSE NoData
    <3>1. CASE IsValid(r, 1 - s)
      BY <1>5, <1>6, <3>1, OneValid
    <3>2. CASE ~IsValid(r, 1 - s)
      <4>1. Valid(r) = {}
        BY <1>5, <3>2 DEF Valid, Slots
      <4>2. QED BY <3>2, <4>1 DEF Stored
    <3>3. QED BY <3>1, <3>2
  <2>7. Spare(r)' = Stored(r)
    BY <1>8, <2>2, <2>5, <2>6
  <2>8. QED BY <1>1, <1>2, <1>7, <1>9, <2>4, <2>7
<1>12. CASE c \in {Blank, Junk}
  <2>1. \/ Stored(r)' = Stored(r) /\ Spare(r)' \in {Spare(r), NoData}
        \/ Stored(r)' = Spare(r) /\ Spare(r)' = NoData
    <3>1. c \in {At(r, s), Blank, Junk}
      BY <1>12
    <3>2. QED BY <1>3, <3>1, SlotErased
  <2>2. Stored(r)' = Stored(r) \/ Stored(r)' = job.data
    BY ProgrammedStores
  <2>3. job.data # NoData
    <3>1. job.data \in Payloads
      BY <1>2 DEF NewRecord, Record
    <3>2. QED BY <3>1, StorageAssumption
  <2>4. Stored(r)' = Stored(r) /\ Spare(r)' \in {Spare(r), NoData}
    BY <1>10, <2>1, <2>2, <2>3
  <2>5. QED BY <1>1, <1>2, <1>7, <1>9, <2>4
<1>13. QED BY <1>11, <1>12

\* Such a program is open to the running call.
LEMMA ProgramEffect ==
  ASSUME IInv, pc = "program", NEW c \in {Blank, Junk, NewRecord},
         flash' = [flash EXCEPT ![job.target] = c]
  PROVE  Promise!Effect
BY ProgramFacts, OneRecordEffect

\* A call that returns is the running call ended.
LEMMA ReturnMaps ==
  ASSUME IInv, pc \in {"erase", "program", "verify"}, NEW status, Return(job, status),
         Promise!Effect, status # "NOT_NEEDED", status \in {"OK", "DONE"} => Promise!Achieved
  PROVE  Promise!End
<1>1. job' = NoJob
      /\ ret' = [call |-> job.call, type |-> job.type, status |-> status, data |-> NoData]
  BY DEF Return
<1>2. Running # Promise!Idle
  BY IdleMaps
<1>3. Running' = Promise!Idle
  BY <1>1 DEF Running, NoJob, Promise!Idle
<1>4. ret'.call = Running.call /\ ret'.type = Running.type /\ ret'.status = status
  BY <1>1 DEF Running
<1>5. QED BY <1>2, <1>3, <1>4 DEF Promise!End

\* A failed flash operation is not reported as a success.
LEMMA FailureIsReported ==
  ASSUME NEW status \in {"IO_ERROR", "VERIFY_FAILED"}
  PROVE  Failure(status) \notin {"OK", "DONE", "NOT_NEEDED"}
BY DEF Failure

\* A call goes on while its flash operations succeed.
LEMMA WorkMaps ==
  ASSUME IInv, pc \in {"erase", "program", "verify"}, Promise!Effect, UNCHANGED <<Running, ret>>
  PROVE  Promise!Work
BY IdleMaps DEF Promise!Work

\* An erase that fails ends the call.
LEMMA EraseFailsMaps == ASSUME IInv, EraseFails PROVE Promise!End
<1>1. pc = "erase" /\ Return(job, Failure("IO_ERROR"))
  BY DEF EraseFails
<1>2. Promise!Effect
  BY EraseEffect DEF EraseFails
<1>3. QED BY <1>1, <1>2, FailureIsReported, ReturnMaps

\* A program that fails ends the call, which may have had its effect.
LEMMA ProgramFailsMaps == ASSUME IInv, ProgramFails PROVE Promise!End
<1>1. pc = "program" /\ Return(job, Failure("IO_ERROR"))
  BY DEF ProgramFails
<1>2. Promise!Effect
  BY ProgramEffect DEF ProgramFails
<1>3. QED BY <1>1, <1>2, FailureIsReported, ReturnMaps

\* A program reported as successful is the effect of the call, or no change.
LEMMA ProgramRecordMaps == ASSUME IInv, ProgramRecord PROVE Promise!Work
<1>1. pc = "program" /\ UNCHANGED <<Running, ret>>
  BY DEF ProgramRecord, Running
<1>2. Promise!Effect
  BY ProgramEffect DEF ProgramRecord
<1>3. QED BY <1>1, <1>2, WorkMaps

\* The verification ends the call; it reports success only of a record in place.
LEMMA VerifyRecordMaps == ASSUME IInv, VerifyRecord PROVE Promise!End
<1>1. pc = "verify" /\ flash' = flash
  BY DEF VerifyRecord
<1>2. Promise!Effect
  BY <1>1, NoEffect
<1>3. CASE Return(job, Failure("IO_ERROR")) \/ Return(job, Failure("VERIFY_FAILED"))
  BY <1>1, <1>2, <1>3, FailureIsReported, ReturnMaps
<1>4. CASE flash[job.target] = NewRecord /\ Return(job, Success)
  <2>1. PICK r \in RecordTypes, s \in Slots :
          /\ r = job.type /\ job.target = PageOf(r, s)
          /\ IsValid(r, 1 - s) => job.seq = NextSeq(At(r, 1 - s).seq)
    BY <1>1, TargetSlot
  <2>2. NewRecord \in Record /\ job.call \in {"write", "mirror", "recover"}
    BY <1>1, TargetSlot
  <2>3. IsValid(r, s) /\ At(r, s).data = job.data /\ At(r, s).seq = job.seq
    <3>1. NewRecord.type = r /\ NewRecord.data = job.data /\ NewRecord.seq = job.seq
      BY <2>1 DEF NewRecord
    <3>2. NewRecord \notin {Blank, Junk} /\ At(r, s) = NewRecord
      BY <1>4, <2>1, <2>2, StorageAssumption DEF At
    <3>3. QED BY <3>1, <3>2 DEF IsValid
  <2>4. Stored(r) = job.data
    <3>1. IsValid(r, 1 - s) => At(r, s).seq = NextSeq(At(r, 1 - s).seq)
      BY <2>1, <2>3
    <3>2. QED BY <2>3, <3>1, StoredIs DEF IInv
  <2>5. ASSUME job.call = "mirror" PROVE Spare(r) = job.data
    <3>1. PICK t \in Slots :
            /\ job.target = PageOf(r, t) /\ IsValid(r, 1 - t)
            /\ job.data = At(r, 1 - t).data
      BY <2>1, <2>5 DEF IInv, JobSafe, OverwritesOneSlot, Target
    <3>2. t = s
      BY <2>1, <3>1 DEF PageOf, RecordTypes, Slots
    <3>3. Spare(r) = At(r, 1 - s).data
      BY <2>1, <2>3, <3>1, <3>2, BothValid DEF IInv
    <3>4. QED BY <3>1, <3>2, <3>3
  <2>6. Promise!Achieved
    <3>1. Stored(r)' = Stored(r) /\ Spare(r)' = Spare(r)
      BY <1>1, SameFlashMaps DEF Kept
    <3>2. /\ [rt \in RecordTypes |-> Stored(rt)]'[r] = Stored(r)'
          /\ [rt \in RecordTypes |-> Spare(rt)]'[r] = Spare(r)'
      OBVIOUS
    <3>3. Running.call = job.call /\ Running.type = r /\ Running.data = job.data
      BY <2>1 DEF Running
    <3>4. Running.call \notin {"format", "formatAll"}
      BY <2>2, <3>3
    <3>5. QED BY <2>4, <2>5, <3>1, <3>2, <3>3, <3>4 DEF Promise!Achieved
  <2>7. Success # "NOT_NEEDED"
    BY DEF Success
  <2>8. QED BY <1>1, <1>2, <1>4, <2>6, <2>7, ReturnMaps
<1>5. QED BY <1>3, <1>4 DEF VerifyRecord

\* An erase goes on, or ends a formatting that has erased all it concerns.
LEMMA ErasePageMaps ==
  ASSUME IInv, ErasedSoFar, ErasePage PROVE Promise!Work \/ Promise!End
<1>1. pc = "erase" /\ flash' = [flash EXCEPT ![job.at] = Blank]
  BY DEF ErasePage
<1>2. Promise!Effect
  BY <1>1, EraseEffect
<1>3. CASE job' = [job EXCEPT !.at = @ + 1] /\ UNCHANGED <<pc, ret>>
  <2>1. job'.call = job.call /\ job'.type = job.type /\ job'.data = job.data
    BY <1>3 DEF IInv, TypeOK
  <2>2. Running' = Running
    BY <2>1 DEF Running
  <2>3. QED BY <1>1, <1>2, <1>3, <2>2, WorkMaps
<1>4. CASE UNCHANGED <<job, ret>>
  <2>1. Running' = Running
    BY <1>4 DEF Running
  <2>2. QED BY <1>1, <1>2, <1>4, <2>1, WorkMaps
<1>5. CASE ~(job.at < job.last) /\ job.target = NoPage /\ Return(job, "OK")
  <2>1. job.call \in {"format", "formatAll"}
    <3>1. \A p \in Pages : p # NoPage
      BY DEF Pages, NoPage
    <3>2. \A rt \in RecordTypes, t \in Slots : PageOf(rt, t) # NoPage
      BY <3>1, PagesDisjoint
    <3>3. job.call \notin {"write", "mirror", "recover"}
      BY <1>5, <3>2 DEF IInv, JobSafe, OverwritesOneSlot, RewritesBothSlots, Target, Slots
    <3>4. QED BY <1>1, <3>3, RunningCall DEF Calls
  <2> DEFINE first == IF job.call = "format" THEN Target(0) ELSE 0
  <2>2. job.at = job.last
    <3>1. job.at <= job.last /\ job.at \in Int /\ job.last \in Int
      BY <2>1 DEF IInv, JobSafe, TypeOK, Pages
    <3>2. QED BY <1>5, <3>1
  <2>3. \A p \in Pages : first <= p /\ p <= job.last => flash'[p] = Blank
    <3>1. \A p \in Pages : p \in Int
      BY DEF Pages
    <3>2. job.at \in Pages
      BY DEF IInv, TypeOK
    <3>3. \A p \in Pages : flash'[p] = IF p = job.at THEN Blank ELSE flash[p]
      BY <1>1 DEF IInv, TypeOK
    <3>4. \A p \in Pages : first <= p /\ p < job.at => flash[p] = Blank
      BY <2>1 DEF ErasedSoFar
    <3>5. QED BY <2>2, <3>1, <3>2, <3>3, <3>4
  <2>4. ASSUME NEW rt \in RecordTypes, Promise!Concerns(rt)
        PROVE  flash'[PageOf(rt, 0)] = Blank /\ flash'[PageOf(rt, 1)] = Blank
    <3>1. PageOf(rt, 0) \in Pages /\ PageOf(rt, 1) \in Pages
      BY PagesDisjoint DEF Slots
    <3>2. CASE job.call = "format"
      <4>1. job.type = rt
        <5>1. job.type \in RecordTypes /\ job.type \in {rt, AllTypes}
          BY <2>4, <3>2 DEF IInv, JobSafe, Promise!Concerns, Running
        <5>2. QED BY <5>1 DEF RecordTypes, AllTypes
      <4>2. first = PageOf(rt, 0) /\ job.last = PageOf(rt, 1)
        BY <2>1, <3>2, <4>1 DEF ErasedSoFar, Target
      <4>3. PageOf(rt, 0) <= PageOf(rt, 1) /\ PageOf(rt, 0) <= PageOf(rt, 0)
            /\ PageOf(rt, 1) <= PageOf(rt, 1)
        BY DEF PageOf, RecordTypes
      <4>4. QED BY <2>3, <3>1, <4>2, <4>3
    <3>3. CASE job.call = "formatAll"
      <4>1. first = 0 /\ job.last = 2 * RecordTypeCount - 1
        BY <2>1, <3>3 DEF ErasedSoFar
      <4>2. \A p \in Pages : 0 <= p /\ p <= 2 * RecordTypeCount - 1
        BY StorageAssumption DEF Pages
      <4>3. QED BY <2>3, <3>1, <4>1, <4>2
    <3>4. QED BY <2>1, <3>2, <3>3
  <2>5. Promise!Achieved
    <3>1. ASSUME NEW rt \in RecordTypes, Promise!Concerns(rt)
          PROVE  Stored(rt)' = NoData /\ Spare(rt)' = NoData /\ Untouched(rt)'
      <4>1. Untouched(rt)'
        BY <2>4, <3>1 DEF Untouched, At
      <4>2. QED BY <4>1, ErasedHasNone
    <3>2. \A rt \in RecordTypes :
            /\ [r \in RecordTypes |-> Stored(r)]'[rt] = Stored(rt)'
            /\ [r \in RecordTypes |-> Spare(r)]'[rt] = Spare(rt)'
            /\ [r \in RecordTypes |-> Untouched(r)]'[rt] = Untouched(rt)'
      OBVIOUS
    <3>3. Running.call \notin {"write", "mirror", "recover"}
      BY <2>1 DEF Running
    <3>4. QED BY <3>1, <3>2, <3>3 DEF Promise!Achieved
  <2>6. QED BY <1>1, <1>2, <1>5, <2>5, ReturnMaps
<1>6. QED BY <1>3, <1>4, <1>5 DEF ErasePage

\* Power loss interrupts the call, which may have had its effect.
LEMMA PowerLossMaps == ASSUME IInv, PowerLoss PROVE Promise!PowerLoss
<1>1. job' = NoJob /\ ret' = NoRet
  BY DEF PowerLoss
<1>2. Running' = Promise!Idle /\ ret'.status = "none"
  BY <1>1 DEF Running, NoJob, NoRet, Promise!Idle
<1>3. CASE pc = "erase"
  <2>1. Promise!Effect
    BY <1>3, EraseEffect DEF PowerLoss, TornPages
  <2>2. QED BY <1>2, <1>3, <2>1, IdleMaps DEF Promise!PowerLoss
<1>4. CASE pc = "program"
  <2>1. Promise!Effect
    BY <1>4, ProgramEffect DEF PowerLoss, TornPages
  <2>2. QED BY <1>2, <1>4, <2>1, IdleMaps DEF Promise!PowerLoss
<1>5. CASE pc \notin {"erase", "program"}
  <2>1. flash' = flash
    BY <1>5 DEF PowerLoss, TornPages
  <2>2. QED BY <1>2, <2>1, NoEffect, SameFlashMaps DEF Promise!PowerLoss
<1>6. QED BY <1>3, <1>4, <1>5

\* Every step of the store is a step of the atomic record, or none.
LEMMA StepMaps ==
  ASSUME IInv, ErasedSoFar, [Next]_vars PROVE [Promise!Next]_(Promise!vars)
<1>1. CASE StorageInit \/ UNCHANGED vars
  <2>1. flash' = flash /\ Running' = Running /\ ret' = ret
    BY <1>1 DEF StorageInit, vars, Running
  <2>2. QED BY <2>1, SameFlashMaps DEF Promise!vars
<1>2. ASSUME NEW rt \in RecordTypes,
             \/ Read(rt) \/ EnsureRedundancy(rt) \/ FormatRecord(rt) \/ CallUninitialized(rt)
             \/ \E data \in Payloads : WriteEx(rt, data) \/ RecoverCorruptRecord(rt, data)
      PROVE  Promise!Begin \/ Promise!ReturnAtOnce
  BY <1>2, ReadMaps, EnsureRedundancyMaps, FormatMaps, UninitializedMaps, WriteExMaps,
     RecoverCorruptRecordMaps
<1>3. CASE Format
  BY <1>3, FormatMaps DEF Promise!Next
<1>4. CASE ErasePage \/ EraseFails
  BY <1>4, ErasePageMaps, EraseFailsMaps DEF Promise!Next
<1>5. CASE ProgramRecord \/ ProgramFails \/ VerifyRecord
  BY <1>5, ProgramRecordMaps, ProgramFailsMaps, VerifyRecordMaps DEF Promise!Next
<1>6. CASE PowerLoss
  BY <1>6, PowerLossMaps DEF Promise!Next
<1>7. QED BY <1>1, <1>2, <1>3, <1>4, <1>5, <1>6 DEF Next, Promise!Next

\* The store is an atomic record for its callers, for every number of record
\* types, every payload and every sequence range: a write takes effect at one
\* moment or not at all, whatever fails and whenever power is lost; a reported
\* success has taken effect (storage.c:384-467, 491-566).
THEOREM StoreIsAnAtomicRecord == Spec => ImplementsAtomicRecord
<1>1. Init => ErasedSoFar
  BY DEF Init, NoJob, ErasedSoFar
<1>2. IInv /\ ErasedSoFar /\ [Next]_vars => ErasedSoFar'
  BY ErasedSoFarStep
<1>3. Spec => []ErasedSoFar
  BY <1>1, <1>2, Invariance, PTL DEF Spec
<1>4. Init => Promise!Init
  BY InitMaps
<1>5. IInv /\ ErasedSoFar /\ [Next]_vars => [Promise!Next]_(Promise!vars)
  BY StepMaps
<1>6. QED BY <1>3, <1>4, <1>5, Invariance, PTL DEF Spec, ImplementsAtomicRecord, Promise!Spec

-----------------------------------------------------------------------------
(***************************************************************************)
(* A call as a caller sees it: begun, and ended in one step.  The records  *)
(* as they were when the running call began are remembered; until it ends, *)
(* they are what its caller sees.  What is remembered constrains no step.  *)
(***************************************************************************)
VARIABLE was

CallRuns == pc \in {"erase", "program", "verify"}

Now == [value |-> [rt \in RecordTypes |-> Stored(rt)],
        backup |-> [rt \in RecordTypes |-> Spare(rt)],
        blank |-> [rt \in RecordTypes |-> Untouched(rt)]]

Remembers == was' = IF CallRuns THEN was ELSE Now

SpecWas == Init /\ was = Now /\ [][Next /\ Remembers]_<<vars, was>>

Seen == IF CallRuns THEN was ELSE Now

Atomic == INSTANCE AtomicRecord WITH
  value <- Seen.value, backup <- Seen.backup, blank <- Seen.blank, running <- Running

WasTyped ==
  was \in [value : [RecordTypes -> Payloads \cup {NoData}],
           backup : [RecordTypes -> Payloads \cup {NoData}],
           blank : [RecordTypes -> BOOLEAN]]

Formats == {"format", "formatAll"}

\* What the running call has made of a record: v, b and k are its value, its
\* backup and whether it is blank; done, whether the payload may be in place.
Outcome(rt, v, b, k, done) ==
  /\ job.type \notin {rt, AllTypes} =>
       v = was.value[rt] /\ b = was.backup[rt] /\ (k <=> was.blank[rt])
  /\ k /\ ~was.blank[rt] => job.call \in {"recover"} \cup Formats
  /\ \/ v = was.value[rt] /\ b \in {was.backup[rt], NoData}
     \/ /\ job.call \in Formats
        /\ v \in {was.value[rt], was.backup[rt], NoData} /\ b = NoData
     \/ /\ job.call \in {"write", "mirror", "recover"} /\ job.type = rt /\ done
        /\ v = job.data /\ b = was.value[rt]

\* The running call was open to the record it began on, and has so far done
\* what it may.
CallInv ==
  /\ WasTyped
  /\ CallRuns =>
       /\ Atomic!Accepts(job.call, job.type)
       /\ \A rt \in RecordTypes :
            Outcome(rt, Stored(rt), Spare(rt), Untouched(rt), pc = "verify")

\* The records have types.
LEMMA NowTyped ==
  ASSUME TypeOK
  PROVE  /\ \A rt \in RecordTypes :
              /\ Stored(rt) \in Payloads \cup {NoData} /\ Spare(rt) \in Payloads \cup {NoData}
              /\ Untouched(rt) \in BOOLEAN
         /\ Now \in [value : [RecordTypes -> Payloads \cup {NoData}],
                     backup : [RecordTypes -> Payloads \cup {NoData}],
                     blank : [RecordTypes -> BOOLEAN]]
<1>1. ASSUME NEW rt \in RecordTypes
      PROVE  /\ Stored(rt) \in Payloads \cup {NoData} /\ Spare(rt) \in Payloads \cup {NoData}
             /\ Untouched(rt) \in BOOLEAN
  <2>1. \A s \in Slots : IsValid(rt, s) => At(rt, s).data \in Payloads
    BY SlotContents DEF Record
  <2>2. Valid(rt) # {} => Newest(rt) \in Slots /\ IsValid(rt, Newest(rt))
    BY DEF Newest, SelectNewest, Valid, Slots
  <2>3. Valid(rt) = Slots => IsValid(rt, 1 - SelectNewest(rt)) /\ 1 - SelectNewest(rt) \in Slots
    BY DEF SelectNewest, Valid, Slots
  <2>4. Untouched(rt) \in BOOLEAN
    BY DEF Untouched
  <2>5. Stored(rt) \in Payloads \cup {NoData}
    BY <2>1, <2>2 DEF Stored
  <2>6. Spare(rt) \in Payloads \cup {NoData}
    BY <2>1, <2>3 DEF Spare
  <2>7. QED BY <2>4, <2>5, <2>6
<1>2. QED BY <1>1 DEF Now

\* Outside a call the caller sees the records as they are.
LEMMA SeenNow ==
  ASSUME ~CallRuns
  PROVE  /\ Seen.value = [rt \in RecordTypes |-> Stored(rt)]
         /\ Seen.backup = [rt \in RecordTypes |-> Spare(rt)]
         /\ Seen.blank = [rt \in RecordTypes |-> Untouched(rt)]
BY DEF Seen, Now

\* A call runs exactly when the store's job is not idle.
LEMMA RunsMaps ==
  /\ IInv => (CallRuns <=> Running # Promise!Idle)
  /\ IInv' => (CallRuns' <=> Running' # Promise!Idle)
<1>1. IInv => (CallRuns <=> Running # Promise!Idle)
  <2>1. IInv => pc \in {"off", "uninit", "idle"} \cup {"erase", "program", "verify"}
    BY DEF IInv, TypeOK
  <2>2. QED BY <2>1, IdleMaps DEF CallRuns
<1>2. IInv' => (CallRuns' <=> Running' # Promise!Idle)
  <2>1. IInv' => pc' \in {"off", "uninit", "idle"} \cup {"erase", "program", "verify"}
    BY DEF IInv, TypeOK
  <2>2. job' = NoJob => Running' = Promise!Idle
    BY DEF Running, NoJob, Promise!Idle
  <2>3. job'.call # "none" => Running' # Promise!Idle
    BY DEF Running, Promise!Idle
  <2>4. IInv' => (pc' \in {"off", "uninit", "idle"} <=> job' = NoJob)
                 /\ (job'.call = "none" <=> job' = NoJob)
    BY DEF IInv, JobSafe, NoJob
  <2>5. QED BY <2>1, <2>2, <2>3, <2>4 DEF CallRuns
<1>3. QED BY <1>1, <1>2

\* What a step of the running call leaves is an outcome of the call.
LEMMA OutcomeStep ==
  ASSUME IInv, CallInv, CallRuns, [Next]_vars
  PROVE  \A rt \in RecordTypes :
           Outcome(rt, Stored(rt)', Spare(rt)', Untouched(rt)', pc # "erase")
<1>1. \A rt \in RecordTypes : Outcome(rt, Stored(rt), Spare(rt), Untouched(rt), pc = "verify")
  BY DEF CallInv
<1>2. CASE UNCHANGED flash
  <2>1. \A rt \in RecordTypes : Kept(rt)
    BY <1>2, SameFlashMaps
  <2>2. QED BY <1>1, <2>1 DEF Kept, Outcome
<1>3. ASSUME pc = "erase", NEW c \in {flash[job.at], Blank, Junk},
             flash' = [flash EXCEPT ![job.at] = c],
             NEW rt \in RecordTypes
      PROVE  Outcome(rt, Stored(rt)', Spare(rt)', Untouched(rt)', pc # "erase")
  <2>1. PICK r \in RecordTypes :
           /\ job.type \in {r, AllTypes}
           /\ \A q \in RecordTypes : q # r => Kept(q)
           /\ \/ Stored(r)' = Stored(r) /\ Spare(r)' \in {Spare(r), NoData}
              \/ /\ job.call \in {"format", "formatAll"}
                 /\ Stored(r)' = Spare(r) /\ Spare(r)' = NoData
           /\ Untouched(r)' /\ ~Untouched(r) => job.call \in {"recover", "format", "formatAll"}
    BY <1>3, EraseFacts
  <2>2. CASE rt # r
    BY <1>1, <1>3, <2>1, <2>2 DEF Kept, Outcome
  <2>3. CASE rt = r
    BY <1>1, <1>3, <2>1, <2>3 DEF Outcome, Formats
  <2>4. QED BY <2>2, <2>3
<1>4. ASSUME pc = "program", NEW c \in {Blank, Junk, NewRecord},
             flash' = [flash EXCEPT ![job.target] = c],
             NEW rt \in RecordTypes
      PROVE  Outcome(rt, Stored(rt)', Spare(rt)', Untouched(rt)', pc # "erase")
  <2>1. PICK r \in RecordTypes :
           /\ job.type = r /\ job.call \in {"write", "mirror", "recover"}
           /\ \A q \in RecordTypes : q # r => Kept(q)
           /\ \/ Stored(r)' = Stored(r) /\ Spare(r)' \in {Spare(r), NoData}
              \/ Stored(r)' = job.data /\ Spare(r)' = Stored(r)
           /\ Untouched(r)' => Untouched(r)
    BY <1>4, ProgramFacts
  <2>2. CASE rt # r
    BY <1>1, <1>4, <2>1, <2>2 DEF Kept, Outcome
  <2>3. CASE rt = r
    BY <1>1, <1>4, <2>1, <2>3 DEF Outcome, Formats
  <2>4. QED BY <2>2, <2>3
<1>5. QED BY <1>2, <1>3, <1>4, FlashSteps

\* The records remembered have types.
LEMMA WasTypedStep ==
  ASSUME IInv, WasTyped, Remembers PROVE WasTyped'
BY NowTyped DEF IInv, Remembers, WasTyped

\* A running call that goes on verifies what it programmed.
LEMMA RunsOn ==
  ASSUME IInv, [Next]_vars, CallRuns, CallRuns'
  PROVE  pc = "erase" \/ pc' = "verify" \/ UNCHANGED vars
<1>1. pc \notin {"off", "uninit", "idle"}
  BY DEF CallRuns
<1>2. CASE ErasePage \/ EraseFails
  BY <1>2 DEF ErasePage, EraseFails
<1>3. CASE ProgramRecord \/ ProgramFails \/ VerifyRecord
  BY <1>3 DEF ProgramRecord, ProgramFails, VerifyRecord, Return, CallRuns
<1>4. CASE PowerLoss \/ StorageInit \/ Format
  BY <1>1, <1>4 DEF PowerLoss, StorageInit, Format, CallRuns
<1>5. ASSUME NEW rt \in RecordTypes,
             \/ Read(rt) \/ EnsureRedundancy(rt) \/ FormatRecord(rt) \/ CallUninitialized(rt)
             \/ \E data \in Payloads : WriteEx(rt, data) \/ RecoverCorruptRecord(rt, data)
      PROVE  FALSE
  BY <1>1, <1>5 DEF Read, EnsureRedundancy, FormatRecord, CallUninitialized, WriteEx,
                    RecoverCorruptRecord
<1>6. QED BY <1>2, <1>3, <1>4, <1>5 DEF Next

\* A call begins on records it may change, and has not changed them yet.
LEMMA CallInvBegins ==
  ASSUME IInv, CallInv, Remembers, Promise!Begin, UNCHANGED flash, WasTyped' PROVE CallInv'
<1> USE DEF Formats
<1>1. Running = Promise!Idle /\ ~CallRuns
  BY RunsMaps DEF Promise!Begin
<1>2. was' = Now
  BY <1>1 DEF Remembers
<1>3. \A rt \in RecordTypes :
        /\ was'.value[rt] = Stored(rt)' /\ was'.backup[rt] = Spare(rt)'
        /\ was'.blank[rt] <=> Untouched(rt)'
  BY <1>2, SameFlashMaps DEF Now, Kept
<1>4. \A rt \in RecordTypes : Outcome(rt, Stored(rt), Spare(rt), Untouched(rt), pc = "verify")'
  BY <1>3 DEF Outcome
<1>5. ASSUME CallRuns' PROVE Atomic!Accepts(job.call, job.type)'
  <2>1. job'.call = Running'.call /\ job'.type = Running'.type
    BY DEF Running
  <2>2. \/ Running'.call \in {"format", "formatAll"}
        \/ /\ Running'.type \in RecordTypes
           /\ Promise!Accepts(Running'.call, Running'.type)
    BY DEF Promise!Begin, Promise!MirrorOf
  <2>3. Seen' = Now
    BY <1>2, <1>5 DEF Seen
  <2>4. QED BY <2>1, <2>2, <2>3 DEF Atomic!Accepts, Atomic!Damaged, Promise!Accepts, Promise!Damaged, Now
<1>6. QED BY <1>4, <1>5 DEF CallInv

\* A call that goes on keeps what it began with.
LEMMA CallInvWorks ==
  ASSUME IInv, CallInv, [Next]_vars, Remembers, CallRuns, CallRuns', UNCHANGED Running, WasTyped'
  PROVE  CallInv'
<1>1. was' = was
  BY DEF Remembers
<1>2. job'.call = job.call /\ job'.type = job.type /\ job'.data = job.data
  BY DEF Running
<1>3. Seen' = Seen
  BY <1>1 DEF Seen
<1>4. Atomic!Accepts(job.call, job.type)'
  BY <1>2, <1>3 DEF CallInv, Atomic!Accepts, Atomic!Damaged
<1>5. \A rt \in RecordTypes : Outcome(rt, Stored(rt), Spare(rt), Untouched(rt), pc = "verify")'
  <2>1. CASE pc' = "verify" \/ pc = "erase"
    BY <1>1, <1>2, <2>1, OutcomeStep DEF Outcome
  <2>2. CASE UNCHANGED vars
    <3>1. \A rt \in RecordTypes :
            /\ Stored(rt)' = Stored(rt) /\ Spare(rt)' = Spare(rt)
            /\ Untouched(rt)' <=> Untouched(rt)
      BY <2>2, SameFlashMaps DEF vars, Kept
    <3>2. pc' = pc /\ \A rt \in RecordTypes :
            Outcome(rt, Stored(rt), Spare(rt), Untouched(rt), pc = "verify")
      BY <2>2 DEF vars, CallInv
    <3>3. QED BY <1>1, <1>2, <3>1, <3>2 DEF Outcome
  <2>3. QED BY <2>1, <2>2, RunsOn
<1>6. QED BY <1>4, <1>5 DEF CallInv

\* Every step keeps what the running call relies on.
LEMMA CallInvStep ==
  ASSUME IInv, CallInv, IInv', ErasedSoFar, [Next /\ Remembers]_<<vars, was>> PROVE CallInv'
<1>1. CASE UNCHANGED <<vars, was>>
  <2>1. Seen' = Seen /\ was' = was /\ job' = job /\ pc' = pc
    <3>1. Now' = Now
      BY <1>1, SameFlashMaps DEF vars, Now
    <3>2. QED BY <1>1, <3>1 DEF vars, Seen, CallRuns
  <2>2. \A rt \in RecordTypes :
          /\ Stored(rt)' = Stored(rt) /\ Spare(rt)' = Spare(rt)
          /\ Untouched(rt)' <=> Untouched(rt)
    BY <1>1, SameFlashMaps DEF vars, Kept
  <2>3. WasTyped'
    BY <2>1 DEF CallInv, WasTyped
  <2>4. \A rt \in RecordTypes :
          Outcome(rt, Stored(rt), Spare(rt), Untouched(rt), pc = "verify")
            => Outcome(rt, Stored(rt), Spare(rt), Untouched(rt), pc = "verify")'
    BY <2>1, <2>2 DEF Outcome
  <2>5. Atomic!Accepts(job.call, job.type) => Atomic!Accepts(job.call, job.type)'
    BY <2>1 DEF Atomic!Accepts, Atomic!Damaged
  <2>6. CallRuns' <=> CallRuns
    BY <2>1 DEF CallRuns
  <2>7. QED BY <2>3, <2>4, <2>5, <2>6 DEF CallInv
<1>2. CASE Next /\ Remembers
  <2>1. WasTyped'
    BY <1>2, WasTypedStep DEF CallInv
  <2>2. CASE ~CallRuns'
    BY <2>1, <2>2 DEF CallInv
  <2>3. CASE CallRuns' /\ CallRuns
    <3>1. Running # Promise!Idle /\ Running' # Promise!Idle
      BY <2>3, RunsMaps
    <3>2. [Promise!Next]_(Promise!vars)
      BY <1>2, StepMaps
    <3>3. Running' = Running
      BY <3>1, <3>2 DEF Promise!Next, Promise!Begin, Promise!ReturnAtOnce, Promise!Work,
                        Promise!End, Promise!PowerLoss, Promise!vars
    <3>4. QED BY <1>2, <2>1, <2>3, <3>3, CallInvWorks
  <2>4. CASE CallRuns' /\ ~CallRuns
    <3>1. Running = Promise!Idle /\ Running' # Promise!Idle
      BY <2>4, RunsMaps
    <3>2. [Promise!Next]_(Promise!vars)
      BY <1>2, StepMaps
    <3>3. Promise!Begin
      BY <3>1, <3>2 DEF Promise!Next, Promise!ReturnAtOnce, Promise!Work,
                        Promise!End, Promise!PowerLoss, Promise!vars
    <3>4. flash' = flash
      <4>1. pc # "erase" /\ pc # "program"
        BY <2>4 DEF CallRuns
      <4>2. QED BY <1>2, <4>1, FlashSteps
    <3>5. QED BY <1>2, <2>1, <3>3, <3>4, CallInvBegins
  <2>5. QED BY <2>2, <2>3, <2>4
<1>3. QED BY <1>1, <1>2

\* The outcome of a call that ends is open to it in one step.
LEMMA EndedInOne ==
  ASSUME IInv, CallInv, IInv', [Next]_vars, CallRuns, ~CallRuns'
  PROVE  Atomic!NetEffect
<1>1. WasTyped /\ Seen = was
  BY DEF CallInv, Seen
<1> DEFINE v == [rt \in RecordTypes |-> Stored(rt)']
           b == [rt \in RecordTypes |-> Spare(rt)']
           k == [rt \in RecordTypes |-> Untouched(rt)']
<1>2. Seen.value' = v /\ Seen.backup' = b /\ Seen.blank' = k
  BY DEF Seen, Now
<1>3. \A rt \in RecordTypes : Outcome(rt, v[rt], b[rt], k[rt], TRUE)
  <2>1. \A rt \in RecordTypes :
          Outcome(rt, Stored(rt)', Spare(rt)', Untouched(rt)', pc # "erase")
    BY OutcomeStep
  <2>2. QED BY <2>1 DEF Outcome
<1>4. /\ v \in [RecordTypes -> Payloads \cup {NoData}]
      /\ b \in [RecordTypes -> Payloads \cup {NoData}]
      /\ k \in [RecordTypes -> BOOLEAN]
  <2>1. \A rt \in RecordTypes : Outcome(rt, v[rt], b[rt], k[rt], TRUE)
    BY <1>3
  <2>2. k \in [RecordTypes -> BOOLEAN]
    BY DEF Untouched
  <2>3. job.data \in Payloads \cup {NoData}
    BY DEF IInv, TypeOK
  <2>4. \A rt \in RecordTypes :
          v[rt] \in Payloads \cup {NoData} /\ b[rt] \in Payloads \cup {NoData}
    BY <1>1, <2>1, <2>3 DEF Outcome, WasTyped
  <2>5. QED BY <2>2, <2>4
<1>5. \A rt \in RecordTypes : k[rt] => v[rt] = NoData
  BY ErasedHasNone
<1> HIDE DEF v, b, k
<1>6. Running.call = job.call /\ Running.type = job.type /\ Running.data = job.data
  BY DEF Running
<1>7. \A rt \in RecordTypes : Atomic!Concerns(rt) <=> job.type \in {rt, AllTypes}
  <2>1. Running # Atomic!Idle
    BY RunsMaps DEF Atomic!Idle, Promise!Idle
  <2>2. QED BY <1>6, <2>1 DEF Atomic!Concerns
<1>8. Atomic!BlankFollows
  <2>1. \A rt \in RecordTypes :
          /\ ~Atomic!Concerns(rt) => k[rt] = was.blank[rt]
          /\ k[rt] /\ ~was.blank[rt] => Running.call \in {"recover", "format", "formatAll"}
    <3> SUFFICES ASSUME NEW rt \in RecordTypes
                 PROVE  /\ ~Atomic!Concerns(rt) => k[rt] = was.blank[rt]
                        /\ k[rt] /\ ~was.blank[rt] => Running.call \in {"recover", "format", "formatAll"}
      OBVIOUS
    <3>1. k[rt] \in BOOLEAN /\ was.blank[rt] \in BOOLEAN
      BY <1>1, <1>4 DEF WasTyped
    <3>2. ~Atomic!Concerns(rt) => (k[rt] <=> was.blank[rt])
      BY <1>3, <1>7 DEF Outcome
    <3>3. k[rt] /\ ~was.blank[rt] => Running.call \in {"recover", "format", "formatAll"}
      BY <1>3, <1>6 DEF Outcome, Formats
    <3>4. QED BY <3>1, <3>2, <3>3
  <2>2. QED BY <1>1, <1>2, <1>4, <1>5, <2>1 DEF Atomic!BlankFollows
<1>9. CASE job.call \in Formats
  <2>1. \A rt \in RecordTypes : <<v[rt], b[rt]>> \in Atomic!Remains(rt)
    BY <1>1, <1>3, <1>7, <1>9 DEF Atomic!Remains, Outcome, Formats
  <2>2. Atomic!FormatEffect
    BY <1>2, <1>4, <1>8, <2>1 DEF Atomic!FormatEffect
  <2>3. QED BY <1>6, <1>9, <2>2 DEF Atomic!NetEffect, Formats
<1>10. CASE job.call \notin Formats
  <2>1. job.call \in {"write", "mirror", "recover"} /\ job.type \in RecordTypes
    <3>1. job.call \in Calls
      <4>1. Running # Promise!Idle
        BY RunsMaps
      <4>2. job # NoJob
        BY <4>1 DEF Running, NoJob, Promise!Idle
      <4>3. QED BY <4>2 DEF IInv, TypeOK, JobSafe
    <3>2. QED BY <1>10, <3>1 DEF Calls, Formats, IInv, JobSafe, OverwritesOneSlot, RewritesBothSlots
  <2> DEFINE r == job.type
  <2>2. \A rt \in RecordTypes : rt # r => v[rt] = was.value[rt] /\ b[rt] = was.backup[rt]
    <3>1. r # AllTypes
      BY <2>1 DEF RecordTypes, AllTypes
    <3>2. QED BY <1>3, <3>1 DEF Outcome
  <2>3. v = [was.value EXCEPT ![r] = v[r]] /\ b = [was.backup EXCEPT ![r] = b[r]]
    BY <1>1, <1>4, <2>2 DEF WasTyped
  <2>4. CASE v[r] = was.value[r] /\ b[r] = was.backup[r]
    <3>1. v = was.value /\ b = was.backup
      BY <1>1, <2>3, <2>4 DEF WasTyped
    <3>2. QED BY <1>1, <1>2, <1>6, <1>8, <1>10, <3>1 DEF Atomic!NetEffect, Atomic!Effect, Formats
  <2>5. CASE v[r] = was.value[r] /\ b[r] = NoData
    <3>1. v = was.value /\ b = [was.backup EXCEPT ![r] = NoData]
      BY <1>1, <2>3, <2>5 DEF WasTyped
    <3>2. Atomic!DropBackup(r)
      BY <1>1, <1>2, <1>7, <2>1, <3>1 DEF Atomic!DropBackup
    <3>3. QED BY <1>6, <1>8, <1>10, <2>1, <3>2 DEF Atomic!NetEffect, Atomic!Effect, Formats
  <2>6. CASE v[r] = job.data /\ b[r] = was.value[r]
    <3>1. v = [was.value EXCEPT ![r] = job.data] /\ b = [was.backup EXCEPT ![r] = was.value[r]]
      BY <2>3, <2>6
    <3>2. Atomic!TakeEffect
      BY <1>1, <1>2, <1>6, <2>1, <3>1 DEF Atomic!TakeEffect
    <3>3. QED BY <1>6, <1>8, <1>10, <3>2 DEF Atomic!NetEffect, Atomic!Effect, Formats
  <2>7. QED BY <1>3, <1>10, <2>1, <2>4, <2>5, <2>6 DEF Outcome
<1>11. QED BY <1>9, <1>10

\* A call that ends returns to its caller, or is interrupted, in one step.
LEMMA CallEnds ==
  ASSUME IInv, CallInv, IInv', [Next]_vars, CallRuns, ~CallRuns', Promise!End \/ Promise!PowerLoss
  PROVE  Atomic!CallReturns \/ Atomic!CallInterrupted
<1>1. Atomic!NetEffect
  BY EndedInOne
<1>2. Atomic!Accepts(Running.call, Running.type)
  BY DEF CallInv, Running
<1>3. Running # Atomic!Idle
  BY RunsMaps DEF Atomic!Idle, Promise!Idle
<1>4. Seen'.value = [rt \in RecordTypes |-> Stored(rt)]'
      /\ Seen'.backup = [rt \in RecordTypes |-> Spare(rt)]'
      /\ Seen'.blank = [rt \in RecordTypes |-> Untouched(rt)]'
  BY DEF Seen, Now
<1>5. CASE Promise!End
  <2>1. /\ Running' = Atomic!Idle
        /\ ret'.call = Running.call /\ ret'.type = Running.type
        /\ ret'.status \in {"OK", "DONE"} => Promise!Achieved
        /\ ret'.status # "NOT_NEEDED"
    BY <1>5 DEF Promise!End, Promise!Idle, Atomic!Idle
  <2>2. Promise!Achieved => Atomic!Achieved
    BY <1>4 DEF Promise!Achieved, Atomic!Achieved, Promise!Concerns, Atomic!Concerns,
                Promise!Idle, Atomic!Idle
  <2>3. Atomic!Returns(ret'.status)
    BY <1>1, <1>2, <2>1, <2>2 DEF Atomic!Returns
  <2>4. QED BY <1>3, <2>1, <2>3 DEF Atomic!CallReturns
<1>6. CASE Promise!PowerLoss
  BY <1>1, <1>2, <1>3, <1>6 DEF Promise!PowerLoss, Atomic!CallInterrupted, Atomic!Interrupted,
                                Promise!Idle, Atomic!Idle
<1>7. QED BY <1>5, <1>6

\* Outside a call a step of the atomic record is a step of the caller's view.
LEMMA AtRest ==
  ASSUME IInv, IInv', ~CallRuns, ~CallRuns', [Promise!Next]_(Promise!vars)
  PROVE  [Atomic!NextCall]_(Atomic!vars)
<1>1. /\ Seen.value = [rt \in RecordTypes |-> Stored(rt)]
      /\ Seen.backup = [rt \in RecordTypes |-> Spare(rt)]
      /\ Seen.blank = [rt \in RecordTypes |-> Untouched(rt)]
      /\ Seen'.value = [rt \in RecordTypes |-> Stored(rt)]'
      /\ Seen'.backup = [rt \in RecordTypes |-> Spare(rt)]'
      /\ Seen'.blank = [rt \in RecordTypes |-> Untouched(rt)]'
  BY DEF Seen, Now
<1>2. Running = Promise!Idle /\ Running' = Promise!Idle
  BY RunsMaps
<1>3. CASE Promise!ReturnAtOnce
  <2>1. Atomic!ReturnAtOnce
    BY <1>1, <1>3 DEF Promise!ReturnAtOnce, Atomic!ReturnAtOnce, Promise!ReadResults,
       Atomic!ReadResults, Promise!Damaged, Atomic!Damaged, Promise!RefusedWith,
       Atomic!RefusedWith, Promise!Idle, Atomic!Idle
  <2>2. QED BY <2>1 DEF Atomic!NextCall
<1>4. CASE Promise!PowerLoss
  <2>1. Atomic!CallInterrupted
    BY <1>1, <1>2, <1>4 DEF Promise!PowerLoss, Atomic!CallInterrupted, Atomic!Interrupted,
                            Promise!Idle, Atomic!Idle
  <2>2. QED BY <2>1 DEF Atomic!NextCall
<1>5. CASE UNCHANGED Promise!vars
  BY <1>1, <1>5 DEF Promise!vars, Atomic!vars
<1>6. ~Promise!Begin /\ ~Promise!Work /\ ~Promise!End
  <2>1. Promise!Begin => Running' # Promise!Idle
    BY DEF Promise!Begin, Promise!MirrorOf, Promise!Idle
  <2>2. QED BY <1>2, <2>1 DEF Promise!Work, Promise!End
<1>7. QED BY <1>3, <1>4, <1>5, <1>6 DEF Promise!Next

\* Every step of the store is a step of the caller's view, or none.
LEMMA CallMaps ==
  ASSUME IInv, ErasedSoFar, CallInv, IInv', [Next /\ Remembers]_<<vars, was>>
  PROVE  [Atomic!NextCall]_(Atomic!vars)
<1>1. [Next]_vars
  BY DEF vars
<1>2. [Promise!Next]_(Promise!vars)
  BY <1>1, StepMaps
<1>3. CASE ~CallRuns /\ ~CallRuns'
  BY <1>2, <1>3, AtRest
<1>4. CASE CallRuns /\ ~CallRuns'
  <2>1. Running # Promise!Idle /\ Running' = Promise!Idle
    BY <1>4, RunsMaps
  <2>2. Promise!End \/ Promise!PowerLoss
    BY <1>2, <2>1 DEF Promise!Next, Promise!Begin, Promise!ReturnAtOnce, Promise!Work, Promise!vars
  <2>3. QED BY <1>1, <1>4, <2>2, CallEnds DEF Atomic!NextCall
<1>5. CASE CallRuns /\ CallRuns'
  <2>1. Running # Promise!Idle /\ Running' # Promise!Idle
    BY <1>5, RunsMaps
  <2>2. Running' = Running /\ ret' = ret
    BY <1>2, <2>1 DEF Promise!Next, Promise!Begin, Promise!ReturnAtOnce, Promise!Work,
                      Promise!End, Promise!PowerLoss, Promise!vars
  <2>3. was' = was
    BY <1>5 DEF Remembers
  <2>4. QED BY <1>5, <2>2, <2>3 DEF Atomic!vars, Seen
<1>6. CASE ~CallRuns /\ CallRuns'
  <2>1. Running = Promise!Idle /\ Running' # Promise!Idle
    BY <1>6, RunsMaps
  <2>2. Promise!Begin
    BY <1>2, <2>1 DEF Promise!Next, Promise!ReturnAtOnce, Promise!Work,
                      Promise!End, Promise!PowerLoss, Promise!vars
  <2>3. was' = Now
    <3>1. vars' # vars
      BY <1>6 DEF vars, CallRuns
    <3>2. QED BY <1>6, <3>1 DEF Remembers
  <2>4. Seen = Now /\ Seen' = Now
    BY <1>6, <2>3 DEF Seen
  <2>5. Atomic!Begin
    BY <2>2, <2>4 DEF Promise!Begin, Atomic!Begin, Promise!Accepts, Atomic!Accepts,
       Promise!Damaged, Atomic!Damaged, Promise!MirrorOf, Atomic!MirrorOf, Promise!Idle,
       Atomic!Idle, Now
  <2>6. QED BY <2>5 DEF Atomic!NextCall
<1>7. QED BY <1>3, <1>4, <1>5, <1>6

\* A call is atomic for its caller, as DeviceRecords takes it to be: however
\* many of its flash operations are done when it returns or power is lost, its
\* outcome is one that a single step could have had (storage.c:384-467, 491-566).
THEOREM CallsAreAtomic == SpecWas => Atomic!CallSpec
<1>1. SpecWas => Spec
  <2>1. [Next /\ Remembers]_<<vars, was>> => [Next]_vars
    BY DEF vars
  <2>2. QED BY <2>1, PTL DEF SpecWas, Spec
<1>2. SpecWas => []IInv /\ []ErasedSoFar
  <2>1. Init => ErasedSoFar
    BY DEF Init, NoJob, ErasedSoFar
  <2>2. IInv /\ ErasedSoFar /\ [Next]_vars => ErasedSoFar'
    BY ErasedSoFarStep
  <2>3. QED BY <1>1, <2>1, <2>2, Invariance, PTL DEF Spec
<1>3. Init /\ was = Now => CallInv
  <2>1. Init => IInv /\ ~CallRuns
    BY InitInv DEF Init, CallRuns
  <2>2. IInv /\ was = Now => WasTyped
    BY NowTyped DEF IInv, WasTyped
  <2>3. QED BY <2>1, <2>2 DEF CallInv
<1>4. IInv /\ ErasedSoFar /\ CallInv /\ IInv' /\ [Next /\ Remembers]_<<vars, was>> => CallInv'
  BY CallInvStep
<1>5. SpecWas => []CallInv
  BY <1>2, <1>3, <1>4, PTL DEF SpecWas
<1>6. Init /\ was = Now => Atomic!Init
  <2> SUFFICES ASSUME Init, was = Now PROVE Atomic!Init
    OBVIOUS
  <2>1. Promise!Init
    BY InitMaps
  <2>2. ~CallRuns
    BY DEF Init, CallRuns
  <2>3. QED BY <2>1, <2>2, SeenNow DEF Promise!Init, Atomic!Init, Promise!Idle, Atomic!Idle
<1>7. IInv /\ ErasedSoFar /\ CallInv /\ IInv' /\ [Next /\ Remembers]_<<vars, was>>
        => [Atomic!NextCall]_(Atomic!vars)
  BY CallMaps
<1>8. QED BY <1>2, <1>5, <1>6, <1>7, PTL DEF SpecWas, Atomic!CallSpec

=============================================================================
