---------------------------- MODULE AtomicRecord ----------------------------
(***************************************************************************)
(* What the flash record store promises its callers.                       *)
(*                                                                         *)
(* A record type has a value, and possibly a backup: the value again, or   *)
(* the one before it.  A write takes effect at one moment or not at all,   *)
(* whatever fails; the value it replaces becomes the backup.  A call that  *)
(* reports success has taken effect.  Only formatting gives a value up,    *)
(* and then the backup may stand in for it until the call ends.            *)
(*                                                                         *)
(* A record without a value is either blank, as the factory left it, or    *)
(* damaged: the remains of a first write that failed.  A damaged record is *)
(* written again only by the call that recovers it.                        *)
(***************************************************************************)
CONSTANTS RecordTypes, Payloads, NoData, AllTypes

VARIABLES
  value,    \* what a reader gets, per record type
  backup,   \* the payload of the other copy, per record type
  blank,    \* whether the record reads as never written, per record type
  running,  \* the call in progress
  ret       \* the result of the last completed call

vars == <<value, backup, blank, running, ret>>

Idle == [call |-> "none", type |-> AllTypes, data |-> NoData]

Init ==
  /\ value = [rt \in RecordTypes |-> NoData]
  /\ backup = [rt \in RecordTypes |-> NoData]
  /\ blank = [rt \in RecordTypes |-> TRUE]
  /\ running = Idle
  /\ ret.status = "none"

Damaged(rt) == value[rt] = NoData /\ ~blank[rt]

\* The calls that may change a record: a damaged one is only ever recovered.
Accepts(call, rt) ==
  /\ call = "write" => ~Damaged(rt)
  /\ call = "recover" => Damaged(rt)
  /\ call = "mirror" => value[rt] # NoData /\ backup[rt] = NoData

MirrorOf(rt) == [call |-> "mirror", type |-> rt, data |-> value[rt]]

\* Calls that carry a payload, and calls that erase.
Begin ==
  /\ running = Idle /\ ret'.status = "none"
  /\ \E rt \in RecordTypes :
       \/ \E call \in {"write", "recover"}, d \in Payloads :
            Accepts(call, rt) /\ running' = [call |-> call, type |-> rt, data |-> d]
       \/ Accepts("mirror", rt) /\ running' = MirrorOf(rt)
       \/ running' = [call |-> "format", type |-> rt, data |-> NoData]
       \/ running' = [call |-> "formatAll", type |-> AllTypes, data |-> NoData]
  /\ UNCHANGED <<value, backup, blank>>

\* What reading a record may say of it: a copy that cannot be read may hide
\* the value behind the backup, or the record altogether.
ReadResults(rt) ==
  {[status |-> "OK", data |-> d] : d \in {value[rt], backup[rt]} \ {NoData}}
  \cup {[status |-> s, data |-> NoData] :
          s \in {"IO_ERROR", IF blank[rt] THEN "NOT_FOUND"
                            ELSE IF Damaged(rt) THEN "CORRUPT" ELSE "IO_ERROR"}}

\* A call that changes nothing may say that there was nothing to do only where
\* that is so.  Recovery is for a record without a value: one that has lost only its
\* backup is left to the mirror, where storage.h:153-156 would have it erased.
RefusedWith(call, rt, status) ==
  /\ status \notin {"OK", "DONE"}
  /\ status = "NOT_NEEDED" =>
       \/ call = "mirror" /\ value[rt] # NoData /\ backup[rt] # NoData
       \/ call = "recover" /\ ~Damaged(rt)

\* A read, or a call that ends before it changes anything.
ReturnAtOnce ==
  /\ running = Idle
  /\ \/ /\ ret'.call = "read"
        /\ [status |-> ret'.status, data |-> ret'.data] \in ReadResults(ret'.type)
     \/ ret'.call # "read" /\ RefusedWith(ret'.call, ret'.type, ret'.status)
  /\ UNCHANGED <<value, backup, blank, running>>

-----------------------------------------------------------------------------
(* How the running call may change the record.                             *)

Concerns(rt) == running.type \in {rt, AllTypes} /\ running # Idle

\* The backup makes room.
DropBackup(rt) ==
  /\ Concerns(rt)
  /\ backup' = [backup EXCEPT ![rt] = NoData]
  /\ UNCHANGED value

\* The payload takes effect; the value it replaces stays as the backup.
TakeEffect ==
  /\ running.call \in {"write", "mirror", "recover"}
  /\ value' = [value EXCEPT ![running.type] = running.data]
  /\ backup' = [backup EXCEPT ![running.type] = value[running.type]]

\* Formatting erases the copy readers got their value from.
GiveUpValue(rt) ==
  /\ Concerns(rt)
  /\ running.call \in {"format", "formatAll"}
  /\ value' = [value EXCEPT ![rt] = backup[rt]]
  /\ backup' = [backup EXCEPT ![rt] = NoData]

\* A record that has a value is not blank; one without may be damaged by the
\* call that concerns it, and only a call that erases both copies makes a
\* record blank again.
BlankFollows ==
  /\ blank' \in [RecordTypes -> BOOLEAN]
  /\ \A rt \in RecordTypes :
       /\ blank'[rt] => value'[rt] = NoData
       /\ ~Concerns(rt) => blank'[rt] = blank[rt]
       /\ blank'[rt] /\ ~blank[rt] => running.call \in {"recover", "format", "formatAll"}

Effect ==
  /\ \/ UNCHANGED <<value, backup>>
     \/ \E rt \in RecordTypes : DropBackup(rt) \/ GiveUpValue(rt)
     \/ TakeEffect
  /\ BlankFollows

\* What a success reported to the caller of the running call means.
Achieved ==
  /\ running.call \in {"write", "mirror", "recover"} => value'[running.type] = running.data
  /\ running.call = "mirror" => backup'[running.type] = running.data
  /\ running.call \in {"format", "formatAll"} =>
       \A rt \in RecordTypes :
         Concerns(rt) => value'[rt] = NoData /\ backup'[rt] = NoData /\ blank'[rt]

Work == running # Idle /\ UNCHANGED <<running, ret>> /\ Effect

End ==
  /\ running # Idle /\ running' = Idle
  /\ Effect
  /\ ret'.call = running.call /\ ret'.type = running.type
  /\ ret'.status \in {"OK", "DONE"} => Achieved
  /\ ret'.status # "NOT_NEEDED"

PowerLoss ==
  /\ running' = Idle
  /\ IF running = Idle THEN UNCHANGED <<value, backup, blank>> ELSE Effect
  /\ ret'.status = "none"

Next == Begin \/ ReturnAtOnce \/ Work \/ End \/ PowerLoss

Spec == Init /\ [][Next]_vars

-----------------------------------------------------------------------------
(* The calls as their callers see them: once begun, ended in one step.     *)

\* What formatting may leave of a record: its copies go one by one.
Remains(rt) ==
  {<<value[rt], backup[rt]>>} \cup
  (IF Concerns(rt) THEN {value[rt], backup[rt], NoData} \X {NoData} ELSE {})

FormatEffect ==
  /\ value' \in [RecordTypes -> Payloads \cup {NoData}]
  /\ backup' \in [RecordTypes -> Payloads \cup {NoData}]
  /\ \A rt \in RecordTypes : <<value'[rt], backup'[rt]>> \in Remains(rt)
  /\ BlankFollows

\* All that a call has done when it ends.
NetEffect ==
  IF running.call \in {"format", "formatAll"} THEN FormatEffect ELSE Effect

\* The running call returns status, having changed nothing or with its effect.
Returns(status) ==
  \/ /\ RefusedWith(running.call, running.type, status)
     /\ UNCHANGED <<value, backup, blank>>
  \/ /\ Accepts(running.call, running.type)
     /\ NetEffect
     /\ status \in {"OK", "DONE"} => Achieved
     /\ status # "NOT_NEEDED"

\* Power is lost during the call: it may have had its effect, if it could.
Interrupted ==
  IF running # Idle /\ Accepts(running.call, running.type)
  THEN NetEffect ELSE UNCHANGED <<value, backup, blank>>

CallReturns ==
  /\ running # Idle /\ running' = Idle
  /\ ret'.call = running.call /\ ret'.type = running.type
  /\ Returns(ret'.status)

CallInterrupted ==
  /\ running' = Idle /\ ret'.status = "none"
  /\ Interrupted

NextCall == Begin \/ ReturnAtOnce \/ CallReturns \/ CallInterrupted

CallSpec == Init /\ [][NextCall]_vars

=============================================================================
