------------------------- MODULE DeviceRecordsProofs -------------------------
(***************************************************************************)
(* Proofs about DeviceRecords.  What a call of the store can do to the     *)
(* flash is settled first, from the promise AtomicRecord alone: one record *)
(* moves, to its value or to the payload of the call.  Then each step of   *)
(* the program keeps the plan under which its call is safe.                *)
(***************************************************************************)
EXTENDS DeviceRecords, TLAPS

\* A call of the store did nothing, or had its effect.
StoreStep ==
  \/ UNCHANGED flash
  \/ Store!Accepts(running.call, running.type) /\ Store!NetEffect

\* A running call the records survive, whatever becomes of it.
SafeCall ==
  /\ running.type \in RecordTypes /\ running.call \in {"write", "mirror", "recover"}
  /\ running.call = "mirror" => running.data = value[running.type]
  /\ running.call # "mirror" =>
       /\ running.data # NoData
       /\ running.type = "config" => running.data \in Configs
       /\ running.type = "identity" => running.data = Identity
       /\ running.type = "registration" =>
            running.data \in Prov!Registrations /\ Prov!ValidRawStored(running.data)

FlashTypeOK ==
  /\ value \in [RecordTypes -> Payloads \cup {NoData}]
  /\ backup \in [RecordTypes -> Payloads \cup {NoData}]
  /\ blank \in [RecordTypes -> BOOLEAN]

\* What such a step can have done.
Moved ==
  /\ \A rt \in RecordTypes :
       /\ rt # running.type =>
            value'[rt] = value[rt] /\ backup'[rt] = backup[rt] /\ blank'[rt] = blank[rt]
       /\ value'[rt] \in {value[rt], running.data}
       /\ backup'[rt] \in {backup[rt], value[rt], NoData}
       /\ value[rt] # NoData => value'[rt] # NoData
       /\ running.call = "mirror" => value'[rt] = value[rt]
       /\ Store!Damaged(rt) => Store!Damaged(rt)' \/ (running.call = "recover" /\ rt = running.type)

LEMMA CallReturns ==
  ASSUME NEW ok \in BOOLEAN, Ends(ok)
  PROVE  StoreStep /\ (ok /\ SafeCall => value'[running.type] = running.data)
<1>1. CASE ok = TRUE
  BY <1>1, SMTT(30) DEF Ends, StoreStep, SafeCall, Store!Returns, Store!RefusedWith, Store!Achieved, flash
<1>2. CASE ok = FALSE
  BY <1>2, SMTT(30) DEF Ends, StoreStep, Store!Returns, flash
<1>3. QED BY <1>1, <1>2

LEMMA CallInterrupted ==
  ASSUME Store!Interrupted
  PROVE  StoreStep
BY DEF Store!Interrupted, StoreStep, flash

LEMMA OneRecordMoves ==
  ASSUME FlashTypeOK, BlankIsEmpty, SafeCall, StoreStep
  PROVE  Moved /\ FlashTypeOK' /\ BlankIsEmpty'
<1>1. CASE UNCHANGED flash
  BY <1>1 DEF flash, Moved, FlashTypeOK, BlankIsEmpty, Store!Damaged
<1>2. CASE Store!Accepts(running.call, running.type) /\ Store!NetEffect
  <2>1. running.type # "all" /\ Idle = FALSE
    BY DEF SafeCall, RecordTypes, Idle, Store!Idle
  <2>2. running.data \in Payloads \cup {NoData}
    <3>1. value[running.type] \in Payloads \cup {NoData}
      BY DEF SafeCall, FlashTypeOK
    <3>2. CASE running.call # "mirror"
      BY <3>2 DEF SafeCall, Payloads, RecordTypes
    <3> QED BY <3>1, <3>2 DEF SafeCall
  <2>3. running.data # NoData
    BY <1>2 DEF SafeCall, Store!Accepts
  <2>4. \A rt \in RecordTypes : Store!Concerns(rt) <=> rt = running.type
    BY <2>1 DEF Store!Concerns, Idle, SafeCall
  <2> Store!Effect
    BY <1>2 DEF SafeCall, Store!NetEffect
  <2>5. \/ UNCHANGED <<value, backup>>
        \/ value' = value /\ backup' = [backup EXCEPT ![running.type] = NoData]
        \/ /\ value' = [value EXCEPT ![running.type] = running.data]
           /\ backup' = [backup EXCEPT ![running.type] = value[running.type]]
    BY <2>4 DEF Store!Effect, Store!DropBackup, Store!GiveUpValue, Store!TakeEffect, SafeCall
  <2>6. /\ blank' \in [RecordTypes -> BOOLEAN]
        /\ \A rt \in RecordTypes :
             /\ blank'[rt] => value'[rt] = NoData
             /\ rt # running.type => blank'[rt] = blank[rt]
             /\ blank'[rt] /\ ~blank[rt] => running.call = "recover"
    BY <2>4 DEF Store!Effect, Store!BlankFollows, SafeCall
  <2>7. value' \in [RecordTypes -> Payloads \cup {NoData}] /\ backup' \in [RecordTypes -> Payloads \cup {NoData}]
    BY <2>2, <2>5 DEF FlashTypeOK, SafeCall
  <2>8. \A rt \in RecordTypes :
          /\ rt # running.type => value'[rt] = value[rt] /\ backup'[rt] = backup[rt]
          /\ value'[rt] \in {value[rt], running.data}
          /\ backup'[rt] \in {backup[rt], value[rt], NoData}
    BY <2>5 DEF FlashTypeOK, SafeCall
  <2>9. \A rt \in RecordTypes : running.call = "mirror" => value'[rt] = value[rt]
    BY <2>8 DEF SafeCall
  <2>10. \A rt \in RecordTypes : Store!Damaged(rt) =>
           Store!Damaged(rt)' \/ (running.call = "recover" /\ rt = running.type)
    <3> SUFFICES ASSUME NEW rt \in RecordTypes, Store!Damaged(rt), running.call # "recover" \/ rt # running.type
                 PROVE  Store!Damaged(rt)'
      OBVIOUS
    <3>1. CASE rt # running.type
      BY <3>1, <2>6, <2>8 DEF Store!Damaged
    <3>2. CASE rt = running.type
      <4>1. running.call = "mirror"
        BY <3>2, <1>2 DEF Store!Accepts, SafeCall
      <4> QED BY <4>1, <3>2, <1>2 DEF Store!Accepts, Store!Damaged
    <3> QED BY <3>1, <3>2
  <2> QED
    BY <2>3, <2>6, <2>7, <2>8, <2>9, <2>10 DEF Moved, FlashTypeOK, BlankIsEmpty
<1> QED BY <1>1, <1>2 DEF StoreStep

-----------------------------------------------------------------------------
(* Facts about the parts.                                                  *)

LEMMA Q16IsInteger == \A factor \in Int : Config!FloatToQ16(factor) \in Int
BY ConfigAssumption, SMTT(30) DEF Config!FloatToQ16

LEMMA DefaultsAreStored ==
  /\ Config!Stored(Config!Defaults) \in Configs
  /\ Config!Defaults.periods \in Periods /\ Config!Defaults.q16 \in Int /\ Config!Defaults.factor \in Int
<1>1. Config!FloatToQ16(DefaultFactor) \in Int
  BY Q16IsInteger, ConfigAssumption
<1>2. DefaultPeriods \in Periods
  BY ConfigAssumption DEF Config!Validate, Config!Defaults
<1> QED BY <1>1, <1>2, ConfigAssumption DEF Config!Stored, Config!Defaults, Configs

LEMMA UnregisteredIsStored ==
  Prov!Unregistered \in Prov!Registrations /\ Prov!ValidRawStored(Prov!Unregistered)
BY DEF Prov!Unregistered, Prov!Registrations, Prov!Ids, Prov!ValidRawStored

\* A read returns one of the two copies, and says "not found" of a blank record only.
LEMMA ReadsACopy ==
  \A rt \in RecordTypes : \A read \in Store!ReadResults(rt) :
    /\ read.status \in Statuses
    /\ read.status = "OK" => read.data \in {value[rt], backup[rt]} \ {NoData}
    /\ read.status = "NOT_FOUND" => blank[rt]
<1> SUFFICES ASSUME NEW rt \in RecordTypes, NEW read \in Store!ReadResults(rt)
             PROVE  /\ read.status \in Statuses
                    /\ read.status = "OK" => read.data \in {value[rt], backup[rt]} \ {NoData}
                    /\ read.status = "NOT_FOUND" => blank[rt]
  OBVIOUS
<1>1. CASE \E d \in {value[rt], backup[rt]} \ {NoData} : read = [status |-> "OK", data |-> d]
  BY <1>1 DEF Statuses
<1>2. CASE \E s \in {"IO_ERROR", IF blank[rt] THEN "NOT_FOUND"
                                  ELSE IF Store!Damaged(rt) THEN "CORRUPT" ELSE "IO_ERROR"} :
             read = [status |-> s, data |-> NoData]
  BY <1>2 DEF Statuses
<1> QED BY <1>1, <1>2 DEF Store!ReadResults

LEMMA StatusOfRead ==
  \A rt \in RecordTypes : \A read \in Store!ReadResults(rt)' : read.status \in Statuses
<1> SUFFICES ASSUME NEW rt \in RecordTypes, NEW read \in Store!ReadResults(rt)'
             PROVE  read.status \in Statuses
  OBVIOUS
<1>1. CASE \E d \in {value'[rt], backup'[rt]} \ {NoData} : read = [status |-> "OK", data |-> d]
  BY <1>1 DEF Statuses
<1>2. CASE \E s \in {"IO_ERROR", IF blank'[rt] THEN "NOT_FOUND"
                                  ELSE IF Store!Damaged(rt)' THEN "CORRUPT" ELSE "IO_ERROR"} :
             read = [status |-> s, data |-> NoData]
  BY <1>2 DEF Statuses
<1> QED BY <1>1, <1>2 DEF Store!ReadResults

\* The plan of a running call makes it safe.
LEMMA PlannedCallIsSafe ==
  ASSUME IInv, ~Idle
  PROVE  SafeCall
<1>1. CASE stage = "LOAD_IDENTITY"
  <2>1. running = Write("identity", Identity)
    BY <1>1 DEF IInv, BootPlan
  <2> QED BY <2>1, NoDataAssumption DEF Write, SafeCall, RecordTypes
<1>2. CASE stage = "CREATE_BOOT_SESSION"
  <2>1. CASE running = Write("config", Config!Stored(Config!Defaults))
    BY <2>1, DefaultsAreStored, NoDataAssumption DEF Write, SafeCall, RecordTypes
  <2>2. CASE running \in {Store!MirrorOf("config"), Store!MirrorOf("identity")}
    BY <2>2 DEF Store!MirrorOf, SafeCall, RecordTypes
  <2> QED BY <1>2, <2>1, <2>2 DEF IInv, BootPlan
<1>3. CASE IsOperational
  <2>1. CASE ConfigPlan
    BY <2>1, NoDataAssumption DEF ConfigPlan, Write, SafeCall, RecordTypes
  <2>2. CASE RegistrationPlan
    BY <2>2, NoDataAssumption DEF RegistrationPlan, Write, Recover, SafeCall, RecordTypes
  <2> QED BY <1>3, <2>1, <2>2 DEF IInv, CommandPlan
<1> QED BY <1>1, <1>2, <1>3 DEF IInv, TypeOK, Stages, BootPlan, IsOperational

\* What any step of the store leaves of the invariant.
LEMMA FlashStaysAccepted ==
  ASSUME IInv, SafeCall, StoreStep
  PROVE  Moved /\ FlashTypeOK' /\ FlashAccepted' /\ BlankIsEmpty'
<1>1. Moved /\ FlashTypeOK' /\ BlankIsEmpty'
  BY OneRecordMoves DEF IInv, TypeOK, FlashTypeOK
<1>2. Acceptable(value)'
  <2>1. value'["config"] \in {value["config"], running.data} /\ (running.type # "config" => value'["config"] = value["config"])
    BY <1>1 DEF Moved, RecordTypes
  <2>2. value'["identity"] \in {value["identity"], running.data} /\ (running.type # "identity" => value'["identity"] = value["identity"])
    BY <1>1 DEF Moved, RecordTypes
  <2>3. value'["registration"] \in {value["registration"], running.data} /\ (running.type # "registration" => value'["registration"] = value["registration"])
    BY <1>1 DEF Moved, RecordTypes
  <2>4. value'["config"] \in Configs \cup {NoData}
    BY <2>1 DEF SafeCall, IInv, FlashAccepted, Acceptable
  <2>5. value'["identity"] \in {Identity, NoData}
    BY <2>2 DEF SafeCall, IInv, FlashAccepted, Acceptable
  <2>6. value'["registration"] \in Prov!Registrations \cup {NoData}
        /\ (value'["registration"] # NoData => Prov!ValidRawStored(value'["registration"]))
    BY <2>3 DEF SafeCall, IInv, FlashAccepted, Acceptable
  <2> QED BY <2>4, <2>5, <2>6 DEF Acceptable
<1>3. Acceptable(backup)'
  <2>1. \A rt \in RecordTypes : backup'[rt] \in {backup[rt], value[rt], NoData}
    BY <1>1 DEF Moved
  <2> QED BY <2>1 DEF RecordTypes, IInv, FlashAccepted, Acceptable
<1> QED BY <1>1, <1>2, <1>3 DEF FlashAccepted

\* A promise outlives a step that leaves the registration alone, and the
\* configuration too unless there was none.
LEMMA PromiseStands ==
  ASSUME IInv, UNCHANGED <<request, ramCurrent, answer>>,
         value'["registration"] = value["registration"],
         value'["config"] = value["config"] \/ value["config"] = NoData
  PROVE  AnswerIsDurable'
<1>1. Config!Stored(Config!Defaults) # NoData
  BY DefaultsAreStored, NoDataAssumption
<1>2. Config!Stored(Config!Defaults)' = Config!Stored(Config!Defaults)
  BY DEF Config!Stored, Config!Defaults, Config!FloatToQ16
<1>3. (OwnerStored' <=> OwnerStored) /\ (LocationStored' <=> LocationStored)
  BY DEF OwnerStored, LocationStored
<1>4. CASE value["config"] = NoData
  BY <1>1, <1>3, <1>4 DEF IInv, AnswerIsDurable, Registered
<1>5. CASE value'["config"] = value["config"]
  BY <1>2, <1>3, <1>5 DEF IInv, AnswerIsDurable, Registered
<1> QED BY <1>4, <1>5

-----------------------------------------------------------------------------
(* Each step keeps the invariant.                                          *)

LEMMA InitHolds == Init => IInv
<1> SUFFICES ASSUME Init PROVE IInv
  OBVIOUS
<1> USE DEF Init
<1>1. TypeOK
  BY UnregisteredIsStored DEF TypeOK, Stages, Statuses, Config!Init, Config!Cleared, Prov!Init,
     Config!ConfigTypeOK, Prov!ProvisioningTypeOK, RecordTypes
<1>2. FlashAccepted /\ BlankIsEmpty
  BY DEF FlashAccepted, Acceptable, BlankIsEmpty, RecordTypes
<1>3. RamAccepted
  BY DEF RamAccepted, Prov!Init, Prov!Unregistered
<1>4. BootPlan /\ CommandPlan
  BY DEF BootPlan, CommandPlan, Idle, IsOperational
<1>5. AnswerIsDurable
  BY DEF AnswerIsDurable
<1> QED BY <1>1, <1>2, <1>3, <1>4, <1>5 DEF IInv

\* Where the flash rests, so do the parts of the invariant about it.
LEMMA FlashRests ==
  ASSUME IInv, UNCHANGED flash
  PROVE  FlashTypeOK' /\ FlashAccepted' /\ BlankIsEmpty'
BY DEF IInv, TypeOK, FlashTypeOK, FlashAccepted, Acceptable, BlankIsEmpty, flash

LEMMA PowerLossStep ==
  ASSUME IInv, PowerLoss
  PROVE  IInv'
<1>1. FlashTypeOK' /\ FlashAccepted' /\ BlankIsEmpty' /\ (Idle => UNCHANGED flash) /\ (~Idle => Moved)
  <2>1. CASE Idle
    BY <2>1, FlashRests DEF PowerLoss, Store!Interrupted, Idle, flash
  <2>2. CASE ~Idle
    BY <2>2, PlannedCallIsSafe, CallInterrupted, FlashStaysAccepted DEF PowerLoss
  <2> QED BY <2>1, <2>2
<1>2. TypeOK'
  <2>1. ramCurrent' \in BOOLEAN /\ request' \in Requests \cup {NoRequest}
    BY DEF PowerLoss, IInv, TypeOK
  <2> QED
    BY <1>1, <2>1, UnregisteredIsStored DEF PowerLoss, IInv, TypeOK, FlashTypeOK, Stages, Statuses, Config!Cleared,
     Config!ConfigTypeOK, Prov!ProvisioningTypeOK
<1>3. RamAccepted' /\ BootPlan' /\ CommandPlan'
  BY DEF PowerLoss, RamAccepted, BootPlan, CommandPlan, Prov!Unregistered, Idle, IsOperational
<1>4. AnswerIsDurable'
  <2>1. CASE answer \notin Promises
    BY <2>1 DEF PowerLoss, AnswerIsDurable
  <2>2. CASE answer \in Promises
    <3>1. UNCHANGED <<request, ramCurrent, answer>>
      BY <2>2 DEF PowerLoss
    <3>2. CASE Idle
      BY <3>1, <3>2, <1>1, PromiseStands DEF flash
    <3>3. CASE ~Idle
      <4>1. ~IsOperational
        BY <2>2, <3>3 DEF IInv, CommandPlan, Promises
      <4>2. running.type # "registration" /\ (running.type = "config" /\ running.call # "mirror" => value["config"] = NoData)
        BY <3>3, <4>1 DEF IInv, BootPlan, TypeOK, Stages, IsOperational, Write, Store!MirrorOf, BlankIsEmpty, RecordTypes
      <4>3. value'["registration"] = value["registration"] /\ (value'["config"] = value["config"] \/ value["config"] = NoData)
        BY <1>1, <3>3, <4>2 DEF Moved, RecordTypes
      <4> QED BY <3>1, <4>3, PromiseStands
    <3> QED BY <3>2, <3>3
  <2> QED BY <2>1, <2>2
<1> QED BY <1>1, <1>2, <1>3, <1>4 DEF IInv

LEMMA AppInitStep ==
  ASSUME IInv, AppInit
  PROVE  IInv'
<1>1. PICK read \in Store!ReadResults("registration") : Prov!Load(read)
  BY DEF AppInit
<1>2. /\ read.status \in Statuses
      /\ read.status = "OK" => read.data \in {value["registration"], backup["registration"]} \ {NoData}
  BY ReadsACopy DEF RecordTypes
<1>3. read.status = "OK" => read.data \in Prov!Registrations
  BY <1>2 DEF IInv, FlashAccepted, Acceptable
<1>4. reg' \in Prov!Registrations /\ (reg'.registered => Prov!ValidRawStored(reg'))
  <2>1. CASE read.status = "OK" /\ Prov!ValidRawStored(read.data)
    <3>1. reg' = Prov!DeriveCanonical(read.data)
      BY <1>1, <2>1 DEF Prov!Load
    <3>2. read.data.registered => reg' = [registered |-> TRUE, installation |-> read.data.installation,
            building |-> read.data.building, room |-> read.data.room]
      BY <2>1, <3>1, <1>3, IdAssumption DEF Prov!DeriveCanonical, Prov!ValidRawStored, Prov!ValidEntityId, Prov!Registrations
    <3>3. read.data.registered => reg' = read.data
      BY <2>1, <3>2, <1>3 DEF Prov!Registrations
    <3>4. ~read.data.registered => reg' = Prov!Unregistered
      BY <3>1 DEF Prov!DeriveCanonical
    <3> QED BY <2>1, <1>3, <3>3, <3>4, UnregisteredIsStored
  <2>2. CASE ~(read.status = "OK" /\ Prov!ValidRawStored(read.data))
    BY <1>1, <2>2, UnregisteredIsStored DEF Prov!Load
  <2> QED BY <2>1, <2>2
<1>5. regStatus' \in Statuses
  BY <1>1, <1>2 DEF Prov!Load, Statuses
<1>6. FlashTypeOK' /\ FlashAccepted' /\ BlankIsEmpty'
  BY FlashRests DEF AppInit
<1>7. TypeOK'
  BY <1>4, <1>5, <1>6 DEF AppInit, IInv, TypeOK, FlashTypeOK, Stages, Statuses, Config!ConfigTypeOK, Prov!ProvisioningTypeOK
<1>8. RamAccepted' /\ BootPlan' /\ CommandPlan'
  BY <1>4 DEF AppInit, IInv, RamAccepted, BootPlan, CommandPlan, Idle, IsOperational
<1>9. AnswerIsDurable'
  BY PromiseStands DEF AppInit, flash
<1> QED BY <1>6, <1>7, <1>8, <1>9 DEF IInv

LEMMA LoadConfigurationStep ==
  ASSUME IInv, LoadConfiguration
  PROVE  IInv'
<1>1. PICK read \in Store!ReadResults("config") : Config!Load(read)
  BY DEF LoadConfiguration
<1>2. /\ read.status \in Statuses
      /\ read.status = "OK" => read.data \in {value["config"], backup["config"]} \ {NoData}
      /\ read.status = "NOT_FOUND" => blank["config"]
  BY ReadsACopy DEF RecordTypes
<1>3. read.status = "OK" => read.data \in Configs
  BY <1>2 DEF IInv, FlashAccepted, Acceptable
<1>4. /\ cfg'.periods \in Periods /\ cfg'.q16 \in Int /\ cfg'.factor \in Int
      /\ cfgStatus' \in Statuses
      /\ cfgStatus' = "NOT_FOUND" => blank["config"] /\ cfg' = Config!Defaults
  <2>1. CASE read.status = "OK" /\ Config!Validate(read.data)
    <3>1. read.data.periods \in Periods /\ read.data.q16 \in Int
      BY <2>1, <1>3 DEF Configs
    <3>2. read.data.q16 * Scale \in Int
      BY <3>1, ConfigAssumption
    <3> QED BY <1>1, <2>1, <3>1, <3>2 DEF Config!Load, Config!Q16ToFloat, Statuses
  <2>2. CASE ~(read.status = "OK" /\ Config!Validate(read.data))
    BY <1>1, <1>2, <2>2, DefaultsAreStored DEF Config!Load, Statuses
  <2> QED BY <2>1, <2>2
<1>5. FlashTypeOK' /\ FlashAccepted' /\ BlankIsEmpty'
  BY FlashRests DEF LoadConfiguration
<1>6. stage' \in {"LOAD_CONFIGURATION", "LOAD_IDENTITY"} /\ Idle /\ Idle'
  BY DEF LoadConfiguration, TransitionTo, IInv, BootPlan, Idle
<1>7. TypeOK'
  BY <1>4, <1>5, <1>6 DEF LoadConfiguration, IInv, TypeOK, FlashTypeOK, Stages, Statuses, Config!ConfigTypeOK, Prov!ProvisioningTypeOK
<1>8. RamAccepted'
  BY <1>4, <1>6 DEF LoadConfiguration, IInv, RamAccepted, Prov!ValidRawStored, Prov!ValidEntityId
<1>9. BootPlan'
  <2>1. blank' = blank /\ (FirstBoot' => blank["config"] /\ cfg' = Config!Defaults)
    BY <1>4 DEF LoadConfiguration, flash, FirstBoot
  <2>2. Config!Defaults' = Config!Defaults
    BY DEF Config!Defaults, Config!FloatToQ16
  <2> QED BY <1>6, <2>1, <2>2 DEF BootPlan
<1>10. CommandPlan'
  BY <1>6 DEF CommandPlan, IsOperational
<1>11. AnswerIsDurable'
  BY PromiseStands DEF LoadConfiguration, flash
<1> QED BY <1>5, <1>7, <1>8, <1>9, <1>10, <1>11 DEF IInv

LEMMA LoadIdentityStep ==
  ASSUME IInv, LoadIdentity
  PROVE  IInv'
<1>1. PICK read \in Store!ReadResults("identity") :
        IF read.status = "NOT_FOUND"
        THEN running' = Write("identity", Identity) /\ UNCHANGED stage
        ELSE TransitionTo("CREATE_BOOT_SESSION") /\ UNCHANGED running
  BY DEF LoadIdentity
<1>2. read.status = "NOT_FOUND" => blank["identity"]
  BY ReadsACopy DEF RecordTypes
<1>3. /\ stage' \in {"LOAD_IDENTITY", "CREATE_BOOT_SESSION"}
      /\ Idle' \/ (stage' = "LOAD_IDENTITY" /\ running' = Write("identity", Identity) /\ blank["identity"])
  BY <1>1, <1>2 DEF LoadIdentity, TransitionTo, Idle
<1>4. FlashTypeOK' /\ FlashAccepted' /\ BlankIsEmpty'
  BY FlashRests DEF LoadIdentity
<1>5. TypeOK' /\ RamAccepted' /\ CommandPlan'
  BY <1>3, <1>4 DEF LoadIdentity, ram, IInv, TypeOK, FlashTypeOK, RamAccepted, CommandPlan, Stages, IsOperational,
     Config!ConfigTypeOK, Prov!ProvisioningTypeOK, Prov!ValidRawStored, Prov!ValidEntityId
<1>6. BootPlan'
  <2>1. running.call # "mirror" /\ stage = "LOAD_IDENTITY"
    BY DEF LoadIdentity, Idle, Store!Idle
  <2>2. FirstBoot' => blank'["config"] /\ cfg' = Config!Defaults
    BY <2>1 DEF LoadIdentity, IInv, BootPlan, flash, ram, FirstBoot
  <2>3. Config!Defaults' = Config!Defaults /\ blank' = blank
    BY DEF Config!Defaults, Config!FloatToQ16, LoadIdentity, flash
  <2> QED BY <1>3, <2>2, <2>3 DEF BootPlan, Write
<1>7. AnswerIsDurable'
  BY PromiseStands DEF LoadIdentity, flash
<1> QED BY <1>4, <1>5, <1>6, <1>7 DEF IInv

\* A call of the boot returns: what the flash is then worth.
LEMMA BootCallReturns ==
  ASSUME IInv, ~IsOperational, NEW ok \in BOOLEAN, Ends(ok)
  PROVE  /\ FlashTypeOK' /\ FlashAccepted' /\ BlankIsEmpty' /\ Moved
         /\ value'["registration"] = value["registration"]
         /\ value'["config"] = value["config"] \/ value["config"] = NoData
         /\ running.type # "config" => blank'["config"] = blank["config"]
<1>1. ~Idle
  BY DEF Ends
<1>2. FlashTypeOK' /\ FlashAccepted' /\ BlankIsEmpty' /\ Moved
  BY <1>1, PlannedCallIsSafe, CallReturns, FlashStaysAccepted
<1>3. running.type # "registration" /\ (running.type = "config" /\ running.call # "mirror" => value["config"] = NoData)
  BY <1>1 DEF IInv, BootPlan, TypeOK, Stages, IsOperational, Write, Store!MirrorOf, BlankIsEmpty, RecordTypes
<1> QED BY <1>2, <1>3 DEF Moved, RecordTypes

LEMMA IdentitySavedStep ==
  ASSUME IInv, IdentitySaved
  PROVE  IInv'
<1>0. ~IsOperational
  BY DEF IdentitySaved, IsOperational
<1>1. PICK ok \in BOOLEAN : Ends(ok)
  BY DEF IdentitySaved
<1>2. stage' \in {"LOAD_IDENTITY", "CREATE_BOOT_SESSION"} /\ Idle'
  BY DEF IdentitySaved, TransitionTo, Idle
<1>3. running = Write("identity", Identity)
  BY <1>1 DEF IdentitySaved, IInv, BootPlan, Ends
<1>4. TypeOK' /\ RamAccepted' /\ CommandPlan'
  BY <1>0, <1>1, <1>2, BootCallReturns DEF IdentitySaved, ram, IInv, TypeOK, FlashTypeOK, RamAccepted, CommandPlan,
     Stages, IsOperational, Config!ConfigTypeOK, Prov!ProvisioningTypeOK, Prov!ValidRawStored, Prov!ValidEntityId
<1>5. BootPlan'
  <2>1. FirstBoot' => blank["config"] /\ cfg' = Config!Defaults
    BY <1>3 DEF IdentitySaved, IInv, BootPlan, ram, FirstBoot, Write
  <2>2. blank'["config"] = blank["config"]
    BY <1>0, <1>1, <1>3, BootCallReturns DEF Write
  <2>3. Config!Defaults' = Config!Defaults
    BY DEF Config!Defaults, Config!FloatToQ16
  <2> QED BY <1>2, <2>1, <2>2, <2>3 DEF BootPlan
<1>6. AnswerIsDurable'
  BY <1>0, <1>1, BootCallReturns, PromiseStands DEF IdentitySaved
<1> QED BY <1>0, <1>1, <1>4, <1>5, <1>6, BootCallReturns DEF IInv

LEMMA CreateBootSessionStep ==
  ASSUME IInv, CreateBootSession
  PROVE  IInv'
<1>1. FlashTypeOK' /\ FlashAccepted' /\ BlankIsEmpty'
  BY FlashRests DEF CreateBootSession
<1>2. TypeOK' /\ RamAccepted' /\ CommandPlan'
  BY <1>1 DEF CreateBootSession, ram, IInv, TypeOK, FlashTypeOK, RamAccepted, CommandPlan, IsOperational,
     Config!ConfigTypeOK, Prov!ProvisioningTypeOK, Prov!ValidRawStored, Prov!ValidEntityId
<1>3. BootPlan'
  <2>1. FirstBoot => blank["config"] /\ cfg = Config!Defaults
    BY DEF CreateBootSession, IInv, BootPlan, Idle, Store!Idle
  <2>2. \/ FirstBoot /\ running' = Write("config", Config!Stored(Config!Defaults))
        \/ running' = Store!MirrorOf("config")
    BY <2>1 DEF CreateBootSession
  <2>3. /\ Config!Defaults' = Config!Defaults
        /\ Config!Stored(Config!Defaults)' = Config!Stored(Config!Defaults)
    BY DEF Config!Defaults, Config!Stored, Config!FloatToQ16
  <2>4. Store!MirrorOf("config")' = Store!MirrorOf("config") /\ blank' = blank /\ cfg' = cfg /\ FirstBoot' = FirstBoot
        /\ stage' = stage /\ stage = "CREATE_BOOT_SESSION"
    BY DEF CreateBootSession, Store!MirrorOf, flash, ram, FirstBoot
  <2>5. CASE running' = Store!MirrorOf("config")
    BY <2>1, <2>3, <2>4, <2>5 DEF BootPlan
  <2>6. CASE FirstBoot /\ running' = Write("config", Config!Stored(Config!Defaults))
    BY <2>1, <2>3, <2>4, <2>6 DEF BootPlan, Write
  <2> QED BY <2>2, <2>5, <2>6
<1>4. AnswerIsDurable'
  BY PromiseStands DEF CreateBootSession, flash
<1> QED BY <1>1, <1>2, <1>3, <1>4 DEF IInv

LEMMA DefaultsSavedStep ==
  ASSUME IInv, DefaultsSaved
  PROVE  IInv'
<1>0. ~IsOperational
  BY DEF DefaultsSaved, IsOperational
<1>1. PICK ok \in BOOLEAN : Ends(ok) /\ \E read \in Store!ReadResults("config")' : Config!Written(ok, read)
  BY DEF DefaultsSaved
<1>2. cfgStatus' \in Statuses
  BY <1>1, StatusOfRead DEF Config!Written, Statuses, RecordTypes
<1>3. TypeOK' /\ RamAccepted' /\ CommandPlan'
  BY <1>0, <1>1, <1>2, BootCallReturns DEF DefaultsSaved, IInv, TypeOK, FlashTypeOK, RamAccepted, CommandPlan,
     Stages, Statuses, IsOperational, Config!ConfigTypeOK, Prov!ProvisioningTypeOK, Prov!ValidRawStored, Prov!ValidEntityId
<1>4. BootPlan'
  BY DEF DefaultsSaved, BootPlan, Store!MirrorOf
<1>5. AnswerIsDurable'
  BY <1>0, <1>1, BootCallReturns, PromiseStands DEF DefaultsSaved
<1> QED BY <1>0, <1>1, <1>3, <1>4, <1>5, BootCallReturns DEF IInv

LEMMA ConfigMirroredStep ==
  ASSUME IInv, ConfigMirrored
  PROVE  IInv'
<1>0. ~IsOperational
  BY DEF ConfigMirrored, IsOperational
<1>1. PICK ok \in BOOLEAN : Ends(ok)
  BY DEF ConfigMirrored
<1>2. cfgStatus' \in Statuses /\ cfg' = cfg
  BY StatusOfRead DEF ConfigMirrored, Config!Mirrored, RecordTypes
<1>3. TypeOK' /\ RamAccepted' /\ CommandPlan'
  BY <1>0, <1>1, <1>2, BootCallReturns DEF ConfigMirrored, IInv, TypeOK, FlashTypeOK, RamAccepted, CommandPlan,
     Stages, Statuses, IsOperational, Config!ConfigTypeOK, Prov!ProvisioningTypeOK, Prov!ValidRawStored, Prov!ValidEntityId
<1>4. BootPlan'
  BY DEF ConfigMirrored, BootPlan, Store!MirrorOf
<1>5. AnswerIsDurable'
  BY <1>0, <1>1, BootCallReturns, PromiseStands DEF ConfigMirrored
<1> QED BY <1>0, <1>1, <1>3, <1>4, <1>5, BootCallReturns DEF IInv

LEMMA IdentityMirroredStep ==
  ASSUME IInv, IdentityMirrored
  PROVE  IInv'
<1>0. ~IsOperational
  BY DEF IdentityMirrored, IsOperational
<1>1. PICK ok \in BOOLEAN : Ends(ok)
  BY DEF IdentityMirrored
<1>2. stage' = "SELF_TEST" /\ Idle'
  BY DEF IdentityMirrored, TransitionTo, CanTransition, Edges, Idle
<1>3. TypeOK' /\ RamAccepted' /\ CommandPlan' /\ BootPlan'
  BY <1>0, <1>1, <1>2, BootCallReturns DEF IdentityMirrored, ram, IInv, TypeOK, FlashTypeOK, RamAccepted, CommandPlan,
     BootPlan, Stages, IsOperational, Config!ConfigTypeOK, Prov!ProvisioningTypeOK, Prov!ValidRawStored, Prov!ValidEntityId
<1>4. AnswerIsDurable'
  BY <1>0, <1>1, BootCallReturns, PromiseStands DEF IdentityMirrored
<1> QED BY <1>0, <1>1, <1>3, <1>4, BootCallReturns DEF IInv

LEMMA AdvanceStep ==
  ASSUME IInv, Advance
  PROVE  IInv'
<1>1. /\ stage \in {"BOOT", "SELF_TEST", "PROBE_PERIPHERALS", "INITIALIZE_DRIVERS", "READY"}
      /\ \/ stage' = stage
         \/ stage = "BOOT" /\ stage' = "LOAD_CONFIGURATION"
         \/ stage # "BOOT" /\ stage' \in {"PROBE_PERIPHERALS", "INITIALIZE_DRIVERS", "READY", "OPERATIONAL"}
  BY DEF Advance, QuietStages, TransitionTo
<1>2. FlashTypeOK' /\ FlashAccepted' /\ BlankIsEmpty'
  BY FlashRests DEF Advance
<1>3. Idle /\ Idle'
  BY <1>1 DEF Advance, IInv, BootPlan, Idle
<1>4. TypeOK' /\ RamAccepted' /\ CommandPlan' /\ BootPlan'
  BY <1>1, <1>2, <1>3 DEF Advance, ram, IInv, TypeOK, FlashTypeOK, RamAccepted, CommandPlan,
     BootPlan, Stages, IsOperational, Config!ConfigTypeOK, Prov!ProvisioningTypeOK, Prov!ValidRawStored, Prov!ValidEntityId
<1>5. AnswerIsDurable'
  BY PromiseStands DEF Advance, flash
<1> QED BY <1>2, <1>4, <1>5 DEF IInv

-----------------------------------------------------------------------------
(* The commands.                                                           *)

\* What a handler checked before it called the store.
LEMMA SetConfigPlans ==
  ASSUME IInv, NEW r \in Requests, IsOperational, r.type = "SET_CONFIG", Config!Validate(Config!Candidate(r))
  PROVE  Config!Stored(Config!Candidate(r)) \in Configs
<1>1. Config!Candidate(r).periods \in Periods
  BY DEF Config!Validate
<1>2. Config!Candidate(r).factor \in Int
  BY RequestAssumption DEF Config!Candidate, IInv, TypeOK, Config!ConfigTypeOK
<1>3. Config!FloatToQ16(Config!Candidate(r).factor) \in Int
  BY <1>2, Q16IsInteger
<1> QED BY <1>1, <1>3 DEF Config!Stored, Configs

LEMMA RegisterPlans ==
  ASSUME NEW r \in Requests, r.type = "REGISTER_DEVICE", Prov!ValidEntityId(r.installation)
  PROVE  Registered(r) \in Prov!Registrations /\ Prov!ValidRawStored(Registered(r))
BY RequestAssumption, IdAssumption DEF Registered, Prov!Registrations, Prov!Ids, Prov!ValidRawStored, Prov!ValidEntityId

LEMMA AssignPlans ==
  ASSUME IInv, NEW r \in Requests, r.type = "ASSIGN_LOCATION", IdsValid(r), reg.registered
  PROVE  Located(r) \in Prov!Registrations /\ Prov!ValidRawStored(Located(r))
<1>1. r.building \in Prov!Ids /\ r.room \in Prov!Ids /\ reg \in Prov!Registrations
  BY RequestAssumption DEF IInv, TypeOK, Prov!ProvisioningTypeOK
<1>2. Prov!ValidEntityId(reg.installation)
  BY DEF IInv, RamAccepted, Prov!ValidRawStored
<1> QED BY <1>1, <1>2 DEF IdsValid, Located, Prov!Registrations, Prov!ValidRawStored, Prov!ValidEntityId

LEMMA ReceiveStep ==
  ASSUME IInv, Receive
  PROVE  IInv'
<1>1. PICK r \in Requests :
        /\ request' = r /\ ramCurrent' = (reg = value["registration"])
        /\ \/ Answer("unauthorized")
           \/ IsAllowed(r) /\ (SetConfig(r) \/ ResetConfig(r) \/ RegisterDevice(r)
                                \/ AssignLocation(r) \/ UnregisterDevice(r) \/ FactoryReset(r))
  BY DEF Receive
<1>2. IsOperational /\ Idle /\ IsOperational' /\ stage' = stage /\ cfg' = cfg /\ reg' = reg /\ flash' = flash
  BY DEF Receive, ram, IsOperational
<1>3. FlashTypeOK' /\ FlashAccepted' /\ BlankIsEmpty'
  BY <1>2, FlashRests
<1>4. TypeOK' /\ RamAccepted' /\ BootPlan'
  BY <1>1, <1>2, <1>3 DEF Receive, ram, IInv, TypeOK, FlashTypeOK, RamAccepted, BootPlan, IsOperational,
     Config!ConfigTypeOK, Prov!ProvisioningTypeOK, Prov!ValidRawStored, Prov!ValidEntityId
<1>5. \/ answer' \notin Promises
      \/ answer' = "already_registered" /\ Owns(r.installation)
      \/ /\ answer' = "already_assigned" /\ Owns(r.installation)
         /\ reg.building = r.building /\ reg.room = r.room
  BY <1>1 DEF Answer, Calls, SetConfig, ResetConfig, RegisterDevice, AssignLocation, UnregisterDevice,
     FactoryReset, Clears, Promises
<1>6. AnswerIsDurable'
  <2>1. CASE answer' \notin Promises
    BY <2>1 DEF AnswerIsDurable, Promises
  <2>2. CASE ramCurrent' = FALSE /\ answer' \in {"already_registered", "already_assigned"}
    BY <2>2 DEF AnswerIsDurable
  <2>3. CASE ramCurrent' = TRUE /\ answer' = "already_registered" /\ Owns(r.installation)
    <3>1. value'["registration"] = reg /\ reg \in Prov!Registrations /\ request' = r
      BY <1>1, <1>2, <2>3 DEF flash, IInv, TypeOK, Prov!ProvisioningTypeOK
    <3>2. OwnerStored'
      BY <2>3, <3>1, NoDataAssumption DEF OwnerStored, Owns
    <3> QED BY <2>3, <3>2 DEF AnswerIsDurable
  <2>4. CASE /\ ramCurrent' = TRUE /\ answer' = "already_assigned" /\ Owns(r.installation)
             /\ reg.building = r.building /\ reg.room = r.room
    <3>1. value'["registration"] = reg /\ reg \in Prov!Registrations /\ request' = r
      BY <1>1, <1>2, <2>4 DEF flash, IInv, TypeOK, Prov!ProvisioningTypeOK
    <3>2. LocationStored'
      BY <2>4, <3>1 DEF LocationStored, Owns, Prov!Registrations
    <3> QED BY <2>4, <3>2 DEF AnswerIsDurable
  <2>5. ramCurrent' \in BOOLEAN
    BY <1>1
  <2> QED BY <1>5, <2>1, <2>2, <2>3, <2>4, <2>5
<1>7. CommandPlan'
  <2> SUFFICES ASSUME ~Idle' PROVE IsAllowed(r) /\ answer' = "none" /\ (ConfigPlan' \/ RegistrationPlan')
    BY <1>1 DEF CommandPlan, IsAllowed
  <2>1. IsAllowed(r) /\ running' # running
    BY <1>1, <1>2 DEF Answer, Idle
  <2>2. CASE SetConfig(r)
    <3>1. /\ r.type = "SET_CONFIG" /\ Config!Validate(Config!Candidate(r))
          /\ Calls(Write("config", Config!Stored(Config!Candidate(r))))
      BY <2>1, <2>2 DEF SetConfig, Answer
    <3>2. NewConfig' = Config!Candidate(r)
      BY <1>1, <1>2, <3>1 DEF NewConfig, Config!Candidate
    <3>3. Config!Stored(NewConfig)' = Config!Stored(Config!Candidate(r))
      BY <3>2 DEF Config!Stored, Config!FloatToQ16
    <3> QED BY <1>1, <1>2, <2>1, <3>1, <3>3, SetConfigPlans DEF ConfigPlan, Calls, Write
  <2>3. CASE ResetConfig(r)
    <3>1. Config!Stored(NewConfig)' = Config!Stored(Config!Defaults)
      BY <1>1, <2>3 DEF ResetConfig, NewConfig, Config!Stored, Config!Defaults, Config!FloatToQ16
    <3> QED BY <1>1, <2>1, <2>3, <3>1, DefaultsAreStored DEF ResetConfig, ResetToDefaults, ConfigPlan, Calls, Write
  <2>4. CASE RegisterDevice(r)
    <3>1. /\ r.type = "REGISTER_DEVICE" /\ Prov!ValidEntityId(r.installation) /\ ~reg.registered
          /\ Calls(Write("registration", Registered(r)))
      BY <2>1, <2>4 DEF RegisterDevice, Answer
    <3>2. Requested' = Registered(r)
      BY <1>1, <3>1 DEF Requested, Registered
    <3> QED BY <1>1, <1>2, <2>1, <3>1, <3>2, RegisterPlans DEF RegistrationPlan, Calls, Write, Prov!ValidRawStored, Prov!ValidEntityId
  <2>5. CASE AssignLocation(r)
    <3>1. /\ r.type = "ASSIGN_LOCATION" /\ IdsValid(r) /\ reg.registered /\ reg.installation = r.installation
          /\ Calls(Write("registration", Located(r)))
      BY <2>1, <2>5 DEF AssignLocation, Answer, Owns
    <3>2. Requested' = Located(r)
      BY <1>1, <1>2, <3>1 DEF Requested, Located
    <3> QED BY <1>1, <1>2, <2>1, <3>1, <3>2, AssignPlans DEF RegistrationPlan, Calls, Write, Prov!ValidRawStored, Prov!ValidEntityId
  <2>6. CASE UnregisterDevice(r) \/ FactoryReset(r)
    <3>1. /\ r.type \in Destructive /\ answer' = "none"
          /\ \/ running' = Write("registration", Prov!Unregistered)
             \/ running' = Recover("registration", Prov!Unregistered)
      BY <2>1, <2>6 DEF UnregisterDevice, FactoryReset, Clears, Answer, Calls, Destructive
    <3>2. Requested' = Prov!Unregistered
      BY <1>1, <3>1 DEF Requested, Destructive
    <3> QED BY <1>1, <2>1, <3>1, <3>2, UnregisteredIsStored DEF RegistrationPlan, Write, Recover, Destructive,
            Prov!ValidRawStored, Prov!ValidEntityId
  <2> QED BY <1>1, <2>1, <2>2, <2>3, <2>4, <2>5, <2>6 DEF Answer
<1> QED BY <1>3, <1>4, <1>6, <1>7 DEF IInv

LEMMA RegistrationWrittenStep ==
  ASSUME IInv, RegistrationWritten
  PROVE  IInv'
<1>1. PICK ok \in BOOLEAN :
        /\ Ends(ok) /\ Prov!Written(Requested, ok)
        /\ IF ok /\ request.type = "FACTORY_RESET"
           THEN Calls(ResetToDefaults)
           ELSE running' = Store!Idle /\ answer' = IF ok THEN Success ELSE Failure
  BY DEF RegistrationWritten
<1>2. ~Idle /\ IsOperational /\ IsOperational' /\ running.type = "registration"
  BY <1>1 DEF Ends, RegistrationWritten, IsOperational
<1>3. RegistrationPlan /\ request \in Requests /\ IsAllowed(request)
  BY <1>2 DEF IInv, CommandPlan, ConfigPlan, Write
<1>4. SafeCall /\ StoreStep /\ (ok => value'["registration"] = Requested)
  BY <1>1, <1>2, <1>3, PlannedCallIsSafe, CallReturns DEF RegistrationPlan, Write, Recover
<1>5. Moved /\ FlashTypeOK' /\ FlashAccepted' /\ BlankIsEmpty'
  BY <1>4, FlashStaysAccepted
<1>6. reg' \in Prov!Registrations /\ regStatus' \in Statuses /\ (reg'.registered => Prov!ValidRawStored(reg'))
  BY <1>1, <1>3 DEF Prov!Written, RegistrationPlan, IInv, TypeOK, RamAccepted, Prov!ProvisioningTypeOK, Statuses
<1>7. TypeOK' /\ RamAccepted' /\ BootPlan'
  BY <1>2, <1>5, <1>6 DEF RegistrationWritten, IInv, TypeOK, FlashTypeOK, RamAccepted, BootPlan, Statuses, IsOperational,
     Config!ConfigTypeOK, Prov!ProvisioningTypeOK, Prov!ValidRawStored, Prov!ValidEntityId
<1>8. CASE ok /\ request.type = "FACTORY_RESET"
  <2>1. running' = Write("config", Config!Stored(Config!Defaults)) /\ answer' = "none" /\ request' = request
    BY <1>1, <1>8 DEF Calls, ResetToDefaults, RegistrationWritten
  <2>2. Config!Stored(NewConfig)' = Config!Stored(Config!Defaults)
    BY <1>8, <2>1 DEF NewConfig, Config!Stored, Config!Defaults, Config!FloatToQ16
  <2>3. value'["registration"] = Prov!Unregistered
    BY <1>4, <1>8 DEF Requested
  <2>4. ConfigPlan'
    BY <1>8, <2>1, <2>2, <2>3, DefaultsAreStored DEF ConfigPlan, Write, Prov!Unregistered
  <2>5. CommandPlan'
    BY <1>3, <2>1, <2>4 DEF CommandPlan, IsAllowed
  <2>6. AnswerIsDurable'
    BY <2>1 DEF AnswerIsDurable
  <2> QED BY <1>5, <1>7, <2>5, <2>6 DEF IInv
<1>9. CASE ~(ok /\ request.type = "FACTORY_RESET")
  <2>1. running' = Store!Idle /\ answer' = (IF ok THEN Success ELSE Failure) /\ request' = request
    BY <1>1, <1>9 DEF RegistrationWritten
  <2>2. CommandPlan'
    BY <2>1 DEF CommandPlan, Idle
  <2>3. AnswerIsDurable'
    <3>1. CASE ok /\ request.type = "REGISTER_DEVICE"
      BY <1>4, <2>1, <3>1 DEF Success, AnswerIsDurable, Requested, Registered
    <3>2. CASE ok /\ request.type = "ASSIGN_LOCATION"
      <4>1. value'["registration"] = [registered |-> TRUE, installation |-> request.installation,
                                      building |-> request.building, room |-> request.room]
        BY <1>3, <1>4, <3>2 DEF RegistrationPlan, Requested, Located, IInv, TypeOK, Prov!ProvisioningTypeOK, Prov!Registrations
      <4>2. answer' = "location_assigned"
        BY <2>1, <3>2 DEF Success
      <4>3. LocationStored'
        BY <2>1, <4>1 DEF LocationStored
      <4> QED BY <4>2, <4>3 DEF AnswerIsDurable
    <3>3. CASE ok /\ request.type = "UNREGISTER_DEVICE"
      BY <1>4, <2>1, <3>3 DEF Success, AnswerIsDurable, Requested, Prov!Unregistered
    <3>4. CASE ~ok
      BY <2>1, <3>4 DEF Failure, AnswerIsDurable
    <3> QED BY <1>3, <1>9, <3>1, <3>2, <3>3, <3>4 DEF RegistrationPlan, Destructive
  <2> QED BY <1>5, <1>7, <2>2, <2>3 DEF IInv
<1> QED BY <1>8, <1>9

LEMMA ConfigWrittenStep ==
  ASSUME IInv, ConfigWritten
  PROVE  IInv'
<1>1. PICK ok \in BOOLEAN :
        /\ Ends(ok)
        /\ \E read \in Store!ReadResults("config")' : Config!Applied(NewConfig, ok, read)
        /\ answer' = IF ok THEN Success ELSE Failure
  BY DEF ConfigWritten
<1>2. ~Idle /\ IsOperational /\ IsOperational' /\ running.type = "config" /\ request' = request /\ Idle'
  BY <1>1 DEF Ends, ConfigWritten, IsOperational, Idle
<1>3. ConfigPlan /\ request \in Requests
  BY <1>2 DEF IInv, CommandPlan, RegistrationPlan, Write, Recover
<1>4. SafeCall /\ StoreStep /\ (ok => value'["config"] = Config!Stored(NewConfig))
  BY <1>1, <1>2, <1>3, PlannedCallIsSafe, CallReturns DEF ConfigPlan, Write
<1>5. Moved /\ FlashTypeOK' /\ FlashAccepted' /\ BlankIsEmpty'
  BY <1>4, FlashStaysAccepted
<1>6. NewConfig.periods \in Periods /\ NewConfig.q16 \in Int /\ NewConfig.factor \in Int
  <2>1. NewConfig.periods \in Periods
    BY <1>3 DEF ConfigPlan, Config!Stored, Configs
  <2>2. CASE request.type = "SET_CONFIG"
    BY <1>3, <2>1, <2>2, RequestAssumption DEF NewConfig, Config!Candidate, IInv, TypeOK, Config!ConfigTypeOK
  <2>3. CASE request.type # "SET_CONFIG"
    BY <2>3, DefaultsAreStored DEF NewConfig
  <2> QED BY <2>1, <2>2, <2>3
<1>7. cfgStatus' \in Statuses /\ cfg' \in {cfg, NewConfig}
  BY <1>1, StatusOfRead DEF Config!Applied, Config!Written, Statuses, RecordTypes
<1>8. cfg'.periods \in Periods /\ cfg'.q16 \in Int /\ cfg'.factor \in Int
  BY <1>2, <1>6, <1>7 DEF IInv, TypeOK, RamAccepted, Config!ConfigTypeOK, IsOperational
<1>9. TypeOK' /\ RamAccepted' /\ BootPlan' /\ CommandPlan'
  BY <1>2, <1>5, <1>7, <1>8 DEF ConfigWritten, IInv, TypeOK, FlashTypeOK, RamAccepted, BootPlan, CommandPlan, Statuses,
     IsOperational, Config!ConfigTypeOK, Prov!ProvisioningTypeOK, Prov!ValidRawStored, Prov!ValidEntityId
<1>10. AnswerIsDurable'
  <2>1. CASE ok /\ request.type = "SET_CONFIG"
    <3>1. answer' = "saved" /\ value'["config"] = Config!Stored(Config!Candidate(request)) /\ value'["config"] # NoData
      BY <1>1, <1>3, <1>4, <2>1, NoDataAssumption DEF Success, NewConfig, ConfigPlan
    <3>2. /\ "periods" \in DOMAIN request => value'["config"].periods = request.periods
          /\ "factor" \in DOMAIN request => value'["config"].q16 = Config!FloatToQ16(request.factor)
      BY <3>1 DEF Config!Stored, Config!Candidate
    <3> QED BY <1>2, <3>1, <3>2 DEF AnswerIsDurable, Config!FloatToQ16
  <2>2. CASE ok /\ request.type = "RESET_CONFIG"
    <3>1. answer' = "defaults_restored" /\ value'["config"] = Config!Stored(Config!Defaults)
      BY <1>1, <1>4, <2>2 DEF Success, NewConfig
    <3> QED BY <3>1 DEF AnswerIsDurable, Config!Stored, Config!Defaults, Config!FloatToQ16
  <2>3. CASE ok /\ request.type = "FACTORY_RESET"
    <3>1. answer' = "factory_reset_complete" /\ value'["config"] = Config!Stored(Config!Defaults)
      BY <1>1, <1>4, <2>3 DEF Success, NewConfig
    <3>2. value'["registration"] = Prov!Unregistered
      BY <1>2, <1>3, <1>5, <2>3 DEF ConfigPlan, Moved, RecordTypes
    <3> QED BY <3>1, <3>2 DEF AnswerIsDurable, Config!Stored, Config!Defaults, Config!FloatToQ16, Prov!Unregistered
  <2>4. CASE ~ok
    BY <1>1, <2>4 DEF Failure, AnswerIsDurable
  <2> QED BY <1>3, <2>1, <2>2, <2>3, <2>4 DEF ConfigPlan
<1> QED BY <1>5, <1>9, <1>10 DEF IInv

-----------------------------------------------------------------------------
(* The theorems.                                                           *)

LEMMA NextKeeps == IInv /\ [Next]_vars => IInv'
<1> SUFFICES ASSUME IInv, [Next]_vars PROVE IInv'
  OBVIOUS
<1>1. CASE UNCHANGED vars
  <2>1. FlashTypeOK' /\ FlashAccepted' /\ BlankIsEmpty'
    BY <1>1, FlashRests DEF vars, flash
  <2>2. TypeOK' /\ RamAccepted'
    BY <1>1, <2>1 DEF vars, ram, IInv, TypeOK, FlashTypeOK, RamAccepted, Config!ConfigTypeOK, Prov!ProvisioningTypeOK,
       Prov!ValidRawStored, Prov!ValidEntityId
  <2>3. BootPlan'
    <3>1. Config!Defaults' = Config!Defaults /\ Config!Stored(Config!Defaults)' = Config!Stored(Config!Defaults)
      BY DEF Config!Defaults, Config!Stored, Config!FloatToQ16
    <3>2. /\ Store!MirrorOf("config")' = Store!MirrorOf("config") /\ Store!MirrorOf("identity")' = Store!MirrorOf("identity")
          /\ Idle' = Idle /\ FirstBoot' = FirstBoot
      BY <1>1 DEF vars, flash, ram, Store!MirrorOf, Idle, FirstBoot
    <3> QED BY <1>1, <3>1, <3>2 DEF vars, flash, ram, IInv, BootPlan, Write
  <2>4. CommandPlan'
    <3>1. NewConfig' = NewConfig /\ Config!Stored(NewConfig)' = Config!Stored(NewConfig) /\ Requested' = Requested
      BY <1>1 DEF vars, ram, NewConfig, Config!Candidate, Config!Defaults, Config!Stored, Config!FloatToQ16,
         Requested, Registered, Located
    <3>2. IsOperational' = IsOperational /\ Idle' = Idle /\ IsAllowed(request)' = IsAllowed(request)
      BY <1>1 DEF vars, IsOperational, Idle, IsAllowed
    <3>3. ConfigPlan' = ConfigPlan
      BY <1>1, <3>1 DEF vars, flash, ram, ConfigPlan, Write, Prov!Unregistered
    <3>4. RegistrationPlan' = RegistrationPlan
      BY <1>1, <3>1 DEF vars, flash, ram, RegistrationPlan, Write, Recover, Prov!ValidRawStored, Prov!ValidEntityId, Prov!Unregistered
    <3> QED BY <1>1, <3>2, <3>3, <3>4 DEF vars, IInv, CommandPlan
  <2>5. AnswerIsDurable'
    BY <1>1, PromiseStands DEF vars, flash
  <2> QED BY <2>1, <2>2, <2>3, <2>4, <2>5 DEF IInv
<1>2. CASE AppRun
  BY <1>2, AppInitStep, LoadConfigurationStep, LoadIdentityStep, IdentitySavedStep, CreateBootSessionStep,
     DefaultsSavedStep, ConfigMirroredStep, IdentityMirroredStep, AdvanceStep, RegistrationWrittenStep,
     ConfigWrittenStep DEF AppRun
<1> QED BY <1>1, <1>2, ReceiveStep, PowerLossStep DEF Next

\* The records the device keeps are well formed, whatever it keeps in RAM is backed by
\* the checks made before it was written, and what was promised holds.
THEOREM Invariance == Spec => []IInv
<1>1. Spec => Init /\ [][Next]_vars
  BY PTL DEF Spec
<1> QED BY <1>1, InitHolds, NextKeeps, PTL

\* A success reported to a commander is durable, the one of a command that found
\* nothing to do if RAM held what the store did (command_dispatcher.c:327, 452).
THEOREM PromisesAreKept == Spec => []AnswerIsDurable
<1>1. IInv => AnswerIsDurable
  BY DEF IInv
<1> QED BY <1>1, Invariance, PTL

\* Every registration in the flash is one the boot accepts.
THEOREM FlashIsAccepted == Spec => []FlashAccepted
<1>1. IInv => FlashAccepted
  BY DEF IInv
<1> QED BY <1>1, Invariance, PTL

\* Only the return of a call of the store, or a loss of power during it, moves a record.
LEMMA RecordsMoveByCalls ==
  ASSUME IInv, [Next]_vars, ~UNCHANGED flash
  PROVE  /\ ~Idle /\ SafeCall /\ StoreStep /\ Moved
         /\ stage = "LOAD_IDENTITY" \/ stage = "CREATE_BOOT_SESSION" \/ IsOperational
<1>1. ~Idle
  <2>1. \/ PowerLoss /\ ~Idle
        \/ \E ok \in BOOLEAN : Ends(ok)
    BY DEF Next, AppRun, AppInit, LoadConfiguration, LoadIdentity, IdentitySaved, CreateBootSession, DefaultsSaved,
       ConfigMirrored, IdentityMirrored, Advance, RegistrationWritten, ConfigWritten, Receive, vars, flash,
       PowerLoss, Store!Interrupted, Idle
  <2> QED BY <2>1 DEF Ends
<1>2. StoreStep
  <2>1. Store!Interrupted \/ \E ok \in BOOLEAN : Ends(ok)
    BY DEF Next, AppRun, AppInit, LoadConfiguration, LoadIdentity, IdentitySaved, CreateBootSession, DefaultsSaved,
       ConfigMirrored, IdentityMirrored, Advance, RegistrationWritten, ConfigWritten, Receive, vars, PowerLoss, flash
  <2> QED BY <2>1, CallReturns, CallInterrupted
<1>3. SafeCall
  BY <1>1, PlannedCallIsSafe
<1>4. Moved
  BY <1>2, <1>3, FlashStaysAccepted
<1> QED BY <1>1, <1>2, <1>3, <1>4 DEF IInv, TypeOK, Stages, BootPlan, IsOperational

\* The boot changes no value and writes no damaged record; only a destructive command
\* recovers the registration.
THEOREM EvidenceStays == Spec => EvidenceIsKept
<1>1. IInv /\ [Next]_vars =>
        [\A rt \in RecordTypes :
           /\ ~IsOperational /\ value[rt] # NoData => value'[rt] = value[rt]
           /\ Store!Damaged(rt) =>
                \/ Store!Damaged(rt)'
                \/ IsOperational /\ rt = "registration" /\ request.type \in Destructive]_vars
  <2> SUFFICES ASSUME IInv, [Next]_vars, NEW rt \in RecordTypes
               PROVE  /\ ~IsOperational /\ value[rt] # NoData => value'[rt] = value[rt]
                      /\ Store!Damaged(rt) =>
                           \/ Store!Damaged(rt)'
                           \/ IsOperational /\ rt = "registration" /\ request.type \in Destructive
    OBVIOUS
  <2>1. CASE UNCHANGED flash
    BY <2>1 DEF flash, Store!Damaged
  <2>2. CASE ~UNCHANGED flash
    <3>1. /\ ~Idle /\ SafeCall /\ Moved
          /\ stage = "LOAD_IDENTITY" \/ stage = "CREATE_BOOT_SESSION" \/ IsOperational
      BY <2>2, RecordsMoveByCalls
    <3>2. CASE ~IsOperational
      <4>1. running.call # "recover" /\ (running.call = "write" => value[running.type] = NoData)
        BY <3>1, <3>2 DEF IInv, BootPlan, BlankIsEmpty, RecordTypes, Write, Store!MirrorOf
      <4>2. rt # running.type => value'[rt] = value[rt]
        BY <3>1 DEF Moved
      <4>3. running.call = "mirror" => value'[rt] = value[rt]
        BY <3>1 DEF Moved
      <4>4. Store!Damaged(rt) => Store!Damaged(rt)'
        BY <3>1, <4>1 DEF Moved
      <4> QED BY <3>1, <3>2, <4>1, <4>2, <4>3, <4>4 DEF SafeCall
    <3>3. CASE IsOperational
      <4>1. running.call = "recover" => running.type = "registration" /\ request.type \in Destructive
        BY <3>1, <3>3 DEF IInv, CommandPlan, ConfigPlan, RegistrationPlan, Write, Recover
      <4>2. Store!Damaged(rt) => Store!Damaged(rt)' \/ (running.call = "recover" /\ rt = running.type)
        BY <3>1 DEF Moved
      <4> QED BY <3>3, <4>1, <4>2
    <3> QED BY <3>2, <3>3
  <2> QED BY <2>1, <2>2
<1>2. Spec => [][Next]_vars
  BY PTL DEF Spec
<1> QED BY <1>1, <1>2, Invariance, PTL DEF EvidenceIsKept

\* What operational RAM takes on is what the store then holds.
THEOREM RuntimeIsConfirmed == Spec => RuntimeFollowsFlash
<1>1. IInv /\ [Next]_vars =>
        [IsOperational /\ IsOperational' =>
           /\ reg' # reg => reg' = value'["registration"]
           /\ cfg' # cfg => Config!Stored(cfg)' = value'["config"]]_vars
  <2> SUFFICES ASSUME IInv, [Next]_vars, IsOperational, IsOperational'
               PROVE  /\ reg' # reg => reg' = value'["registration"]
                      /\ cfg' # cfg => Config!Stored(cfg)' = value'["config"]
    OBVIOUS
  <2>1. CASE RegistrationWritten
    <3>1. PICK ok \in BOOLEAN : Ends(ok) /\ Prov!Written(Requested, ok)
      BY <2>1 DEF RegistrationWritten
    <3>2. ok => value'["registration"] = Requested
      <4>1. ~Idle /\ running.type = "registration"
        BY <2>1, <3>1 DEF Ends, RegistrationWritten
      <4>2. RegistrationPlan
        BY <4>1 DEF IInv, CommandPlan, ConfigPlan, Write
      <4>3. ok => value'["registration"] = running.data
        BY <3>1, <4>1, PlannedCallIsSafe, CallReturns
      <4>4. running.data = Requested
        BY <4>2 DEF RegistrationPlan, Write, Recover
      <4> QED BY <4>3, <4>4
    <3> QED BY <2>1, <3>1, <3>2 DEF Prov!Written, RegistrationWritten
  <2>2. CASE ConfigWritten
    <3>1. PICK ok \in BOOLEAN :
            Ends(ok) /\ \E read \in Store!ReadResults("config")' : Config!Applied(NewConfig, ok, read)
      BY <2>2 DEF ConfigWritten
    <3>2. ok => value'["config"] = Config!Stored(NewConfig)
      <4>1. ~Idle /\ running.type = "config"
        BY <2>2, <3>1 DEF Ends, ConfigWritten
      <4>2. ConfigPlan
        BY <4>1 DEF IInv, CommandPlan, RegistrationPlan, Write, Recover
      <4>3. ok => value'["config"] = running.data
        BY <3>1, <4>1, PlannedCallIsSafe, CallReturns
      <4>4. running.data = Config!Stored(NewConfig)
        BY <4>2 DEF ConfigPlan, Write
      <4> QED BY <4>3, <4>4
    <3>3. cfg' # cfg => ok /\ cfg' = NewConfig
      BY <3>1 DEF Config!Applied
    <3> QED BY <2>2, <3>2, <3>3 DEF ConfigWritten, Config!Stored, Config!FloatToQ16
  <2>3. CASE ~RegistrationWritten /\ ~ConfigWritten
    BY <2>3 DEF Next, AppRun, AppInit, LoadConfiguration, LoadIdentity, IdentitySaved, CreateBootSession, DefaultsSaved,
       ConfigMirrored, IdentityMirrored, Advance, Receive, vars, ram, PowerLoss, IsOperational, QuietStages
  <2> QED BY <2>1, <2>2, <2>3
<1>2. Spec => [][Next]_vars
  BY PTL DEF Spec
<1> QED BY <1>1, <1>2, Invariance, PTL DEF RuntimeFollowsFlash

\* Ownership changes hands only by a destructive command of a trusted local source.
THEOREM OwnerStays == Spec => OwnershipKept
<1>1. IInv /\ [Next]_vars =>
        [LET owned == value["registration"]
         IN  /\ owned # NoData /\ owned.registered /\ reg = owned
             /\ value'["registration"] # NoData
             /\ value'["registration"].installation # owned.installation
             => request.type \in Destructive /\ request.trust = "TRUSTED_LOCAL"]_vars
  <2> DEFINE owned == value["registration"]
  <2> SUFFICES ASSUME IInv, [Next]_vars, owned # NoData, owned.registered, reg = owned,
                      value'["registration"] # NoData,
                      value'["registration"].installation # owned.installation
               PROVE  request.type \in Destructive /\ request.trust = "TRUSTED_LOCAL"
    OBVIOUS
  <2>1. /\ ~Idle /\ SafeCall /\ Moved
        /\ stage = "LOAD_IDENTITY" \/ stage = "CREATE_BOOT_SESSION" \/ IsOperational
    BY RecordsMoveByCalls DEF flash
  <2>2. running.type = "registration" /\ value'["registration"] = running.data
    BY <2>1 DEF Moved, RecordTypes
  <2>3. IsOperational
    BY <2>1, <2>2 DEF IInv, BootPlan, Write, Store!MirrorOf
  <2>4. RegistrationPlan /\ IsAllowed(request)
    BY <2>1, <2>2, <2>3 DEF IInv, CommandPlan, ConfigPlan, Write
  <2>5. running.data = Requested
    BY <2>4 DEF RegistrationPlan, Write, Recover
  <2>6. request.type # "REGISTER_DEVICE"
    BY <2>4 DEF RegistrationPlan
  <2>7. request.type # "ASSIGN_LOCATION"
    BY <2>2, <2>5 DEF Requested, Located
  <2> QED BY <2>4, <2>6, <2>7 DEF RegistrationPlan, IsAllowed
<1>2. Spec => [][Next]_vars
  BY PTL DEF Spec
<1> QED BY <1>1, <1>2, Invariance, PTL DEF OwnershipKept

=============================================================================
