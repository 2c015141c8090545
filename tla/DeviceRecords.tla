---------------------------- MODULE DeviceRecords ----------------------------
(***************************************************************************)
(* The device's own records - configuration, identity, registration - from *)
(* power-on to the commands that change them: App_Init and the boot stages *)
(* of App_Run (App/Src/app.c), and the mutating handlers of                *)
(* Command/Src/command_dispatcher.c, over the promise of the record store, *)
(* AtomicRecord, which Storage is shown to keep.                           *)
(*                                                                         *)
(* The program is sequential.  What can come between two of its steps is a *)
(* loss of power, so a step ends where a call of the store begins or       *)
(* returns.  Storage that failed to initialize answers every call like     *)
(* storage that cannot be read or written.                                 *)
(***************************************************************************)
EXTENDS Integers

CONSTANTS
  Periods, DefaultPeriods, NoPeriods, Scale, DefaultFactor, MinFactor, MaxFactor, MaxQ16,
  Entities, ZeroId, ErasedId,
  NoData,
  Identity,   \* what the unique id of the chip derives to
  Requests,   \* the commands that may arrive, parsed, with the trust of their source
  NoRequest

VARIABLES
  value, backup, blank,  \* the record store, as in AtomicRecord
  running,               \* the call of the store in progress
  stage,                 \* LifecycleState
  cfg, cfgStatus,        \* the configuration in RAM
  bootStatus,            \* s_config_boot_load_status
  reg, regStatus,        \* the registration in RAM
  request,               \* the last command received
  ramCurrent,            \* RAM held the stored registration then (history: no code reads it)
  answer                 \* its result, "none" while it is served

flash == <<value, backup, blank>>
ram == <<cfg, cfgStatus, bootStatus, reg, regStatus>>
vars == <<flash, running, stage, ram, request, ramCurrent, answer>>

Config == INSTANCE ConfigRecord
Prov == INSTANCE Provisioning

RecordTypes == {"config", "identity", "registration"}
Configs == [periods : Periods, q16 : Int]
Payloads == Configs \cup {Identity} \cup Prov!Registrations

Store == INSTANCE AtomicRecord WITH AllTypes <- "all", ret <- [status |-> "none"]

ASSUME ConfigAssumption ==
  /\ Scale \in Nat \ {0} /\ MaxQ16 \in Nat
  /\ DefaultFactor \in Int /\ MinFactor \in Int /\ MaxFactor \in Int
  /\ Config!Validate(Config!Defaults)

ASSUME IdAssumption == ZeroId \notin Entities /\ ErasedId \notin Entities /\ ZeroId # ErasedId

ASSUME NoDataAssumption ==
  NoData \notin Configs /\ NoData # Identity /\ NoData \notin Prov!Registrations

\* The arguments ValidateArgs asks of each command.
ASSUME RequestAssumption ==
  /\ NoRequest \notin Requests
  /\ \A r \in Requests :
       /\ r.type = "SET_CONFIG" /\ "factor" \in DOMAIN r => r.factor \in Int
       /\ r.type \in {"REGISTER_DEVICE", "ASSIGN_LOCATION"} => r.installation \in Prov!Ids
       /\ r.type = "ASSIGN_LOCATION" => r.building \in Prov!Ids /\ r.room \in Prov!Ids

Write(rt, data) == [call |-> "write", type |-> rt, data |-> data]
Recover(rt, data) == [call |-> "recover", type |-> rt, data |-> data]

Idle == running = Store!Idle
\* The call returns, and its caller learns whether it succeeded.
Ends(ok) == ~Idle /\ Store!Returns(IF ok THEN "OK" ELSE "FAILED")

-----------------------------------------------------------------------------
(* Device/Src/device_lifecycle.c.                                          *)

Edges == {
  <<"POWER_ON", "BOOT">>, <<"BOOT", "LOAD_CONFIGURATION">>,
  <<"LOAD_CONFIGURATION", "LOAD_IDENTITY">>, <<"LOAD_IDENTITY", "CREATE_BOOT_SESSION">>,
  <<"CREATE_BOOT_SESSION", "SELF_TEST">>, <<"SELF_TEST", "PROBE_PERIPHERALS">>,
  <<"PROBE_PERIPHERALS", "INITIALIZE_DRIVERS">>, <<"INITIALIZE_DRIVERS", "READY">>,
  <<"READY", "OPERATIONAL">>, <<"OPERATIONAL", "DEGRADED">>, <<"DEGRADED", "OPERATIONAL">>,
  <<"OPERATIONAL", "SAFE_MODE">>, <<"DEGRADED", "SAFE_MODE">>,
  <<"SAFE_MODE", "OPERATIONAL">>, <<"SAFE_MODE", "DEGRADED">>}

\* Mutant: an edge is missing from the table.
CanTransitionShort(from, to) ==
  from = to \/ <<from, to>> \in Edges \ {<<"PROBE_PERIPHERALS", "INITIALIZE_DRIVERS">>}
CanTransition(from, to) == from = to \/ <<from, to>> \in Edges

\* An illegal transition is refused in silence: no caller looks at the result.
TransitionTo(next) == stage' = IF CanTransition(stage, next) THEN next ELSE stage

-----------------------------------------------------------------------------
(* Power, App_Init and the boot stages of App_Run.                         *)

Init ==
  /\ value = [rt \in RecordTypes |-> NoData]
  /\ backup = [rt \in RecordTypes |-> NoData]
  /\ blank = [rt \in RecordTypes |-> TRUE]
  /\ running = Store!Idle
  /\ stage = "POWER_ON"
  /\ Config!Init /\ Prov!Init /\ bootStatus = "NOT_FOUND"
  /\ request = NoRequest /\ ramCurrent = TRUE /\ answer = "none"

\* The answers that report success.  What was promised outlives the power; a command
\* in progress is forgotten, and so is a refusal.
Promises == {"saved", "defaults_restored", "registered", "already_registered",
             "location_assigned", "already_assigned", "unregistered", "factory_reset_complete"}

PowerLoss ==
  /\ stage # "POWER_ON"
  /\ Store!Interrupted
  /\ running' = Store!Idle
  /\ stage' = "POWER_ON"
  /\ cfg' = Config!Cleared /\ cfgStatus' = "NOT_FOUND" /\ bootStatus' = "NOT_FOUND"
  /\ reg' = Prov!Unregistered /\ regStatus' = "NOT_FOUND"
  /\ IF answer \in Promises THEN UNCHANGED <<request, ramCurrent, answer>>
     ELSE request' = NoRequest /\ ramCurrent' = TRUE /\ answer' = "none"

AppInit ==
  /\ stage = "POWER_ON"
  /\ \E read \in Store!ReadResults("registration") : Prov!Load(read)
  /\ stage' = "BOOT"
  /\ UNCHANGED <<flash, running, cfg, cfgStatus, bootStatus, request, ramCurrent, answer>>

LoadConfiguration ==
  /\ stage = "LOAD_CONFIGURATION"
  /\ \E read \in Store!ReadResults("config") : Config!Load(read)
  /\ bootStatus' = cfgStatus'
  /\ TransitionTo("LOAD_IDENTITY")
  /\ UNCHANGED <<flash, running, reg, regStatus, request, ramCurrent, answer>>

\* A derived identity is saved only where none was ever written.
LoadIdentity ==
  /\ stage = "LOAD_IDENTITY" /\ Idle
  /\ \E read \in Store!ReadResults("identity") :
       IF read.status = "NOT_FOUND"
       THEN running' = Write("identity", Identity) /\ UNCHANGED stage
       ELSE TransitionTo("CREATE_BOOT_SESSION") /\ UNCHANGED running
  /\ UNCHANGED <<flash, ram, request, ramCurrent, answer>>

IdentitySaved ==
  /\ stage = "LOAD_IDENTITY"
  /\ \E ok \in BOOLEAN : Ends(ok)
  /\ running' = Store!Idle
  /\ TransitionTo("CREATE_BOOT_SESSION")
  /\ UNCHANGED <<ram, request, ramCurrent, answer>>

\* Mutant: the defaults replace whatever could not be loaded.
UnlessLoaded == bootStatus # "OK"
\* The defaults are saved only where no configuration was ever written.
FirstBoot == bootStatus = "NOT_FOUND"

CreateBootSession ==
  /\ stage = "CREATE_BOOT_SESSION" /\ Idle
  /\ running' = IF FirstBoot /\ Config!Validate(cfg)
                THEN Write("config", Config!Stored(cfg)) ELSE Store!MirrorOf("config")
  /\ UNCHANGED <<flash, stage, ram, request, ramCurrent, answer>>

DefaultsSaved ==
  /\ stage = "CREATE_BOOT_SESSION" /\ running.call = "write"
  /\ \E ok \in BOOLEAN :
       /\ Ends(ok)
       /\ \E read \in Store!ReadResults("config")' : Config!Written(ok, read)
  /\ running' = Store!MirrorOf("config")'
  /\ UNCHANGED <<stage, cfg, bootStatus, reg, regStatus, request, ramCurrent, answer>>

ConfigMirrored ==
  /\ stage = "CREATE_BOOT_SESSION" /\ running.call = "mirror" /\ running.type = "config"
  /\ \E ok \in BOOLEAN : Ends(ok)
  /\ \E read \in Store!ReadResults("config")' : Config!Mirrored(read)
  /\ running' = Store!MirrorOf("identity")'
  /\ UNCHANGED <<stage, bootStatus, reg, regStatus, request, ramCurrent, answer>>

IdentityMirrored ==
  /\ stage = "CREATE_BOOT_SESSION" /\ running.call = "mirror" /\ running.type = "identity"
  /\ \E ok \in BOOLEAN : Ends(ok)
  /\ running' = Store!Idle
  /\ TransitionTo("SELF_TEST")
  /\ UNCHANGED <<ram, request, ramCurrent, answer>>

\* The stages that leave the records alone.
QuietStages == {
  <<"BOOT", "LOAD_CONFIGURATION">>, <<"SELF_TEST", "PROBE_PERIPHERALS">>,
  <<"PROBE_PERIPHERALS", "INITIALIZE_DRIVERS">>, <<"INITIALIZE_DRIVERS", "READY">>,
  <<"READY", "OPERATIONAL">>}
Advance ==
  /\ \E move \in QuietStages : stage = move[1] /\ TransitionTo(move[2])
  /\ UNCHANGED <<flash, running, ram, request, ramCurrent, answer>>

-----------------------------------------------------------------------------
(* The commands.  Command_Run serves one at a time.                        *)

IsOperational == stage \in {"OPERATIONAL", "DEGRADED"}

Destructive == {"UNREGISTER_DEVICE", "FACTORY_RESET"}

\* Mutant: a remote source may do what a local one may.
IsAllowedAuthenticated(r) == r.trust \in {"TRUSTED_LOCAL", "AUTHENTICATED_REMOTE"}
\* CommandAuthorization_IsAllowed, of the commands that change a record.
IsAllowed(r) ==
  \/ r.trust = "TRUSTED_LOCAL"
  \/ r.trust = "AUTHENTICATED_REMOTE" /\ r.type \notin Destructive

\* A handler answers at once, or calls the store first.
Answer(result) == answer' = result /\ UNCHANGED running
Calls(call) == running' = call /\ answer' = "none"

\* SET_CONFIG; Config_ApplyPersistent and Config_SaveCandidate both validate.
SetConfig(r) ==
  /\ r.type = "SET_CONFIG"
  /\ IF Config!Validate(Config!Candidate(r))
     THEN Calls(Write("config", Config!Stored(Config!Candidate(r))))
     ELSE Answer("invalid_configuration")

\* The defaults, validated like any candidate.
ResetToDefaults == Write("config", Config!Stored(Config!Defaults))

ResetConfig(r) == r.type = "RESET_CONFIG" /\ Calls(ResetToDefaults)

Owns(installation) == reg.registered /\ reg.installation = installation

Registered(r) ==
  [registered |-> TRUE, installation |-> r.installation, building |-> ZeroId, room |-> ZeroId]

RegisterDevice(r) ==
  /\ r.type = "REGISTER_DEVICE"
  /\ IF ~Prov!ValidEntityId(r.installation) THEN Answer("invalid_installation_id")
     ELSE IF ~Prov!Known THEN Answer("storage_state_unknown")
     ELSE IF reg.registered
          THEN Answer(IF Owns(r.installation) THEN "already_registered" ELSE "ownership_conflict")
     ELSE IF Prov!Canonical(Registered(r)) THEN Calls(Write("registration", Registered(r)))
     ELSE Answer("persist_failed")

Located(r) ==
  [registered |-> reg.registered, installation |-> reg.installation,
   building |-> r.building, room |-> r.room]

\* Mutant: the building and the room are taken as they come.
OwnerIdValid(r) == Prov!ValidEntityId(r.installation)
IdsValid(r) == \A id \in {r.installation, r.building, r.room} : Prov!ValidEntityId(id)

AssignLocation(r) ==
  /\ r.type = "ASSIGN_LOCATION"
  /\ IF ~IdsValid(r) THEN Answer("invalid_entity_id")
     ELSE IF ~Prov!Known THEN Answer("storage_state_unknown")
     ELSE IF ~reg.registered THEN Answer("device_not_registered")
     ELSE IF ~Owns(r.installation) THEN Answer("installation_mismatch")
     ELSE IF reg.building = r.building /\ reg.room = r.room THEN Answer("already_assigned")
     ELSE IF Prov!Canonical(Located(r)) THEN Calls(Write("registration", Located(r)))
     ELSE Answer("persist_failed")

\* Provisioning_Clear: the one way a damaged registration is repaired.
Clears(failure) ==
  \/ regStatus = "IO_ERROR" /\ Answer(failure)
  \/ regStatus = "CORRUPT" /\ Calls(Recover("registration", Prov!Unregistered))
  \/ Prov!Known /\ Calls(Write("registration", Prov!Unregistered))

UnregisterDevice(r) == r.type = "UNREGISTER_DEVICE" /\ Clears("unregister_failed")
FactoryReset(r) == r.type = "FACTORY_RESET" /\ Clears("factory_reset_incomplete")

Receive ==
  /\ IsOperational /\ Idle
  /\ \E r \in Requests :
       /\ request' = r /\ ramCurrent' = (reg = value["registration"])
       /\ \/ ~IsAllowed(r) /\ Answer("unauthorized")
          \/ IsAllowed(r) /\ (SetConfig(r) \/ ResetConfig(r) \/ RegisterDevice(r)
                                \/ AssignLocation(r) \/ UnregisterDevice(r) \/ FactoryReset(r))
  /\ UNCHANGED <<flash, stage, ram>>

\* The registration the request asked for, and what the handler answers.
Requested ==
  IF request.type = "REGISTER_DEVICE" THEN Registered(request)
  ELSE IF request.type = "ASSIGN_LOCATION" THEN Located(request)
  ELSE Prov!Unregistered

Success ==
  IF request.type = "SET_CONFIG" THEN "saved"
  ELSE IF request.type = "RESET_CONFIG" THEN "defaults_restored"
  ELSE IF request.type = "REGISTER_DEVICE" THEN "registered"
  ELSE IF request.type = "ASSIGN_LOCATION" THEN "location_assigned"
  ELSE IF request.type = "UNREGISTER_DEVICE" THEN "unregistered"
  ELSE "factory_reset_complete"
Failure ==
  IF request.type = "UNREGISTER_DEVICE" THEN "unregister_failed"
  ELSE IF request.type = "FACTORY_RESET" THEN "factory_reset_incomplete"
  ELSE "persist_failed"

\* The registration is written; a factory reset goes on with the configuration.
RegistrationWritten ==
  /\ IsOperational /\ running.type = "registration"
  /\ \E ok \in BOOLEAN :
       /\ Ends(ok)
       /\ Prov!Written(Requested, ok)
       /\ IF ok /\ request.type = "FACTORY_RESET"
          THEN Calls(ResetToDefaults)
          ELSE running' = Store!Idle /\ answer' = IF ok THEN Success ELSE Failure
  /\ UNCHANGED <<stage, cfg, cfgStatus, bootStatus, request, ramCurrent>>

NewConfig == IF request.type = "SET_CONFIG" THEN Config!Candidate(request) ELSE Config!Defaults

ConfigWritten ==
  /\ IsOperational /\ running.type = "config"
  /\ \E ok \in BOOLEAN :
       /\ Ends(ok)
       /\ \E read \in Store!ReadResults("config")' : Config!Applied(NewConfig, ok, read)
       /\ answer' = IF ok THEN Success ELSE Failure
  /\ running' = Store!Idle
  /\ UNCHANGED <<stage, bootStatus, reg, regStatus, request, ramCurrent>>

-----------------------------------------------------------------------------

AppRun ==
  \/ AppInit \/ LoadConfiguration \/ LoadIdentity \/ IdentitySaved
  \/ CreateBootSession \/ DefaultsSaved \/ ConfigMirrored \/ IdentityMirrored \/ Advance
  \/ RegistrationWritten \/ ConfigWritten

Next == AppRun \/ Receive \/ PowerLoss

\* The super-loop calls App_Run for as long as there is power.
Spec == Init /\ [][Next]_vars /\ WF_vars(AppRun)

-----------------------------------------------------------------------------
(* Properties.                                                             *)

Stages == {"POWER_ON", "BOOT", "LOAD_CONFIGURATION", "LOAD_IDENTITY", "CREATE_BOOT_SESSION",
           "SELF_TEST", "PROBE_PERIPHERALS", "INITIALIZE_DRIVERS", "READY", "OPERATIONAL",
           "DEGRADED", "SAFE_MODE"}
Statuses == {"OK", "NOT_FOUND", "CORRUPT", "IO_ERROR"}

TypeOK ==
  /\ value \in [RecordTypes -> Payloads \cup {NoData}]
  /\ backup \in [RecordTypes -> Payloads \cup {NoData}]
  /\ blank \in [RecordTypes -> BOOLEAN]
  /\ stage \in Stages
  /\ Config!ConfigTypeOK /\ Prov!ProvisioningTypeOK /\ bootStatus \in Statuses
  /\ request \in Requests \cup {NoRequest} /\ ramCurrent \in BOOLEAN

\* Every registration the store holds is one the next boot accepts, and every
\* configuration has valid periods, although what is validated before a write is
\* not what is validated after a read (provisioning.c:80-110 and 148-178).
Acceptable(copy) ==
  /\ copy["config"] \in Configs \cup {NoData}
  /\ copy["identity"] \in {Identity, NoData}
  /\ copy["registration"] \in Prov!Registrations \cup {NoData}
  /\ copy["registration"] # NoData => Prov!ValidRawStored(copy["registration"])

FlashAccepted == Acceptable(value) /\ Acceptable(backup)

\* The registration in the store is that of the request's installation; it is also
\* where the request says.
OwnerStored ==
  /\ value["registration"] # NoData
  /\ value["registration"].registered /\ value["registration"].installation = request.installation
LocationStored ==
  value["registration"] =
    [registered |-> TRUE, installation |-> request.installation,
     building |-> request.building, room |-> request.room]

\* A command that was answered with success has done what it was asked, and that
\* survives losses of power and boots until another command is received: "OK" comes
\* after the write (config.c:254, provisioning.c:234-241), the boot saves defaults
\* only over a blank record, and a factory reset reports both of its writes.  A
\* command that finds it has nothing to do is answered from RAM, without a write
\* (command_dispatcher.c:327-328, 452-453): its success is durable only if RAM held
\* what the store did.  It may not after a boot that could not read the newest copy,
\* or after a write that was reported as failed and had its effect (AlreadyIsStored).
AnswerIsDurable ==
  /\ answer = "saved" =>
       /\ value["config"] # NoData
       /\ "periods" \in DOMAIN request => value["config"].periods = request.periods
       /\ "factor" \in DOMAIN request =>
            value["config"].q16 = Config!FloatToQ16(request.factor)
  /\ answer \in {"defaults_restored", "factory_reset_complete"} =>
       value["config"] = Config!Stored(Config!Defaults)
  /\ answer \in {"unregistered", "factory_reset_complete"} =>
       value["registration"] = Prov!Unregistered
  /\ answer = "registered" => value["registration"] = Registered(request)
  /\ answer = "already_registered" /\ ramCurrent => OwnerStored
  /\ answer = "location_assigned" \/ (answer = "already_assigned" /\ ramCurrent) => LocationStored

\* What a call of the store may rely on when it returns: what was checked when it
\* was begun (app.c:1364, 1381; command_dispatcher.c:318-344, 423-456).
BootPlan ==
  /\ stage \in {"POWER_ON", "BOOT", "LOAD_CONFIGURATION", "SELF_TEST", "PROBE_PERIPHERALS",
                "INITIALIZE_DRIVERS", "READY", "SAFE_MODE"} => Idle
  /\ stage = "LOAD_IDENTITY" =>
       \/ Idle
       \/ running = Write("identity", Identity) /\ blank["identity"]
  /\ stage = "CREATE_BOOT_SESSION" =>
       \/ Idle
       \/ running = Write("config", Config!Stored(Config!Defaults)) /\ FirstBoot
       \/ running \in {Store!MirrorOf("config"), Store!MirrorOf("identity")}
  /\ stage \in {"LOAD_IDENTITY", "CREATE_BOOT_SESSION"} /\ running.call # "mirror" /\ FirstBoot =>
       blank["config"] /\ cfg = Config!Defaults

ConfigPlan ==
  /\ running = Write("config", Config!Stored(NewConfig))
  /\ Config!Stored(NewConfig) \in Configs
  /\ request.type \in {"SET_CONFIG", "RESET_CONFIG", "FACTORY_RESET"}
  /\ request.type = "FACTORY_RESET" => value["registration"] = Prov!Unregistered

RegistrationPlan ==
  /\ \/ running = Write("registration", Requested)
     \/ running = Recover("registration", Requested) /\ request.type \in Destructive
  /\ Requested \in Prov!Registrations /\ Prov!ValidRawStored(Requested)
  /\ request.type \in {"REGISTER_DEVICE", "ASSIGN_LOCATION"} \cup Destructive
  /\ request.type = "REGISTER_DEVICE" => ~reg.registered
  /\ request.type = "ASSIGN_LOCATION" => reg.registered /\ reg.installation = request.installation

CommandPlan ==
  IsOperational /\ ~Idle =>
    /\ request \in Requests /\ IsAllowed(request) /\ answer = "none"
    /\ ConfigPlan \/ RegistrationPlan

RamAccepted ==
  /\ reg.registered => Prov!ValidRawStored(reg)
  /\ stage \notin {"POWER_ON", "BOOT", "LOAD_CONFIGURATION"} => cfg.periods \in Periods

BlankIsEmpty == \A rt \in RecordTypes : blank[rt] => value[rt] = NoData

\* Together inductive.
IInv ==
  /\ TypeOK /\ FlashAccepted /\ BlankIsEmpty
  /\ RamAccepted /\ BootPlan /\ CommandPlan /\ AnswerIsDurable

\* The boot destroys no evidence (app.c:1357-1365 and 1378-1383): while the device is
\* not operational no record that has a value changes and no damaged record is
\* written; and at no time is a damaged record written, except that a command that
\* clears it recovers the registration.
EvidenceIsKept ==
  [][\A rt \in RecordTypes :
       /\ ~IsOperational /\ value[rt] # NoData => value'[rt] = value[rt]
       /\ Store!Damaged(rt) =>
            \/ Store!Damaged(rt)'
            \/ IsOperational /\ rt = "registration" /\ request.type \in Destructive]_vars

\* config.h:67: "Runtime config is only updated on confirmed success"; provisioning.c:234
\* says the same.  Once operational, RAM changes only to what the store then holds.
RuntimeFollowsFlash ==
  [][IsOperational /\ IsOperational' =>
       /\ reg' # reg => reg' = value'["registration"]
       /\ cfg' # cfg => Config!Stored(cfg)' = value'["config"]]_vars

\* A device that knows its owner passes to another, or to none, only by a destructive
\* command of a trusted local source (command.c:157-180, command_dispatcher.c:318-331).
OwnershipKept ==
  [][LET owned == value["registration"]
     IN  /\ owned # NoData /\ owned.registered /\ reg = owned
         /\ value'["registration"] # NoData
         /\ value'["registration"].installation # owned.installation
         => request.type \in Destructive /\ request.trust = "TRUSTED_LOCAL"]_vars

\* Once the power stays on the boot runs to its end, through every edge of the
\* lifecycle's table, and the device is free for a command again and again, whatever
\* the store returns.
PoweredDeviceServes ==
  <>[][stage' # "POWER_ON"]_vars => <>[]IsOperational /\ []<>(IsOperational /\ Idle)

\* config.h:50: "OK = a durable record is present (loaded as healthy OR last write
\* succeeded)".  What a SET_CONFIG has saved is a configuration Config_Load accepts.
SavedConfigIsLoaded ==
  answer = "saved" => Config!Validate(value["config"])

\* COMMAND_STATUS_OK of a command that found nothing to do, taken at its word: the
\* store holds what was asked for (command_dispatcher.c:327-328, 452-453).
AlreadyIsStored ==
  /\ answer = "already_registered" => OwnerStored
  /\ answer = "already_assigned" => LocationStored

=============================================================================
