---------------------------- MODULE Provisioning ----------------------------
(***************************************************************************)
(* Who owns the device and where it is, Provisioning/Src/provisioning.c:   *)
(* the registration in RAM and what reading and writing its record makes   *)
(* of it.                                                                  *)
(*                                                                         *)
(* A level's flag and its id go together in every registration the code    *)
(* builds, so a registration is its ids and the flag of level x is         *)
(* ValidEntityId(x).  The revision counter is left out.                    *)
(***************************************************************************)
CONSTANTS Entities, ZeroId, ErasedId

VARIABLES
  reg,       \* s_current
  regStatus  \* s_storage_status

Ids == Entities \cup {ZeroId, ErasedId}
Registrations == [registered : BOOLEAN, installation : Ids, building : Ids, room : Ids]

Unregistered ==
  [registered |-> FALSE, installation |-> ZeroId, building |-> ZeroId, room |-> ZeroId]

ValidEntityId(id) == id # ZeroId /\ id # ErasedId

\* ValidateFlags, of a registration about to be saved.  An id that is not valid
\* passes it where its flag is down.
Canonical(r) ==
  IF r.registered
  THEN ValidEntityId(r.installation) /\ (ValidEntityId(r.room) => ValidEntityId(r.building))
  ELSE \A id \in {r.installation, r.building, r.room} : ~ValidEntityId(id)

\* ValidateRawStored, of a record that was read.
ValidRawStored(r) ==
  IF r.registered
  THEN /\ ValidEntityId(r.installation)
       /\ r.building # ErasedId /\ r.room # ErasedId
       /\ r.room # ZeroId => r.building # ZeroId
  ELSE r = Unregistered

DeriveCanonical(r) ==
  LET building == IF ValidEntityId(r.building) THEN r.building ELSE ZeroId
      room == IF ValidEntityId(r.building) /\ ValidEntityId(r.room) THEN r.room ELSE ZeroId
  IN  IF r.registered
      THEN [registered |-> TRUE, installation |-> r.installation,
            building |-> building, room |-> room]
      ELSE Unregistered

\* The storage state is known, and mutations are allowed.
Known == regStatus \in {"OK", "NOT_FOUND"}

ProvisioningTypeOK ==
  /\ reg \in Registrations
  /\ regStatus \in {"OK", "NOT_FOUND", "CORRUPT", "IO_ERROR"}

Init == reg = Unregistered /\ regStatus = "NOT_FOUND"

\* Provisioning_Init.
Load(read) ==
  IF read.status = "OK" /\ ValidRawStored(read.data)
  THEN reg' = DeriveCanonical(read.data) /\ regStatus' = "OK"
  ELSE /\ reg' = Unregistered
       /\ regStatus' = IF read.status = "OK" THEN "CORRUPT" ELSE read.status

\* The end of Registration_Save and of Provisioning_Clear: RAM follows a
\* successful write only, and so does the storage status.
Written(new, ok) ==
  IF ok THEN reg' = new /\ regStatus' = "OK" ELSE UNCHANGED <<reg, regStatus>>

=============================================================================
