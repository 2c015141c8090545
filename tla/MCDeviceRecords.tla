--------------------------- MODULE MCDeviceRecords ---------------------------
(***************************************************************************)
(* DeviceRecords with two installations, one of them also a building and a *)
(* room, and a calibration factor that is in range before it is converted  *)
(* and out of range after.  A configuration, a location and a destructive  *)
(* command of a remote source are among those that must be refused.        *)
(***************************************************************************)
EXTENDS DeviceRecords

CONSTANTS p0, badPeriods, i1, i2

MCPeriods == {p0}
MCEntities == {i1, i2}

Local == "TRUSTED_LOCAL"
Remote == "AUTHENTICATED_REMOTE"

MCRequests ==
  {[type |-> "SET_CONFIG", trust |-> Remote, factor |-> 10],
   [type |-> "SET_CONFIG", trust |-> Remote, periods |-> badPeriods],
   [type |-> "RESET_CONFIG", trust |-> Remote],
   [type |-> "RESET_CONFIG", trust |-> "UNTRUSTED"],
   [type |-> "REGISTER_DEVICE", trust |-> Remote, installation |-> i1],
   [type |-> "REGISTER_DEVICE", trust |-> Remote, installation |-> i2],
   [type |-> "REGISTER_DEVICE", trust |-> Remote, installation |-> ErasedId],
   [type |-> "ASSIGN_LOCATION", trust |-> Remote,
    installation |-> i1, building |-> i1, room |-> i1],
   [type |-> "ASSIGN_LOCATION", trust |-> Local,
    installation |-> i1, building |-> ErasedId, room |-> ZeroId],
   [type |-> "UNREGISTER_DEVICE", trust |-> Remote],
   [type |-> "UNREGISTER_DEVICE", trust |-> Local],
   [type |-> "FACTORY_RESET", trust |-> Local]}

=============================================================================
