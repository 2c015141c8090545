---------------------------- MODULE ConfigRecord ----------------------------
(***************************************************************************)
(* The configuration of App/Src/config.c: the copy in RAM, what reading    *)
(* and writing its record makes of it, and the conversion between the      *)
(* calibration factor and the Q16 number the record holds.                 *)
(*                                                                         *)
(* The five periods are one value, valid or not.  A factor is a whole      *)
(* number of parts of 1/65536, of which a Q16 number keeps every Scale-th. *)
(***************************************************************************)
EXTENDS Integers

CONSTANTS
  Periods,         \* the periods Config_Validate accepts
  DefaultPeriods,
  NoPeriods,       \* the periods of a configuration nothing was loaded into
  Scale, DefaultFactor, MinFactor, MaxFactor, MaxQ16

VARIABLES
  cfg,       \* s_config
  cfgStatus  \* s_storage_status

FloatToQ16(factor) ==
  LET q == IF factor >= 0 THEN factor \div Scale ELSE -((-factor) \div Scale)
  IN  IF q > MaxQ16 THEN MaxQ16 ELSE IF q < -MaxQ16 - 1 THEN -MaxQ16 - 1 ELSE q
Q16ToFloat(q16) == q16 * Scale

Defaults == [periods |-> DefaultPeriods, q16 |-> FloatToQ16(DefaultFactor), factor |-> DefaultFactor]
Cleared == [periods |-> NoPeriods, q16 |-> 0, factor |-> 0]

\* Config_Validate looks at the Q16 number, and so does the loader.
Validate(storage) ==
  /\ storage.periods \in Periods
  /\ MinFactor <= Q16ToFloat(storage.q16) /\ Q16ToFloat(storage.q16) <= MaxFactor

\* Mutant: the number that was validated is stored, and not the converted factor.
StoredUnconverted(candidate) == [periods |-> candidate.periods, q16 |-> candidate.q16]
\* What Config_SaveCandidate writes: the periods and the converted factor.
Stored(candidate) == [periods |-> candidate.periods, q16 |-> FloatToQ16(candidate.factor)]

\* The candidate of SET_CONFIG: the factor of the request beside the Q16 number
\* of the configuration in force.
Candidate(request) ==
  [periods |-> IF "periods" \in DOMAIN request THEN request.periods ELSE cfg.periods,
   q16 |-> cfg.q16,
   factor |-> IF "factor" \in DOMAIN request THEN request.factor ELSE cfg.factor]

ConfigTypeOK ==
  /\ cfg.q16 \in Int /\ cfg.factor \in Int
  /\ cfgStatus \in {"OK", "NOT_FOUND", "CORRUPT", "IO_ERROR"}

Init == cfg = Cleared /\ cfgStatus = "NOT_FOUND"

\* The boot stage: Config_Load, and the defaults where it fails.
Load(read) ==
  IF read.status = "OK" /\ Validate(read.data)
  THEN /\ cfg' = [periods |-> read.data.periods, q16 |-> read.data.q16,
                  factor |-> Q16ToFloat(read.data.q16)]
       /\ cfgStatus' = "OK"
  ELSE /\ cfg' = Defaults
       /\ cfgStatus' = IF read.status = "OK" THEN "CORRUPT" ELSE read.status

\* A write of the record has returned; read is what the record then reads as.
Written(ok, read) == cfgStatus' = IF ok THEN "OK" ELSE read.status

\* Mutant: RAM takes on the candidate whatever becomes of the write.
AppliedAtOnce(candidate, ok, read) == Written(ok, read) /\ cfg' = candidate
\* Config_ApplyPersistent and Config_ResetToDefaults: RAM follows a successful write.
Applied(candidate, ok, read) ==
  /\ Written(ok, read)
  /\ cfg' = IF ok THEN candidate ELSE cfg

\* Config_EnsureRedundancy: the status is read again, whatever loading had found.
Mirrored(read) == cfgStatus' = read.status /\ UNCHANGED cfg

=============================================================================
