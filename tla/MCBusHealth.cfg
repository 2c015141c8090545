CONSTANTS
  Slots = {1, 2, 3}
  ClockHalf = 4
  Window = 2
  Cooldown = 2
  MaxStep = 2
SPECIFICATION Spec
INVARIANTS
  RecoveryIsJustified
  IInv
PROPERTIES
  RecoveriesSpaced
  EvidenceIsActedOn
