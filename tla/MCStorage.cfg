CONSTANTS
  RecordTypeCount = 2
  SeqHalf = 3
  Payloads = {p1, p2}
  Blank = Blank
  Junk = Junk
  NoData = NoData
SPECIFICATION Spec
SYMMETRY PayloadSymmetry
INVARIANTS
  IInv
  HealthAgreesWithRead
PROPERTIES
  OnlyNewValueReplacesOld
  OtherTypesUntouched
  ImplementsAtomicRecord
