CONSTANTS
  p0 = p0
  badPeriods = badPeriods
  i1 = i1
  i2 = i2
  Periods <- MCPeriods
  DefaultPeriods = p0
  NoPeriods = NoPeriods
  Scale = 4
  DefaultFactor = 40
  MinFactor = 10
  MaxFactor = 400
  MaxQ16 = 200
  Entities <- MCEntities
  ZeroId = ZeroId
  ErasedId = ErasedId
  NoData = NoData
  Identity = Identity
  Requests <- MCRequests
  NoRequest = NoRequest
SPECIFICATION Spec
INVARIANTS
  SavedConfigIsLoaded
