SPECIFICATION FairSpec
CONSTANTS
  Resource = {r1, r2}
  Staff = {r1}
  Default = 2
  Field <- MCField
  Hours = {2}
  MaxAllocations = 2
  Slots = {1, 2}
  MaxSlips = 1
  Cleared = Cleared
  Null = Null
  Failed = Failed
  Unborn = Unborn
  Gone = Gone
INVARIANTS TypeOK AllocationsBelong TotalsFresh
PROPERTIES OverAllocationWarned CapacitySurvives ButtonsReturn
