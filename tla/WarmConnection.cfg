SPECIFICATION Spec
CONSTANTS
  Container = {c1, c2}
  Script <- Scripts
  MaxRequests = 3
  Null = Null
INVARIANTS TypeOK IdleIsClean AcknowledgedIsCommitted
PROPERTY NothingLeaks
