SPECIFICATION Spec
CONSTANTS
  Id = {p1}
  MaxDay = 1
  Deadlines = {1, Null}
  Notice = 0
  Filters = {"at_risk"}
  MaxLoads = 2
  MaxDeletes = 1
  MaxSlips = 2
  Null = Null
INVARIANTS TypeOK ComputedStatusNeverSticks FilterObeyed
PROPERTIES UntouchedSurvives DeletedStaysDeleted
