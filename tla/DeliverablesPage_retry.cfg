SPECIFICATION FairSpec
CONSTANTS
  Deliverable = {d1, d2, d3}
  Existing = {d1, d2, d3}
  Project = {"p"}
  Status = {"pending"}
  MaxLoads = 1
  MaxSlips = 1
  MaxEdits = 0
  Null = Null
PROPERTY SavedExactly
