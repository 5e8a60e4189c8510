SPECIFICATION MCFairSpec
CONSTANTS
  Deliverable = {d1, d2, d3}
  Existing = {d1, d2}
  Project = {"p", "q"}
  Status = {"pending", "completed"}
  MaxLoads = 2
  MaxSlips = 1
  MaxEdits = 1
  First = d1
  Home = "p"
  Null = Null
INVARIANTS TypeOK ListFresh
PROPERTIES SavedAsShown AddedIsStored SaveEnds
