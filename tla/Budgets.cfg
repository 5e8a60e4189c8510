SPECIFICATION MCSpec
CONSTANTS
  Project = {p, q}
  Name = {Apollo, Gemini}
  Total = {0, 2}
  Id = {e1, e2}
  Amount = {2}
  Filters = {p}
  MaxRequests = 2
  MaxSlips = 1
  Null = Null
  Gone = Gone
SYMMETRY Symmetry
INVARIANTS TypeOK CardsRight BoardAgrees
