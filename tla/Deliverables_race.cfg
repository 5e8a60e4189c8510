\* Two containers add dependencies at the same time.
SPECIFICATION Spec
CONSTANTS
  w1 = w1  w2 = w2
  d1 = d1  d2 = d2  d3 = d3
  Workers = {w1, w2}
  Serves <- TwoAdders
  Deliverable = {d1, d2}
  Existing = {d1, d2}
  Project = {"p"}
  Status = {"pending"}
  Spelling = {"canonical"}
  Canonical = "canonical"
  Null = Null
INVARIANTS NoCycle
