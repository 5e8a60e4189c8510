\* Two containers search the graph, which may have cycles; every request is answered.
SPECIFICATION FairSpec
CONSTANTS
  w1 = w1  w2 = w2
  d1 = d1  d2 = d2  d3 = d3
  Workers = {w1, w2}
  Serves <- Searchers
  Deliverable = {d1, d2, d3}
  Existing = {d1, d2, d3}
  Project = {"p"}
  Status = {"pending"}
  Spelling = {"canonical"}
  Canonical = "canonical"
  Null = Null
PROPERTIES Answered
