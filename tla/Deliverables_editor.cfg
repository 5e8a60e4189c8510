\* One container edits the dependency graph, another serves the rest.
SPECIFICATION Spec
CONSTANTS
  w1 = w1  w2 = w2
  d1 = d1  d2 = d2  d3 = d3
  Workers = {w1, w2}
  Serves <- OneEditor
  Deliverable = {d1, d2, d3}
  Existing = {d1, d2}
  Project = {"p", "q"}
  Status = {"pending"}
  Spelling = {"canonical"}
  Canonical = "canonical"
  Null = Null
INVARIANTS NoOrphan
PROPERTIES RefusedOnlyForCycle ImplementsGraph
