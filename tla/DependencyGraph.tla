-------------------------- MODULE DependencyGraph --------------------------
(***************************************************************************)
(* What the deliverables service promises of its dependency graph, as if   *)
(* every request were one atomic step: deliverables belong to a project    *)
(* for good, a dependency joins two existing deliverables of one project,  *)
(* the dependencies never form a cycle, and deleting a deliverable takes   *)
(* its dependencies with it.                                               *)
(***************************************************************************)
CONSTANTS Deliverable, Project

VARIABLES
  live,      \* the deliverables that exist
  project,   \* the project of each deliverable
  edges      \* <<a, b>>: a depends on b

graphVars == <<live, project, edges>>

\* No non-empty set of deliverables in which each depends on another one of
\* the set: for a finite graph, the absence of cycles.
Acyclic(E) ==
  \A S \in SUBSET Deliverable :
    S # {} => \E x \in S : \A y \in S : <<x, y>> \notin E

GraphInit ==
  /\ live \subseteq Deliverable
  /\ project \in [Deliverable -> Project]
  /\ edges = {}

\* A new deliverable, without dependencies.
Create(d, p) ==
  /\ d \notin live
  /\ live' = live \cup {d}
  /\ project' = [project EXCEPT ![d] = p]
  /\ UNCHANGED edges

\* A deliverable disappears together with every dependency from or to it.
Delete(d) ==
  /\ d \in live
  /\ live' = live \ {d}
  /\ edges' = {e \in edges : d \notin {e[1], e[2]}}
  /\ UNCHANGED project

\* A dependency is recorded only if it is legal in the graph it joins.
AddDependency(a, b) ==
  /\ {a, b} \subseteq live
  /\ project[a] = project[b]
  /\ Acyclic(edges \cup {<<a, b>>})
  /\ edges' = edges \cup {<<a, b>>}
  /\ UNCHANGED <<live, project>>

RemoveDependency(a, b) ==
  /\ <<a, b>> \in edges
  /\ edges' = edges \ {<<a, b>>}
  /\ UNCHANGED <<live, project>>

GraphNext ==
  \/ \E d \in Deliverable, p \in Project : Create(d, p)
  \/ \E d \in Deliverable : Delete(d)
  \/ \E a, b \in Deliverable : AddDependency(a, b) \/ RemoveDependency(a, b)

GraphSpec == GraphInit /\ [][GraphNext]_graphVars
=============================================================================
