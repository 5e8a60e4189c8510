------------------------------ MODULE MCBudgets ------------------------------
(***************************************************************************)
(* Entries and names are treated alike; projects are not, since the user   *)
(* filters by some of them only: those have the larger budget at first.    *)
(***************************************************************************)
EXTENDS Budgets

Symmetry == Permutations(Id) \cup Permutations(Name)

MCInit ==
  /\ Init
  /\ \A p \in Project :
       projects[p].total = IF p \in Filters THEN Max(Total) ELSE Min(Total)

MCSpec == MCInit /\ [][Next]_vars
=============================================================================
