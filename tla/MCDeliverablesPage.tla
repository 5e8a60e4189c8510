------------------------ MODULE MCDeliverablesPage --------------------------
(***************************************************************************)
(* DeliverablesPage for TLC: the initial states up to a renaming of the    *)
(* projects, and one project for the ids that have not been issued, which  *)
(* nothing reads before Write sets it.                                     *)
(***************************************************************************)
EXTENDS DeliverablesPage

CONSTANTS First, Home

MCInit ==
  /\ Init
  /\ \A d \in {First} \cup (Deliverable \ Existing) : project[d] = Home

MCFairSpec == MCInit /\ [][Next]_vars /\ Fairness
=============================================================================
