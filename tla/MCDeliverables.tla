--------------------------- MODULE MCDeliverables ---------------------------
(***************************************************************************)
(* Values for the constants of Deliverables.                               *)
(***************************************************************************)
EXTENDS Deliverables, TLC

CONSTANTS w1, w2, d1, d2, d3

\* One container edits the graph, the other serves everything else.
OneEditor == (w1 :> {"add", "remove", "delete"} @@ w2 :> {"create", "update", "get"})

\* One container adds dependencies, another one changes everything else.
OneAdder == (w1 :> {"add", "list"} @@ w2 :> {"create", "update", "delete", "remove"})

\* Two containers change the graph at will.
TwoAdders == (w1 :> {"add", "delete"} @@ w2 :> {"add", "remove", "update", "delete"})

\* Two containers search the graph while dependencies come and go.
Searchers == (w1 :> {"add"} @@ w2 :> {"add", "remove"})
=============================================================================
