------------------------- MODULE MCWarmConnection -------------------------
(***************************************************************************)
(* Containers are sent every operation of the services.                    *)
(***************************************************************************)
EXTENDS WarmConnection

S == INSTANCE ServiceOperations

Scripts == S!Operations
=============================================================================
