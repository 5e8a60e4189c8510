---------------------------- MODULE MCResources ----------------------------
(***************************************************************************)
(* What Resources.cfg cannot write down: the capacity field is emptied, or *)
(* a negative number typed into it.                                        *)
(***************************************************************************)
EXTENDS Resources

MCField == {Cleared, -1}
=============================================================================
