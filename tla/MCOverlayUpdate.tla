-------------------------- MODULE MCOverlayUpdate --------------------------
(* The repair update with its bounds as constants. *)
EXTENDS OverlayUpdate
=============================================================================
