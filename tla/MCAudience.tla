------------------------------- MODULE MCAudience -------------------------------
(* The overlapping requests of one contact. *)
EXTENDS Audience

CONSTANTS x1, p1, p2
=============================================================================
