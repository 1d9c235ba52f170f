----------------------------- MODULE WorkshopMC -----------------------------
(* Workshop for TLC.  No symmetry: the run checks liveness as well.          *)
EXTENDS Workshop
=============================================================================
