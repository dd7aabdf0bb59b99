------------------------------- MODULE MCSeams -------------------------------
(* The instance of MCSyncer, with the history of Seams.                     *)
EXTENDS MCSyncer, Seams
=============================================================================
