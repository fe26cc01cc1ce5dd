----------------------------- MODULE MCColaErp -----------------------------
(* Instances of ColaErp for TLC.                                             *)
EXTENDS ColaErp

CONSTANTS p1, p2
=============================================================================
