---------------------------- MODULE MCDetector -----------------------------
(***************************************************************************)
(* Instances of Detector for TLC.                                          *)
(***************************************************************************)
EXTENDS Detector

CONSTANTS k1
=============================================================================
