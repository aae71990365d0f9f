------------------------------ MODULE MCLogin ------------------------------
(***************************************************************************)
(* An instance of Login for TLC.                                           *)
(***************************************************************************)
EXTENDS Login, TLC

CONSTANTS v1, t1

MCNames == {"alice", "mallory"}
MCNormalize == [n \in MCNames |-> n]
MCCodes == {"ABCD-2345", "ZZZZ-9999"}
MCNormalizeUserCode == [c \in MCCodes |-> c]
=============================================================================
