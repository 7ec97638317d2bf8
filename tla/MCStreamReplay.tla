---------------------------- MODULE MCStreamReplay ----------------------------
(***************************************************************************)
(* StreamReplay for TLC.                                                   *)
(***************************************************************************)
EXTENDS StreamReplay

CONSTANTS c1, c2
=============================================================================
