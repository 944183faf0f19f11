------------------------------ MODULE MCTriac -------------------------------
(***************************************************************************)
(* Values for checking Triac: readings on both sides of every threshold    *)
(* (999 to 2480) and P words, in tenths, on both sides of the two limits.  *)
(***************************************************************************)
EXTENDS Triac

MCTemps == {999, 1000, 1239, 1240, 2479, 2480}
MCPWords == {-1, 5, 1000, 1001}
MCNoPWord == -2
=============================================================================
