-------------------------- MODULE MCScanController --------------------------
(***************************************************************************)
(* ScanController for TLC. The cfg files choose the scans, their kinds and *)
(* the faults; scans of one kind are interchangeable.                      *)
(***************************************************************************)
EXTENDS ScanRuns, TLC

Symmetric == Permutations(Scans)
=============================================================================
