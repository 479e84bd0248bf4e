----------------------------- MODULE MCSfsFile ------------------------------
(***************************************************************************)
(* SFS files for TLC: files are interchangeable, and so are open files.    *)
(***************************************************************************)
EXTENDS SfsFile, TLC

MCSymmetry == Permutations(Files) \cup Permutations(Handles)
=============================================================================
