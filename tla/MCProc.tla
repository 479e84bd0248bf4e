------------------------------- MODULE MCProc -------------------------------
(* Instances of Proc for TLC.                                              *)
EXTENDS Proc, TLC

CONSTANTS p1, p2, p3

MCSlots == {p1, p2, p3}
MCProcs == MCSlots \cup {idleproc, initproc}
SlotSymmetry == Permutations(MCSlots)

MCSlots2 == {p1, p2}
MCProcs2 == MCSlots2 \cup {idleproc, initproc}
=============================================================================
