----------------------------- MODULE MCSpinLock -----------------------------
(***************************************************************************)
(* The instance of SpinLock for TLC: the lock is a word between a halfword *)
(* and a doubleword, without gaps, so that the end of a region is the      *)
(* start of another.                                                       *)
(***************************************************************************)
EXTENDS SpinLock

MCCells == {[addr |-> 2, size |-> 2], [addr |-> 4, size |-> 4], [addr |-> 8, size |-> 8]}
=============================================================================
