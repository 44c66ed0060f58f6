---------------------------- MODULE MCIPUpdater ----------------------------
(***************************************************************************)
(* IPUpdater for TLC.  The callers other than the scheduler's worker are   *)
(* interchangeable, and so are the addresses.                              *)
(***************************************************************************)
EXTENDS IPUpdater, TLC

Symmetry == Permutations(Callers \ {Scheduler}) \cup Permutations(Addrs)
=============================================================================
