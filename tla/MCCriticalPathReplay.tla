------------------------ MODULE MCCriticalPathReplay ------------------------
(***************************************************************************)
(* Values of the constants of CriticalPathReplay for model checking: every *)
(* graph of wait states over a few activities on two ranks.                *)
(***************************************************************************)
EXTENDS CriticalPathRefinement, TLC

CONSTANTS r1, r2

TwoRanks == {r1, r2}

\* Two MPI activities after the start of the interval.
Two == [r \in Rank |-> 2]
=============================================================================
