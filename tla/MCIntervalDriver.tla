--------------------------- MODULE MCIntervalDriver ---------------------------
(***************************************************************************)
(* Small traces for the interval driver: some segments alone have enough   *)
(* nodes for an analysis, others only together.                            *)
(***************************************************************************)
EXTENDS IntervalDriver

FewOrMany == {1, 3}
=============================================================================
