---------------------------- MODULE MCMpiAnalysis ----------------------------
(***************************************************************************)
(* The whole analysis with the programs and timings of MCMpiReplay.        *)
(***************************************************************************)
EXTENDS MpiAnalysis, MCMpiReplay
=============================================================================
