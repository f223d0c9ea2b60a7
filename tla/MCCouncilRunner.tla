-------------------------- MODULE MCCouncilRunner --------------------------
(* A small instance of CouncilRunner.                                      *)
EXTENDS CouncilRunner
=============================================================================
