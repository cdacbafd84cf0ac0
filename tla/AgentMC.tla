------------------------------ MODULE AgentMC ------------------------------
(***************************************************************************)
(* Agent for TLC: the samples are interchangeable.                         *)
(***************************************************************************)
EXTENDS Agent, TLC

SampleSymmetry == Permutations(Samples)
=============================================================================
