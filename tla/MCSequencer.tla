---------------------------- MODULE MCSequencer -----------------------------
(* Sequencer for TLC.                                                      *)
EXTENDS Sequencer, TLC

CONSTANTS t1, t2

MCTokenOrder == <<t1, t2>>

MCOneToken == <<t1>>

Symmetry == Permutations(Accounts)
=============================================================================
