------------------------------ MODULE MCRollup ------------------------------
(***************************************************************************)
(* Rollup for TLC: the tokens in the order of their registration.          *)
(***************************************************************************)
EXTENDS Rollup, TLC

CONSTANTS t1, t2

MCTokenOrder == <<t1>>
MCTokenOrder2 == <<t1, t2>>

Symmetry == Permutations(Accounts)
=============================================================================
