------------------------- MODULE MCSparseMerkleTree -------------------------
(***************************************************************************)
(* SparseMerkleTree for TLC.                                               *)
(***************************************************************************)
EXTENDS SparseMerkleTree, TLC

(* Two of the three keys are neighbours, and not the same two when hashed. *)
MCHashedKey == (0 :> 6) @@ (1 :> 0) @@ (6 :> 1)
=============================================================================
