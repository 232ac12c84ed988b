--------------------------- MODULE MCStateMachine ---------------------------
(***************************************************************************)
(* StateMachine for TLC: symmetry, and what a comment of the code says and *)
(* the code does not do.                                                   *)
(***************************************************************************)
EXTENDS StateMachine, TLC

Symmetry == Permutations(Accounts) \cup Permutations(Tokens)

(* "Sender no such token" is an error the caller gets back, not a crash.   *)
NeverPanics == status # "panicked"
=============================================================================
