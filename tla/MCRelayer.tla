----------------------------- MODULE MCRelayer ------------------------------
(***************************************************************************)
(* Relayer for TLC: blocks with a withdrawal, of two accounts' transfer,   *)
(* and of more transitions than a tree can hold.                           *)
(***************************************************************************)
EXTENDS Relayer

MCTransition(type, slots) ==
    [type |-> type, root |-> ZeroRoot, slots |-> slots, names |-> {},
     tokenIndex |-> 0, amount |-> 1, nonce |-> 0]

W == MCTransition("withdraw", <<0>>)
X == MCTransition("transfer", <<0, 1>>)

MCBlockContents == {<<W>>, <<X, W>>, <<X, X, X>>}
MCRequestNumbers == {-1, 0}
MCRequestIndexes == {0, 1}
=============================================================================
