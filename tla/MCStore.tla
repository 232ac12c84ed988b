------------------------------ MODULE MCStore -------------------------------
(* Two default nodes, above and below the marker in the order of keys.     *)
EXTENDS Store

DefaultNodes == <<3, 0>>
=============================================================================
