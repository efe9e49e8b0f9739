-------------------------- MODULE MCbdNodeManager --------------------------
(***************************************************************************)
(* The application may search for another node and for the node's own id,  *)
(* which the node also searches for by itself.                             *)
(***************************************************************************)
EXTENDS bdNodeManager

CONSTANTS own, fixed, x

OwnSearch == <<own>>

BothSearches == <<own, fixed>>

=============================================================================
