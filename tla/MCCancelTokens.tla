--------------------------- MODULE MCCancelTokens ---------------------------
(***************************************************************************)
(* A token and a child of it, one execution on each, two callers.          *)
(***************************************************************************)
EXTENDS CancelTokens, TLC

CONSTANTS root, child, e1, e2

MCParent == (root :> None) @@ (child :> root)
MCHome == (e1 :> root) @@ (e2 :> child)
=============================================================================
