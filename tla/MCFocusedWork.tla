--------------------------- MODULE MCFocusedWork ---------------------------
(***************************************************************************)
(* One item from the gateway and one from `thorn run`.                     *)
(***************************************************************************)
EXTENDS FocusedWork

CONSTANTS n1, n2, t1
=============================================================================
