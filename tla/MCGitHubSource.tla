--------------------------- MODULE MCGitHubSource ---------------------------
(***************************************************************************)
(* Three threads, all of their stamps.                                       *)
(***************************************************************************)
EXTENDS GitHubSource

CONSTANTS t1, t2, t3
=============================================================================
