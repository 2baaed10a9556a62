-------------------------- MODULE MCInboxLifecycle --------------------------
(***************************************************************************)
(* Two notifications of one external key and one of another that asks for  *)
(* an RSVP.                                                                *)
(***************************************************************************)
EXTENDS InboxLifecycle

CONSTANTS n1, n2, n3, k1, k2

SharedKey == [n \in Items |-> IF n = n3 THEN k2 ELSE k1]
=============================================================================
