-------------------------- MODULE MCOrgInvitation --------------------------
(* An instance of OrgInvitation for TLC. *)
EXTENDS OrgInvitation

CONSTANTS w1, w2, o1, o2, e1, i1, i2
=============================================================================
