--------------------------- MODULE MCAuditControl ---------------------------
(* AuditControl for TLC: two launches, so that a second process finds what  *)
(* an exit, a recovered panic or a kill of the first one left behind.       *)
EXTENDS AuditControl

=============================================================================
