--------------------------- MODULE MCAuditChain ----------------------------
(* Small instances of AuditChain: a few things at a time. *)
EXTENDS AuditChain, TLC

RetentionScenes == { {"chain", "sweep", "verify"}, {"chain", "erase", "sweep", "verify"} }
=============================================================================
