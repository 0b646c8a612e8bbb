--------------------------- MODULE MCAuditLedger ---------------------------
(* Instances of AuditLedger for model checking. *)
EXTENDS AuditLedger, TLC

CONSTANTS api, tool, r1, r2, s1, s2

MCOneHome == [r \in {r1, r2} |-> api]
MCNobody == << >>
MCSymmetry == Permutations({r1, r2}) \cup Permutations({s1, s2})
=============================================================================
