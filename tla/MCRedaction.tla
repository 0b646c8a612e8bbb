---------------------------- MODULE MCRedaction ----------------------------
(* Instances of Redaction for model checking. *)
EXTENDS Redaction

MCLabels == {"email", "mobile", "legal"}
(* Two labels of one family, and one of another. *)
MCFamily == [l \in MCLabels |-> IF l = "legal" THEN "Legal" ELSE "Phone"]
=============================================================================
