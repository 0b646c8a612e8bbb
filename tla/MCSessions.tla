----------------------------- MODULE MCSessions -----------------------------
(* Instances of Sessions for model checking. *)
EXTENDS Sessions, TLC

MCSymmetry == Permutations(Requests) \cup Permutations(Procs) \cup Permutations(Devices)
=============================================================================
