--------------------------- MODULE MCClaudeBridge ---------------------------
(* Model values and symmetry for the runs of ClaudeBridge. *)
EXTENDS ClaudeBridge, TLC

\* A retry of another action is never bound to the challenged one.
MCBinds == {<<f, f>> : f \in Fps}

Symmetry == Permutations(Procs) \cup Permutations(Tools) \cup Permutations(Reasons)
=============================================================================
