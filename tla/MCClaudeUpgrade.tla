--------------------------- MODULE MCClaudeUpgrade ---------------------------
(* Small stores for ClaudeUpgrade: package "a" has two requests, "b" one. *)
EXTENDS ClaudeUpgrade, TLC

CONSTANTS old, new

MCVersions == {old, new}
MCPackageOf == [r \in Requests |-> IF r = "b1" THEN "b" ELSE "a"]
MCSymmetry == Permutations(Procs)
MCTargetOf == [r \in Requests |-> new]
=============================================================================
