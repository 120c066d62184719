----------------------------- MODULE MCSnapshots -----------------------------
(* Two surfaces; one operator, and one process that upgrades a package. *)
EXTENDS Snapshots

CONSTANTS op, up

MCCommands == [p \in Procs |-> IF p = op THEN {"create", "campaign", "restore"}
                               ELSE {"upgrade"}]
MCSurfaceOf == [f \in Files |-> IF f = "b" THEN "t" ELSE "s"]
=============================================================================
