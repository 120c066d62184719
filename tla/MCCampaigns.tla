----------------------------- MODULE MCCampaigns -----------------------------
(* Model values for Campaigns. *)
EXTENDS Campaigns, TLC

CONSTANTS p1, p2, o1, i1, i2

MCProcs == {p1, p2}
MCOrders == {o1}
MCInstalls == {i1, i2}
MCAttempts == {1}
AllCommands == {"propose", "apply", "dispatch", "dispatch_apply", "status", "rollback"}
ProcSymmetry == Permutations(MCProcs)
=============================================================================
