-------------------------- MODULE MCDashboardAuth --------------------------
(* Small instances of DashboardAuth for TLC. *)
EXTENDS DashboardAuth, TLC

MCSymmetry == Permutations(Attempts) \cup Permutations(Slots)
=============================================================================
