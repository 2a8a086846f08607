---------------------------- MODULE MCDashboard ----------------------------
(* Small instances of DashboardAuth, DashboardToken and ThreatLog for TLC. *)
(* Of the logins, those that fail do not overlap another one of the same   *)
(* client; MCDashboardAuth is where they do.                               *)
EXTENDS DashboardAuth, DashboardToken, ThreatLog, TLC

VARIABLE part       \* which of the three a behaviour is about

MCInit ==
    /\ Init /\ TokenInit /\ LogInit
    /\ part \in {"auth", "token", "log"}
    /\ part # "log" => live = [enabled |-> FALSE, output |-> NoLook.file]
    /\ part # "token" => credentials

MCNext ==
    /\ UNCHANGED part
    /\ \/ part = "auth" /\ Next /\ Alone' /\ UNCHANGED <<tokenVars, logVars>>
       \/ part = "token" /\ TokenNext /\ UNCHANGED <<vars, logVars>>
       \/ part = "log" /\ LogNext /\ UNCHANGED <<vars, tokenVars>>

MCSpec == MCInit /\ [][MCNext]_<<part, vars, tokenVars, logVars>>

MCSymmetry == Permutations(Attempts) \cup Permutations(Slots) \cup Permutations(Outputs)
=============================================================================
