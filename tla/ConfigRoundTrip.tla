-------------------------- MODULE ConfigRoundTrip --------------------------
(***************************************************************************)
(* ConfigStore with the fields of ConfigLoading as its settings, and with  *)
(* the configuration of the last save that was acknowledged.               *)
(***************************************************************************)
EXTENDS ConfigStore, ConfigLoading

ASSUME FieldsAssumption ==
    /\ Settings \subseteq [Fields -> Values]
    /\ \A s \in Settings : Defaulted(s) = LoadConfig(s)
    /\ \A s \in Settings, t \in Entered : Posted(s, t) = BuildConfig(s, t)
    /\ \A s \in Settings : Verdict(s) = NewEngineVerdict(s)
    /\ Logged = {s \in Settings : LogsThreats(s)}
    /\ Routable = {s \in Settings : HasProxy(s)}
    /\ Watched = {s \in Settings : HasDashboard(s)}
    /\ \A s \in Settings : Cuts(s) = Beginnings(s)

VARIABLE acked      \* history: what the file was last acknowledged to hold, Nil once
                    \* it has been truncated again

RoundTripInit == Init /\ acked = Nil

\* Saved, answered, and kept in mind.
Acknowledging(a) == Acknowledges(a) /\ job[a].op # "reload"

RoundTripNext ==
    /\ Next
    /\ acked' = IF \E a \in Admins : Acknowledging(a) THEN Live'
                ELSE IF file' = Empty THEN Nil
                ELSE acked

RoundTripSpec == RoundTripInit /\ [][RoundTripNext]_<<vars, acked>>

\* index.html:1312-1335, config.go:191-253 and dashboard.go:355-372: what a save was
\* acknowledged with, the process goes on with until the file is next truncated: the
\* password, every limit, and what is not on the page.  It does so although the process
\* dies and starts from the file, reloads are refused, lists are edited and not saved,
\* and inputs were left empty or fields left out of the file.  A save that gets as far as
\* the truncation ends it: if that one fails or the process dies, nothing of the old file
\* is left.  Fields that the page sends as they are (a policy that was emptied) come
\* back with their defaults and are not in it.
RestartKeepsSaved ==
    Up /\ acked # Nil =>
        /\ Live.password = acked.password
        /\ \A f \in Restored \cup OffPage : Live.settings[f] = acked.settings[f]
=============================================================================
