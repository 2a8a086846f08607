--------------------------- MODULE ConfigLoading ---------------------------
(***************************************************************************)
(* What becomes of a setting on its way from the settings page through the *)
(* file to the next start: LoadConfig's defaults (config.go), the values   *)
(* the page puts in for what was left empty (buildConfig in index.html),   *)
(* and what NewEngine and NewReverseProxy make of the result.              *)
(*                                                                         *)
(* Of a value it matters only whether it is unset (0, "", nil or an empty  *)
(* list), the default, another one that was chosen, or a chosen one that   *)
(* Coraza, os.OpenFile or url.Parse refuses.  Fields that are treated      *)
(* alike are one:                                                          *)
(*   limits    requests_per_minute, burst, ban_threshold, ban_duration,    *)
(*             max_body_size, max_url_length, max_header_size,             *)
(*             max_json_depth, hsts_max_age                                *)
(*   texts     listen, name, url, level, csp, frame_options,               *)
(*             referrer_policy, format, dashboard.listen                   *)
(*   hidden    allowed_bots, verify_bots_by_dns, response_body_limit,      *)
(*             response_body_mime_types, which are not on the page         *)
(*   sites     is "unset" when there is none                               *)
(*   logging   threat_logging.enabled, and dashboard the dashboard's       *)
(***************************************************************************)
EXTENDS Integers

Values   == {"unset", "default", "chosen", "refused"}
Restored == {"limits"}                              \* sent as `value || default`
Verbatim == {"texts", "output", "backend", "crs_path", "logging"}   \* as they are
OffPage  == {"hidden", "sites", "dashboard"}        \* as they were fetched
Bare     == {"sites", "backend", "crs_path", "logging", "dashboard"}  \* have no default
Fields   == Restored \cup Verbatim \cup OffPage

\* LoadConfig, after the file is parsed.
LoadConfig(s) ==
    [f \in Fields |-> IF f \notin Bare /\ s[f] = "unset" THEN "default" ELSE s[f]]

\* Mutated form of BuildConfig: numbers are sent as they are, too.
BuildConfigVerbatim(fetched, s) ==
    [f \in Fields |-> IF f \in OffPage THEN fetched[f] ELSE s[f]]

\* buildConfig, with s in the inputs of a page that has fetched a configuration.
BuildConfig(fetched, s) ==
    [f \in Fields |-> IF f \in OffPage THEN fetched[f]
                      ELSE IF f \in Restored /\ s[f] = "unset" THEN "default" ELSE s[f]]

LogsThreats(s) == s["logging"] # "unset"

\* NewEngine indexes the first site, hands the rules and the body limits to Coraza
\* and opens the log.
NewEngineVerdict(s) ==
    CASE s["sites"] = "unset"                                 -> "panic"
      [] "refused" \in {s["crs_path"], s["limits"]}            -> "error"
      [] LogsThreats(s) /\ s["output"] \in {"unset", "refused"} -> "error"
      [] OTHER                                                -> "ok"

\* NewReverseProxy parses the backends.
HasProxy(s) == s["backend"] # "refused"

HasDashboard(s) == s["dashboard"] # "unset"

\* Where the last field of a kind stands in the file that yaml.Marshal writes.
Place == [sites |-> 1, backend |-> 2, crs_path |-> 3, hidden |-> 4, limits |-> 5,
          logging |-> 6, output |-> 7, dashboard |-> 8, texts |-> 9]

\* The file ends after n of these.  A kind of which any field is missing counts as unset.
Beginning(s, n) == [f \in Fields |-> IF Place[f] <= n THEN s[f] ELSE "unset"]
Beginnings(s)   == {Beginning(s, n) : n \in 0 .. 9}
=============================================================================
