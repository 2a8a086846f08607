------------------------- MODULE MCConfigRoundTrip -------------------------
(* A small instance of ConfigRoundTrip for TLC. *)
EXTENDS ConfigRoundTrip, TLC

CONSTANTS pw, typedPw       \* two passwords

\* Settings that load and log, and what differs from them: limits that were chosen;
\* logging switched off; a rule file Coraza refuses; a backend that is no URL; inputs
\* that were emptied; no file to log to.
Usual      == [f \in Fields |-> IF f \in Bare THEN "chosen" ELSE "default"]
Tightened  == [Usual EXCEPT !["limits"] = "chosen"]
Quieted    == [Usual EXCEPT !["logging"] = "unset"]
Refused    == [Usual EXCEPT !["crs_path"] = "refused"]
Unroutable == [Usual EXCEPT !["backend"] = "refused"]
Emptied    == [Usual EXCEPT !["limits"] = "unset", !["texts"] = "unset"]
NoLog      == [Usual EXCEPT !["output"] = "unset"]

\* Files that leave out what has a default, the sites and the dashboard, and one with a
\* list of crawlers of its own.
Terse      == [f \in Fields |-> IF f \in Bare THEN "chosen" ELSE "unset"]
Siteless   == [Usual EXCEPT !["sites"] = "unset"]

Unwatched  == [Usual EXCEPT !["dashboard"] = "unset"]
Tuned      == [Tightened EXCEPT !["hidden"] = "chosen"]

MCEntered  == {Usual, Tightened, Quieted, Refused, Unroutable, Emptied, NoLog}

\* What is entered, with everything that the page, a file that ends early and LoadConfig
\* make of it.  (TLC evaluates these once, but what the .cfg names each time.)
AllSettings ==
    LET base   == MCEntered \cup {Terse, Siteless, Unwatched, Tuned}
        posted == base \cup {BuildConfig(s, t) : s \in base, t \in MCEntered}
        cut    == {Beginning(s, n) : s \in posted, n \in 0 .. 9}
        loaded == cut \cup {LoadConfig(s) : s \in cut}
        again  == loaded \cup {BuildConfig(s, t) : s \in loaded, t \in MCEntered}
    IN  {Beginning(s, n) : s \in again, n \in 0 .. 9}

Logging    == {s \in AllSettings : LogsThreats(s)}
Proxied    == {s \in AllSettings : HasProxy(s)}
Watching   == {s \in AllSettings : HasDashboard(s)}

MCSettings == AllSettings
MCLogged   == Logging
MCRoutable == Proxied
MCWatched  == Watching

MCSecrets  == {pw, typedPw}
MCTyped    == {[form |-> f, opens |-> typedPw] : f \in {"plain", "long"}}

File(form, s) == [lists |-> NoLists, settings |-> s,
                  password |-> [form |-> form, opens |-> pw]]

MCInitial  == {File("plain", Terse), File("2a", Tuned), File("long", Usual),
               File("2a", Siteless), File("2b", Unwatched)}

MCSymmetry == Permutations(Objects)
=============================================================================
