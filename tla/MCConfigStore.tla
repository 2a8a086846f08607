--------------------------- MODULE MCConfigStore ---------------------------
(***************************************************************************)
(* Small instances of ConfigStore for TLC, with settings that are their    *)
(* names: every field has a value, so that neither LoadConfig nor the page *)
(* changes anything, and a file that was cut short names no site or has    *)
(* lost its password only.  (MCConfigRoundTrip has fields that are left    *)
(* out, and every beginning of a file.)                                    *)
(***************************************************************************)
EXTENDS ConfigStore, TLC

CONSTANTS pw, typedPw       \* two passwords

MCSettings == {"usual", "quieted", "refused", "siteless"}
MCGood     == {"usual"}
MCVerdict(s) == CASE s = "refused"  -> "error"
                  [] s = "siteless" -> "panic"
                  [] OTHER          -> "ok"
MCLogged   == Settings \ {"quieted"}

MCDefaulted(s)       == s
MCPosted(fetched, s) == s
MCCuts(s)            == {"siteless"}

MCSecrets  == {pw, typedPw}
MCTyped    == {[form |-> "plain", opens |-> typedPw]}
MCNothing  == {}
MCHashed2b == {[lists |-> NoLists, settings |-> "usual",
                password |-> [form |-> "2b", opens |-> pw]]}
MCHashed   == {[lists |-> NoLists, settings |-> "usual",
                password |-> [form |-> "2a", opens |-> pw]]}
MCStored   == MCHashed \cup {[lists |-> NoLists, settings |-> "quieted",
                             password |-> [form |-> "long", opens |-> pw]]}

MCSymmetry == Permutations(Objects) \cup Permutations(Admins)
=============================================================================
