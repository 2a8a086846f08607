----------------------------- MODULE ThreatLog -----------------------------
(***************************************************************************)
(* The threat log from the requests that are logged to the list the        *)
(* dashboard shows (internal/engine/threatlogger.go, Engine.Reload, and    *)
(* handleThreats in internal/dashboard/dashboard.go).                      *)
(*                                                                         *)
(* Each request's goroutine appends one line with one write to a file that *)
(* is open with O_APPEND.  handleThreats, in a goroutine of its own, opens *)
(* the file by name, asks for its size and reads the end of it, while      *)
(* lines are appended, reloads change the configuration and the disk runs  *)
(* full in the middle of a line.                                           *)
(*                                                                         *)
(* Data.  A file is a sequence of units.  The line of request r is the     *)
(* unit r, followed by units -r, and the unit NL: a part of it without its *)
(* beginning or its end is not an entry, as a part of a JSON object is not *)
(* one.  A file that does not exist is an empty one.                       *)
(*                                                                         *)
(* A reload is one step here; ConfigStore has it in all its steps.  The    *)
(* names start with Log where DashboardAuth has the same ones.             *)
(***************************************************************************)
EXTENDS Integers, Sequences, SequencesExt, FiniteSets

CONSTANTS
    Outputs,        \* values of threat_logging.output
    Sizes,          \* how many units the text of an entry may have
    ReadLimit,      \* units that handleThreats reads (128 KB)
    PageSize,       \* entries that it shows (100)
    Viewers,        \* requests for /api/threats
    MaxEntries,     \* bound: requests the WAF serves
    MaxReloads,     \* bound: reloads
    MaxCuts,        \* bound: writes that are cut short
    MaxStarts       \* bound: restarts

ASSUME SizeAssumption  == Sizes \subseteq Nat \ {0} /\ Outputs # {}
ASSUME PageAssumption  == ReadLimit \in Nat \ {0} /\ PageSize \in Nat \ {0}
ASSUME LogBoundAssumption == {MaxEntries, MaxReloads, MaxCuts, MaxStarts} \subseteq Nat

VARIABLES
    files,          \* the log files
    size,           \* of each request so far, the size of its entry's text
    serving,        \* requests whose handler has not returned
    live,           \* threat_logging in the engine's Config
    chain,          \* the ThreatLogger of the serving chain
    look,           \* where each viewer is, and what it has found out
    written,        \* history: of each file, the requests whose Println succeeded
    cuts,           \* history: lines of each file that were cut short
    reloads, starts \* so far (for MaxReloads and MaxStarts)

logVars == <<files, size, serving, live, chain, look, written, cuts, reloads, starts>>

NL        == 0
Requests  == 1..MaxEntries
Units     == -MaxEntries .. MaxEntries
Settings  == [enabled : BOOLEAN, output : Outputs]
NoLook    == [at |-> "idle", file |-> CHOOSE o \in Outputs : TRUE, size |-> 0]

LogTypeOK ==
    /\ files \in [Outputs -> Seq(Units)]
    /\ size \in Seq(Sizes) /\ Len(size) \in 0..MaxEntries
    /\ serving \subseteq 1..Len(size)
    /\ live \in Settings
    /\ chain \in [enabled : BOOLEAN, output : Outputs, open : BOOLEAN]
    /\ look \in [Viewers -> [at : {"idle", "open", "stat", "read"}, file : Outputs, size : Nat]]
    /\ written \in [Outputs -> SUBSET Requests]
    /\ cuts \in [Outputs -> Nat]
    /\ reloads \in 0..MaxReloads /\ starts \in 0..MaxStarts

-----------------------------------------------------------------------------
(* Entries *)

\* json.Marshal(entry)
Text(r) == [i \in 1..size[r] |-> IF i = 1 THEN r ELSE -r]

\* A line of buf that json.Unmarshal takes starts at i.
EntryAt(buf, i) ==
    LET end == i + size[buf[i]]     \* only if buf[i] is a request
    IN  /\ buf[i] > 0
        /\ i = 1 \/ buf[i - 1] = NL
        /\ end - 1 <= Len(buf) /\ SubSeq(buf, i, end - 1) = Text(buf[i])
        /\ end > Len(buf) \/ buf[end] = NL

\* A set of integers as an ascending sequence.
Ascending(S) ==
    [k \in 1..Cardinality(S) |-> CHOOSE i \in S : Cardinality({j \in S : j <= i}) = k]

Entries(buf) == {i \in 1..Len(buf) : EntryAt(buf, i)}

\* strings.Split at the line ends, and json.Unmarshal of each line.
Parsed(buf) ==
    LET heads == Ascending(Entries(buf))
    IN  [k \in DOMAIN heads |-> buf[heads[k]]]

\* The last PageSize entries, the last one first.
NewestFirst(logs) ==
    Reverse(SubSeq(logs, IF Len(logs) > PageSize THEN Len(logs) - PageSize + 1 ELSE 1, Len(logs)))

-----------------------------------------------------------------------------
(* ThreatLogger.Middleware *)

Serve(s) ==
    /\ Len(size) < MaxEntries
    /\ size' = Append(size, s)
    /\ serving' = serving \cup {Len(size) + 1}
    /\ UNCHANGED <<files, live, chain, look, written, cuts, reloads, starts>>

\* The handler is through, and with it ThreatLogger.Middleware.
Ends(r) == r \in serving /\ serving' = serving \ {r}

\* tl.logger.Println: one write of the whole line.
Println(r) ==
    /\ Ends(r)
    /\ chain.enabled /\ chain.open
    /\ files' = [files EXCEPT ![chain.output] = @ \o Append(Text(r), NL)]
    /\ written' = [written EXCEPT ![chain.output] = @ \cup {r}]
    /\ UNCHANGED <<size, live, chain, look, cuts, reloads, starts>>

\* The disk is full: n units of the line are written; the error is ignored.
PrintlnCut(r, n) ==
    /\ Ends(r)
    /\ chain.enabled /\ chain.open
    /\ cuts[chain.output] < MaxCuts
    /\ files' = [files EXCEPT ![chain.output] = @ \o SubSeq(Text(r), 1, n)]
    /\ cuts' = [cuts EXCEPT ![chain.output] = @ + 1]
    /\ UNCHANGED <<size, live, chain, look, written, reloads, starts>>

\* Nothing is written: the file is closed (os.ErrClosed, ignored), or logging was
\* off when the chain was built.
NotLogged(r) ==
    /\ Ends(r)
    /\ ~(chain.enabled /\ chain.open)
    /\ UNCHANGED <<files, size, live, chain, look, written, cuts, reloads, starts>>

\* The handler panics (the proxy, when a response breaks off).
Breaks(r) ==
    /\ Ends(r)
    /\ UNCHANGED <<files, size, live, chain, look, written, cuts, reloads, starts>>

-----------------------------------------------------------------------------
(* NewThreatLogger, Reload and restart *)

\* Mutated form of OpenOutput: os.Create.
OpenTruncating(s) == files' = IF s.enabled THEN [files EXCEPT ![s.output] = <<>>] ELSE files

\* NewThreatLogger opens the file to append to it.
OpenOutput(s) == files' = files

\* Reload: the new engine's logger opens its file, the file of the old one, which
\* the chain goes on writing to, is closed, the new configuration is assigned.
ReloadLog(s) ==
    /\ reloads < MaxReloads
    /\ reloads' = reloads + 1
    /\ OpenOutput(s)
    /\ chain' = [chain EXCEPT !.open = FALSE]
    /\ live' = s
    /\ UNCHANGED <<size, serving, look, written, cuts, starts>>

\* The process dies, and starts with the configuration that was live.
Restart ==
    /\ starts < MaxStarts
    /\ starts' = starts + 1
    /\ serving' = {}
    /\ look' = [v \in Viewers |-> NoLook]
    /\ OpenOutput(live)
    /\ chain' = [enabled |-> live.enabled, output |-> live.output, open |-> live.enabled]
    /\ UNCHANGED <<size, live, written, cuts, reloads>>

-----------------------------------------------------------------------------
(* handleThreats *)

Looks(v, from, to) == look[v].at = from /\ look' = [look EXCEPT ![v] = to]

\* Threat logging is disabled: the answer says so.
HandleThreatsOff(v) == ~live.enabled /\ look[v].at = "idle" /\ UNCHANGED logVars

HandleThreats(v) ==
    /\ live.enabled
    /\ Looks(v, "idle", [NoLook EXCEPT !.at = "open"])
    /\ UNCHANGED <<files, size, serving, live, chain, written, cuts, reloads, starts>>

OpenLog(v) ==
    /\ Looks(v, "open", [NoLook EXCEPT !.at = "stat", !.file = live.output])
    /\ UNCHANGED <<files, size, serving, live, chain, written, cuts, reloads, starts>>

\* Mutated form of Stat: the offset, without the test for a short file.
StatOffset(v) ==
    /\ Looks(v, "stat", [look[v] EXCEPT !.at = "read",
                                        !.size = Len(files[look[v].file]) - ReadLimit])
    /\ UNCHANGED <<files, size, serving, live, chain, written, cuts, reloads, starts>>

Stat(v) ==
    /\ Looks(v, "stat", [look[v] EXCEPT !.at = "read", !.size = Len(files[look[v].file])])
    /\ UNCHANGED <<files, size, serving, live, chain, written, cuts, reloads, starts>>

ReadSize(n) == IF n < ReadLimit THEN n ELSE ReadLimit

\* Mutated form of ReadAt: the file is read from its beginning.
ReadHead(v) == SubSeq(files[look[v].file], 1, ReadSize(look[v].size))

\* file.ReadAt(buf, size-readSize), of the file as it is by now.
ReadAt(v) ==
    LET n == look[v].size IN SubSeq(files[look[v].file], n - ReadSize(n) + 1, n)

\* The answer.
Shown(v) == NewestFirst(Parsed(ReadAt(v)))

Answer(v) ==
    /\ Looks(v, "read", NoLook)
    /\ UNCHANGED <<files, size, serving, live, chain, written, cuts, reloads, starts>>

-----------------------------------------------------------------------------
(* Specification *)

LogInit ==
    /\ files = [o \in Outputs |-> <<>>]
    /\ size = <<>>
    /\ serving = {}
    /\ live \in Settings
    /\ chain = [enabled |-> live.enabled, output |-> live.output, open |-> live.enabled]
    /\ look = [v \in Viewers |-> NoLook]
    /\ written = [o \in Outputs |-> {}]
    /\ cuts = [o \in Outputs |-> 0]
    /\ reloads = 0 /\ starts = 0

Traffic ==
    \/ \E s \in Sizes : Serve(s)
    \/ \E r \in serving : Println(r) \/ NotLogged(r) \/ Breaks(r)
    \/ \E r \in serving : \E n \in 0..size[r] : PrintlnCut(r, n)

View(v) == HandleThreatsOff(v) \/ HandleThreats(v) \/ OpenLog(v) \/ Stat(v) \/ Answer(v)

LogNext ==
    \/ Traffic
    \/ \E s \in Settings : ReloadLog(s)
    \/ Restart
    \/ \E v \in Viewers : View(v)

LogSpec == LogInit /\ [][LogNext]_logVars

-----------------------------------------------------------------------------
(* Properties *)

Readable(o) == ToSet(Parsed(files[o]))

\* threatlogger.go:68 and 110: a line that was written stays in the file and can be
\* read, through other requests' lines, reloads that open the same file again and
\* restarts; only a line that was cut short spoils the one written after it, and
\* no other.
CutsCostOne ==
    \A o \in Outputs : Cardinality(written[o] \ Readable(o)) <= cuts[o]

\* dashboard.go:287-321: although lines are added between Stat and ReadAt and the
\* read starts in the middle of a line, the dashboard shows what the file ended
\* with, the newest first, none twice and none left out, and as many as fit: one
\* more would be beyond the page or start before what is read.
ShowsTheLatest ==
    \A v \in Viewers : look[v].at = "read" /\ cuts[look[v].file] = 0 =>
        LET file == SubSeq(files[look[v].file], 1, look[v].size)
            all  == Parsed(file)
            n    == Len(Shown(v))
        IN  /\ n <= PageSize
            /\ IsSuffix(Reverse(Shown(v)), all)
            /\ n < PageSize /\ n < Len(all) =>
                  \E i \in 1 .. Len(file) - ReadLimit :
                      EntryAt(file, i) /\ file[i] = all[Len(all) - n]

\* "ThreatLogger logs all requests in a structured format": while threat logging is
\* enabled, a request whose handler returns gets its line.
AllRequestsLogged ==
    [][\A r \in serving : live.enabled /\ NotLogged(r) => r \in written'[live.output]]_logVars
=============================================================================
