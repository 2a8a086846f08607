---------------------------- MODULE ConfigStore ----------------------------
(***************************************************************************)
(* The configuration of a running lim-waf: the YAML file, the Config       *)
(* objects in memory, the engine that points to one of them, the serving   *)
(* chain built from one of them at start, and the threat log files.        *)
(* (internal/dashboard/dashboard.go, Engine.Reload and NewEngine,          *)
(* NewReverseProxy, LoadConfig, main.go and the settings page.)            *)
(*                                                                         *)
(* Every POST to the dashboard runs in a goroutine of its own and no lock  *)
(* is taken anywhere.  A handler is therefore split wherever it touches    *)
(* what another one can see: it reads the engine's Config pointer, edits   *)
(* the object in place, marshals it, truncates the file, writes it, builds *)
(* a new engine, closes the old log and assigns the engine's fields one by *)
(* one.  The process may die between any two of these steps.               *)
(*                                                                         *)
(* Data.  Of a Config the model keeps the two address lists, the dashboard *)
(* password, and `settings` for everything else.  What a settings value    *)
(* becomes on the page, in LoadConfig and in NewEngine is left to the      *)
(* constants (module ConfigLoading has it).  Requests that a handler turns *)
(* away before it touches anything (wrong method, bad JSON, not an         *)
(* address) change no state and are left out.                              *)
(***************************************************************************)
EXTENDS Integers

CONSTANTS
    Admins,         \* browsers that use the dashboard
    Objects,        \* heap addresses of config.Config objects
    Nil,            \* the null pointer; also "no page loaded"
    Empty, Torn,    \* a truncated file; one that yaml.Unmarshal refuses, because it
                    \* ends inside a line or was overlaid by two writers
    Lists,          \* ip_reputation.blacklist and .whitelist
    IPs,            \* addresses that are put into the lists
    Settings,       \* values of the rest of a Config
    Verdict(_),     \* "ok", "error" or "panic": what NewEngine makes of them
    Defaulted(_),   \* what LoadConfig makes of them
    Posted(_, _),   \* what the page posts that has fetched the first, with the
                    \* second in its inputs
    Entered,        \* settings an admin may enter on the page
    Logged,         \* the settings with threat_logging.enabled
    Routable,       \* the settings NewReverseProxy accepts
    Watched,        \* the settings with dashboard.enabled
    Cuts(_),        \* what is left of them in a file that ends after one of its lines
    Secrets,        \* passwords somebody knows
    NoOne,          \* the password of a hash nobody knows a password for
    Typed,          \* what an admin may type into the password field
    Initial,        \* configurations the file may hold at first
    MaxPosts,       \* bound: POSTs sent to the dashboard
    MaxFaults       \* bound: file operations that fail, and crashes

Forms    == {"none", "plain", "long", "2a", "2b"}  \* "long": over bcrypt's 72 bytes
Password == [form : Forms, opens : Secrets \cup {NoOne}]
Config   == [lists : [Lists -> SUBSET IPs], settings : Settings, password : Password]

ASSUME NilAssumption     == Nil \notin Objects
ASSUME FileAssumption    ==
    Empty # Torn /\ {Empty, Torn, Nil} \cap Config = {} /\ Nil \notin Settings \cup IPs
ASSUME VerdictAssumption == \A s \in Settings : Verdict(s) \in {"ok", "error", "panic"}
ASSUME LoadingAssumption ==
    \A s \in Settings : /\ Defaulted(s) \in Settings
                        /\ \A t \in Entered : Posted(s, t) \in Settings
                        /\ Cuts(s) \subseteq Settings
ASSUME InputAssumption   == /\ Initial \subseteq Config
                            /\ Typed \subseteq Password
                            /\ Logged \subseteq Settings /\ Entered \subseteq Settings
                            /\ Watched \subseteq Settings /\ Lists # {}
ASSUME BoundAssumption   == MaxPosts \in Nat /\ MaxFaults \in Nat

VARIABLES
    boot,       \* the process and its dashboard server
    file,       \* the configuration file
    heap,       \* the Config objects
    engine,     \* WAFEngine: its Config pointer and its ThreatLogger's file
    chain,      \* what NewReverseProxy captured: parsed lists, settings, log file
    open,       \* threat log files that are open
    opened,     \* threat log files opened so far (their names)
    pc,         \* where each POST handler is
    job,        \* its request and its local variables
    page,       \* CFG: the configuration each browser last fetched
    posts,      \* POSTs so far (for MaxPosts)
    faults      \* faults so far (for MaxFaults)

handlerVars == <<pc, job>>
vars == <<boot, file, heap, engine, chain, open, opened, pc, job, page, posts, faults>>

-----------------------------------------------------------------------------
(* Types *)

Boots == {"down", "hash", "hashopen", "hashwrite", "headless", "serving"}
PCs   == {"idle", "edit", "marshal", "open", "write", "build", "close",
          "config", "log"}
Job   == [op   : {"none", "add", "remove", "update", "reload"},
          list : Lists,
          ip   : IPs \cup {Nil},
          ips  : SUBSET IPs,                \* the list an edit is about to store
          cfg  : Objects \cup {Nil},        \* the Config it works on
          data : Config \cup {Nil},         \* the marshalled bytes
          log  : Nat]                       \* the new engine's log file, 0 for none

TypeOK ==
    /\ boot \in Boots
    /\ file \in Config \cup {Empty, Torn}
    /\ heap \in [Objects -> Config]
    /\ engine \in [config : Objects \cup {Nil}, log : Nat]
    /\ chain \in [lists : [Lists -> SUBSET IPs], settings : Settings \cup {Nil}, log : Nat]
    /\ open \subseteq 1 .. opened
    /\ opened \in Nat
    /\ pc \in [Admins -> PCs]
    /\ job \in [Admins -> Job]
    /\ page \in [Admins -> Config \cup {Nil}]
    /\ posts \in Nat
    /\ faults \in Nat

NoLists  == [l \in Lists |-> {}]
NoEngine == [config |-> Nil, log |-> 0]
NoChain  == [lists |-> NoLists, settings |-> Nil, log |-> 0]
NoJob    == [op |-> "none", list |-> CHOOSE l \in Lists : TRUE, ip |-> Nil,
             ips |-> {}, cfg |-> Nil, data |-> Nil, log |-> 0]

-----------------------------------------------------------------------------
(* Passwords, NewEngine, objects *)

\* mutated form of Bcrypt: a prefix that nothing here recognises as a hash
BcryptOtherPrefix(p) == [form |-> "2y", opens |-> IF p.form = "plain" THEN p.opens ELSE NoOne]

\* bcrypt.GenerateFromPassword; of a hash, it is a hash of the hash's text.
Bcrypt(p) == [form |-> "2a", opens |-> IF p.form = "plain" THEN p.opens ELSE NoOne]

\* handleUpdateConfig: only a $2a$ prefix passes for a hash; a password that
\* bcrypt refuses stays as it is; an empty one stands for the old one.
NormalisedUnhashed(p, old) ==       \* mutated form of Normalised: stored as typed
    IF p.form = "none" THEN old ELSE p
Normalised(p, old) ==
    CASE p.form = "none"            -> old
      [] p.form \in {"2a", "long"}  -> p
      [] OTHER                      -> Bcrypt(p)

Absent == [form |-> "none", opens |-> NoOne]

\* A password at whose line the file ends: gone, or the first characters of it,
\* which need not be enough to pass for the hash it was.
CutPasswords(p) ==
    {Absent} \cup (IF p.form = "none" THEN {}
                   ELSE {[form |-> f, opens |-> NoOne] : f \in {p.form, "plain"}})

\* The beginnings of a file that can be parsed.  The password is the last line, the
\* lists are somewhere between the settings.
CutShort(c) ==
    {[c EXCEPT !.password = p] : p \in CutPasswords(c.password)} \cup
    {[lists |-> l, settings |-> s, password |-> Absent] :
        l \in {m \in [Lists -> SUBSET IPs] : \A i \in Lists : m[i] \subseteq c.lists[i]},
        s \in Cuts(c.settings)}

\* Objects something still points to; the rest of the heap is garbage.
Reachable == {engine.config} \cup {job[a].cfg : a \in Admins}

\* NewThreatLogger opens a file of its own, unless logging is off (0).
LogOf(cfg) == IF cfg.settings \in Logged THEN opened + 1 ELSE 0

OpenLogOf(cfg) ==
    /\ opened' = IF LogOf(cfg) = 0 THEN opened ELSE opened + 1
    /\ open' = IF LogOf(cfg) = 0 THEN open ELSE open \cup {opened + 1}

\* NewReverseProxy: the middlewares of the engine it is given, for good.
ChainOf(cfg) == [lists |-> cfg.lists, settings |-> cfg.settings, log |-> LogOf(cfg)]

\* LoadConfig: the file, with defaults for what it leaves out.
Loaded == [file EXCEPT !.settings = Defaulted(@)]

\* The file can be parsed, NewEngine takes it, and so does NewReverseProxy.  (An empty
\* file can be parsed, too, but NewEngine panics, since it names no site.)
Loadable ==
    /\ file \in Config
    /\ Verdict(Loaded.settings) = "ok" /\ Loaded.settings \in Routable

Moves(a, from, to) == pc[a] = from /\ pc' = [pc EXCEPT ![a] = to]

\* The handler returns: its goroutine and its locals are gone.
Returns(a) ==
    /\ pc' = [pc EXCEPT ![a] = "idle"]
    /\ job' = [job EXCEPT ![a] = NoJob]

Fault == faults < MaxFaults /\ faults' = faults + 1

-----------------------------------------------------------------------------
(* The process *)

\* serve: LoadConfig, NewEngine, NewReverseProxy, then the dashboard's Start, which
\* returns at once when it is not enabled, and else hashes a plaintext password first.
Boot ==
    /\ boot = "down"
    /\ Loadable
    /\ \E o \in Objects :
          /\ heap' = [x \in Objects |-> Loaded]     \* only heap'[o] is reachable
          /\ engine' = [config |-> o, log |-> LogOf(Loaded)]
    /\ OpenLogOf(Loaded)
    /\ chain' = ChainOf(Loaded)
    /\ boot' = CASE Loaded.settings \notin Watched              -> "headless"
                 [] Loaded.settings \in Watched
                    /\ file.password.form \in {"plain", "long"} -> "hash"
                 [] OTHER                                        -> "serving"
    /\ UNCHANGED <<file, handlerVars, page, posts, faults>>

\* The file cannot be loaded, NewEngine or NewReverseProxy refuses it, or something
\* outside it is wrong: log.Fatalf or a panic, and systemd starts the process again,
\* with the same file.
BootFails ==
    /\ boot = "down"
    /\ UNCHANGED vars

\* Start: bcrypt, or return an error and leave the process without a dashboard.
HashPassword ==
    /\ boot = "hash"
    /\ LET p == heap[engine.config].password
       IN  IF p.form = "long"
           THEN boot' = "headless" /\ UNCHANGED heap
           ELSE /\ boot' = "hashopen"
                /\ heap' = [heap EXCEPT ![engine.config].password = Bcrypt(p)]
    /\ UNCHANGED <<file, engine, chain, open, opened, handlerVars, page, posts, faults>>

\* Start: os.WriteFile of the hashed configuration; its error is ignored.
OpenHashFile ==
    /\ boot = "hashopen"
    /\ \/ file' = Empty /\ boot' = "hashwrite" /\ UNCHANGED faults
       \/ Fault /\ boot' = "serving" /\ UNCHANGED file
    /\ UNCHANGED <<heap, engine, chain, open, opened, handlerVars, page, posts>>

WriteHashFile ==
    /\ boot = "hashwrite"
    /\ boot' = "serving"
    /\ \/ file' = heap[engine.config] /\ UNCHANGED faults
       \/ Fault /\ file' \in {Torn} \cup CutShort(heap[engine.config])
    /\ UNCHANGED <<heap, engine, chain, open, opened, handlerVars, page, posts>>

\* The process is killed; only the file is left.
Crash ==
    /\ boot # "down"
    /\ Fault
    /\ boot' = "down"
    /\ engine' = NoEngine
    /\ chain' = NoChain
    /\ open' = {}
    /\ pc' = [a \in Admins |-> "idle"]
    /\ job' = [a \in Admins |-> NoJob]
    /\ UNCHANGED <<file, heap, opened, page, posts>>

-----------------------------------------------------------------------------
(* The dashboard's requests *)

\* loadConfig: GET /api/config.
HandleGetConfig(a) ==
    /\ boot = "serving"
    /\ page' = [page EXCEPT ![a] = heap[engine.config]]
    /\ UNCHANGED <<boot, file, heap, engine, chain, open, opened, handlerVars,
                   posts, faults>>

Posts(a) ==
    /\ boot = "serving"
    /\ posts < MaxPosts
    /\ posts' = posts + 1

\* handle{Add,Remove}{Blacklist,Whitelist}: take the engine's Config pointer and
\* compute the new list from the one it holds now.
HandleListPost(a, op, l, ip) ==
    LET old == heap[engine.config].lists[l]
    IN  /\ Posts(a)
        /\ Moves(a, "idle", "edit")
        /\ job' = [job EXCEPT ![a] =
                      [NoJob EXCEPT !.op = op, !.list = l, !.ip = ip, !.cfg = engine.config,
                           !.ips = IF op = "add" THEN old \cup {ip} ELSE old \ {ip}]]
        /\ UNCHANGED <<boot, file, heap, engine, chain, open, opened, page, faults>>

\* cfg.IPReputation.<List> = <new list>, in the shared object.
EditList(a) ==
    /\ Moves(a, "edit", "marshal")
    /\ heap' = [heap EXCEPT ![job[a].cfg].lists[job[a].list] = job[a].ips]
    /\ UNCHANGED <<boot, file, engine, chain, open, opened, job, page, posts, faults>>

\* buildConfig: the page as it was fetched, lists and all, with the settings from
\* its fields and the password if one was typed.
Form(a, s, typed) ==
    [page[a] EXCEPT !.settings = Posted(@, s), !.password = IF typed = Nil THEN @ ELSE typed]

\* handleUpdateConfig decodes the posted form into a new object.
HandleUpdateConfig(a, s, typed) ==
    /\ Posts(a)
    /\ page[a] # Nil
    /\ Moves(a, "idle", "marshal")
    /\ \E o \in Objects \ Reachable :
          /\ heap' = [heap EXCEPT ![o] =
                [Form(a, s, typed) EXCEPT
                    !.password = Normalised(@, heap[engine.config].password)]]
          /\ job' = [job EXCEPT ![a] = [NoJob EXCEPT !.op = "update", !.cfg = o]]
    /\ UNCHANGED <<boot, file, engine, chain, open, opened, page, faults>>

\* POST /api/rules/reload: Reload with the engine's own Config.
HandleReload(a) ==
    /\ Posts(a)
    /\ Moves(a, "idle", "build")
    /\ job' = [job EXCEPT ![a] = [NoJob EXCEPT !.op = "reload", !.cfg = engine.config]]
    /\ UNCHANGED <<boot, file, heap, engine, chain, open, opened, page, faults>>

-----------------------------------------------------------------------------
(* Saving: yaml.Marshal and os.WriteFile *)

MarshalLive(a) ==       \* mutated form of Marshal: the engine's configuration is saved
    /\ Moves(a, "marshal", "open")
    /\ job' = [job EXCEPT ![a].data = heap[engine.config]]
    /\ UNCHANGED <<boot, file, heap, engine, chain, open, opened, page, posts, faults>>

Marshal(a) ==
    /\ Moves(a, "marshal", "open")
    /\ job' = [job EXCEPT ![a].data = heap[job[a].cfg]]
    /\ UNCHANGED <<boot, file, heap, engine, chain, open, opened, page, posts, faults>>

\* WriteFile opens the file with O_TRUNC, or fails: an error is answered, and
\* the object in memory stays as it was edited.
OpenFile(a) ==
    /\ pc[a] = "open"
    /\ \/ file' = Empty /\ Moves(a, "open", "write") /\ UNCHANGED <<job, faults>>
       \/ Fault /\ Returns(a) /\ UNCHANGED file
    /\ UNCHANGED <<boot, heap, engine, chain, open, opened, page, posts>>

\* WriteFile writes its bytes from the start of the file.  What another handler
\* has written since the truncation is overlaid: if it was longer, its tail stays.
\* A write that fails may have written some of its bytes.
WriteFile(a) ==
    /\ pc[a] = "write"
    /\ \/ /\ file' = job[a].data
          /\ Moves(a, "write", "build")
          /\ UNCHANGED <<job, faults>>
       \/ /\ file # Empty
          /\ file' = Torn
          /\ Moves(a, "write", "build")
          /\ UNCHANGED <<job, faults>>
       \/ Fault /\ Returns(a) /\ file' \in {Torn} \cup CutShort(job[a].data)
    /\ UNCHANGED <<boot, heap, engine, chain, open, opened, page, posts>>

-----------------------------------------------------------------------------
(* Engine.Reload *)

\* NewEngine fails: an error is answered, or (no site left) the handler panics
\* and net/http drops the connection.  The file is saved, the engine as it was.  It may
\* fail for settings it has taken before: the rule files and the place of the log are
\* looked up anew each time.
BuildFails(a) ==
    /\ pc[a] = "build"
    /\ \/ Verdict(heap[job[a].cfg].settings) # "ok" /\ UNCHANGED faults
       \/ Fault
    /\ Returns(a)
    /\ UNCHANGED <<boot, file, heap, engine, chain, open, opened, page, posts>>

BuildUnchecked(a) ==    \* mutated form of Build: NewEngine's error is dropped
    /\ Moves(a, "build", "close")
    /\ OpenLogOf(heap[job[a].cfg])
    /\ job' = [job EXCEPT ![a].log = LogOf(heap[job[a].cfg])]
    /\ UNCHANGED <<boot, file, heap, engine, chain, page, posts, faults>>

\* NewEngine succeeds: a WAF instance and a log file of its own.
Build(a) ==
    /\ Moves(a, "build", "close")
    /\ Verdict(heap[job[a].cfg].settings) = "ok"
    /\ OpenLogOf(heap[job[a].cfg])
    /\ job' = [job EXCEPT ![a].log = LogOf(heap[job[a].cfg])]
    /\ UNCHANGED <<boot, file, heap, engine, chain, page, posts, faults>>

CloseNewLog(a) ==       \* mutated form of CloseLog: the wrong logger is closed
    /\ Moves(a, "close", "config")
    /\ open' = open \ {job[a].log}
    /\ UNCHANGED <<boot, file, heap, engine, chain, opened, job, page, posts, faults>>

\* e.ThreatLogger.Close(): the log file of the engine as it is now.
CloseLog(a) ==
    /\ Moves(a, "close", "config")
    /\ open' = open \ {engine.log}
    /\ UNCHANGED <<boot, file, heap, engine, chain, opened, job, page, posts, faults>>

\* e.Config = cfg.
AssignConfig(a) ==
    /\ Moves(a, "config", "log")
    /\ engine' = [engine EXCEPT !.config = job[a].cfg]
    /\ UNCHANGED <<boot, file, heap, chain, open, opened, job, page, posts, faults>>

\* e.ThreatLogger = newEngine.ThreatLogger, and the answer {"status":"success"}.
AssignLog(a) ==
    /\ pc[a] = "log"
    /\ Returns(a)
    /\ engine' = [engine EXCEPT !.log = job[a].log]
    /\ UNCHANGED <<boot, file, heap, chain, open, opened, page, posts, faults>>

-----------------------------------------------------------------------------
(* The specification *)

Init ==
    /\ boot = "down"
    /\ file \in Initial
    /\ heap = [o \in Objects |-> file]
    /\ engine = NoEngine
    /\ chain = NoChain
    /\ open = {}
    /\ opened = 0
    /\ pc = [a \in Admins |-> "idle"]
    /\ job = [a \in Admins |-> NoJob]
    /\ page = [a \in Admins |-> Nil]
    /\ posts = 0
    /\ faults = 0

Process == Boot \/ BootFails \/ HashPassword \/ OpenHashFile \/ WriteHashFile \/ Crash

Request(a) ==
    \/ HandleGetConfig(a)
    \/ \E op \in {"add", "remove"}, l \in Lists, ip \in IPs : HandleListPost(a, op, l, ip)
    \/ \E s \in Entered, typed \in Typed \cup {Nil} : HandleUpdateConfig(a, s, typed)
    \/ HandleReload(a)

Save(a) == EditList(a) \/ Marshal(a) \/ OpenFile(a) \/ WriteFile(a)

Reload(a) == BuildFails(a) \/ Build(a) \/ CloseLog(a) \/ AssignConfig(a) \/ AssignLog(a)

\* Nothing happens to a process without a dashboard until it is restarted.
Headless == boot = "headless" /\ UNCHANGED vars

Next ==
    \/ Process
    \/ \E a \in Admins : Request(a) \/ Save(a) \/ Reload(a)
    \/ Headless

Spec == Init /\ [][Next]_vars

-----------------------------------------------------------------------------
(* Properties *)

Up      == boot # "down"
Quiet   == boot = "serving" /\ \A a \in Admins : pc[a] = "idle"
Live    == heap[engine.config]      \* the configuration the dashboard shows

\* dashboard.go:461-477 and 355-372: when a save is answered with success, the
\* file and the engine's Config hold the same configuration, whatever failed before.
\* (It says nothing of what a later save does to the file.)
Acknowledges(a) == pc[a] = "log" /\ pc'[a] = "idle" /\ boot' = boot

SavedMeansLoaded ==
    [][\A a \in Admins :
          Acknowledges(a) /\ job[a].op # "reload" => file' = Live']_vars

\* engine.go:112-137: the engine never points to a configuration whose own content
\* NewEngine refuses, although the object it points to is edited in place and handlers
\* overtake each other.  (A reload of it can still fail for a rule file or a place to
\* log to that has changed since.)
LiveConfigLoads == Up => Verdict(Live.settings) = "ok"

\* engine.go:118-135: outside the few statements between Close and the assignment
\* of the new logger, the engine's logger has its file open, in spite of reloads
\* that overtake each other.
EngineLogOpen ==
    Up /\ (\A a \in Admins : pc[a] \notin {"config", "log"}) => engine.log \in open \cup {0}

\* engine.go:85-120: every reload opens a log file and closes one.  With a single
\* admin, whose reloads follow each other, no file is left open, whatever NewEngine
\* refuses and whichever write fails.  Two reloads that overlap close the same one and
\* leave one open: those are outside this property.
OneLogOpen == Quiet => open = {engine.log} \ {0}

\* dashboard.go:168-186 and 341-353: nothing ever writes a plaintext password of
\* at most 72 bytes into the file that opens anything.  A longer one is stored as it
\* was typed, because the error of bcrypt is ignored (Bcrypt): the property does not
\* speak of those, nor of a hash so short of its end that it looks like plaintext.
PlaintextNeverWritten ==
    [][file' # file /\ file' \in Config /\ file'.password.opens # NoOne
          => file'.password.form # "plain"]_vars

\* dashboard.go:341, "Ensure we preserve the hashed password if not explicitly
\* modified": what opens the dashboard is what the file had at first, or what was
\* typed into the settings page.
HashPreserved ==
    Up => Live.password.opens \in {c.password.opens : c \in Initial}
                                  \cup {p.opens : p \in Typed}

\* README.md:40, "live config editor, and instant rule hot-reloading": once every
\* handler has returned, requests are served by the live configuration.
ServedByLiveConfig ==
    Quiet => chain.lists = Live.lists /\ chain.settings = Live.settings
=============================================================================
