# Verification of lim-waf

lim-waf is a reverse proxy that puts a rate limiter, address lists, bot
detection, request validation and the Coraza WAF in front of a set of sites, and
a dashboard that shows statistics and edits the configuration while the proxy
runs. This directory holds TLA+ models of its parts, TLC configurations that
check them on small instances, and TLAPS proofs for every value of the constants.

## The system

| Component | State it keeps | Operations | Hard behaviour |
|---|---|---|---|
| Rate limiter (`engine/ratelimit.go`) | `clients`: map of client to `*clientStatus` (count, window, bans); `mu` | `Middleware` per request; `cleanupRoutine` once a minute | requests of one client overlap; the clock is read before the lock; the cleanup takes no lock |
| Request pipeline (`engine/proxy.go`, `ipreputation.go`, `botdetect.go`, `requestvalidator.go`) | the map from host to handler chain, the counters of `WAFStats` | one middleware after the other, each passes, answers or marks the request | order of the middlewares; what one relies on another for; host names with and without `www.` |
| Crawler verification (`engine/botdetect.go`, the `allowed_bots` of `config/config.go`) | none | `getBotVendor`, `isOfficialBotDomain`, forward-confirmed reverse DNS | three tables (keywords, vendors, zones) that must agree, the order of the first |
| Response writers (`engine/securityheaders.go`, `threatlogger.go`, `proxy.go`, `block.go`) | per response: `headerWritten`, `statusCode`, `wroteBlock`, the shared header map | `WriteHeader`, `Write`, `Flush`, the block page, upgrades | protocol of calls: 1xx, repeated statuses, a page written from inside another write, panics |
| Configuration store and hot reload (`dashboard/dashboard.go`, `engine/engine.go`, `cmd/lim-waf/main.go`, `static/index.html`) | the YAML file, the live `Config`, the engine's fields, the chain built at start, log files | the POST handlers, `saveAndReload`, `Reload`, `Start`, restart | no lock anywhere, failing writes, crashes, stale pages, stale captured middlewares |
| Configuration loading (`config/config.go`, `buildConfig` in `static/index.html`) | none | `LoadConfig`: parse and fill in defaults; the page's own defaults | two places that fill in defaults; a value saved as zero |
| Threat log (`engine/threatlogger.go`, `handleThreats` in `dashboard/dashboard.go`) | the log file, which logger the chain and the engine have | one line per request; the last 128 KB of the file, in lines | concurrent appends, short writes, a reload that closes the file in use, a tail that starts in the middle of a line |
| Dashboard authentication (`dashboard/dashboard.go`, `csrf()` in `static/index.html`) | `loginAttempts`; the browser's CSRF cookie | `basicAuth`, `csrfMiddleware` | check-then-count around a slow password check; several tabs with one cookie |
| Size parsing (`engine/requestvalidator.go`) | none | `ParseSize` | 64-bit overflow, negative sizes |
| Statistics view, block page text, Coraza and its rules, installation | none of this program's | | |

How they interact. `ReverseProxy.ServeHTTP` calls the chain of the site; every
middleware calls the next one, and the response comes back through the writers
each of them wrapped around the one below. All of them count in one `WAFStats`.
The dashboard holds the engine and edits it in place: `Reload` builds a new
engine and assigns its fields to the old one, while the chain goes on using the
middlewares that `NewReverseProxy` took from the engine at start. The dashboard
shares the `Config` object with whoever reads `engine.Config`, and the log file
with the logger of the chain.

What makes each part correct:
- rate limiter: it judges every request as if there were no other; no window of a
  status object admits more than the allowance (a client can get a new object, see
  `ratelimiter_cleanup`); a ban is earned by the client's own requests and kept;
  bans and windows only move forward; the lock is always given back;
- pipeline and crawlers: a rejected request is counted once; nothing passes a
  honeypot; what one middleware documents about an earlier one is so;
- response writers: one Content-Security-Policy, a block page that is whole and
  unmixed, one log line with the status that was sent;
- configuration: an acknowledged save is on disk, live, what the traffic sees, and
  what the process starts with the next time; the engine never has a configuration
  that `NewEngine` refuses; the log goes on and no log file is leaked; no plaintext
  password is written, and a stored hash is preserved;
- threat log: every request has its line, every line can be read, the view is the
  end of the log;
- authentication: ten failed logins per ten minutes, as far as the code keeps that
  (between two logins, one at a time), no other lock-outs, and no POST of a logged-in
  tab refused for its token.

`PROJECT.json` lists the hazards of the code, each at its line, with the
properties that would notice it.

## The modules

| Module | Models | Proofs | Instance |
|---|---|---|---|
| `AtomicLimiter` | what the limiter promises: an abstract specification | | |
| `RateLimiter` | the rate limiter | `RateLimiterProofs` | |
| `RateLimiterRefinement` | `RateLimiter` as an implementation of `AtomicLimiter` | `RateLimiterProofs` | `MCRateLimiter` |
| `Crawlers` | the tables and the DNS check, as operators | | |
| `Pipeline` | hosts, order and decisions of the middlewares; extends `Crawlers` | `PipelineProofs` | `MCPipeline` |
| `ResponseWriters` | the three wrappers and the block page | `ResponseWritersProofs` | `MCResponseWriters` |
| `MCRequests` | instances of the last two | | itself |
| `ConfigStore` | configuration, reload, restart | `ConfigStoreProofs`, `ConfigSavesProofs` | `MCConfigStore` |
| `ConfigLoading` | the defaults of file and page, what is refused, as operators | | |
| `ConfigRoundTrip` | `ConfigStore` with the fields of `ConfigLoading` as its settings, and what was last acknowledged | `ConfigRoundTripProofs` | `MCConfigRoundTrip` |
| `DashboardAuth` | `basicAuth` and its counter | `DashboardProofs` | `MCDashboardAuth` |
| `DashboardToken` | the token of a POST | `DashboardProofs` | |
| `ThreatLog` | the log from the request to the dashboard's list | `ThreatLogProofs` | |
| `MCDashboard` | instances of the last three (failing logins of a client one at a time) | | itself |

Definitions have the names of the Go functions, fields and types where TLA+
allows it. A definition whose comment says "mutated form" is not used by any
specification: it is the named definition with a plausible bug, and the property
it is paired with in `PROJECT.json` fails when it takes that definition's place.

**RateLimiter.** `clients` is the `sync.Map`, `heap` the status objects it points
to, `held` the pointer a request took out of the map. A request goes through
`Arrive` (it reads the clock), `LoadOrStore`, `Lock`, then `RejectBanned` or
`CheckWindow`, perhaps `ResetWindow`, `CountRequest`, and `Admit`, `Limit` or
`Ban`; the steps under `rl.mu` are separate, so that mutual exclusion is shown and
not assumed. The cleanup goroutine is `Wake`, `Examine`, `Delete`, `Sleep`.
Two history variables: what the current window of an object has admitted, and when
requests of each client were over their limits.

**AtomicLimiter** judges a request in one step: `Judge` counts it in the tally it
finds and decides; `Begin` and `Forget` create and drop a tally.
`RateLimiterRefinement` maps the limiter to it. A request counts as judged once it
has passed `CheckWindow` under `rl.mu`; the abstract tally of the object it holds is
the one it is going to leave (`Outcome`).

**Crawlers** and **Pipeline.** One action per middleware, in the order of the chain.
A request is the record of the answers to the questions the middlewares ask: an
agent is the set of keywords that occur in it, a name of its address in DNS the zone
it is in, the keywords in it, and whether it resolves back. `SiteOf` is the map from
host to chain with its `www.` aliases, of which the last entry wins. `stats` has one
object per `NewEngine`; the chain and the engine each point to one of them, and
`CountedBy` says through which of the two a counter is reached.

**ResponseWriters.** The wrappers are functions on a record `w`; `Iw...` calls
`Rw...` calls `Sw...` calls `Net...`, as the embedded `ResponseWriter`s do. Actions
are the handlers' calls. `site` says which wrappers there are.

**ConfigStore.** Handlers are split at every access to something another handler
can see: the pointer `engine.Config`, the object behind it, the file (truncated,
then written), the engine's fields, the open log files. `Crash` may happen
anywhere, file operations may fail. `LoadConfig` parses leniently, so a file that ends
after one of its lines loads: a failed write leaves any such beginning (`CutShort`), or
one that ends inside a line or that two writers overlaid (`Torn`, which does not parse).
In the beginnings the lists may be shorter, settings missing, and the password gone or
no longer recognisable as a hash. The settings a `Config` consists of are one value; what
the page, `LoadConfig`, `NewEngine` and an early end of the file make of it are constant
operators (`Posted`, `Defaulted`, `Verdict`, `Cuts`). `Verdict` is about the settings
themselves. The rule files and the place of the log, which `NewEngine` looks up anew at
every reload, are outside them: they make it fail as a fault, at any `Build` and any start
(`BuildFails`, `BootFails`).

**ConfigRoundTrip** puts a function from fields to {unset, default, chosen, refused} in
place of the settings, and `ConfigLoading`'s operators in place of those. Fields that are
treated alike are one field. A file ends after any number of them, in the order of the
YAML (`Beginnings`); of the fields it unites into one, a missing one makes all missing.
`acked` is a history variable: the configuration that was last acknowledged as saved,
until the file is truncated again.

**DashboardAuth.** Like the rate limiter, with each read and write of the unlocked
`loginAttempt` a step, and `Count++` two. `failures` and `sinceLogin` are history
variables: when each client's failed logins arrived, all of them, and those since it last
got in. Nothing the code does clears `failures`.

**DashboardToken.** The tabs of one browser share its cookie `jar`. A fetch reads the
jar for the header, then the browser adds the cookie, the server answers and may
set a new token, and the answer replaces the jar. Credentials may be configured and
removed in between, which decides whether `basicAuth` sets a cookie at all.

**ThreatLog.** A file is a sequence of units: entry `r` is `r`, some `-r` and a newline.
Each request appends its line in one write, which may be cut short; a reload closes
the file of the logger the engine has, opens another and leaves the chain with what
it had; `handleThreats` opens, asks for the size, and reads the tail, each a step.
`Parsed` takes the places where an entry starts in ascending order, which is what
splitting at the newlines and decoding each line comes to.

## The runs

Passing runs:

| Run | Shows | Bounds, and why they are enough |
|---|---|---|
| `ratelimiter` | mutual exclusion, the quota of a window, bans that are earned, nothing goes backwards, the refinement of `AtomicLimiter`; every request is answered | one client (clients share nothing but the mutex; that none is banned for another's requests is the theorem's) with two requests in flight, four in all, two paths with limits of their own, a minute of one tick and a clock up to 3: two requests are all it takes to overtake one another, four fill a window, open the next and reach the ban |
| `config_one_admin` | an acknowledged save is on disk and live; restarts keep its password, limits and fields off the page until the file is next truncated; no log file is left open; no plaintext is written | one admin, three POSTs, two faults at any point, so that a save can be acknowledged, a second one be refused or cut short, and the process start again; files with a plaintext, a hashed and an over-long password, without what has defaults, without sites and without a dashboard; limits raised or emptied, settings refused by Coraza, the log or the proxy; every beginning of a file |
| `config_two_admins` | the engine has a configuration that loads and a log that is open | two admins, three POSTs, two faults: two handlers that overlap and one that comes between or after them, a short write and a start from what it left |
| `requests`, chain | the statistics add up, honeypots hold, agents with a name of Google's are confirmed by Google's DNS names | two requests in flight, three in all, one reload; one input per fact and the combinations that set two facts against each other; every module off in turn; three sites, two of which claim the same names |
| `requests`, response | one policy, unmixed block pages, truthful status in the log | two hints, two chunks: the second meets a writer that has already changed state; all combinations of wrappers |
| `dashboard` | between two logins no window has more failures than the limit, a lock ends, and counts only failures since the last login; a token once there serves every POST; written lines stay readable, the view is the end of the log | logins: one client with five requests, two in flight where both succeed, limit 2 and a window of 3 ticks for 10 and 10 minutes, so that two windows and a reset fit into 6; tokens: two tabs and five tokens, one more than can be in use when one is made; log: three entries of 1, 2 or 5 units, a view of 2 entries and 5 units, so that page and tail are each what limits it; two reloads, one line cut, one restart |

The parts of `requests` and of `dashboard` share nothing and run in behaviours of their
own.

Violations. Each run checks one sentence of the repository's own documents or
comments, which the code does not keep; `PROJECT.json` quotes it under "findings".

| Run | The sentence that fails |
|---|---|
| `ratelimiter_cleanup` | "Remove if window has passed and not banned": the entry may be banned between test and deletion |
| `config_served` | "instant rule hot-reloading": the chain keeps the middlewares of the start |
| `config_hash` | "we preserve the hashed password if not explicitly modified": a `$2b$` hash that the page posts back is hashed again |
| `writers_page` | "we can render our custom block page instead": the backend's Content-Length cuts it |
| `pipeline_crawlers` | "receive a 5x rate limit": the crawler is verified after the limiter |
| `auth_overlap` | "10 attempts per 10 minutes": overlapping logins are counted too late |
| `threat_log_reload` | "logs all requests": the first reload closes the file the chain writes to, and no request is logged any more |

Symmetry is used in safety runs only, on sets of model values that no definition
orders: heap objects and admins (configuration), slots (`requests`), slots, heap
objects and file names (`dashboard`). `ratelimiter` has a liveness property and uses
none.

Fairness. Only `EveryRequestAnswered` needs it (`FairSpec` of `RateLimiter`): weak
fairness of each request's steps, since Go's scheduler runs every runnable
goroutine, and strong fairness of `Lock`, because a `sync.Mutex` in starvation mode
hands over to the waiter at the head of its queue. The clock, arrivals and the
cleanup goroutine are not assumed fair. `RefusalEnds`, that a lock-out ends, is
stated as a safety property of each refusal and needs none.

## The proofs

All are for any sets of clients, requests, admins and objects, any limits and any
bounds; the assumptions named in the modules are the only ones.

**RateLimiterProofs**

| Theorem | States |
|---|---|
| `Invariance` | `Spec => []IInv` |
| `TypeCorrect` | `Spec => []TypeOK` |
| `Exclusion` | `Spec => []MutualExclusion` |
| `Quota` | `Spec => QuotaRespected` |
| `BansEarned` | `Spec => BanEarned` |
| `Forwards` | `Spec => NeverRegresses` |
| `OneByOne` | `Spec => JudgedOneByOne` (of `RateLimiterRefinement`) |

None of the properties is inductive. The invariant `IInv` adds to the types: who
is in the section of `rl.mu` is its holder, and only he (so no other request
changes the status he judges); the requests that have a pointer are those past
`LoadOrStore`; the count of a status is what its window has seen, what a window
admitted is at most its count, and strictly less while a counted request awaits its
verdict; and at each stage what the request has established
about its status: not banned after `CheckWindow`, the window over before
`ResetWindow`. `NeverRegresses` follows because the only step that moves a window
or a ban is made by a holder who has just compared it with a clock reading that is
later, however old the reading is by then.

`BansEarned` needs an account of its own: for every status a client uses, the violations
it has been counted for are at most those in the client's history, and its ban runs from one
of these (`EarnedInv`); and a status in use belongs to one client (`OwnInv`). A request that
waits with an old clock reading may find a ban that was set for a later violation than it
knows of, and is turned away for that one.

`OneByOne` is the refinement: `JudgedOneByOne` is `Abstract!Spec`, the specification of
`AtomicLimiter` under the refinement mapping. It adds to `IInv` that no clock reading is
in the future and that a request without a pointer holds nothing. Each kind of step then has a lemma
that says what it is to the abstract limiter: `LoadOrStore` of a new status is
`Begin`, `RejectBanned` is `RefuseBanned`, `CheckWindow` is `Judge`, a dropped pointer
is `Forget`, and the rest of the section, foreseen by `Outcome`, is a stutter.

**PipelineProofs**

| Theorem | States |
|---|---|
| `Invariance` | `Spec => []IInv` |
| `TypeCorrect` | `Spec => []TypeOK` |
| `Statistics` | `Spec => []StatsAddUp` |
| `Honeypot` | `Spec => []HoneypotHolds` |
| `GoogleAgents` | `Spec => []GoogleAgentsVerified` |

The invariant adds to the properties that the chain and the dashboard keep counting
in one object, the first, which is what makes the sum one sum. Every handler's step is
first shown to be one of four kinds (`KindOfStep`: arrive, go on, be rejected, end
uncounted), and the sum is shown for the kinds. `GoogleAgents` rests
on the tables: an agent with one of Google's own names contains `google`, and the default
list begins with `googlebot` and `google`, so that it is judged by one of these, whatever
other crawler it names as well, and the zones for both are Google's. It does not
speak of agents with `lighthouse` or `pagespeed` alone, nor does it say who sends the
request: the address that is looked up is the first element of `X-Forwarded-For` where
there is one, and that is the client's own word.

**ResponseWritersProofs**

| Theorem | States |
|---|---|
| `TypeCorrect` | `WriterSpec => []WriterTypeOK` |
| `Policed` | `WriterSpec => []OnePolicy` |
| `Alone` | `WriterSpec => []BlockPageAlone` |
| `LoggedRight` | `WriterSpec => LoggedAsSent` |

A response is untouched until the first final status passes the wrappers; that
status commits it (`FirstStatus`), and every later `WriteHeader`, `Write` and `Flush`
only adds to the body (`LaterWrite`, `LaterFlush`). `Committed` says what was agreed on:
the policy on the wire, the status the logger saw, whose body it is.

**ConfigStoreProofs**

| Theorem | States |
|---|---|
| `Invariance` | `Spec => []IInv` |
| `TypeCorrect` | `Spec => []TypeOK` |
| `LiveLoads` | `Spec => []LiveConfigLoads` |
| `LogOpen` | `Spec => []EngineLogOpen` |

Here `IInv` has three layers. `ShapeInv`: a running process has a configuration, a
handler at work has one, and bytes to write once it has marshalled. `LoadInv`: every
configuration that a handler carries from a successful `NewEngine` to the
assignment of `e.Config` still loads, although objects are edited in place, because
only the lists of an object in use are ever edited, and `handleUpdateConfig`
decodes into an object nobody else has. `LogInv`: the log file a handler has opened
is its own until it is the engine's, so the `Close` of another reload never hits it.
That is why overlapping reloads cannot leave the engine with a closed log, although
they can leave files open that nobody will close.

**ConfigSavesProofs** (the first three) and **ConfigRoundTripProofs** build on it:

| Theorem | States | Argument |
|---|---|---|
| `NoPlaintext` | `Spec => PlaintextNeverWritten` | `HashedInv` follows the password from the moment `Start` hashed it to every object a handler works on and the bytes it has marshalled |
| `Acknowledged` | one admin: `Spec => SavedMeansLoaded` | `SaveInv`: from the write to the answer the file is what the handler marshalled, and its object is not edited |
| `OneLog` | one admin: `Spec => []OneLogOpen` | `FilesInv`: the open files are the engine's and, inside a reload, the new one |
| `RestartKeeps` | one admin: `RoundTripSpec => []RestartKeepsSaved` | `KeptInv`: no object on the heap and no page has a limit unset, so neither `LoadConfig` nor `buildConfig` changes one. `AckedInv`: until the file is truncated again it is what was acknowledged; a running process has its password, limits and fields off the page; and a handler that has got past the file is in a reload of the live configuration |

The theorems for one admin assume `OneAdmin == \A a, b \in Admins : a = b`, as a
hypothesis; with two admins their properties fail. What the initial file holds is
arbitrary in all of them: over-long passwords, `$2b$` hashes and settings that are left
out included.

**DashboardProofs**

| Theorem | States |
|---|---|
| `AuthTypeCorrect` | `Spec => []TypeOK` |
| `AtMostTenBetweenLogins` | `Spec /\ []Alone => []TenBetweenLogins` |
| `LocksEnd` | `Spec /\ []Alone => RefusalEnds` |
| `LocksEarned` | `Spec => LockEarned` |
| `TokenTypeCorrect` | `TokenSpec => []TokenTypeOK` |
| `PostsAccepted` | `TokenSpec => []NoPostRefusedOnceSettled` |

`Alone` says that a request that fails is the only one of its client in flight. It is
what the unlocked counter needs: without it `TenAttempts` fails, and so would
`TenBetweenLogins` (`auth_overlap`). Requests with the right credentials overlap as they
like, such as the three fetches of the page when it opens, and those of different clients
overlap at every step, so the theorems also say that no client's logins disturb
another's. That failures are counted from the last login on is the code's doing
(`DeleteEntry`): a window with a login in it can have more, see below. `AuthInv` follows
the failures of a client since its last login through the resets of its counter. The
counter has counted the last `Count` of them; the ones before were
taken out of the count by a reset, and are a window or more older than every later
one (`Batched`). A window therefore never reaches over a reset, and what lies between
two of them is at most `Limit`. `LoginAt` has the same at each step of a request, when the
failure it is about to record is in the history, in the counter, or in neither;
`ApartInv` says that two clients never have one entry.

`LocksEarned` needs no such condition: any number of logins of one client may overlap.
`OverlapInv` has, for the entry a client has now, that its count and the failed logins
that are between `Verify` and the end of `Count++` (`Pending`) are together at most the
failures since the client last got in, and so are what each of those has read and is
about to write back, and `Pending` (`Earned`). An increment that overwrites another
therefore loses failures, which is why `TenAttempts` fails, and never makes one up. The
property is about the entry in the map: a request that took its pointer before
another login succeeded can be refused by the entry that login removed.

For the token, `SetsInv` says that only a request that went out without a cookie is
answered with one. Once the browser has its token and the requests it sent without
one are answered (`Settled`), nothing replaces the token any more, and `CalmInv`
compares what a POST read for its header with what the browser adds as the cookie.

**ThreatLogProofs**

| Theorem | States |
|---|---|
| `LogTypeCorrect` | `LogSpec => []LogTypeOK` |
| `EachCutCostsOne` | `LogSpec => []CutsCostOne` |
| `LatestShown` | `LogSpec => []ShowsTheLatest` |

These are for files, entries, pages and tails of any size. A file is described by the
lines that stand in it whole (`LineAt`, `Whole`) rather than by what is parsed of it, since
that is what appending preserves. `DebtInv` is the account of the cuts: the written
lines that do not stand whole in the file, and one more if the file does not end with
a newline, are at most the cuts so far. So the damage is done when the line after the
cut is written, and is paid for by then. `LineIsEntry` shows that a whole line is an
entry, and `ParsedFacts` that every entry is parsed.

`LatestShown` needs that in a file without cuts whatever starts an entry starts a line
(`StartsInv`), or the tail that is read could begin with what only looks like a
line. What is read is the end of the file as it was at `Stat`, although the file has
grown since (`LookInv`); it holds the entries of the file from its first unit on, and no
others (`TailEntries`); and the ascending sequence of the numbers of a set beyond some
number is the end of that of the set (`AscendingTail`, from the cardinalities of the
initial parts, `Rank`). An entry the page has room for and that is not shown therefore
starts before what is read.

Only model-checked: `EveryRequestAnswered`, since liveness under fairness is beyond the
prover. Every invariant and action property of the passing runs has a theorem.

## Other disagreements

Met while reading the code. The models contain them where noted; no run is about
them.

Configuration and reload:
- `index.html:1366`, "Config saved & WAF hot-reloaded": two overlapping saves leave
  the file torn, or the file and the engine with different configurations, and one
  log file open (`ConfigStore` with two admins).
- `index.html:1377`, "IP blocked": saving settings posts the lists of the page as it
  was fetched (`page` in `ConfigStore`), and takes the address back. The message
  appears whatever the answer was, a 403 included.
- A password over 72 bytes is stored as it was typed (`dashboard.go:345`), and opens
  nothing. `PlaintextNeverWritten` does not speak of it.
- A save truncates the file before it writes. If it then fails or the process dies,
  nothing is left of what earlier saves were acknowledged with (`RestartKeepsSaved` ends
  at the truncation), and a file that ends after one of its lines is not refused by the
  next start: it loads with defaults, shorter lists and no credentials, so that the
  dashboard may ask for none (`CutShort`). A hash cut in its first characters counts as
  plaintext and is hashed.
- A reload of the configuration that is live may fail, since rule files and the log are
  opened anew (`BuildFails`): `LiveConfigLoads` is about the configuration's own content.
- A text field that was emptied, the policy for example, is live at once as "off", and
  is back as the default after the next start. An empty log file name is refused
  live, and accepted by the next start (`ConfigLoading`).
- A backend URL that cannot be parsed is acknowledged, and the next start fails
  (`Routable`).
- Every reload leaves the cleanup goroutine of the old limiter running
  (`ratelimit.go:39`).
- `engine.go:44`: the mode of the WAF is that of the first site, for all of them.

Requests:
- `config.go:73`, "path-specific rate limiting": a client has one counter for all
  paths (`ratelimit.go:115`), so requests to other paths use up a path's own limit. No
  property says otherwise; `QuotaRespected` bounds what a counter admits, on whichever
  paths.
- `ratelimit.go:126`, "set by BotDetection": the limiter believes an
  `X-LIM-Verified-Bot` that the client sent itself, and multiplies its limit by five
  (`generous` in `Pipeline`).
- `engine.go:68-70`, fake Google bots "are blocked earlier" and an exempt agent "has
  already been verified as legitimate": with the default `allowed_bots` and
  `verify_bots_by_dns` this holds as far as `GoogleAgentsVerified` goes: for agents with
  one of Google's own names, and for the address the request claims. It does not hold for
  agents that are exempt as `lighthouse` or `pagespeed`, which any host name with that
  word in it serves (`botdetect.go:198`); nor with another list or without DNS; and
  the address is the client's own `X-Forwarded-For` (`ratelimit.go:59-64`).
- No name can verify `slurp` (`Crawlers`).
- A site named `www.x` that is listed before `x` is overwritten by the alias of `x`. A
  domain with a port in it never matches (`proxy.go`).
- `README.md:316`, "CIDR blocks to bypass WAF": a whitelisted request goes on to the
  WAF like any other.
- `threatlogger.go:50`: unknown hosts, CORS preflights and aborted responses have no
  line either (`ResponseWriters`).

Dashboard:
- `dashboard.go:77`, "10 attempts per 10 minutes": besides `auth_overlap`, a login in
  between clears the count (`dashboard.go:109`), and an open page logs in with every
  request it makes; nine failures before it and nine after it may be in one window. And
  without a login failures below ten are never forgotten, so that the tenth may come
  days later and lock all the same (`DashboardAuth`).
- `README.md:462`: a plain `curl -X POST .../api/rules/reload` has no CSRF cookie and
  is refused. Without credentials nobody gets one, and every POST is
  (`DashboardToken`).
- `index.html:1143`: the page reads `status`, which the log calls `response_code`.
- `dashboard.go:290`: one entry longer than 128 KB hides all others (`ThreatLog`, the
  entry of 5 units).

## What is not modelled

- Data races are modelled as interleavings of reads and writes of whole values. A
  torn read of a slice header (`IPReputation` lists edited in place while they are
  marshalled) is not. A file overlaid by two writers is `Torn` and does not load.
- A file that ends inside a line is `Torn`, or has the beginning of the password. That the
  last value of any other field is cut and still parses is left out. A crash in the
  middle of a write is a write that fails and then a crash: two faults.
- In `ResponseWriters`, headers other than the two the properties are about, and
  what Coraza's own writer does between the proxy and `interceptorRW`.
- In `Pipeline`, the rules of Coraza and the five tests of `RequestValidator`, which
  are facts of the request.
- In `DashboardAuth`, a change of the credentials while a login is being checked.
- In `ConfigLoading`, what the values are: a limit is unset, the default or another.
- Two reloads that overlap leave a log file open; `OneLogOpen` is about reloads in
  sequence.
- `ParseSize`: the product of a number and a power of 1024 in 64 bits is beyond TLC's
  integers, and a narrower width would be another function. What it decides is a
  fact of the request.
- The statistics view only reads, counter by counter; the text of the block page, the
  installer and the unit file change no state that anything here depends on.

## Plan

Done: every component that keeps state is modelled, the limiter is shown to implement
an abstract one, and every safety property of the passing runs is proved.

Left:
1. `DashboardAuth` under `Alone` as an implementation of a counter that judges a login in
   one step, as `AtomicLimiter` does for the limiter: it would say in one place what
   `TenBetweenLogins`, `RefusalEnds` and `LockEarned` say in three.
2. The conditions under which the sentences of the violation runs hold after all, where
   the code has one (`ServedByLiveConfig` before the first reload).

Not planned: an abstract configuration store. A save of the code can leave the file
torn, written but not loaded, or loaded, and die at any point in between; a
specification that allows all of these says no more than `SavedMeansLoaded` and
`LiveConfigLoads` do.
