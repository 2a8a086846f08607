------------------------------ MODULE Pipeline ------------------------------
(***************************************************************************)
(* A request's way through the handler chain that NewReverseProxy builds:  *)
(*                                                                         *)
(*   masterHandler -> SecurityHeaders -> ThreatLogger -> RateLimiter ->    *)
(*   IPReputation -> BotDetection -> RequestValidator -> WAF -> proxy      *)
(*                                                                         *)
(* One action per middleware; requests interleave between any two of them. *)
(* What they share is the statistics, counted with atomic additions, and   *)
(* the engine that a reload changes under them: the chain keeps counting   *)
(* in the WAFStats object it captured, the dashboard shows the one the     *)
(* engine points to.                                                       *)
(*                                                                         *)
(* A request is the facts the middlewares ask about it, the names that DNS *)
(* has for its address among them.  The verdict of the rate limiter is     *)
(* left open here (module RateLimiter has it), that of Coraza's rules      *)
(* comes from outside.  ThreatLogger changes nothing a property here is    *)
(* about (module ResponseWriters has it).                                  *)
(***************************************************************************)
EXTENDS Crawlers

CONSTANTS
    Slots,          \* requests that may be in flight together
    Inputs,         \* requests that may arrive, a set of Facts
    Configs,        \* configurations the chain may be built from
    MaxRequests,    \* bound: requests in a behaviour
    MaxReloads      \* bound: reloads in a behaviour

\* A host name, "www." apart.  Ports are cut off a request's host.
Host  == [www : BOOLEAN, name : {"shop", "blog", "other"}]
Site  == [domain : Host, waf : BOOLEAN, mode : {"on", "detection_only", "off", "unknown"}]

Addresses == {"office", "scraper", "public"}
Entry     == [net : SUBSET Addresses, valid : BOOLEAN]  \* of an address list

Options == {"rateLimit", "ipReputation", "botDetection", "verifyByDNS",
            "requestValidation", "cors"}
Config  == [rateLimit : BOOLEAN, ipReputation : BOOLEAN, botDetection : BOOLEAN,
            verifyByDNS : BOOLEAN, requestValidation : BOOLEAN, cors : BOOLEAN,
            sites : Seq(Site), allowedBots : Seq(Keywords),
            whitelist : SUBSET Entry, blacklist : SUBSET Entry]

\* The value of X-LIM-Verified-Bot: none, one a client made up, or a vendor.
Marks == {"", "client"} \cup Vendors

Facts == [host      : Host,
          preflight : BOOLEAN,      \* OPTIONS from an allowed origin
          address   : Addresses \cup {"malformed"},
          names     : Seq(Name),    \* of the address, in the order of DNS
          honeypot  : BOOLEAN,
          agent     : SUBSET Words,
          get       : BOOLEAN,
          accept    : BOOLEAN,      \* has an Accept header
          valid     : BOOLEAN,      \* size, extension, headers and type are allowed
          mark      : Marks]

ASSUME InputAssumption  == Inputs \subseteq Facts /\ Inputs # {}
\* An agent with one of Google's keywords contains the word in it.
ASSUME AgentAssumption  == \A f \in Inputs : f.agent \cap Google # {} => "google" \in f.agent
ASSUME SlotAssumption   == IsFiniteSet(Slots) /\ Slots # {}
ASSUME ConfigAssumption == Configs \subseteq Config /\ \A c \in Configs : c.sites # <<>>
ASSUME BoundAssumption  == MaxRequests \in Nat /\ MaxReloads \in Nat

Rejections == {"Blocked", "RateLimited", "IPBlocked", "BotDetected", "ValidationFail"}
Counters   == Rejections \cup {"Total"}

VARIABLES
    conf,           \* the configuration of the chain
    pc,             \* the handler each request is about to enter
    req,            \* its facts
    seen,           \* history of the request: how it was judged
    stats,          \* the WAFStats objects, one for each NewEngine
    engineStats,    \* engine.Stats, what the dashboard shows
    chainStats,     \* the object the chain's middlewares captured
    passed,         \* history: requests that ended without being counted as rejected
    arrived         \* requests so far (for MaxRequests)

vars == <<conf, pc, req, seen, stats, engineStats, chainStats, passed, arrived>>

-----------------------------------------------------------------------------
(* Types *)

Stages == {"idle", "host", "headers", "limiter", "reputation", "bots",
           "validator", "waf", "director", "backend"}
Seen   == [generous : BOOLEAN,      \* the rate limiter gave it the fivefold limit
           verified : BOOLEAN]      \* DNS has confirmed that it is a crawler

TypeOK ==
    /\ conf \in Config
    /\ pc \in [Slots -> Stages]
    /\ req \in [Slots -> Facts]
    /\ seen \in [Slots -> Seen]
    /\ stats \in [1..Cardinality(DOMAIN stats) -> [Counters -> Nat]]
    /\ engineStats \in DOMAIN stats /\ chainStats \in DOMAIN stats
    /\ passed \in Nat /\ arrived \in 0..MaxRequests

Zero   == [c \in Counters |-> 0]
Unseen == [generous |-> FALSE, verified |-> FALSE]

-----------------------------------------------------------------------------
(* What the handlers do to a request *)

\* atomic.AddUint64.  ReverseProxy, masterHandler and interceptorRW go through
\* the engine, the other middlewares have captured their WAFStats.
CountedBy(c) == IF c \in {"Total", "Blocked"} THEN engineStats ELSE chainStats

Count(c) == stats' = [stats EXCEPT ![CountedBy(c)][c] = @ + 1]

Goes(r, stage) == pc' = [pc EXCEPT ![r] = stage]

\* next.ServeHTTP
Continue(r, stage) ==
    /\ Goes(r, stage)
    /\ UNCHANGED <<stats, passed>>

\* The handler answers the request itself and counts it.
Reject(r, counter) ==
    /\ Count(counter)
    /\ Goes(r, "idle")
    /\ UNCHANGED <<req, seen, passed>>

\* The handler answers the request itself and does not count it.
AnswerUncounted(r) ==
    /\ passed' = passed + 1
    /\ Goes(r, "idle")
    /\ UNCHANGED <<req, seen, stats>>

\* The names that the handler of a site is entered under, and the sites that
\* enter a handler under a name.  The map keeps the last one.
NamesOf(site) ==
    {site.domain} \cup IF site.domain.www THEN {}
                                          ELSE {[site.domain EXCEPT !.www = TRUE]}

SitesFor(host) == {i \in DOMAIN conf.sites : host \in NamesOf(conf.sites[i])}
SiteOf(r)      == conf.sites[Max(SitesFor(req[r].host))]

\* ReverseProxy.ServeHTTP counts every request, masterHandler looks at the host.
Arrive(r, facts) ==
    /\ pc[r] = "idle" /\ arrived < MaxRequests
    /\ arrived' = arrived + 1
    /\ Count("Total")
    /\ req' = [req EXCEPT ![r] = facts]
    /\ seen' = [seen EXCEPT ![r] = Unseen]
    /\ Goes(r, "host")
    /\ UNCHANGED <<conf, engineStats, chainStats, passed>>

MasterHandler(r) ==
    /\ pc[r] = "host"
    /\ IF SitesFor(req[r].host) # {} THEN Continue(r, "headers") /\ UNCHANGED <<req, seen>>
                                     ELSE Reject(r, "Blocked")
    /\ UNCHANGED <<conf, engineStats, chainStats, arrived>>

SecurityHeaders(r) ==
    /\ pc[r] = "headers"
    /\ IF conf.cors /\ req[r].preflight THEN AnswerUncounted(r)
                                        ELSE Continue(r, "limiter") /\ UNCHANGED <<req, seen>>
    /\ UNCHANGED <<conf, engineStats, chainStats, arrived>>

\* A mark that is there when the limiter looks raises the limit five times.
RateLimiter(r) ==
    /\ pc[r] = "limiter"
    /\ \/ /\ conf.rateLimit
          /\ Reject(r, "RateLimited")
       \/ /\ Continue(r, "reputation")
          /\ seen' = [seen EXCEPT ![r].generous = conf.rateLimit /\ req[r].mark # ""]
          /\ UNCHANGED req
    /\ UNCHANGED <<conf, engineStats, chainStats, arrived>>

\* parseCIDRList leaves out what it cannot parse.
Listed(address, entries) == \E e \in entries : e.valid /\ address \in e.net

IPReputation(r) ==
    LET address == req[r].address
    IN  /\ pc[r] = "reputation"
        /\ IF ~conf.ipReputation THEN Continue(r, "bots") /\ UNCHANGED <<req, seen>>
           ELSE IF address = "malformed" THEN AnswerUncounted(r)
           ELSE IF /\ ~Listed(address, conf.whitelist)
                   /\ Listed(address, conf.blacklist) THEN Reject(r, "IPBlocked")
           ELSE Continue(r, "bots") /\ UNCHANGED <<req, seen>>
        /\ UNCHANGED <<conf, engineStats, chainStats, arrived>>

\* The header heuristics, for a request whose agent is no allowed crawler.
Suspicious(q) ==
    q.get /\ \/ q.agent = {}
             \/ "mozilla" \in q.agent /\ ~IsKnownToolOrBot(q.agent) /\ ~q.accept

\* Mutated form of BotDetection: the crawlers are let through first.
CrawlersFirst(r) ==
    /\ pc[r] = "bots"
    /\ IF /\ conf.botDetection /\ FirstBot(conf.allowedBots, req[r].agent) = NoBot
          /\ req[r].honeypot \/ Suspicious(req[r])
       THEN Reject(r, "BotDetected")
       ELSE Continue(r, "validator") /\ UNCHANGED <<req, seen>>
    /\ UNCHANGED <<conf, engineStats, chainStats, arrived>>

BotDetection(r) ==
    LET bot == FirstBot(conf.allowedBots, req[r].agent)
    IN  /\ pc[r] = "bots"
        /\ IF ~conf.botDetection THEN Continue(r, "validator") /\ UNCHANGED <<req, seen>>
           ELSE IF req[r].honeypot THEN Reject(r, "BotDetected")
           ELSE IF bot # NoBot THEN
                IF conf.verifyByDNS /\ ~VerifySearchBotDNS(req[r].names, bot)
                THEN Reject(r, "BotDetected")
                ELSE /\ Continue(r, "validator")
                     /\ req' = [req EXCEPT ![r].mark = GetBotVendor(bot)]
                     /\ seen' = [seen EXCEPT ![r].verified = conf.verifyByDNS]
           ELSE IF Suspicious(req[r]) THEN Reject(r, "BotDetected")
           ELSE Continue(r, "validator") /\ UNCHANGED <<req, seen>>
        /\ UNCHANGED <<conf, engineStats, chainStats, arrived>>

RequestValidator(r) ==
    /\ pc[r] = "validator"
    /\ IF conf.requestValidation /\ ~req[r].valid
       THEN Reject(r, "ValidationFail")
       ELSE Continue(r, IF SiteOf(r).waf THEN "waf" ELSE "director") /\ UNCHANGED <<req, seen>>
    /\ UNCHANGED <<conf, engineStats, chainStats, arrived>>

\* The one WAF of all sites runs in the mode of the first.  A mode that the
\* program does not know is "on".
Mode == conf.sites[1].mode

\* Coraza passes the request; or denies it with a status that interceptorRW turns
\* into a block page, or with another one (413 for a large body); or cannot read
\* its body and answers 500.
WAF(r) ==
    /\ pc[r] = "waf"
    /\ \/ Continue(r, "director") /\ UNCHANGED <<req, seen>>
       \/ Mode \in {"on", "unknown"} /\ Reject(r, "Blocked")
       \/ Mode # "off" /\ AnswerUncounted(r)
    /\ UNCHANGED <<conf, engineStats, chainStats, arrived>>

Director(r) ==
    /\ pc[r] = "director"
    /\ req' = [req EXCEPT ![r].mark = ""]
    /\ Continue(r, "backend")
    /\ UNCHANGED <<conf, seen, engineStats, chainStats, arrived>>

\* The backend answers, or fails to.  Its own 403 and 406 become block pages on
\* a site with the WAF, and are counted like Coraza's.
Backend(r) ==
    /\ pc[r] = "backend"
    /\ \/ AnswerUncounted(r)
       \/ SiteOf(r).waf /\ Reject(r, "Blocked")
    /\ UNCHANGED <<conf, engineStats, chainStats, arrived>>

ReloadStats ==              \* mutated form of Reload: Stats is assigned too
    /\ Cardinality(DOMAIN stats) <= MaxReloads
    /\ LET n == Cardinality(DOMAIN stats) + 1
       IN  /\ stats' = [i \in 1..n |-> IF i \in DOMAIN stats THEN stats[i] ELSE Zero]
           /\ engineStats' = n
    /\ UNCHANGED <<conf, pc, req, seen, chainStats, passed, arrived>>

ReloadUnchecked ==          \* mutated form of Reload: goes on after NewEngine failed
    /\ engineStats' = Cardinality(DOMAIN stats) + 1
    /\ UNCHANGED <<conf, pc, req, seen, stats, chainStats, passed, arrived>>

\* Reload builds an engine with statistics of its own and drops them: the
\* fields of the old one are assigned, Stats is not.
Reload ==
    /\ Cardinality(DOMAIN stats) <= MaxReloads
    /\ LET n == Cardinality(DOMAIN stats) + 1
       IN  stats' = [i \in 1..n |-> IF i \in DOMAIN stats THEN stats[i] ELSE Zero]
    /\ UNCHANGED <<conf, pc, req, seen, engineStats, chainStats, passed, arrived>>

-----------------------------------------------------------------------------
(* Specification *)

Init ==
    /\ conf \in Configs
    /\ pc = [r \in Slots |-> "idle"]
    /\ req = [r \in Slots |-> CHOOSE f \in Inputs : TRUE]
    /\ seen = [r \in Slots |-> Unseen]
    /\ stats = [i \in {1} |-> Zero]
    /\ engineStats = 1 /\ chainStats = 1
    /\ passed = 0 /\ arrived = 0

Handle(r) ==
    \/ \E facts \in Inputs : Arrive(r, facts)
    \/ MasterHandler(r)
    \/ SecurityHeaders(r)
    \/ RateLimiter(r)
    \/ IPReputation(r)
    \/ BotDetection(r)
    \/ RequestValidator(r)
    \/ WAF(r)
    \/ Director(r)
    \/ Backend(r)

\* Every request that may arrive has been answered.
Bounded ==
    /\ arrived = MaxRequests /\ \A r \in Slots : pc[r] = "idle"
    /\ UNCHANGED vars

Next == Reload \/ Bounded \/ \E r \in Slots : Handle(r)

Spec == Init /\ [][Next]_vars

-----------------------------------------------------------------------------
(* Properties *)

InFlight == Cardinality({r \in Slots : pc[r] # "idle"})

\* What the dashboard shows adds up at every moment and across reloads: every
\* request that ever arrived is in the total, and is still in flight, was
\* counted as rejected by exactly one module, or ended uncounted.
StatsAddUp ==
    LET s == stats[engineStats]
    IN  /\ s["Total"] = arrived
        /\ s["Total"] = InFlight + passed + s["Blocked"] + s["RateLimited"]
                        + s["IPBlocked"] + s["BotDetected"] + s["ValidationFail"]

\* Neither a crawler's agent, verified or not, nor a whitelisted address, nor a
\* mark gets a request past a honeypot path.
HoneypotHolds ==
    \A r \in Slots : pc[r] \in {"validator", "waf", "director", "backend"}
                     /\ conf.botDetection => ~req[r].honeypot

\* One of Google's own zones has a name for the address, and the name leads back
\* to it.  The address is what getClientIP returns: the first element of
\* X-Forwarded-For where the request has one.
ConfirmedByGoogle(q) ==
    \E i \in DOMAIN q.names :
        q.names[i].confirms /\ q.names[i].zone \in OfficialZones["google"]

\* NewEngine switches scanner rules off for some agents.  With the default list and
\* verify_bots_by_dns a request with one of those that name Google reaches the WAF
\* only if Google's names confirm its address, whatever other crawler's name the
\* agent contains as well.  Agents with no more than "lighthouse" or "pagespeed",
\* which are exempt too, are not meant: any name with that word in it serves them.
GoogleAgentsVerified ==
    \A r \in Slots :
        /\ pc[r] = "waf" /\ req[r].agent \cap ScannerRuleExempt \cap Google # {}
        /\ conf.botDetection /\ conf.verifyByDNS /\ conf.allowedBots = AllowedBots
        => ConfirmedByGoogle(req[r])

\* A comment of RateLimiter says that crawlers which BotDetection has verified
\* get five times the limit.  BotDetection comes after the limiter.
VerifiedBotsCrawlFaster ==
    \A r \in Slots : seen[r].verified /\ conf.rateLimit => seen[r].generous
=============================================================================
