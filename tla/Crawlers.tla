------------------------------ MODULE Crawlers ------------------------------
(***************************************************************************)
(* Who BotDetection takes a client for: the keyword of allowed_bots that   *)
(* its agent contains, the vendor that keyword stands for, and the check   *)
(* of the client's address by reverse and forward DNS lookups.             *)
(*                                                                         *)
(* An agent is the set of the words below that occur in it; an empty one   *)
(* has none.  A host name is the registered zone it is in, the keywords    *)
(* that occur in it, and whether its forward lookup returns the client's   *)
(* address.                                                                *)
(***************************************************************************)
EXTENDS Integers, Sequences, FiniteSetsExt

\* Mutated form of AllowedBots: vendors in alphabetical order.
AllowedBotsSorted == <<
    "bingbot", "bing", "duckduckbot", "googlebot", "google", "lighthouse",
    "pagespeed", "slurp", "yandexbot", "yandex" >>

\* LoadConfig's default.  The order decides which keyword an agent is judged by.
AllowedBots == <<
    "googlebot", "google",
    "google-inspectiontool", "google-site-verification", "storebot-google",
    "google-read-aloud", "google-safety", "google-extended", "lighthouse", "pagespeed",
    "adsbot-google", "apis-google", "feedfetcher-google", "mediapartners-google",
    "bingbot", "bing", "slurp", "duckduckbot", "baiduspider", "yandexbot", "yandex",
    "facebookexternalhit", "twitterbot", "whatsapp", "linkedinbot" >>

\* The directive of NewEngine that switches three scanner rules off for these.
ScannerRuleExempt ==
    {"googlebot", "google-inspectiontool", "google-site-verification",
     "google-read-aloud", "google-safety", "google-extended", "storebot-google",
     "adsbot-google", "apis-google", "feedfetcher-google", "mediapartners-google",
     "lighthouse", "pagespeed"}

Google == (ScannerRuleExempt \ {"lighthouse", "pagespeed"}) \cup {"google"}

\* botKeywords: the agents that the heuristic for browsers leaves alone.
KnownTools ==
    {"bot", "crawler", "spider",
     "googlebot", "google-inspectiontool", "google-site-verification",
     "storebot-google", "google-read-aloud", "google-safety", "google-extended",
     "adsbot-google", "apis-google", "feedfetcher-google", "mediapartners-google",
     "inspection", "lighthouse", "pagespeed", "bingbot", "bing",
     "yandex", "baidu", "duckduck", "slurp",
     "facebook", "twitter", "whatsapp", "linkedin", "telegram", "discord"}

IsKnownToolOrBot(agent) == agent \cap KnownTools # {}

\* What allowed_bots may name, and the words an agent is made of.
Keywords == {AllowedBots[i] : i \in DOMAIN AllowedBots} \cup KnownTools
Words    == Keywords \cup {"mozilla", "curl"}

\* The word that both tables look for in a keyword.
Family(keyword) ==
    CASE keyword \in Google                   -> "google"
      [] keyword \in {"bingbot", "bing"}      -> "bing"
      [] keyword \in {"yandexbot", "yandex"}  -> "yandex"
      [] keyword \in {"baiduspider", "baidu"} -> "baidu"
      [] keyword \in {"duckduckbot", "duckduck"} -> "duckduckgo"
      [] OTHER                                -> "other"

Vendors == {"google", "bing", "yandex", "baidu", "duckduckgo", "other"}

GetBotVendor(keyword) ==
    IF keyword \in {"lighthouse", "pagespeed"} THEN "google" ELSE Family(keyword)

OfficialZones == [google     |-> {"googlebot.com", "google.com"},
                  bing       |-> {"search.msn.com", "bing.com"},
                  yandex     |-> {"yandex.com", "yandex.ru", "yandex.net"},
                  baidu      |-> {"baidu.com", "baidu.jp"},
                  duckduckgo |-> {"duckduckgo.com"}]

Zones == UNION {OfficialZones[v] : v \in DOMAIN OfficialZones} \cup {"elsewhere"}
Name  == [zone : Zones, words : SUBSET Keywords, confirms : BOOLEAN]

IsOfficialBotDomain(host, keyword) ==
    IF Family(keyword) = "other" THEN keyword \in host.words
                                 ELSE host.zone \in OfficialZones[Family(keyword)]

\* Mutated form of VerifySearchBotDNS: any name of the address may resolve back.
VerifyAnyName(names, keyword) ==
    /\ \E i \in DOMAIN names : IsOfficialBotDomain(names[i], keyword)
    /\ \E i \in DOMAIN names : names[i].confirms

\* Only the first official name is looked up.  An address without names, or
\* whose lookup fails, has <<>>.
VerifySearchBotDNS(names, keyword) ==
    \E i \in DOMAIN names :
        /\ IsOfficialBotDomain(names[i], keyword) /\ names[i].confirms
        /\ \A j \in 1 .. i - 1 : ~IsOfficialBotDomain(names[j], keyword)

\* The loop over allowed_bots ends at the first keyword the agent contains.
NoBot == "none"
FirstBot(bots, agent) ==
    LET matching == {i \in DOMAIN bots : bots[i] \in agent}
    IN  IF matching = {} THEN NoBot ELSE bots[Min(matching)]
=============================================================================
