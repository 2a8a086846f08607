----------------------------- MODULE MCPipeline -----------------------------
(* Small instances of Pipeline for TLC. *)
EXTENDS Pipeline, TLC

Shop == [www |-> FALSE, name |-> "shop"]
Blog == [www |-> TRUE, name |-> "blog"]

Plain == [host |-> Shop, preflight |-> FALSE, address |-> "public", names |-> <<>>,
          honeypot |-> FALSE, agent |-> {"curl"}, get |-> TRUE, accept |-> FALSE,
          valid |-> TRUE, mark |-> ""]

Googlebot == {"mozilla", "bot", "googlebot", "google"}

GoogleHost  == [zone |-> "googlebot.com", words |-> {"bot", "googlebot", "google"},
                confirms |-> TRUE]
BingHost    == [zone |-> "search.msn.com", words |-> {"bot", "bingbot", "bing"},
                confirms |-> TRUE]
ForgedHost  == [GoogleHost EXCEPT !.confirms = FALSE]
PrivateHost == [zone |-> "elsewhere", words |-> {"lighthouse"}, confirms |-> TRUE]

\* One request for every fact a middleware turns on, and those that set two of
\* them against each other.
MCInputs ==
    {Plain,
     [Plain EXCEPT !.host.name = "other"],
     [Plain EXCEPT !.host.www = TRUE, !.agent = {}, !.mark = "client", !.valid = FALSE],
     [Plain EXCEPT !.host = Blog, !.mark = "client"],
     [Plain EXCEPT !.preflight = TRUE, !.get = FALSE],
     [Plain EXCEPT !.address = "scraper", !.mark = "client"],
     [Plain EXCEPT !.address = "office", !.honeypot = TRUE],
     [Plain EXCEPT !.address = "malformed"],
     [Plain EXCEPT !.agent = Googlebot, !.names = <<GoogleHost>>, !.honeypot = TRUE],
     [Plain EXCEPT !.agent = Googlebot, !.names = <<PrivateHost, GoogleHost>>,
                   !.mark = "client", !.valid = FALSE],
     [Plain EXCEPT !.agent = Googlebot, !.names = <<ForgedHost, PrivateHost>>],
     [Plain EXCEPT !.agent = Googlebot \cup {"bingbot", "bing"}, !.names = <<BingHost>>],
     [Plain EXCEPT !.agent = {"mozilla", "lighthouse"}, !.names = <<PrivateHost>>],
     [Plain EXCEPT !.agent = {"mozilla"}],
     [Plain EXCEPT !.agent = {"mozilla", "crawler"}]}

\* The blog is named once with "www." and once without, and has no WAF of its own.
All == [rateLimit |-> TRUE, ipReputation |-> TRUE, botDetection |-> TRUE,
        verifyByDNS |-> TRUE, requestValidation |-> TRUE, cors |-> TRUE,
        sites |-> << [domain |-> Shop, waf |-> TRUE, mode |-> "on"],
                     [domain |-> Blog, waf |-> TRUE, mode |-> "on"],
                     [domain |-> [Blog EXCEPT !.www = FALSE], waf |-> FALSE, mode |-> "off"] >>,
        allowedBots |-> AllowedBots,
        whitelist |-> {[net |-> {"office"}, valid |-> TRUE]},
        blacklist |-> {[net |-> {"office", "scraper"}, valid |-> TRUE],
                       [net |-> {"public"}, valid |-> FALSE]}]

\* Everything on, each option off, the other modes, another list of crawlers.
MCConfigs ==
    {All} \cup {[All EXCEPT ![o] = FALSE] : o \in Options}
    \cup {[All EXCEPT !.sites[1].mode = m] : m \in {"detection_only", "off", "unknown"}}
    \cup {[All EXCEPT !.allowedBots = <<"bing", "crawler">>]}
MCAll == {All}

MCSymmetry == Permutations(Slots)
=============================================================================
