-------------------------- MODULE ResponseWriters --------------------------
(***************************************************************************)
(* How one response gets from a handler to the wire.                       *)
(*                                                                         *)
(* Three wrappers may sit between a handler and net/http's writer:         *)
(*                                                                         *)
(*   interceptorRW         (proxy.go)           sites with waf.enabled     *)
(*   responseWriterWrapper (threatlogger.go)    threat_logging.enabled     *)
(*   secHeaderWriter       (securityheaders.go) security_headers.enabled   *)
(*                                                                         *)
(* each with a WriteHeader, a Write and a Flush that hand on to the next   *)
(* one (the prefixes Iw, Rw, Sw and, for net/http, Net).  All share one    *)
(* header map, which net/http takes a copy of when the response commits.   *)
(* The writers are pure functions on a record w; an action is one call of  *)
(* a handler on its writer.  BlockErrorHandler itself writes through the   *)
(* wrappers below interceptorRW, from inside interceptorRW.WriteHeader.    *)
(*                                                                         *)
(* Coraza's own writer, between the proxy and interceptorRW, is taken to   *)
(* hand on every call.                                                     *)
(*                                                                         *)
(* Of the headers the model keeps the values of Content-Security-Policy    *)
(* and Content-Length.  A body is named by who wrote it.                   *)
(***************************************************************************)
EXTENDS Integers, Sequences, SequencesExt

CONSTANTS
    Codes,          \* final status codes a backend may answer with
    UpstreamCSPs,   \* lists of Content-Security-Policy values it may send
    Refusals,       \* status codes the middlewares refuse with
    Denials,        \* status codes Coraza denies with
    MaxHints,       \* bound: 1xx responses before the final one
    MaxChunks       \* bound: reads of the backend's body

\* "site" is the configured policy, "block" the one of the block page; no
\* backend sends the latter.
Policies == {"site", "site; sandbox", "sandbox", "other", "block"}

ASSUME CodeAssumption        == Codes \cup Refusals \cup Denials \subseteq 200..599
ASSUME CSPAssumption         == UpstreamCSPs \subseteq Seq({"sandbox", "other"})
ASSUME WriterBoundAssumption == MaxHints \in Nat /\ MaxChunks \in Nat

VARIABLES
    site,       \* which wrappers are there, and whether a csp and CORS are configured
    at,         \* where the request is
    w,          \* the wrappers, the header map and net/http's writer
    blocked,    \* stats.BlockedRequests
    logged,     \* response_code of the log line, 0 until there is one
    answer,     \* history: what the backend's response said
    hints,      \* 1xx responses so far (for MaxHints)
    chunks      \* reads of the body so far (for MaxChunks)

writerVars == <<site, at, w, blocked, logged, answer, hints, chunks>>

-----------------------------------------------------------------------------
(* Types *)

PCs    == {"host", "handler", "denied", "copy", "return", "finish", "done", "aborted",
           "hijacked"}
Status == {0, 403} \cup {200, 204, 502, 103} \cup Codes \cup Refusals \cup Denials
Bodies == {"page", "notice", "upstream"}
CSPs   == UpstreamCSPs \cup {<<>>} \cup {<<p>> : p \in Policies}

\* length: whose body the Content-Length is the length of, "any" without one.
Writer == [csp           : CSPs,                    \* the header map
           length        : {"any", "upstream"},
           sent          : Status,                  \* net/http, 0 until it commits
           wireCSP       : CSPs,
           wireLength    : {"any", "upstream"},
           body          : SUBSET Bodies,
           headerWritten : BOOLEAN,                 \* secHeaderWriter
           statusCode    : Status,                  \* responseWriterWrapper
           wroteBlock    : BOOLEAN]                 \* interceptorRW

WriterTypeOK ==
    /\ site \in [headers : BOOLEAN, csp : BOOLEAN, cors : BOOLEAN,
                 log : BOOLEAN, waf : BOOLEAN]
    /\ at \in PCs
    /\ w \in Writer
    /\ blocked \in Nat
    /\ logged \in Status
    /\ answer \in [code : Codes \cup {0}, csp : UpstreamCSPs \cup {<<>>}]
    /\ hints \in 0..MaxHints /\ chunks \in 0..MaxChunks

Informational(code) == code \in 100..199

-----------------------------------------------------------------------------
(* net/http's own writer: the first final status commits the response, a   *)
(* later one is dropped; a 1xx status goes out at once and commits nothing.*)
(* A body that is not of the declared length is cut (http.ErrContentLength *)
(* or a connection that is closed early); it does not count as delivered.  *)

NetWriteHeader(x, code) ==
    IF Informational(code) \/ x.sent # 0 THEN x
    ELSE [x EXCEPT !.sent = code, !.wireCSP = x.csp, !.wireLength = x.length]

NetWrite(x, part) ==
    LET c == NetWriteHeader(x, 200)
    IN  IF c.wireLength \in {"any", part} THEN [c EXCEPT !.body = @ \cup {part}] ELSE c

NetFlush(x) == NetWriteHeader(x, 200)

-----------------------------------------------------------------------------
(* secHeaderWriter *)

\* The policy that replaces what is in the header map: the first value that is the
\* block page's, or exactly a sandbox, decides.
Policy(csp) ==
    IF \E i \in DOMAIN csp : csp[i] = "block" /\ \A j \in 1 .. i-1 : csp[j] # "sandbox"
    THEN "block"
    ELSE IF Contains(csp, "sandbox") THEN "site; sandbox" ELSE "site"

ApplyHeaders(x) ==
    [x EXCEPT !.headerWritten = TRUE,
              !.csp = IF site.csp THEN <<Policy(x.csp)>> ELSE @]

\* Mutated form of SwWriteHeader: a 1xx status is taken for the final one.
SwWriteHeaderHints(x, code) ==
    IF ~site.headers THEN NetWriteHeader(x, code)
    ELSE IF x.headerWritten THEN x
    ELSE NetWriteHeader(ApplyHeaders(x), code)

SwWriteHeader(x, code) ==
    IF ~site.headers \/ Informational(code) THEN NetWriteHeader(x, code)
    ELSE IF x.headerWritten THEN x
    ELSE NetWriteHeader(ApplyHeaders(x), code)

SwWrite(x, part) ==
    NetWrite(IF site.headers /\ ~x.headerWritten THEN ApplyHeaders(x) ELSE x, part)

SwFlush(x) == NetFlush(IF site.headers THEN SwWriteHeader(x, 200) ELSE x)

-----------------------------------------------------------------------------
(* responseWriterWrapper *)

RwWriteHeaderFirst(x, code) ==  \* mutated form of RwWriteHeader: the first code stays
    SwWriteHeader(IF site.log /\ x.statusCode = 0 THEN [x EXCEPT !.statusCode = code] ELSE x, code)

RwWriteHeader(x, code) ==
    SwWriteHeader(IF site.log THEN [x EXCEPT !.statusCode = code] ELSE x, code)

RwWrite(x, part) ==
    SwWrite(IF site.log /\ x.statusCode = 0 THEN [x EXCEPT !.statusCode = 200] ELSE x, part)

RwFlush(x) == SwFlush(x)

-----------------------------------------------------------------------------
(* interceptorRW, and BlockErrorHandler, which it calls *)

PageHeadersAdd(x) == [x EXCEPT !.csp = Append(@, "block")]  \* mutated form: Add, not Set
PageHeaders(x) == [x EXCEPT !.csp = <<"block">>]

IsBlock(code) == code \in {403, 406}

IwWriteHeader(x, code) ==
    IF IsBlock(code)
    THEN RwWrite(RwWriteHeader(PageHeaders([x EXCEPT !.wroteBlock = TRUE]), 403), "page")
    ELSE RwWriteHeader(x, code)

IwWriteThrough(x, part) == RwWrite(x, part)     \* mutated form of IwWrite: no guard
IwWrite(x, part) == IF x.wroteBlock THEN x ELSE RwWrite(x, part)

IwFlush(x) == RwFlush(x)

\* The writer the proxy gets.
WriteHeader(x, code) == IF site.waf THEN IwWriteHeader(x, code) ELSE RwWriteHeader(x, code)
Write(x, part)       == IF site.waf THEN IwWrite(x, part) ELSE RwWrite(x, part)
Flush(x)             == IF site.waf THEN IwFlush(x) ELSE RwFlush(x)

\* interceptorRW.WriteHeader counts what it turns into a block page.
Counts(code) == IF site.waf /\ IsBlock(code) THEN blocked + 1 ELSE blocked

-----------------------------------------------------------------------------
(* The handlers, outermost first *)

\* masterHandler: no site of that name.  The page goes straight to net/http.
UnknownHost ==
    /\ at = "host"
    /\ blocked' = blocked + 1
    /\ w' = NetWrite(NetWriteHeader(PageHeaders(w), 403), "page")
    /\ at' = "done"
    /\ UNCHANGED <<site, logged, answer, hints, chunks>>

KnownHost ==
    /\ at = "host"
    /\ at' = "handler"
    /\ UNCHANGED <<site, w, blocked, logged, answer, hints, chunks>>

\* SecurityHeaders.Middleware answers an allowed CORS preflight itself.
Preflight ==
    /\ at = "handler" /\ hints = 0
    /\ site.headers /\ site.cors
    /\ w' = SwWriteHeader(w, 204)
    /\ at' = "done"
    /\ UNCHANGED <<site, blocked, logged, answer, hints, chunks>>

\* http.Error in a middleware between the logger and the WAF.
Refuse(code) ==
    /\ at = "handler" /\ hints = 0
    /\ w' = RwWrite(RwWriteHeader(w, code), "notice")
    /\ at' = "return"
    /\ UNCHANGED <<site, blocked, logged, answer, hints, chunks>>

\* Coraza denies the request: it writes the status, and may write a body.
Deny(code) ==
    /\ at = "handler" /\ hints = 0 /\ site.waf
    /\ w' = IwWriteHeader(w, code)
    /\ blocked' = Counts(code)
    /\ at' = "denied"
    /\ UNCHANGED <<site, logged, answer, hints, chunks>>

DenyBody ==
    /\ at = "denied"
    /\ w' \in {w, IwWrite(w, "notice")}
    /\ at' = "return"
    /\ UNCHANGED <<site, blocked, logged, answer, hints, chunks>>

-----------------------------------------------------------------------------
(* httputil.ReverseProxy *)

\* A 1xx response is passed on with its headers, which are cleared again.
Hint(csp) ==
    /\ at = "handler" /\ hints < MaxHints
    /\ hints' = hints + 1
    /\ w' = [WriteHeader([w EXCEPT !.csp = csp], 103) EXCEPT !.csp = <<>>]
    /\ UNCHANGED <<site, at, blocked, logged, answer, chunks>>

\* The final response: its headers join those already set, its status follows.
Answer(code, csp, length) ==
    /\ at = "handler"
    /\ answer' = [code |-> code, csp |-> csp]
    /\ w' = WriteHeader([w EXCEPT !.csp = @ \o csp, !.length = length], code)
    /\ blocked' = Counts(code)
    /\ at' = "copy"
    /\ UNCHANGED <<site, logged, hints, chunks>>

\* A read of the body is written, and flushed if the response streams.
CopyChunk ==
    /\ at = "copy" /\ chunks < MaxChunks
    /\ chunks' = chunks + 1
    /\ w' \in {Write(w, "upstream"), Flush(Write(w, "upstream"))}
    /\ UNCHANGED <<site, at, blocked, logged, answer, hints>>

EndOfBody ==
    /\ at = "copy"
    /\ at' = "return"
    /\ UNCHANGED <<site, w, blocked, logged, answer, hints, chunks>>

\* The backend or the client is gone in the middle of the body: the proxy
\* panics with http.ErrAbortHandler, and none of the wrappers' code after
\* next.ServeHTTP runs.
Abort ==
    /\ at = "copy"
    /\ at' = "aborted"
    /\ UNCHANGED <<site, w, blocked, logged, answer, hints, chunks>>

\* The backend answers 101.  The proxy takes the connection over if it is given
\* net/http's own writer; no wrapper has Hijack or Unwrap, and it calls
\* proxy.ErrorHandler.
Upgrade ==
    /\ at = "handler"
    /\ IF site.headers \/ site.log \/ site.waf
       THEN /\ w' = Write(WriteHeader(w, 502), "notice")
            /\ at' = "return"
       ELSE /\ at' = "hijacked"
            /\ UNCHANGED w
    /\ UNCHANGED <<site, blocked, logged, answer, hints, chunks>>

\* No answer from the backend: proxy.ErrorHandler.
BadGateway ==
    /\ at = "handler"
    /\ w' = Write(WriteHeader(w, 502), "notice")
    /\ at' = "return"
    /\ UNCHANGED <<site, blocked, logged, answer, hints, chunks>>

-----------------------------------------------------------------------------
(* After next.ServeHTTP: ThreatLogger, then SecurityHeaders and net/http *)

Log ==
    /\ at = "return"
    /\ LET code == IF w.statusCode = 0 THEN 200 ELSE w.statusCode
       IN  IF site.log THEN /\ w' = [w EXCEPT !.statusCode = code]
                            /\ logged' = code
                       ELSE UNCHANGED <<w, logged>>
    /\ at' = "finish"
    /\ UNCHANGED <<site, blocked, answer, hints, chunks>>

Finish ==
    /\ at = "finish"
    /\ w' = NetFlush(IF site.headers THEN SwWriteHeader(w, 200) ELSE w)
    /\ at' = "done"
    /\ UNCHANGED <<site, blocked, logged, answer, hints, chunks>>

Over == at \in {"done", "aborted", "hijacked"} /\ UNCHANGED writerVars

-----------------------------------------------------------------------------
(* Specification *)

FreshWriter == [csp |-> <<>>, length |-> "any", sent |-> 0, wireCSP |-> <<>>,
                wireLength |-> "any", body |-> {}, headerWritten |-> FALSE,
                statusCode |-> 0, wroteBlock |-> FALSE]

WriterInit ==
    /\ site \in [headers : BOOLEAN, csp : BOOLEAN, cors : BOOLEAN,
                 log : BOOLEAN, waf : BOOLEAN]
    /\ at = "host"
    /\ w = FreshWriter
    /\ blocked = 0 /\ logged = 0 /\ hints = 0 /\ chunks = 0
    /\ answer = [code |-> 0, csp |-> <<>>]

Proxy ==
    \/ \E csp \in UpstreamCSPs : Hint(csp)
    \/ \E code \in Codes, csp \in UpstreamCSPs, length \in {"any", "upstream"} :
           Answer(code, csp, length)
    \/ CopyChunk
    \/ EndOfBody
    \/ Abort
    \/ Upgrade
    \/ BadGateway

WriterNext ==
    \/ UnknownHost
    \/ KnownHost
    \/ Preflight
    \/ \E code \in Refusals : Refuse(code)
    \/ \E code \in Denials : Deny(code)
    \/ DenyBody
    \/ Proxy
    \/ Log
    \/ Finish
    \/ Over

WriterSpec == WriterInit /\ [][WriterNext]_writerVars

-----------------------------------------------------------------------------
(* Properties *)

\* Where a policy is configured, a response that reaches the wire through
\* secHeaderWriter carries exactly one Content-Security-Policy, whatever the
\* backend sent, in its hints or its answer, and whoever refused the request:
\* the site's policy, with the sandbox if and only if an answer that is not
\* turned into a block page asked for one; block pages carry their own.
OnePolicy ==
    w.sent # 0 /\ at # "host" /\ site.headers /\ site.csp =>
        LET page == w.wroteBlock \/ (at = "done" /\ "page" \in w.body)
        IN  w.wireCSP = <<IF page THEN "block"
                          ELSE IF Contains(answer.csp, "sandbox") THEN "site; sandbox"
                               ELSE "site">>

\* A block page goes out as a 403 under its own policy with nothing of what
\* Coraza or the backend wrote mixed into it, and is counted exactly once.
BlockPageAlone ==
    /\ w.wroteBlock => /\ w.sent = 403
                       /\ w.wireCSP = <<"block">>
                       /\ w.body \subseteq {"page"}
                       /\ blocked = 1
    /\ blocked = 0 => "page" \notin w.body

\* A response that ends in order behind ThreatLogger is logged with the status the
\* client got, through hints, rewritten denials, flushes and implicit 200s.
LoggedAsSent ==
    [][at = "finish" /\ at' = "done" /\ site.log => logged = w'.sent]_writerVars

\* A comment of interceptorRW says that a block "can render our custom block
\* page instead": whoever is blocked by status gets the page.  The backend's
\* Content-Length stays in the header map and cuts it.
BlockPageDelivered ==
    at = "done" /\ w.wroteBlock => "page" \in w.body
=============================================================================
