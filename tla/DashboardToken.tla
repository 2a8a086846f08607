--------------------------- MODULE DashboardToken ---------------------------
(***************************************************************************)
(* The token that a POST to the dashboard must bring twice, in a cookie    *)
(* and in a header: the cookie that basicAuth sets, csrfMiddleware         *)
(* (internal/dashboard/dashboard.go), and csrf() and post() of the page    *)
(* (static/index.html).                                                    *)
(*                                                                         *)
(* The server keeps no token; what is shared is the cookie of the browser, *)
(* which its tabs read when they write the header, which goes with what    *)
(* they send, and which every answer may replace.  The tabs know the       *)
(* password.  Where none is configured basicAuth sets no cookie, and the   *)
(* configuration may change in between.                                    *)
(***************************************************************************)

CONSTANTS
    Tabs,       \* pages of one browser, each with a request in flight or none
    Tokens,     \* what rand.Read makes; bound: as many as can be in use
    NoToken     \* no cookie, or an empty header

ASSUME TokenAssumption == NoToken \notin Tokens

VARIABLES
    credentials,    \* a user name or a password is configured
    jar,            \* the browser's X-CSRF-Token
    fetch           \* each tab's request

tokenVars == <<credentials, jar, fetch>>

Token    == Tokens \cup {NoToken}
Exchange == [at     : {"page", "header", "sent", "door", "answered"},
             post   : BOOLEAN,
             header : Token,         \* X-CSRF-Token, of a POST
             cookie : Token,         \* X-CSRF-Token, as it was sent
             sets   : Token,         \* Set-Cookie of the answer
             calm   : BOOLEAN]       \* history: the token was Settled when it was read

NoRequestOut == [at |-> "page", post |-> FALSE, header |-> NoToken, cookie |-> NoToken,
                 sets |-> NoToken, calm |-> FALSE]

TokenTypeOK ==
    /\ credentials \in BOOLEAN /\ jar \in Token /\ fetch \in [Tabs -> Exchange]
    /\ \A t \in Tabs : fetch[t].at = "page" => fetch[t] = NoRequestOut

InUse == {jar} \cup UNION {{fetch[t].header, fetch[t].cookie, fetch[t].sets} : t \in Tabs}

\* The browser has a cookie, and no request that went without one is out.
Settled ==
    /\ jar # NoToken
    /\ \A t \in Tabs : fetch[t].at \in {"sent", "door", "answered"} => fetch[t].cookie # NoToken

Fetch(t, from, to) == fetch[t].at = from /\ fetch' = [fetch EXCEPT ![t] = to]

-----------------------------------------------------------------------------
(* The page *)

\* fetch(url): the browser adds the cookie.
Get(t) ==
    /\ Fetch(t, "page", [NoRequestOut EXCEPT !.at = "sent", !.cookie = jar])
    /\ UNCHANGED <<credentials, jar>>

\* post(url, body): csrf() reads document.cookie,
ReadCookie(t) ==
    /\ Fetch(t, "page", [NoRequestOut EXCEPT !.at = "header", !.post = TRUE,
                                             !.header = jar, !.calm = Settled])
    /\ UNCHANGED <<credentials, jar>>

\* and the browser adds the cookie when it sends the request.
Post(t) ==
    /\ Fetch(t, "header", [fetch[t] EXCEPT !.at = "sent", !.cookie = jar])
    /\ UNCHANGED <<credentials, jar>>

\* Mutated form of TakeAnswer: the request's locals stay.
TakeAnswerKeeps(t) ==
    /\ Fetch(t, "answered", [fetch[t] EXCEPT !.at = "page"])
    /\ jar' = IF fetch[t].sets = NoToken THEN jar ELSE fetch[t].sets
    /\ UNCHANGED credentials

\* The answer arrives, with a Set-Cookie or without.
TakeAnswer(t) ==
    /\ Fetch(t, "answered", NoRequestOut)
    /\ jar' = IF fetch[t].sets = NoToken THEN jar ELSE fetch[t].sets
    /\ UNCHANGED credentials

-----------------------------------------------------------------------------
(* The server *)

\* Mutated form of SetCookie: each login gets a token of its own.
SetCookieAlways(t, k) == IF credentials THEN k \in Tokens \ InUse ELSE k = NoToken

\* The login has succeeded: "Set CSRF Cookie if not present".
SetCookie(t, k) ==
    IF credentials /\ fetch[t].cookie = NoToken THEN k \in Tokens \ InUse ELSE k = NoToken

PassDoor(t, k) ==
    /\ SetCookie(t, k)
    /\ Fetch(t, "sent", [fetch[t] EXCEPT !.at = "door", !.sets = k])
    /\ UNCHANGED <<credentials, jar>>

\* csrfMiddleware refuses the request: its cookie or its header is missing, or they
\* are not the same.
TokenInvalid(q) == q.post /\ (NoToken \in {q.cookie, q.header} \/ q.header # q.cookie)

\* 403, or the handler's answer.
CsrfMiddleware(t) ==
    /\ Fetch(t, "door", [fetch[t] EXCEPT !.at = "answered"])
    /\ UNCHANGED <<credentials, jar>>

-----------------------------------------------------------------------------
(* Specification *)

\* The dashboard goes on, or starts again, with another configuration.
SwitchCredentials ==
    /\ credentials' = ~credentials
    /\ UNCHANGED <<jar, fetch>>

\* The browser ends, and its session's cookies with it.
CloseBrowser ==
    /\ jar' = NoToken
    /\ fetch' = [t \in Tabs |-> NoRequestOut]
    /\ UNCHANGED credentials

TokenInit ==
    /\ credentials \in BOOLEAN
    /\ jar = NoToken
    /\ fetch = [t \in Tabs |-> NoRequestOut]

TokenNext ==
    \/ SwitchCredentials
    \/ CloseBrowser
    \/ \E t \in Tabs :
          \/ Get(t)
          \/ ReadCookie(t)
          \/ Post(t)
          \/ \E k \in Token : PassDoor(t, k)
          \/ CsrfMiddleware(t)
          \/ TakeAnswer(t)

TokenSpec == TokenInit /\ [][TokenNext]_tokenVars

-----------------------------------------------------------------------------
(* Properties *)

\* dashboard.go:111-124 and 133-144: the first answers to several tabs may each set
\* a token, but once the browser has one and those answers are in, no POST of any
\* tab is refused for its token, through saves, restarts and changes of the
\* credentials, however it overlaps with the requests of other tabs.
NoPostRefusedOnceSettled ==
    \A t \in Tabs : fetch[t].at \in {"door", "answered"} /\ fetch[t].calm => ~TokenInvalid(fetch[t])
=============================================================================
