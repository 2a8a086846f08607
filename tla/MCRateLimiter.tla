--------------------------- MODULE MCRateLimiter ---------------------------
(* Small instances of RateLimiter for TLC. *)
EXTENDS RateLimiterRefinement

\* "login" has a pattern of its own in rate_limit.paths, "page" has none.
MCPaths     == {"page", "login"}
MCPathLimit == [p \in {"login"} |-> 0]
=============================================================================
