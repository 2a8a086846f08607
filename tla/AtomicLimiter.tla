--------------------------- MODULE AtomicLimiter ---------------------------
(***************************************************************************)
(* What the rate limiter of internal/engine/ratelimit.go promises: every   *)
(* request is judged in one step, against the tally it finds at that       *)
(* moment, as if no other request ran at the same time.                    *)
(*                                                                         *)
(* A tally belongs to a status object, not to a client: an object that     *)
(* nothing uses any more is forgotten, and the client it counted for       *)
(* starts anew.  The clock is not part of the promise: a request brings    *)
(* the time it has read, and these times need not come in order.           *)
(***************************************************************************)
EXTENDS Integers

CONSTANTS
    Statuses,       \* the objects that may hold a tally
    Times,          \* clock readings
    Limits,         \* allowances a request may bring
    Minute,         \* the length of a window
    BanThreshold,   \* violations that lead to a ban, none unless positive
    BanDuration

VARIABLES
    inUse,          \* the objects that count for a client
    tally,          \* what they have counted
    refused         \* requests refused so far

vars == <<inUse, tally, refused>>

Fresh(now) == [Count |-> 0, WindowTime |-> now, BanCount |-> 0, BannedUntil |-> 0]

Init ==
    /\ inUse = {}
    /\ tally = [o \in Statuses |-> Fresh(0)]
    /\ refused = 0

\* A client without a tally gets a fresh one.
Begin(o, now) ==
    /\ o \in Statuses \ inUse
    /\ inUse' = inUse \cup {o}
    /\ tally' = [tally EXCEPT ![o] = Fresh(now)]
    /\ UNCHANGED refused

\* Tallies that nobody needs any more are given up.
Forget ==
    /\ inUse' \subseteq inUse
    /\ UNCHANGED <<tally, refused>>

\* A banned client is refused, and its request does not count.
RefuseBanned(o, now) ==
    /\ o \in inUse
    /\ now < tally[o].BannedUntil
    /\ refused' = refused + 1
    /\ inUse' \subseteq inUse
    /\ UNCHANGED tally

\* The tally with one more request in the window that is open at this time.
Counted(s, now) ==
    IF now > s.WindowTime + Minute THEN [s EXCEPT !.Count = 1, !.WindowTime = now]
                                   ELSE [s EXCEPT !.Count = @ + 1]

Punished(s, now) ==
    [s EXCEPT !.BanCount = @ + 1,
              !.BannedUntil = IF BanThreshold > 0 /\ s.BanCount + 1 >= BanThreshold
                              THEN now + BanDuration ELSE @]

\* Any other request counts, and is let through or refused by that count alone.
Judge(o, now, limit) ==
    LET s    == Counted(tally[o], now)
        over == s.Count > limit
    IN  /\ o \in inUse
        /\ now >= tally[o].BannedUntil
        /\ tally' = [tally EXCEPT ![o] = IF over THEN Punished(s, now) ELSE s]
        /\ refused' = IF over THEN refused + 1 ELSE refused
        /\ UNCHANGED inUse

Next ==
    \/ \E o \in Statuses, now \in Times : Begin(o, now) \/ RefuseBanned(o, now)
    \/ Forget
    \/ \E o \in Statuses, now \in Times, limit \in Limits : Judge(o, now, limit)

Spec == Init /\ [][Next]_vars
=============================================================================
