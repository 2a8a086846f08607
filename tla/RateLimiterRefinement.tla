----------------------- MODULE RateLimiterRefinement -----------------------
(***************************************************************************)
(* RateLimiter implements AtomicLimiter.  A request counts as judged once  *)
(* it knows that it is not banned and whether its window is over: from     *)
(* then on nobody can change its verdict, because it holds rl.mu.  The     *)
(* abstract tally of the object it holds is the one it is going to leave.  *)
(***************************************************************************)
EXTENDS RateLimiter

Decided == {"reset", "count", "judge"}

\* The holder of rl.mu has started to judge itself against object o.
DecidedOn(o) == mu # Nil /\ pc[mu] \in Decided /\ held[mu] = o

\* What the rest of the section does to the status s of request r.
CountedIn(s, r) ==
    CASE pc[r] = "reset" -> [s EXCEPT !.Count = 1, !.WindowTime = req[r].now]
      [] pc[r] = "count" -> [s EXCEPT !.Count = @ + 1]
      [] OTHER           -> s

PunishedIn(s, r) ==
    [s EXCEPT !.BanCount = @ + 1,
              !.BannedUntil = IF BanThreshold > 0 /\ s.BanCount + 1 >= BanThreshold
                              THEN req[r].now + BanDuration ELSE @]

WillBeOver(s, r) == CountedIn(s, r).Count > Allowance(req[r])

Outcome(s, r) == IF WillBeOver(s, r) THEN PunishedIn(CountedIn(s, r), r)
                                     ELSE CountedIn(s, r)

inUse   == Live \ {Nil}
tally   == [o \in Statuses |-> IF DecidedOn(o) THEN Outcome(heap[o], mu) ELSE heap[o]]
refused == IF \E o \in Statuses : DecidedOn(o) /\ WillBeOver(heap[o], mu)
           THEN rateLimited + 1 ELSE rateLimited

Allowances == {Allowance([ip |-> c, now |-> 0, path |-> p, bot |-> b]) :
                  c \in Clients, p \in Paths, b \in BOOLEAN}

Abstract == INSTANCE AtomicLimiter WITH Times <- 0 .. MaxTime, Limits <- Allowances

\* ratelimit.go:92-155: whatever the interleaving of a client's requests with each
\* other, with the sweep and with the clock, tallies and the number of refusals are
\* those of a limiter that judges one request after the other in a single step.
JudgedOneByOne == Abstract!Spec
=============================================================================
