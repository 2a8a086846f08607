---------------------------- MODULE RateLimiter ----------------------------
(***************************************************************************)
(* The per-client rate limiter of internal/engine/ratelimit.go.            *)
(*                                                                         *)
(* Every HTTP request runs Middleware in a goroutine of its own.  It reads *)
(* the clock, looks its client's *clientStatus up in the sync.Map `clients`*)
(* (LoadOrStore, outside any lock), then takes rl.mu and judges itself     *)
(* against the status it holds.  One cleanup goroutine sweeps the map once *)
(* a minute; it never takes rl.mu.  A status object that was deleted from  *)
(* the map lives on for as long as a request still holds the pointer.      *)
(*                                                                         *)
(* The section under rl.mu is split where another goroutine could observe  *)
(* it: the test (CheckWindow), the two writes of a window reset, Count++   *)
(* and the verdict are separate steps: that no request overtakes another   *)
(* in between is a theorem about rl.mu, not an assumption of the model.    *)
(*                                                                         *)
(* A time is a number of ticks, the zero time.Time is 0.  The cleanup      *)
(* goroutine reads WindowTime and BannedUntil without rl.mu (a data race). *)
(* Both only grow while the object lives (NeverRegresses below), so two    *)
(* reads at different moments, or a read that mixes the words of an old    *)
(* and a new time.Time, decide as one read at an earlier or a later moment *)
(* does; Examine reads both at once and loses no outcome.                  *)
(***************************************************************************)
EXTENDS Integers, Sequences

CONSTANTS
    Clients,            \* client addresses, as getClientIP returns them
    Requests,           \* handler goroutines that may be in flight together
    Statuses,           \* heap addresses of clientStatus objects
    Nil,                \* the null pointer, and the holder of a free mutex
    Paths,              \* URL paths, up to the rate_limit.paths pattern they match
    PathLimit,          \* [configured pattern -> requests_per_minute]
    RequestsPerMinute,  \* rate_limit.requests_per_minute
    Burst,              \* rate_limit.burst
    BanThreshold,       \* rate_limit.ban_threshold, no bans unless positive
    BanDuration,        \* parseDuration(rate_limit.ban_duration), in ticks
    Minute,             \* time.Minute in ticks
    MaxTime,            \* bound: the clock stops here
    MaxRequests         \* bound: requests that may arrive in a behaviour

ASSUME NilAssumption    == Nil \notin Statuses \cup Requests
ASSUME InputAssumption  == Clients # {} /\ Paths # {}
ASSUME LimitAssumption  == /\ DOMAIN PathLimit \subseteq Paths
                           /\ \A p \in DOMAIN PathLimit : PathLimit[p] \in Int
                           /\ RequestsPerMinute \in Int
                           /\ Burst \in Int
                           /\ BanThreshold \in Int
ASSUME TimeAssumption   == Minute \in Nat \ {0} /\ BanDuration \in Nat
ASSUME BoundAssumption  == MaxTime \in Nat \ {0} /\ MaxRequests \in Nat

VARIABLES
    clock,          \* time.Now()
    clients,        \* rl.clients, the sync.Map: client -> pointer
    heap,           \* the clientStatus objects
    mu,             \* rl.mu: its holder, or Nil
    pc,             \* where each handler goroutine is
    req,            \* what it read of its request: ip, now, path, verified mark
    held,           \* the pointer it got from LoadOrStore
    rateLimited,    \* stats.RateLimitedReqs
    cleaner,        \* the cleanup goroutine
    arrived,        \* number of requests so far (for MaxRequests)
    admitted,       \* history: requests let through in each object's current window
    violations      \* history: clock readings of a client's requests over the limit

reqVars == <<pc, req, held>>
history == <<admitted, violations>>
vars == <<clock, clients, heap, mu, pc, req, held, rateLimited, cleaner,
          arrived, admitted, violations>>

-----------------------------------------------------------------------------
(* Types *)

InSection == {"locked", "reset", "count", "judge"}  \* the caller holds rl.mu
PCs       == {"idle", "load", "lock"} \cup InSection

Status  == [Count : Nat, WindowTime : Nat, BanCount : Nat, BannedUntil : Nat]
Request == [ip : Clients, now : Nat, path : Paths, bot : BOOLEAN]

TypeOK ==
    /\ clock \in Nat
    /\ clients \in [Clients -> Statuses \cup {Nil}]
    /\ heap \in [Statuses -> Status]
    /\ mu \in Requests \cup {Nil}
    /\ pc \in [Requests -> PCs]
    /\ req \in [Requests -> Request]
    /\ held \in [Requests -> Statuses \cup {Nil}]
    /\ rateLimited \in Nat
    /\ cleaner \in [pc   : {"asleep", "sweeping", "deleting"},
                    now  : Nat,
                    todo : SUBSET Clients,
                    key  : Clients]
    /\ arrived \in Nat
    /\ admitted \in [Statuses -> Nat]
    /\ violations \in [Clients -> Seq(Nat)]

NewStatus(now) == [Count |-> 0, WindowTime |-> now, BanCount |-> 0, BannedUntil |-> 0]
NoRequest      == [ip |-> CHOOSE c \in Clients : TRUE, now |-> 0,
                   path |-> CHOOSE p \in Paths : TRUE, bot |-> FALSE]

-----------------------------------------------------------------------------
(* The limiter's arithmetic *)

\* The limit of a request: its path's pattern, the global one otherwise, five
\* times as much if it carries the X-LIM-Verified-Bot mark; Burst on top.
Allowance(rq) ==
    LET base == IF rq.path \in DOMAIN PathLimit THEN PathLimit[rq.path]
                                                ELSE RequestsPerMinute
    IN  (IF rq.bot THEN 5 * base ELSE base) + Burst

WindowOver(s, now) == now > s.WindowTime + Minute
BanIgnored(s, now) == FALSE     \* mutated form of Banned: the check is dropped
Banned(s, now)     == now < s.BannedUntil

\* The objects something still points to; the rest of the heap is garbage.
Live == {clients[c] : c \in Clients} \cup {held[r] : r \in Requests}

Moves(r, from, to) == pc[r] = from /\ pc' = [pc EXCEPT ![r] = to]

\* The request leaves Middleware: its goroutine's locals are gone.
Leaves(r) ==
    /\ pc' = [pc EXCEPT ![r] = "idle"]
    /\ req' = [req EXCEPT ![r] = NoRequest]
    /\ held' = [held EXCEPT ![r] = Nil]

UnlockForgotten == UNCHANGED mu     \* mutated form of Unlock
Unlock          == mu' = Nil

-----------------------------------------------------------------------------
(* A request's handler goroutine *)

\* Middleware starts: ip := getClientIP(r), now := time.Now().
Arrive(r, c, p, b) ==
    /\ arrived < MaxRequests
    /\ Moves(r, "idle", "load")
    /\ req' = [req EXCEPT ![r] = [ip |-> c, now |-> clock, path |-> p, bot |-> b]]
    /\ arrived' = arrived + 1
    /\ UNCHANGED <<clock, clients, heap, mu, held, rateLimited, cleaner, history>>

\* rl.clients.LoadOrStore: the client's status, or a fresh one stored for it.
LoadOrStore(r) ==
    LET c == req[r].ip
    IN  /\ Moves(r, "load", "lock")
        /\ \/ /\ clients[c] # Nil
              /\ held' = [held EXCEPT ![r] = clients[c]]
              /\ UNCHANGED <<clients, heap, admitted>>
           \/ /\ clients[c] = Nil
              /\ \E o \in Statuses \ Live :
                    /\ heap' = [heap EXCEPT ![o] = NewStatus(req[r].now)]
                    /\ admitted' = [admitted EXCEPT ![o] = 0]
                    /\ clients' = [clients EXCEPT ![c] = o]
                    /\ held' = [held EXCEPT ![r] = o]
        /\ UNCHANGED <<clock, mu, req, rateLimited, cleaner, arrived,
                       violations>>

LockUnguarded(r) ==     \* mutated form of Lock: readers of the status do not exclude
    /\ Moves(r, "lock", "locked")
    /\ mu' = r
    /\ UNCHANGED <<clock, clients, heap, req, held, rateLimited, cleaner,
                   arrived, history>>

\* rl.mu.Lock().
Lock(r) ==
    /\ Moves(r, "lock", "locked")
    /\ mu = Nil
    /\ mu' = r
    /\ UNCHANGED <<clock, clients, heap, req, held, rateLimited, cleaner,
                   arrived, history>>

\* The client is banned: unlock, count the rejection, answer 429.
RejectBanned(r) ==
    /\ pc[r] = "locked"
    /\ Banned(heap[held[r]], req[r].now)
    /\ Leaves(r)
    /\ Unlock
    /\ rateLimited' = rateLimited + 1
    /\ UNCHANGED <<clock, clients, heap, cleaner, arrived, history>>

\* Not banned: has the window that the status counts in run out?
CheckWindow(r) ==
    LET s == heap[held[r]]
    IN  /\ Moves(r, "locked", IF WindowOver(s, req[r].now) THEN "reset" ELSE "count")
        /\ ~Banned(s, req[r].now)
        /\ UNCHANGED <<clock, clients, heap, mu, req, held, rateLimited,
                       cleaner, arrived, history>>

ResetWindowKeepsTime(r) ==      \* mutated form of ResetWindow: WindowTime is not moved
    /\ Moves(r, "reset", "count")
    /\ heap' = [heap EXCEPT ![held[r]].Count = 0]
    /\ UNCHANGED <<clock, clients, mu, req, held, rateLimited, cleaner,
                   arrived, history>>

ResetWindowOffByOne(r) ==       \* mutated form of ResetWindow: one request is free
    /\ Moves(r, "reset", "count")
    /\ heap' = [heap EXCEPT ![held[r]].Count = -1,
                            ![held[r]].WindowTime = req[r].now]
    /\ admitted' = [admitted EXCEPT ![held[r]] = 0]
    /\ UNCHANGED <<clock, clients, mu, req, held, rateLimited, cleaner,
                   arrived, violations>>

\* status.Count = 0; status.WindowTime = now.  A new window: nobody let through.
ResetWindow(r) ==
    /\ Moves(r, "reset", "count")
    /\ heap' = [heap EXCEPT ![held[r]].Count = 0,
                            ![held[r]].WindowTime = req[r].now]
    /\ admitted' = [admitted EXCEPT ![held[r]] = 0]
    /\ UNCHANGED <<clock, clients, mu, req, held, rateLimited, cleaner,
                   arrived, violations>>

\* status.Count++.
CountRequest(r) ==
    /\ Moves(r, "count", "judge")
    /\ heap' = [heap EXCEPT ![held[r]].Count = @ + 1]
    /\ UNCHANGED <<clock, clients, mu, req, held, rateLimited, cleaner,
                   arrived, history>>

OverLimit(r) == heap[held[r]].Count > Allowance(req[r])

BansByCount(r) ==       \* mutated form of Bans: the window's requests, not the violations
    BanThreshold > 0 /\ heap[held[r]].Count >= BanThreshold

\* The violation that reaches ban_threshold bans.
Bans(r) == BanThreshold > 0 /\ heap[held[r]].BanCount + 1 >= BanThreshold

\* Within the limit: unlock and call the next handler.
Admit(r) ==
    /\ pc[r] = "judge"
    /\ ~OverLimit(r)
    /\ Leaves(r)
    /\ admitted' = [admitted EXCEPT ![held[r]] = @ + 1]
    /\ Unlock
    /\ UNCHANGED <<clock, clients, heap, rateLimited, cleaner, arrived, violations>>

\* Over the limit, below the ban threshold: 429 with Retry-After 60.
Limit(r) ==
    /\ pc[r] = "judge"
    /\ OverLimit(r)
    /\ ~Bans(r)
    /\ heap' = [heap EXCEPT ![held[r]].BanCount = @ + 1]
    /\ violations' = [violations EXCEPT ![req[r].ip] = Append(@, req[r].now)]
    /\ rateLimited' = rateLimited + 1
    /\ Leaves(r)
    /\ Unlock
    /\ UNCHANGED <<clock, clients, cleaner, arrived, admitted>>

\* Over the limit for the ban_threshold-th time: the client is banned.
Ban(r) ==
    /\ pc[r] = "judge"
    /\ OverLimit(r)
    /\ Bans(r)
    /\ heap' = [heap EXCEPT ![held[r]].BanCount = @ + 1,
                            ![held[r]].BannedUntil = req[r].now + BanDuration]
    /\ violations' = [violations EXCEPT ![req[r].ip] = Append(@, req[r].now)]
    /\ rateLimited' = rateLimited + 1
    /\ Leaves(r)
    /\ Unlock
    /\ UNCHANGED <<clock, clients, cleaner, arrived, admitted>>

-----------------------------------------------------------------------------
(* The cleanup goroutine *)

\* time.Sleep(1 * time.Minute) is over and a sweep starts.  Range visits the
\* keys that are in the map now; it may also visit keys stored while it runs.
Wake ==
    /\ cleaner.pc = "asleep"
    /\ clock >= cleaner.now + Minute
    /\ \E keys \in SUBSET Clients :
          /\ {c \in Clients : clients[c] # Nil} \subseteq keys
          /\ cleaner' = [cleaner EXCEPT !.pc = "sweeping", !.now = clock, !.todo = keys]
    /\ UNCHANGED <<clock, clients, heap, mu, reqVars, rateLimited, arrived, history>>

\* The window has passed and the client is not banned.
Removable(s, now) == WindowOver(s, now) /\ now > s.BannedUntil

\* The callback of Range looks at one entry, without rl.mu.
Examine(c) ==
    /\ cleaner.pc = "sweeping"
    /\ c \in cleaner.todo
    /\ cleaner' = IF clients[c] # Nil /\ Removable(heap[clients[c]], cleaner.now)
                  THEN [cleaner EXCEPT !.pc = "deleting", !.key = c, !.todo = @ \ {c}]
                  ELSE [cleaner EXCEPT !.todo = @ \ {c}]
    /\ UNCHANGED <<clock, clients, heap, mu, reqVars, rateLimited, arrived, history>>

\* rl.clients.Delete(key): whatever the entry has become since Examine.
Delete ==
    /\ cleaner.pc = "deleting"
    /\ clients' = [clients EXCEPT ![cleaner.key] = Nil]
    /\ cleaner' = [cleaner EXCEPT !.pc = "sweeping", !.key = NoRequest.ip]
    /\ UNCHANGED <<clock, heap, mu, reqVars, rateLimited, arrived, history>>

\* The sweep is over and the next time.Sleep starts.
Sleep ==
    /\ cleaner.pc = "sweeping"
    /\ cleaner.todo = {}
    /\ cleaner' = [cleaner EXCEPT !.pc = "asleep", !.now = clock]
    /\ UNCHANGED <<clock, clients, heap, mu, reqVars, rateLimited, arrived, history>>

-----------------------------------------------------------------------------
(* Time, and the specification *)

Tick ==
    /\ clock < MaxTime
    /\ clock' = clock + 1
    /\ UNCHANGED <<clients, heap, mu, reqVars, rateLimited, cleaner, arrived, history>>

\* NewRateLimiter: an empty map, no request yet, the cleanup goroutine asleep.
Init ==
    /\ clock = 1
    /\ clients = [c \in Clients |-> Nil]
    /\ heap = [o \in Statuses |-> NewStatus(0)]
    /\ mu = Nil
    /\ pc = [r \in Requests |-> "idle"]
    /\ req = [r \in Requests |-> NoRequest]
    /\ held = [r \in Requests |-> Nil]
    /\ rateLimited = 0
    /\ cleaner = [pc |-> "asleep", now |-> 1, todo |-> {}, key |-> NoRequest.ip]
    /\ arrived = 0
    /\ admitted = [o \in Statuses |-> 0]
    /\ violations = [c \in Clients |-> <<>>]

\* What a handler goroutine does once its request has arrived.
Handle(r) ==
    \/ LoadOrStore(r)
    \/ Lock(r)
    \/ RejectBanned(r)
    \/ CheckWindow(r)
    \/ ResetWindow(r)
    \/ CountRequest(r)
    \/ Admit(r)
    \/ Limit(r)
    \/ Ban(r)

Cleanup == Wake \/ (\E c \in Clients : Examine(c)) \/ Delete \/ Sleep

\* The bounds are used up and nobody is waiting: the model, not the code, ends.
BoundsReached ==
    /\ arrived = MaxRequests
    /\ clock = MaxTime
    /\ \A r \in Requests : pc[r] = "idle"
    /\ mu = Nil
    /\ UNCHANGED vars

Next ==
    \/ \E r \in Requests, c \in Clients, p \in Paths, b \in BOOLEAN : Arrive(r, c, p, b)
    \/ \E r \in Requests : Handle(r)
    \/ Cleanup
    \/ Tick
    \/ BoundsReached

Spec == Init /\ [][Next]_vars

\* A runnable goroutine runs; sync.Mutex hands over to a starving waiter, so a
\* request that can have the lock infinitely often gets it.
Fairness == \A r \in Requests : WF_vars(Handle(r)) /\ SF_vars(Lock(r))

FairSpec == Spec /\ Fairness

-----------------------------------------------------------------------------
(* Properties *)

\* ratelimit.go:99-155: rl.mu admits one request at a time into the section
\* that reads and writes a status.
MutualExclusion ==
    \A r, q \in Requests : pc[r] \in InSection /\ pc[q] \in InSection => r = q

\* ratelimit.go:115-147: in one window of one status, a request is let through
\* only as one of the first Allowance(request) that are, however many requests
\* of the same client, with whatever limits of their own, run at once.
Judged(r)   == pc[r] = "judge" /\ pc'[r] = "idle"
Admitted(r) == Judged(r) /\ rateLimited' = rateLimited

QuotaRespected ==
    [][\A r \in Requests :
          Admitted(r) => admitted'[held[r]] <= Allowance(req[r])]_vars

\* ratelimit.go:102-142: a client is turned away as banned only after ban_threshold
\* of its own requests were over their limits, and less than a ban's length after
\* one of these, the threshold-th or a later one: the requests a ban turns away do
\* not prolong it, and no client is banned for another one's requests.  How far
\* apart the violations lie plays no part: BanCount outlives windows and bans.
TurnedAway(r) == pc[r] = "locked" /\ pc'[r] = "idle"
EarnedBan(c, now) ==
    \E i \in DOMAIN violations[c] :
        i >= BanThreshold /\ now < violations[c][i] + BanDuration

BanEarned ==
    [][\A r \in Requests : TurnedAway(r) => EarnedBan(req[r].ip, req[r].now)]_vars

\* ratelimit.go:99-147: while anything points to a status, its ban deadline and
\* its violation count never go back and a new window starts only after the old
\* one has run out, although requests reach the lock with clock readings taken
\* in another order.
NeverRegresses ==
    [][\A o \in Live \ {Nil} :
          /\ heap'[o].BannedUntil >= heap[o].BannedUntil
          /\ heap'[o].BanCount >= heap[o].BanCount
          /\ heap'[o].WindowTime # heap[o].WindowTime
                => heap'[o].WindowTime > heap[o].WindowTime + Minute]_vars

\* ratelimit.go:99-157: every request that has arrived is answered; no early
\* return leaves rl.mu locked.
EveryRequestAnswered ==
    \A r \in Requests : pc[r] # "idle" ~> pc[r] = "idle"

\* ratelimit.go:50, "Remove if window has passed and not banned": the cleanup
\* goroutine never removes the status of a client whose ban is running.
BannedClientsStay ==
    [][\A c \in Clients :
          clients[c] # Nil /\ clients'[c] = Nil => ~Banned(heap[clients[c]], clock)]_vars
=============================================================================
