--------------------------- MODULE DashboardAuth ---------------------------
(***************************************************************************)
(* The door of the dashboard: basicAuth with its counter of failed logins  *)
(* (internal/dashboard/dashboard.go), where credentials are configured.    *)
(*                                                                         *)
(* Every request runs in a goroutine of its own.  loginAttempts is a       *)
(* sync.Map of pointers; the loginAttempt objects have no lock, and the    *)
(* credentials are checked with bcrypt, which takes its time, between the  *)
(* test of Count and Count++.  Each read and each write of an object is a  *)
(* step, and Count++ is a read and a write.                                *)
(*                                                                         *)
(* Time is in ticks.  Entries are removed only by a successful login.      *)
(* What comes after the login, csrfMiddleware, is in DashboardToken.       *)
(***************************************************************************)
EXTENDS Integers, Sequences, FiniteSets

CONSTANTS
    Clients,        \* client addresses, as getClientIP returns them
    Slots,          \* requests that may be in flight together
    Attempts,       \* heap addresses of loginAttempt objects
    Nil,            \* the null pointer
    Limit,          \* failed logins before a client is locked out (10)
    Window,         \* 10 minutes
    MaxTime,        \* bound: the clock stops here
    MaxRequests     \* bound: requests in a behaviour

ASSUME NilAssumption    == Nil \notin Attempts
ASSUME ClientAssumption == Clients # {}
ASSUME LimitAssumption  == Limit \in Nat \ {0} /\ Window \in Nat \ {0}
ASSUME BoundAssumption  == MaxTime \in Nat /\ MaxRequests \in Nat

VARIABLES
    clock,
    loginAttempts,  \* client -> pointer
    heap,           \* the loginAttempt objects
    pc,             \* where each request is
    req,            \* what it brings
    held,           \* the pointer it got from LoadOrStore
    read,           \* the value of Count it is about to increment
    failures,       \* history: when a client's logins failed
    sinceLogin,     \* history: those of them since it last got in
    arrived         \* requests so far (for MaxRequests)

history == <<failures, sinceLogin>>

vars == <<clock, loginAttempts, heap, pc, req, held, read, history, arrived>>

-----------------------------------------------------------------------------
(* Types *)

PCs     == {"idle", "load", "check", "reset", "touch", "verify", "read",
            "write", "delete"}
Times   == 0..MaxTime
Request == [ip : Clients, now : Times, right : BOOLEAN]   \* right name and password
Attempt == [Count : Nat, Last : Times]

TypeOK ==
    /\ clock \in Times
    /\ loginAttempts \in [Clients -> Attempts \cup {Nil}]
    /\ heap \in [Attempts -> Attempt]
    /\ pc \in [Slots -> PCs]
    /\ req \in [Slots -> Request]
    /\ held \in [Slots -> Attempts \cup {Nil}]
    /\ read \in [Slots -> Nat]
    /\ failures \in [Clients -> Seq(Times)]
    /\ sinceLogin \in [Clients -> Seq(Times)]
    /\ arrived \in 0..MaxRequests

NoRequest  == [ip |-> CHOOSE c \in Clients : TRUE, now |-> 0, right |-> FALSE]

\* The objects something still points to; the rest of the heap is garbage.
Live == {loginAttempts[c] : c \in Clients} \cup {held[r] : r \in Slots}

Moves(r, from, to) == pc[r] = from /\ pc' = [pc EXCEPT ![r] = to]

\* The request is answered: its goroutine's locals are gone.
Leaves(r) ==
    /\ pc' = [pc EXCEPT ![r] = "idle"]
    /\ req' = [req EXCEPT ![r] = NoRequest]
    /\ held' = [held EXCEPT ![r] = Nil]
    /\ read' = [read EXCEPT ![r] = 0]

-----------------------------------------------------------------------------
(* basicAuth *)

Arrive(r, c, right) ==
    /\ arrived < MaxRequests
    /\ Moves(r, "idle", "load")
    /\ req' = [req EXCEPT ![r] = [ip |-> c, now |-> clock, right |-> right]]
    /\ arrived' = arrived + 1
    /\ UNCHANGED <<clock, loginAttempts, heap, held, read, history>>

LoadOrStore(r) ==
    LET c == req[r].ip
    IN  /\ Moves(r, "load", "check")
        /\ \/ /\ loginAttempts[c] # Nil
              /\ held' = [held EXCEPT ![r] = loginAttempts[c]]
              /\ UNCHANGED <<loginAttempts, heap>>
           \/ /\ loginAttempts[c] = Nil
              /\ \E o \in Attempts \ Live :
                    /\ heap' = [heap EXCEPT ![o] = [Count |-> 0, Last |-> req[r].now]]
                    /\ loginAttempts' = [loginAttempts EXCEPT ![c] = o]
                    /\ held' = [held EXCEPT ![r] = o]
        /\ UNCHANGED <<clock, req, read, history, arrived>>

\* Mutated form of LockedOut: one attempt too many is let through.
LockedOutLate(a, now) == a.Count > Limit /\ now - a.Last < Window
LockedOut(a, now) == a.Count >= Limit /\ now - a.Last < Window

\* Mutated form of Refuse: a refused attempt prolongs the lock.
RefuseAndTouch(r) ==
    /\ pc[r] = "check" /\ LockedOut(heap[held[r]], req[r].now)
    /\ heap' = [heap EXCEPT ![held[r]].Last = req[r].now]
    /\ Leaves(r)
    /\ UNCHANGED <<clock, loginAttempts, history, arrived>>

\* 429
Refuse(r) ==
    /\ pc[r] = "check" /\ LockedOut(heap[held[r]], req[r].now)
    /\ Leaves(r)
    /\ UNCHANGED <<clock, loginAttempts, heap, history, arrived>>

CheckCount(r) ==
    LET a == heap[held[r]]
    IN  /\ Moves(r, "check", IF a.Count >= Limit THEN "reset" ELSE "touch")
        /\ ~LockedOut(a, req[r].now)
        /\ UNCHANGED <<clock, loginAttempts, heap, req, held, read, history, arrived>>

ResetCount(r) ==
    /\ Moves(r, "reset", "touch")
    /\ heap' = [heap EXCEPT ![held[r]].Count = 0]
    /\ UNCHANGED <<clock, loginAttempts, req, held, read, history, arrived>>

\* Mutated form of Touch: Last is the end of the lock, not its start.
TouchAhead(r) ==
    /\ Moves(r, "touch", "verify")
    /\ heap' = [heap EXCEPT ![held[r]].Last = req[r].now + Window]
    /\ UNCHANGED <<clock, loginAttempts, req, held, read, history, arrived>>

\* attempt.Last = now
Touch(r) ==
    /\ Moves(r, "touch", "verify")
    /\ heap' = [heap EXCEPT ![held[r]].Last = req[r].now]
    /\ UNCHANGED <<clock, loginAttempts, req, held, read, history, arrived>>

\* The user name and bcrypt.CompareHashAndPassword.
Verify(r) ==
    /\ Moves(r, "verify", IF req[r].right THEN "delete" ELSE "read")
    /\ IF req[r].right THEN UNCHANGED history
       ELSE /\ failures' = [failures EXCEPT ![req[r].ip] = Append(@, req[r].now)]
            /\ sinceLogin' = [sinceLogin EXCEPT ![req[r].ip] = Append(@, req[r].now)]
    /\ UNCHANGED <<clock, loginAttempts, heap, req, held, read, arrived>>

\* attempt.Count++, and 401.
ReadCount(r) ==
    /\ Moves(r, "read", "write")
    /\ read' = [read EXCEPT ![r] = heap[held[r]].Count]
    /\ UNCHANGED <<clock, loginAttempts, heap, req, held, history, arrived>>

WriteCount(r) ==
    /\ pc[r] = "write"
    /\ heap' = [heap EXCEPT ![held[r]].Count = read[r] + 1]
    /\ Leaves(r)
    /\ UNCHANGED <<clock, loginAttempts, history, arrived>>

\* Mutated form of DeleteEntry: the failures before the login stay counted.
DeleteEntryKept(r) ==
    /\ pc[r] = "delete"
    /\ sinceLogin' = [sinceLogin EXCEPT ![req[r].ip] = <<>>]
    /\ Leaves(r)
    /\ UNCHANGED <<clock, loginAttempts, heap, failures, arrived>>

\* Logged in: the entry is removed and the next handler runs.
DeleteEntry(r) ==
    /\ pc[r] = "delete"
    /\ loginAttempts' = [loginAttempts EXCEPT ![req[r].ip] = Nil]
    /\ sinceLogin' = [sinceLogin EXCEPT ![req[r].ip] = <<>>]
    /\ Leaves(r)
    /\ UNCHANGED <<clock, heap, failures, arrived>>

-----------------------------------------------------------------------------
(* Specification *)

Tick ==
    /\ clock < MaxTime
    /\ clock' = clock + 1
    /\ UNCHANGED <<loginAttempts, heap, pc, req, held, read, history, arrived>>

\* The bounds are reached and nothing is in flight.
Bounded ==
    /\ clock = MaxTime /\ arrived = MaxRequests /\ \A r \in Slots : pc[r] = "idle"
    /\ UNCHANGED vars

Init ==
    /\ clock = 0
    /\ loginAttempts = [c \in Clients |-> Nil]
    /\ heap = [o \in Attempts |-> [Count |-> 0, Last |-> 0]]
    /\ pc = [r \in Slots |-> "idle"]
    /\ req = [r \in Slots |-> NoRequest]
    /\ held = [r \in Slots |-> Nil]
    /\ read = [r \in Slots |-> 0]
    /\ failures = [c \in Clients |-> <<>>]
    /\ sinceLogin = [c \in Clients |-> <<>>]
    /\ arrived = 0

Handle(r) ==
    \/ \E c \in Clients, right \in BOOLEAN : Arrive(r, c, right)
    \/ LoadOrStore(r)
    \/ Refuse(r)
    \/ CheckCount(r)
    \/ ResetCount(r)
    \/ Touch(r)
    \/ Verify(r)
    \/ ReadCount(r)
    \/ WriteCount(r)
    \/ DeleteEntry(r)

Next == Tick \/ Bounded \/ \E r \in Slots : Handle(r)

Spec == Init /\ [][Next]_vars

-----------------------------------------------------------------------------
(* Properties *)

InTimes(f, times) == Cardinality({i \in DOMAIN f : f[i] \in times})
LastWindow(now)   == now - Window + 1 .. now

\* Requests that bring the right credentials overlap as they like, such as the three
\* fetches of the page when it opens; one that fails is the only one of its client.
Alone ==
    \A r, q \in Slots :
        pc[r] # "idle" /\ pc[q] # "idle" /\ r # q /\ req[r].ip = req[q].ip =>
            req[r].right /\ req[q].right

\* "Rate Limiting (10 attempts per 10 minutes)": in no window of that length does
\* a client get more failed attempts judged.
TenAttempts ==
    \A c \in Clients, t \in Times : InTimes(failures[c], LastWindow(t)) <= Limit

\* The limit, as far as a successful login leaves it: between two logins of a client,
\* no window has more failed attempts than the limit, across resets of the counter.
\* A login gives the client all its attempts back, so a window with a login in it can
\* have as many again.  For clients whose failing requests do not overlap (Alone).
TenBetweenLogins ==
    \A c \in Clients, t \in Times : InTimes(sinceLogin[c], LastWindow(t)) <= Limit

Refused(r) == pc[r] = "check" /\ pc'[r] = "idle"

\* A lock ends: a client is refused only while a failed login of its own, since it last
\* got in, is less than the window old, however often it tries in the meantime.  How
\* far apart the failures were is not asked: the count has no window of its own.
RefusalEnds ==
    [][\A r \in Slots :
          Refused(r) => InTimes(sinceLogin[req[r].ip], LastWindow(req[r].now)) > 0]_vars

\* A login starts the count anew: the entry that a client has now refuses it only
\* after as many failures as the limit says since it last got in.  A request that
\* still holds an entry from before may be refused by that.
LockEarned ==
    [][\A r \in Slots : Refused(r) /\ held[r] = loginAttempts[req[r].ip] =>
          Len(sinceLogin[req[r].ip]) >= Limit]_vars
=============================================================================
