------------------------- MODULE RateLimiterProofs -------------------------
(***************************************************************************)
(* Proofs about RateLimiter, for every set of clients, requests and paths, *)
(* every limit and every bound.                                            *)
(*                                                                         *)
(* The inductive invariant IInv says what rl.mu protects: its holder is    *)
(* alone in the section, the requests admitted in a window were all        *)
(* counted in it, the request about to be judged is counted but not yet    *)
(* admitted, and what a request found out about its status on the way to   *)
(* its verdict is still true when it acts on it.                           *)
(*                                                                         *)
(* The second part shows that bans are earned.  BInv adds that no two      *)
(* clients use the same object, in the map or through a held pointer, and  *)
(* that what an object says of bans is in the history of its client.       *)
(*                                                                         *)
(* The third part shows that RateLimiter implements AtomicLimiter.  To     *)
(* IInv it adds that no clock reading is in the future and that a request  *)
(* without a pointer holds nothing.  A handler's step then maps to Begin   *)
(* (a status is stored), RefuseBanned, Judge (CheckWindow), Forget         *)
(* (a pointer is dropped) or a stutter: what the holder of rl.mu does      *)
(* after CheckWindow was foreseen by Outcome.                              *)
(***************************************************************************)
EXTENDS RateLimiterRefinement, TLAPS

SectionInv == \A r \in Requests : pc[r] \in InSection => mu = r

HeldInv == \A r \in Requests : pc[r] \in InSection \cup {"lock"} => held[r] \in Statuses

CountInv == \A o \in Statuses : admitted[o] <= heap[o].Count

JudgeInv == \A r \in Requests :
    pc[r] = "judge" => admitted[held[r]] < heap[held[r]].Count

StageInv == \A r \in Requests :
    /\ pc[r] \in {"reset", "count", "judge"} => heap[held[r]].BannedUntil <= req[r].now
    /\ pc[r] = "reset" => WindowOver(heap[held[r]], req[r].now)

IInv == TypeOK /\ SectionInv /\ HeldInv /\ CountInv /\ JudgeInv /\ StageInv

USE DEF InSection, PCs, history

-----------------------------------------------------------------------------
(* The values the operators return *)

LEMMA NoRequestType == NoRequest \in Request
  <1>1. (CHOOSE c \in Clients : TRUE) \in Clients
    BY InputAssumption
  <1>2. (CHOOSE p \in Paths : TRUE) \in Paths
    BY InputAssumption
  <1> QED
    BY <1>1, <1>2 DEF NoRequest, Request

LEMMA NewStatusType ==
  ASSUME NEW now \in Nat
  PROVE  NewStatus(now) \in Status
  BY DEF NewStatus, Status

LEMMA AllowanceType ==
  ASSUME NEW rq \in Request
  PROVE  Allowance(rq) \in Int
  BY LimitAssumption DEF Allowance, Request

-----------------------------------------------------------------------------
(* The type invariant is preserved *)

LEMMA InitType == Init => TypeOK
  <1> SUFFICES ASSUME Init PROVE TypeOK
    OBVIOUS
  <1> USE NoRequestType, NilAssumption DEF Init
  <1>1. heap \in [Statuses -> Status] /\ admitted \in [Statuses -> Nat]
    BY NewStatusType
  <1>2. NoRequest.ip \in Clients
    BY DEF Request
  <1> QED
    BY <1>1, <1>2 DEF TypeOK

LEMMA LeavesType ==
  ASSUME TypeOK, NEW r \in Requests, Leaves(r)
  PROVE  /\ pc' \in [Requests -> PCs]
         /\ req' \in [Requests -> Request]
         /\ held' \in [Requests -> Statuses \cup {Nil}]
  BY NoRequestType DEF TypeOK, Leaves

\* Limit and Ban note the violation of the request's client.
Noted(r) == violations' = [violations EXCEPT ![req[r].ip] = Append(@, req[r].now)]

LEMMA NotedType ==
  ASSUME TypeOK, NEW r \in Requests, Noted(r)
  PROVE  violations' \in [Clients -> Seq(Nat)]
  <1>1. req[r].ip \in Clients /\ req[r].now \in Nat
    BY DEF TypeOK, Request
  <1>2. Append(violations[req[r].ip], req[r].now) \in Seq(Nat)
    BY <1>1 DEF TypeOK
  <1> QED
    BY <1>1, <1>2 DEF TypeOK, Noted

LEMMA HandleType ==
  ASSUME TypeOK, HeldInv, NEW r \in Requests, Handle(r)
  PROVE  TypeOK'
  <1> USE DEF TypeOK
  <1>1. CASE LoadOrStore(r)
    <2>1. pc' \in [Requests -> PCs]
      BY <1>1 DEF LoadOrStore, Moves
    <2>2. req[r].ip \in Clients /\ req[r].now \in Nat
      BY DEF Request
    <2>3. CASE clients[req[r].ip] # Nil /\ held' = [held EXCEPT ![r] = clients[req[r].ip]]
               /\ UNCHANGED <<clients, heap, admitted>>
      BY <1>1, <2>1, <2>2, <2>3 DEF LoadOrStore
    <2>4. CASE \E o \in Statuses \ Live :
                  /\ heap' = [heap EXCEPT ![o] = NewStatus(req[r].now)]
                  /\ admitted' = [admitted EXCEPT ![o] = 0]
                  /\ clients' = [clients EXCEPT ![req[r].ip] = o]
                  /\ held' = [held EXCEPT ![r] = o]
      <3>1. heap' \in [Statuses -> Status] /\ admitted' \in [Statuses -> Nat]
        BY <2>2, <2>4, NewStatusType
      <3>2. clients' \in [Clients -> Statuses \cup {Nil}]
            /\ held' \in [Requests -> Statuses \cup {Nil}]
        BY <2>2, <2>4
      <3> QED
        BY <1>1, <2>1, <3>1, <3>2 DEF LoadOrStore
    <2> QED
      BY <1>1, <2>3, <2>4 DEF LoadOrStore
  <1>2. CASE Lock(r)
    BY <1>2 DEF Lock, Moves
  <1>3. CASE RejectBanned(r)
    BY <1>3, LeavesType DEF RejectBanned, Unlock
  <1>4. CASE CheckWindow(r)
    BY <1>4 DEF CheckWindow, Moves
  <1>5. CASE ResetWindow(r)
    <2>1. held[r] \in Statuses /\ req[r].now \in Nat
      BY <1>5 DEF ResetWindow, Moves, HeldInv, Request
    <2>2. heap' \in [Statuses -> Status]
      BY <1>5, <2>1 DEF ResetWindow, Status
    <2>3. admitted' \in [Statuses -> Nat]
      BY <1>5, <2>1 DEF ResetWindow
    <2> QED
      BY <1>5, <2>2, <2>3 DEF ResetWindow, Moves
  <1>6. CASE CountRequest(r)
    <2>1. held[r] \in Statuses
      BY <1>6 DEF CountRequest, Moves, HeldInv
    <2>2. heap' \in [Statuses -> Status]
      <3>1. heap' = [heap EXCEPT ![held[r]].Count = @ + 1]
        BY <1>6 DEF CountRequest
      <3>2. heap[held[r]].Count + 1 \in Nat
        BY <2>1 DEF Status
      <3> QED
        BY <2>1, <3>1, <3>2 DEF Status
    <2>3. admitted' = admitted
      BY <1>6 DEF CountRequest
    <2> QED
      BY <1>6, <2>2, <2>3 DEF CountRequest, Moves
  <1>7. CASE Admit(r)
    <2>1. held[r] \in Statuses
      BY <1>7 DEF Admit, HeldInv
    <2>2. admitted' \in [Statuses -> Nat]
      BY <1>7, <2>1 DEF Admit
    <2> QED
      BY <1>7, <2>2, LeavesType DEF Admit, Unlock
  <1>8. CASE Limit(r)
    <2>1. held[r] \in Statuses
      BY <1>8 DEF Limit, HeldInv
    <2>2. heap' \in [Statuses -> Status]
      <3>1. heap' = [heap EXCEPT ![held[r]].BanCount = @ + 1]
        BY <1>8 DEF Limit
      <3>2. heap[held[r]].BanCount + 1 \in Nat
        BY <2>1 DEF Status
      <3> QED
        BY <2>1, <3>1, <3>2 DEF Status
    <2>3. violations' \in [Clients -> Seq(Nat)]
      <3>1. Noted(r)
        BY <1>8 DEF Limit, Noted
      <3> QED
        BY <3>1, NotedType
    <2> QED
      BY <1>8, <2>2, <2>3, LeavesType DEF Limit, Unlock
  <1>9. CASE Ban(r)
    <2>1. held[r] \in Statuses /\ heap[held[r]] \in Status
      BY <1>9 DEF Ban, HeldInv
    <2>2. req[r].now + BanDuration \in Nat
      BY TimeAssumption DEF Request
    <2>3. heap[held[r]].BanCount + 1 \in Nat
      BY <2>1 DEF Status
    <2>4. heap' \in [Statuses -> Status]
      BY <1>9, <2>1, <2>2, <2>3 DEF Ban, Status
    <2>5. Leaves(r) /\ Unlock /\ rateLimited' = rateLimited + 1
          /\ UNCHANGED <<clock, clients, cleaner, arrived, admitted>>
      BY <1>9 DEF Ban
    <2>6. violations' \in [Clients -> Seq(Nat)]
      <3>1. Noted(r)
        BY <1>9 DEF Ban, Noted
      <3> QED
        BY <3>1, NotedType
    <2> QED
      BY <2>4, <2>5, <2>6, LeavesType DEF Unlock
  <1> QED
    BY <1>1, <1>2, <1>3, <1>4, <1>5, <1>6, <1>7, <1>8, <1>9 DEF Handle

LEMMA CleanupType ==
  ASSUME TypeOK, Cleanup
  PROVE  TypeOK'
  <1> USE DEF TypeOK, reqVars
  <1>1. CASE Wake
    BY <1>1 DEF Wake
  <1>2. ASSUME NEW c \in Clients, Examine(c) PROVE TypeOK'
    BY <1>2 DEF Examine
  <1>3. CASE Delete
    BY <1>3, NoRequestType DEF Delete, Request
  <1>4. CASE Sleep
    BY <1>4 DEF Sleep
  <1> QED
    BY <1>1, <1>2, <1>3, <1>4 DEF Cleanup

LEMMA NextType ==
  ASSUME TypeOK, HeldInv, [Next]_vars
  PROVE  TypeOK'
  <1>1. ASSUME NEW r \in Requests, NEW c \in Clients, NEW p \in Paths,
               NEW b \in BOOLEAN, Arrive(r, c, p, b)
        PROVE  TypeOK'
    BY <1>1 DEF TypeOK, Arrive, Moves, Request
  <1>2. CASE Tick
    BY <1>2 DEF TypeOK, Tick, reqVars
  <1>3. CASE UNCHANGED vars
    BY <1>3 DEF TypeOK, vars
  <1> QED
    BY <1>1, <1>2, <1>3, HandleType, CleanupType DEF Next, BoundsReached

-----------------------------------------------------------------------------
(* The inductive invariant *)

\* What IInv says beyond the types, of one request.
Stages(r) ==
    /\ pc[r] \in InSection => mu = r
    /\ pc[r] \in InSection \cup {"lock"} => held[r] \in Statuses
    /\ pc[r] = "judge" => admitted[held[r]] < heap[held[r]].Count
    /\ pc[r] \in {"reset", "count", "judge"} => heap[held[r]].BannedUntil <= req[r].now
    /\ pc[r] = "reset" => WindowOver(heap[held[r]], req[r].now)

LEMMA StagesOfAll ==
  IInv <=> TypeOK /\ CountInv /\ \A r \in Requests : Stages(r)
  BY DEF IInv, Stages, SectionInv, HeldInv, JudgeInv, StageInv

LEMMA InitInv == Init => IInv
  <1> SUFFICES ASSUME Init PROVE IInv
    OBVIOUS
  <1>1. TypeOK
    BY InitType
  <1>2. CountInv
    BY DEF Init, CountInv, NewStatus
  <1>3. ASSUME NEW r \in Requests PROVE Stages(r)
    BY DEF Init, Stages
  <1> QED
    BY <1>1, <1>2, <1>3, StagesOfAll

\* A request outside the section keeps its facts when its goroutine stands still
\* and the object it holds, if it waits for the lock, stays its own.
LEMMA OthersOutside ==
  ASSUME IInv, NEW r \in Requests, pc[r] \in InSection,
         NEW q \in Requests, q # r,
         pc'[q] = pc[q], held'[q] = held[q]
  PROVE  Stages(q)'
  <1>1. pc[q] \notin InSection
    BY DEF IInv, SectionInv
  <1> QED
    BY <1>1 DEF Stages, IInv, HeldInv

LEMMA LeavesStages ==
  ASSUME IInv, NEW r \in Requests, pc[r] \in InSection, Leaves(r)
  PROVE  \A q \in Requests : Stages(q)'
  <1> SUFFICES ASSUME NEW q \in Requests PROVE Stages(q)'
    OBVIOUS
  <1>1. CASE q = r
    BY <1>1 DEF IInv, TypeOK, Leaves, Stages
  <1>2. CASE q # r
    <2>1. pc'[q] = pc[q] /\ held'[q] = held[q]
      BY <1>2 DEF IInv, TypeOK, Leaves
    <2> QED
      BY <1>2, <2>1, OthersOutside
  <1> QED
    BY <1>1, <1>2

LEMMA HandleInv ==
  ASSUME IInv, NEW r \in Requests, Handle(r)
  PROVE  CountInv' /\ \A q \in Requests : Stages(q)'
  <1>t. TypeOK
    BY DEF IInv
  <1>o. CountInv /\ \A q \in Requests : Stages(q)
    BY StagesOfAll
  <1>1. CASE LoadOrStore(r)
    <2>1. pc[r] = "load" /\ pc'[r] = "lock" /\ UNCHANGED <<mu, req>>
          /\ \A q \in Requests \ {r} : pc'[q] = pc[q]
      BY <1>1, <1>t DEF LoadOrStore, Moves, TypeOK
    <2>2. CASE clients[req[r].ip] # Nil /\ held' = [held EXCEPT ![r] = clients[req[r].ip]]
               /\ UNCHANGED <<clients, heap, admitted>>
      <3>1. held'[r] \in Statuses
        BY <1>t, <2>2 DEF TypeOK, Request
      <3> QED
        BY <1>t, <1>o, <2>1, <2>2, <3>1 DEF CountInv, Stages, TypeOK
    <2>3. ASSUME NEW o \in Statuses \ Live,
                 heap' = [heap EXCEPT ![o] = NewStatus(req[r].now)],
                 admitted' = [admitted EXCEPT ![o] = 0],
                 held' = [held EXCEPT ![r] = o]
          PROVE  CountInv' /\ \A q \in Requests : Stages(q)'
      <3>1. CountInv'
        BY <1>t, <1>o, <2>3 DEF CountInv, TypeOK, NewStatus
      <3>2. ASSUME NEW q \in Requests PROVE Stages(q)'
        <4>1. CASE q = r
          BY <1>t, <2>1, <2>3, <4>1 DEF Stages, TypeOK
        <4>2. CASE q # r
          <5>1. held'[q] = held[q] /\ held[q] # o
            BY <1>t, <2>3, <4>2 DEF TypeOK, Live
          <5>2. heap'[held[q]] = heap[held[q]] /\ admitted'[held[q]] = admitted[held[q]]
            BY <1>t, <2>3, <5>1 DEF TypeOK
          <5> QED
            BY <1>o, <2>1, <4>2, <5>1, <5>2 DEF Stages
        <4> QED
          BY <4>1, <4>2
      <3> QED
        BY <3>1, <3>2
    <2> QED
      BY <1>1, <2>2, <2>3 DEF LoadOrStore
  <1>2. CASE Lock(r)
    <2>1. CountInv'
      BY <1>o, <1>2 DEF Lock, CountInv
    <2>2. ASSUME NEW q \in Requests PROVE Stages(q)'
      BY <1>t, <1>o, <1>2, NilAssumption DEF Lock, Moves, Stages, TypeOK
    <2> QED
      BY <2>1, <2>2
  <1>3. CASE RejectBanned(r)
    BY <1>o, <1>3, LeavesStages DEF RejectBanned, CountInv
  <1>4. CASE CheckWindow(r)
    <2>1. CountInv'
      BY <1>o, <1>4 DEF CheckWindow, CountInv
    <2>2. Stages(r)'
      <3>1. held[r] \in Statuses /\ heap[held[r]].BannedUntil \in Nat /\ req[r].now \in Nat
        BY <1>t, <1>o, <1>4 DEF CheckWindow, Moves, Stages, TypeOK, Status, Request
      <3> QED
        BY <1>t, <1>o, <1>4, <3>1 DEF CheckWindow, Moves, Stages, TypeOK, Banned
    <2>3. ASSUME NEW q \in Requests, q # r PROVE Stages(q)'
      BY <1>t, <1>4, <2>3, OthersOutside DEF CheckWindow, Moves, TypeOK
    <2> QED
      BY <2>1, <2>2, <2>3
  <1>5. CASE ResetWindow(r)
    <2>1. held[r] \in Statuses /\ pc[r] = "reset" /\ pc'[r] = "count"
          /\ UNCHANGED <<mu, held, req>>
      BY <1>t, <1>o, <1>5 DEF ResetWindow, Moves, Stages, TypeOK
    <2>2. /\ heap'[held[r]].Count = 0
          /\ heap'[held[r]].BannedUntil = heap[held[r]].BannedUntil
          /\ admitted'[held[r]] = 0
      BY <1>t, <1>5, <2>1 DEF ResetWindow, TypeOK, Status
    <2>3. \A o \in Statuses \ {held[r]} : heap'[o] = heap[o] /\ admitted'[o] = admitted[o]
      BY <1>t, <1>5 DEF ResetWindow, TypeOK
    <2>4. CountInv'
      BY <1>o, <2>2, <2>3 DEF CountInv
    <2>5. Stages(r)'
      BY <1>o, <2>1, <2>2 DEF Stages
    <2>6. ASSUME NEW q \in Requests, q # r PROVE Stages(q)'
      BY <1>t, <1>5, <2>6, OthersOutside DEF ResetWindow, Moves, TypeOK
    <2> QED
      BY <2>4, <2>5, <2>6
  <1>6. CASE CountRequest(r)
    <2>1. held[r] \in Statuses /\ pc[r] = "count" /\ pc'[r] = "judge"
          /\ UNCHANGED <<mu, held, req>>
      BY <1>t, <1>o, <1>6 DEF CountRequest, Moves, Stages, TypeOK
    <2>2. /\ heap'[held[r]].Count = heap[held[r]].Count + 1
          /\ heap'[held[r]].BannedUntil = heap[held[r]].BannedUntil
          /\ admitted'[held[r]] = admitted[held[r]]
      BY <1>t, <1>6, <2>1 DEF CountRequest, TypeOK, Status
    <2>3. \A o \in Statuses \ {held[r]} : heap'[o] = heap[o] /\ admitted'[o] = admitted[o]
      BY <1>t, <1>6 DEF CountRequest, TypeOK
    <2>4. heap[held[r]].Count \in Nat /\ admitted[held[r]] \in Nat
          /\ admitted[held[r]] <= heap[held[r]].Count
      BY <1>t, <1>o, <2>1 DEF TypeOK, Status, CountInv
    <2>5. CountInv'
      BY <1>o, <2>2, <2>3, <2>4 DEF CountInv
    <2>6. Stages(r)'
      BY <1>o, <2>1, <2>2, <2>4 DEF Stages
    <2>7. ASSUME NEW q \in Requests, q # r PROVE Stages(q)'
      BY <1>t, <1>6, <2>7, OthersOutside DEF CountRequest, Moves, TypeOK
    <2> QED
      BY <2>5, <2>6, <2>7
  <1>7. CASE Admit(r)
    <2>1. held[r] \in Statuses /\ heap' = heap
          /\ admitted[held[r]] < heap[held[r]].Count
      BY <1>o, <1>7 DEF Admit, Stages
    <2>2. /\ admitted'[held[r]] = admitted[held[r]] + 1
      BY <1>t, <1>7, <2>1 DEF Admit, TypeOK
    <2>3. \A o \in Statuses \ {held[r]} : admitted'[o] = admitted[o]
      BY <1>t, <1>7 DEF Admit, TypeOK
    <2>4. heap[held[r]].Count \in Nat /\ admitted[held[r]] \in Nat
      BY <1>t, <2>1 DEF TypeOK, Status
    <2>5. CountInv'
      BY <1>o, <2>1, <2>2, <2>3, <2>4 DEF CountInv
    <2> QED
      BY <1>7, <2>5, LeavesStages DEF Admit
  <1>8. CASE Limit(r) \/ Ban(r)
    <2>1. held[r] \in Statuses /\ admitted' = admitted /\ pc[r] = "judge" /\ Leaves(r)
      BY <1>o, <1>8 DEF Limit, Ban, Stages
    <2>2. \A o \in Statuses : heap'[o].Count = heap[o].Count
      <3>1. CASE heap' = [heap EXCEPT ![held[r]].BanCount = @ + 1]
        BY <1>t, <3>1 DEF TypeOK, Status
      <3>2. CASE heap' = [heap EXCEPT ![held[r]].BanCount = @ + 1,
                                      ![held[r]].BannedUntil = req[r].now + BanDuration]
        BY <1>t, <3>2 DEF TypeOK, Status
      <3> QED
        BY <1>8, <3>1, <3>2 DEF Limit, Ban
    <2>3. CountInv'
      BY <1>o, <2>1, <2>2 DEF CountInv
    <2> QED
      BY <2>1, <2>3, LeavesStages
  <1> QED
    BY <1>1, <1>2, <1>3, <1>4, <1>5, <1>6, <1>7, <1>8 DEF Handle

LEMMA NextInv ==
  ASSUME IInv, [Next]_vars
  PROVE  IInv'
  <1>1. TypeOK'
    BY NextType DEF IInv
  <1>2. CountInv' /\ \A q \in Requests : Stages(q)'
    <2>o. TypeOK /\ CountInv /\ \A q \in Requests : Stages(q)
      BY StagesOfAll
    <2>1. ASSUME NEW r \in Requests, NEW c \in Clients, NEW p \in Paths,
                 NEW b \in BOOLEAN, Arrive(r, c, p, b)
          PROVE  CountInv' /\ \A q \in Requests : Stages(q)'
      BY <2>o, <2>1 DEF Arrive, Moves, CountInv, Stages, TypeOK
    <2>2. CASE Cleanup \/ Tick \/ UNCHANGED vars
      <3>1. UNCHANGED <<heap, mu, pc, req, held, admitted>>
        BY <2>2 DEF Cleanup, Wake, Examine, Delete, Sleep, Tick, vars, reqVars, history
      <3> QED
        BY <2>o, <3>1 DEF CountInv, Stages
    <2> QED
      BY <2>1, <2>2, HandleInv DEF Next, BoundsReached
  <1> QED
    <2>1. IInv' <=> TypeOK' /\ CountInv' /\ \A r \in Requests : Stages(r)'
      BY DEF IInv, Stages, SectionInv, HeldInv, JudgeInv, StageInv
    <2> QED
      BY <1>1, <1>2, <2>1

THEOREM Invariance == Spec => []IInv
  <1>1. Init => IInv
    BY InitInv
  <1>2. IInv /\ [Next]_vars => IInv'
    BY NextInv
  <1> QED
    BY <1>1, <1>2, PTL DEF Spec

-----------------------------------------------------------------------------
(* The properties *)

\* ratelimit.go:15-29: every status, map entry and goroutine state keeps its type.
THEOREM TypeCorrect == Spec => []TypeOK
  <1>1. IInv => TypeOK
    BY DEF IInv
  <1> QED
    BY <1>1, Invariance, PTL

\* ratelimit.go:99-155: any number of requests, of any clients, are in the
\* section of rl.mu one at a time.
THEOREM Exclusion == Spec => []MutualExclusion
  <1>1. IInv => MutualExclusion
    BY DEF IInv, SectionInv, MutualExclusion
  <1> QED
    BY <1>1, Invariance, PTL

\* A request that is let through does so in the Admit step of its own goroutine.
LEMMA AdmittedIsAdmit ==
  ASSUME IInv, [Next]_vars, NEW r \in Requests, Admitted(r)
  PROVE  Admit(r)
  <1> USE DEF Admitted, Judged
  <1>1. TypeOK
    BY DEF IInv
  <1>2. ASSUME NEW q \in Requests, Handle(q), q # r PROVE FALSE
    <2>1. pc'[r] = pc[r]
      BY <1>1, <1>2 DEF Handle, LoadOrStore, Lock, RejectBanned, CheckWindow,
         ResetWindow, CountRequest, Admit, Limit, Ban, Moves, Leaves, TypeOK
    <2> QED
      BY <2>1
  <1>3. ASSUME NEW q \in Requests, NEW c \in Clients, NEW p \in Paths,
               NEW b \in BOOLEAN, Arrive(q, c, p, b)
        PROVE  FALSE
    BY <1>1, <1>3 DEF Arrive, Moves, TypeOK
  <1>4. ASSUME Cleanup \/ Tick \/ UNCHANGED vars PROVE FALSE
    BY <1>4 DEF Cleanup, Wake, Examine, Delete, Sleep, Tick, vars, reqVars, history
  <1>5. Handle(r)
    BY <1>2, <1>3, <1>4 DEF Next, BoundsReached
  <1>6. ~Limit(r) /\ ~Ban(r)
    BY <1>1 DEF Limit, Ban, TypeOK
  <1>7. ~LoadOrStore(r) /\ ~Lock(r) /\ ~RejectBanned(r)
    BY DEF LoadOrStore, Lock, RejectBanned, Moves
  <1>8. ~CheckWindow(r) /\ ~ResetWindow(r) /\ ~CountRequest(r)
    BY DEF CheckWindow, ResetWindow, CountRequest, Moves
  <1> QED
    BY <1>5, <1>6, <1>7, <1>8 DEF Handle

\* ratelimit.go:115-147: no interleaving of requests lets one through beyond the
\* first Allowance(request) of its status's window.
THEOREM Quota == Spec => QuotaRespected
  <1>1. ASSUME IInv, [Next]_vars, NEW r \in Requests, Admitted(r)
        PROVE  admitted'[held[r]] <= Allowance(req[r])
    <2>1. Admit(r)
      BY <1>1, AdmittedIsAdmit
    <2>2. held[r] \in Statuses /\ admitted[held[r]] < heap[held[r]].Count
      BY <1>1, <2>1 DEF Admit, IInv, HeldInv, JudgeInv
    <2>3. admitted'[held[r]] = admitted[held[r]] + 1
      BY <1>1, <2>1, <2>2 DEF Admit, IInv, TypeOK
    <2>4. admitted[held[r]] \in Nat /\ heap[held[r]].Count \in Nat
      BY <1>1, <2>2 DEF IInv, TypeOK, Status
    <2>5. Allowance(req[r]) \in Int
      BY <1>1, AllowanceType DEF IInv, TypeOK
    <2>6. heap[held[r]].Count <= Allowance(req[r])
      BY <2>1, <2>4, <2>5 DEF Admit, OverLimit
    <2> QED
      BY <2>2, <2>3, <2>4, <2>5, <2>6
  <1>2. IInv /\ [Next]_vars =>
          [\A r \in Requests :
             Admitted(r) => admitted'[held[r]] <= Allowance(req[r])]_vars
    BY <1>1
  <1> QED
    BY <1>2, Invariance, PTL DEF Spec, QuotaRespected

\* What one step may do to the status object o.
Forward(o) ==
    /\ heap'[o].BannedUntil >= heap[o].BannedUntil
    /\ heap'[o].BanCount >= heap[o].BanCount
    /\ heap'[o].WindowTime # heap[o].WindowTime
          => heap'[o].WindowTime > heap[o].WindowTime + Minute

LEMMA StandsStill ==
  ASSUME TypeOK, NEW o \in Statuses, heap'[o] = heap[o]
  PROVE  Forward(o)
  <1>1. heap[o].BannedUntil \in Nat /\ heap[o].BanCount \in Nat
    BY DEF TypeOK, Status
  <1> QED
    BY <1>1 DEF Forward

LEMMA HandleForward ==
  ASSUME IInv, NEW r \in Requests, Handle(r), NEW o \in Live \ {Nil}
  PROVE  Forward(o)
  <1>t. TypeOK /\ Stages(r)
    BY StagesOfAll
  <1>o. o \in Statuses
    BY <1>t DEF Live, TypeOK
  <1>s. /\ heap[o].BannedUntil \in Nat /\ heap[o].BanCount \in Nat
        /\ heap[o].WindowTime \in Nat /\ req[r].now \in Nat
    BY <1>t, <1>o DEF TypeOK, Status, Request
  <1>1. CASE heap'[o] = heap[o]
    BY <1>1, <1>t, <1>o, StandsStill
  <1>2. CASE LoadOrStore(r)
    <2>1. heap'[o] = heap[o]
      BY <1>2, <1>t, <1>o DEF LoadOrStore, TypeOK
    <2> QED
      BY <2>1, <1>1
  <1>3. CASE ResetWindow(r)
    <2>1. CASE o = held[r]
      <3>1. /\ heap'[o].BannedUntil = heap[o].BannedUntil
            /\ heap'[o].BanCount = heap[o].BanCount
            /\ heap'[o].WindowTime = req[r].now
        BY <1>3, <1>t, <1>o, <2>1 DEF ResetWindow, TypeOK, Status
      <3>2. req[r].now > heap[o].WindowTime + Minute
        BY <1>3, <1>t, <2>1 DEF ResetWindow, Moves, Stages, WindowOver
      <3> QED
        BY <1>s, <3>1, <3>2 DEF Forward
    <2>2. CASE o # held[r]
      BY <1>1, <1>3, <1>t, <1>o, <2>2 DEF ResetWindow, TypeOK
    <2> QED
      BY <2>1, <2>2
  <1>4. CASE CountRequest(r) \/ Limit(r)
    <2>1. /\ heap'[o].BannedUntil = heap[o].BannedUntil
          /\ heap'[o].BanCount \in {heap[o].BanCount, heap[o].BanCount + 1}
          /\ heap'[o].WindowTime = heap[o].WindowTime
      <3>1. CASE heap' = [heap EXCEPT ![held[r]].Count = @ + 1]
        BY <1>t, <1>o, <3>1 DEF TypeOK, Status
      <3>2. CASE heap' = [heap EXCEPT ![held[r]].BanCount = @ + 1]
        BY <1>t, <1>o, <3>2 DEF TypeOK, Status
      <3> QED
        BY <1>4, <3>1, <3>2 DEF CountRequest, Limit
    <2> QED
      BY <1>s, <2>1 DEF Forward
  <1>5. CASE Ban(r)
    <2>1. CASE o = held[r]
      <3>1. /\ heap'[o].BannedUntil = req[r].now + BanDuration
            /\ heap'[o].BanCount = heap[o].BanCount + 1
            /\ heap'[o].WindowTime = heap[o].WindowTime
        BY <1>5, <1>t, <1>o, <2>1 DEF Ban, TypeOK, Status
      <3>2. heap[o].BannedUntil <= req[r].now
        BY <1>5, <1>t, <2>1 DEF Ban, Stages
      <3> QED
        BY <1>s, <3>1, <3>2, TimeAssumption DEF Forward
    <2>2. CASE o # held[r]
      BY <1>1, <1>5, <1>t, <1>o, <2>2 DEF Ban, TypeOK
    <2> QED
      BY <2>1, <2>2
  <1>6. CASE Lock(r) \/ RejectBanned(r) \/ CheckWindow(r) \/ Admit(r)
    BY <1>1, <1>6 DEF Lock, RejectBanned, CheckWindow, Admit
  <1> QED
    BY <1>2, <1>3, <1>4, <1>5, <1>6 DEF Handle

\* ratelimit.go:99-147: bans and windows only move forward, for requests that
\* reach the lock with clock readings taken in any order.
THEOREM Forwards == Spec => NeverRegresses
  <1>1. ASSUME IInv, [Next]_vars, NEW o \in Live \ {Nil}
        PROVE  Forward(o)
    <2>1. TypeOK /\ o \in Statuses
      BY <1>1 DEF IInv, TypeOK, Live
    <2>2. ASSUME NEW r \in Requests, Handle(r) PROVE Forward(o)
      BY <1>1, <2>2, HandleForward
    <2>3. ASSUME heap' = heap PROVE Forward(o)
      BY <2>1, <2>3, StandsStill
    <2>4. (\E r \in Requests : Handle(r)) \/ heap' = heap
      BY <1>1 DEF Next, Arrive, Cleanup, Wake, Examine, Delete, Sleep, Tick,
         BoundsReached, vars
    <2> QED
      BY <2>2, <2>3, <2>4
  <1>2. IInv /\ [Next]_vars =>
          [\A o \in Live \ {Nil} :
             /\ heap'[o].BannedUntil >= heap[o].BannedUntil
             /\ heap'[o].BanCount >= heap[o].BanCount
             /\ heap'[o].WindowTime # heap[o].WindowTime
                   => heap'[o].WindowTime > heap[o].WindowTime + Minute]_vars
    BY <1>1 DEF Forward
  <1> QED
    BY <1>2, Invariance, PTL DEF Spec, NeverRegresses

-----------------------------------------------------------------------------
(* Bans are earned *)

\* Client c has an interest in object o: it is c's in the map, or a request of c
\* holds it.
Uses(c, o) == clients[c] = o \/ \E r \in Requests : held[r] = o /\ req[r].ip = c

\* No two clients use the same object.
OwnInv == \A c, d \in Clients, o \in Statuses : Uses(c, o) /\ Uses(d, o) => c = d

\* What an object says of the bans of its client is in the client's history.
BanOf(c, o) ==
    \E i \in DOMAIN violations[c] :
        i >= BanThreshold /\ violations[c][i] + BanDuration = heap[o].BannedUntil

Accounted(c, o) ==
    /\ heap[o].BanCount <= Len(violations[c])
    /\ heap[o].BannedUntil > 0 => BanOf(c, o)

EarnedInv == \A c \in Clients, o \in Statuses : Uses(c, o) => Accounted(c, o)

IdleInv == \A r \in Requests : pc[r] \in {"idle", "load"} => held[r] = Nil

BInv == IInv /\ IdleInv /\ OwnInv /\ EarnedInv

LEMMA BInvInit == Init => BInv
  <1> SUFFICES ASSUME Init PROVE BInv
    OBVIOUS
  <1>1. \A c \in Clients, o \in Statuses : ~Uses(c, o)
    BY NilAssumption DEF Init, Uses
  <1> QED
    BY <1>1, InitInv DEF BInv, IdleInv, OwnInv, EarnedInv, Init

\* Nobody comes to use an object he did not use, and the objects and the histories
\* stay what they are.
LEMMA FewerUses ==
  ASSUME OwnInv, EarnedInv, UNCHANGED violations,
         \A c \in Clients, o \in Statuses : Uses(c, o)' => Uses(c, o),
         \A o \in Statuses : /\ heap'[o].BanCount = heap[o].BanCount
                             /\ heap'[o].BannedUntil = heap[o].BannedUntil
  PROVE  OwnInv' /\ EarnedInv'
  <1>1. OwnInv'
    BY DEF OwnInv
  <1>2. ASSUME NEW c \in Clients, NEW o \in Statuses, Uses(c, o)' PROVE Accounted(c, o)'
    BY <1>2 DEF EarnedInv, Accounted, BanOf
  <1> QED
    BY <1>1, <1>2 DEF EarnedInv

\* Leaving the section gives a pointer up.
LEMMA LeavesUses ==
  ASSUME TypeOK, NEW r \in Requests, Leaves(r), clients' = clients
  PROVE  \A c \in Clients, o \in Statuses : Uses(c, o)' => Uses(c, o)
  <1>1. /\ held'[r] = Nil
        /\ \A q \in Requests \ {r} : held'[q] = held[q] /\ req'[q] = req[q]
    BY DEF TypeOK, Leaves
  <1> QED
    BY <1>1, NilAssumption DEF Uses

\* A violation is noted with the object it counts for.
LEMMA PunishedEarned ==
  ASSUME BInv, NEW r \in Requests, Limit(r) \/ Ban(r)
  PROVE  OwnInv' /\ EarnedInv'
  <1> DEFINE own == req[r].ip
             now == req[r].now
             h   == held[r]
  <1>t. TypeOK /\ OwnInv /\ EarnedInv
    BY DEF BInv, IInv
  <1>1. /\ pc[r] = "judge" /\ Leaves(r) /\ clients' = clients
        /\ h \in Statuses /\ own \in Clients /\ now \in Nat
    BY <1>t DEF BInv, IInv, HeldInv, Limit, Ban, TypeOK, Request
  <1>2. \A c \in Clients, o \in Statuses : Uses(c, o)' => Uses(c, o)
    BY <1>t, <1>1, LeavesUses
  <1>3. OwnInv'
    BY <1>t, <1>2 DEF OwnInv
  <1>4. Uses(own, h)
    BY DEF Uses
  <1>5. /\ Len(violations'[own]) = Len(violations[own]) + 1
        /\ violations'[own][Len(violations[own]) + 1] = now
        /\ \A i \in DOMAIN violations[own] : violations'[own][i] = violations[own][i]
        /\ \A c \in Clients \ {own} : violations'[c] = violations[c]
    <2>1. violations' = [violations EXCEPT ![own] = Append(@, now)]
      BY DEF Limit, Ban
    <2>2. violations[own] \in Seq(Nat) /\ violations'[own] = Append(violations[own], now)
      BY <1>t, <1>1, <2>1 DEF TypeOK
    <2>3. \A c \in Clients \ {own} : violations'[c] = violations[c]
      BY <1>t, <2>1 DEF TypeOK
    <2> QED
      BY <1>1, <2>2, <2>3
  <1>6. /\ violations[own] \in Seq(Nat) /\ Len(violations[own]) \in Nat
        /\ DOMAIN violations[own] = 1 .. Len(violations[own])
        /\ DOMAIN violations'[own] = 1 .. Len(violations'[own])
    <2>1. violations' \in [Clients -> Seq(Nat)]
      <3>1. Noted(r)
        BY DEF Limit, Ban, Noted
      <3> QED
        BY <1>t, <3>1, NotedType
    <2> QED
      BY <1>t, <1>1, <2>1 DEF TypeOK
  <1>7. \A o \in Statuses : heap[o].BanCount \in Nat /\ heap[o].BannedUntil \in Nat
    BY <1>t DEF TypeOK, Status
  <1>8. /\ heap'[h].BanCount = heap[h].BanCount + 1
        /\ \A o \in Statuses \ {h} : heap'[o] = heap[o]
    BY <1>t, <1>1 DEF Limit, Ban, TypeOK, Status
  <1>9. \/ heap'[h].BannedUntil = heap[h].BannedUntil
        \/ /\ heap[h].BanCount + 1 >= BanThreshold
           /\ heap'[h].BannedUntil = now + BanDuration
    <2>1. CASE Limit(r)
      BY <1>t, <1>1, <2>1 DEF Limit, TypeOK, Status
    <2>2. CASE Ban(r)
      BY <1>t, <1>1, <2>2 DEF Ban, Bans, TypeOK, Status
    <2> QED
      BY <2>1, <2>2
  <1>10. ASSUME NEW c \in Clients, NEW o \in Statuses, Uses(c, o)'
         PROVE  Accounted(c, o)'
    <2>1. Uses(c, o) /\ Accounted(c, o)
      BY <1>t, <1>2, <1>10 DEF EarnedInv
    <2>2. CASE o # h /\ c # own
      BY <1>5, <1>8, <2>1, <2>2 DEF Accounted, BanOf
    <2>3. ASSUME c = own, heap'[o].BannedUntil = heap[o].BannedUntil,
                 heap[o].BannedUntil > 0
          PROVE  BanOf(c, o)'
      <3>1. PICK i \in DOMAIN violations[c] :
               i >= BanThreshold /\ violations[c][i] + BanDuration = heap[o].BannedUntil
        BY <2>1, <2>3 DEF Accounted, BanOf
      <3>2. i \in DOMAIN violations'[c] /\ violations'[c][i] = violations[c][i]
        BY <1>5, <1>6, <2>3, <3>1
      <3> QED
        BY <2>3, <3>1, <3>2 DEF BanOf
    <2>4. CASE o # h /\ c = own
      <3>1. heap'[o] = heap[o] /\ Len(violations'[c]) = Len(violations[c]) + 1
        BY <1>5, <1>8, <2>4
      <3>2. heap'[o].BanCount <= Len(violations'[c])
        BY <1>6, <1>7, <2>1, <2>4, <3>1 DEF Accounted
      <3> QED
        BY <2>3, <2>4, <3>1, <3>2 DEF Accounted
    <2>5. CASE o = h
      <3>1. c = own
        BY <1>t, <1>1, <1>4, <2>1, <2>5 DEF OwnInv
      <3>2. heap[o].BanCount <= Len(violations[own])
        BY <2>1, <3>1 DEF Accounted
      <3>3. heap'[o].BanCount <= Len(violations'[c])
        BY <1>1, <1>5, <1>6, <1>7, <1>8, <2>5, <3>1, <3>2
      <3>4. ASSUME heap'[o].BannedUntil > 0 PROVE BanOf(c, o)'
        <4>1. CASE heap'[o].BannedUntil = heap[o].BannedUntil
          BY <2>3, <3>1, <3>4, <4>1
        <4>2. CASE /\ heap[h].BanCount + 1 >= BanThreshold
                   /\ heap'[h].BannedUntil = now + BanDuration
          <5>1. Len(violations[own]) + 1 >= BanThreshold
            BY <1>1, <1>6, <1>7, <2>5, <3>2, <4>2, LimitAssumption
          <5>2. Len(violations[own]) + 1 \in DOMAIN violations'[c]
            BY <1>5, <1>6, <3>1
          <5>3. violations'[c][Len(violations[own]) + 1] + BanDuration = heap'[o].BannedUntil
            BY <1>5, <2>5, <3>1, <4>2
          <5> QED
            BY <5>1, <5>2, <5>3 DEF BanOf
        <4> QED
          BY <1>9, <2>5, <4>1, <4>2
      <3> QED
        BY <3>3, <3>4 DEF Accounted
    <2> QED
      BY <2>2, <2>4, <2>5
  <1> QED
    BY <1>3, <1>10 DEF EarnedInv

\* A client gets its own object, or one that nobody uses.
LEMMA LoadOrStoreEarned ==
  ASSUME BInv, NEW r \in Requests, LoadOrStore(r)
  PROVE  OwnInv' /\ EarnedInv'
  <1> DEFINE own == req[r].ip
  <1>t. TypeOK /\ OwnInv /\ EarnedInv /\ Nil \notin Statuses
    BY NilAssumption DEF BInv, IInv
  <1>1. /\ own \in Clients /\ req[r].now \in Nat /\ held[r] = Nil
        /\ UNCHANGED <<req, violations>>
    BY <1>t DEF BInv, IdleInv, LoadOrStore, Moves, TypeOK, Request
  <1>2. CASE clients[own] # Nil /\ held' = [held EXCEPT ![r] = clients[own]]
             /\ UNCHANGED <<clients, heap, admitted>>
    <2>1. \A c \in Clients, o \in Statuses : Uses(c, o)' => Uses(c, o)
      BY <1>t, <1>1, <1>2 DEF Uses, TypeOK
    <2> QED
      BY <1>t, <1>1, <1>2, <2>1, FewerUses
  <1>3. ASSUME NEW n \in Statuses \ Live,
               heap' = [heap EXCEPT ![n] = NewStatus(req[r].now)],
               clients' = [clients EXCEPT ![own] = n],
               held' = [held EXCEPT ![r] = n]
        PROVE  OwnInv' /\ EarnedInv'
    <2>1. \A c \in Clients : ~Uses(c, n)
      BY <1>3 DEF Uses, Live
    <2>2. ASSUME NEW c \in Clients, NEW o \in Statuses, Uses(c, o)'
          PROVE  (c = own /\ o = n) \/ (o # n /\ Uses(c, o))
      <3>1. CASE clients'[c] = o
        BY <1>t, <1>1, <1>3, <2>1, <3>1 DEF TypeOK, Uses
      <3>2. ASSUME NEW q \in Requests, held'[q] = o, req'[q].ip = c
            PROVE  (c = own /\ o = n) \/ (o # n /\ Uses(c, o))
        BY <1>t, <1>1, <1>3, <2>1, <3>2 DEF TypeOK, Uses
      <3> QED
        BY <2>2, <3>1, <3>2 DEF Uses
    <2>3. OwnInv'
      BY <1>t, <2>2 DEF OwnInv
    <2>4. /\ heap'[n].BanCount = 0 /\ heap'[n].BannedUntil = 0
          /\ \A o \in Statuses \ {n} : heap'[o] = heap[o]
      BY <1>t, <1>3 DEF TypeOK, NewStatus
    <2>5. violations[own] \in Seq(Nat) /\ Len(violations[own]) >= 0
      BY <1>t, <1>1 DEF TypeOK
    <2>6. ASSUME NEW c \in Clients, NEW o \in Statuses, Uses(c, o)'
          PROVE  Accounted(c, o)'
      <3>1. CASE c = own /\ o = n
        BY <1>1, <2>4, <2>5, <3>1 DEF Accounted
      <3>2. CASE o # n /\ Uses(c, o)
        BY <1>t, <1>1, <2>4, <3>2 DEF EarnedInv, Accounted, BanOf
      <3> QED
        BY <2>2, <2>6, <3>1, <3>2
    <2> QED
      BY <2>3, <2>6 DEF EarnedInv
  <1> QED
    BY <1>2, <1>3 DEF LoadOrStore

LEMMA IdleNext ==
  ASSUME TypeOK, IdleInv, [Next]_vars
  PROVE  IdleInv'
  <1>1. ASSUME NEW r \in Requests, Handle(r) PROVE IdleInv'
    <2>1. \A q \in Requests \ {r} : pc'[q] = pc[q] /\ held'[q] = held[q]
      BY <1>1 DEF Handle, LoadOrStore, Lock, RejectBanned, CheckWindow,
         ResetWindow, CountRequest, Admit, Limit, Ban, Leaves, Moves, TypeOK
    <2>2. pc'[r] \in {"idle", "load"} => held'[r] = Nil
      BY <1>1 DEF Handle, LoadOrStore, Lock, RejectBanned, CheckWindow,
         ResetWindow, CountRequest, Admit, Limit, Ban, Leaves, Moves, TypeOK
    <2> QED
      BY <2>1, <2>2 DEF IdleInv
  <1>2. ASSUME NEW r \in Requests, NEW c \in Clients, NEW p \in Paths,
               NEW b \in BOOLEAN, Arrive(r, c, p, b)
        PROVE  IdleInv'
    BY <1>2 DEF Arrive, Moves, IdleInv, TypeOK
  <1>3. ASSUME Cleanup \/ Tick \/ UNCHANGED vars PROVE IdleInv'
    <2>1. UNCHANGED <<pc, held>>
      BY <1>3 DEF Cleanup, Wake, Examine, Delete, Sleep, Tick, reqVars, vars
    <2> QED
      BY <2>1 DEF IdleInv
  <1> QED
    BY <1>1, <1>2, <1>3 DEF Next, BoundsReached

LEMMA BInvNext ==
  ASSUME BInv, [Next]_vars
  PROVE  BInv'
  <1>t. TypeOK /\ IInv /\ IdleInv /\ OwnInv /\ EarnedInv
    BY DEF BInv, IInv
  <1>1. IInv' /\ IdleInv'
    BY <1>t, NextInv, IdleNext
  <1>2. ASSUME NEW r \in Requests, Handle(r) PROVE OwnInv' /\ EarnedInv'
    <2>1. CASE LoadOrStore(r)
      BY <2>1, LoadOrStoreEarned
    <2>2. CASE Limit(r) \/ Ban(r)
      BY <2>2, PunishedEarned
    <2>3. CASE Lock(r) \/ CheckWindow(r)
      <3>1. UNCHANGED <<clients, heap, req, held, violations>>
        BY <2>3 DEF Lock, CheckWindow
      <3>2. \A c \in Clients, o \in Statuses : Uses(c, o)' => Uses(c, o)
        BY <3>1 DEF Uses
      <3> QED
        BY <1>t, <3>1, <3>2, FewerUses
    <2>4. CASE ResetWindow(r) \/ CountRequest(r)
      <3>1. UNCHANGED <<clients, req, held, violations>>
        BY <2>4 DEF ResetWindow, CountRequest
      <3>2. \A o \in Statuses : /\ heap'[o].BanCount = heap[o].BanCount
                                /\ heap'[o].BannedUntil = heap[o].BannedUntil
        <4>1. CASE ResetWindow(r)
          BY <1>t, <4>1 DEF ResetWindow, TypeOK, Status
        <4>2. CASE CountRequest(r)
          BY <1>t, <4>2 DEF CountRequest, TypeOK, Status
        <4> QED
          BY <2>4, <4>1, <4>2
      <3>3. \A c \in Clients, o \in Statuses : Uses(c, o)' => Uses(c, o)
        BY <3>1 DEF Uses
      <3> QED
        BY <1>t, <3>1, <3>2, <3>3, FewerUses
    <2>5. CASE RejectBanned(r) \/ Admit(r)
      <3>1. UNCHANGED <<clients, heap, violations>> /\ Leaves(r)
        BY <2>5 DEF RejectBanned, Admit
      <3> QED
        BY <1>t, <3>1, LeavesUses, FewerUses
    <2> QED
      BY <1>2, <2>1, <2>2, <2>3, <2>4, <2>5 DEF Handle
  <1>3. ASSUME NEW r \in Requests, NEW c \in Clients, NEW p \in Paths,
               NEW b \in BOOLEAN, Arrive(r, c, p, b)
        PROVE  OwnInv' /\ EarnedInv'
    <2>1. /\ UNCHANGED <<clients, heap, held, violations>> /\ held[r] = Nil
          /\ \A q \in Requests \ {r} : req'[q] = req[q]
      BY <1>t, <1>3 DEF Arrive, Moves, IdleInv, TypeOK
    <2>2. \A d \in Clients, o \in Statuses : Uses(d, o)' => Uses(d, o)
      BY <2>1, NilAssumption DEF Uses
    <2> QED
      BY <1>t, <2>1, <2>2, FewerUses
  <1>4. ASSUME Cleanup \/ Tick \/ UNCHANGED vars PROVE OwnInv' /\ EarnedInv'
    <2>1. UNCHANGED <<heap, req, held, violations>>
      BY <1>4 DEF Cleanup, Wake, Examine, Delete, Sleep, Tick, vars, reqVars
    <2>2. \A c \in Clients : clients'[c] \in {clients[c], Nil}
      BY <1>t, <1>4 DEF Cleanup, Wake, Examine, Delete, Sleep, Tick, vars, reqVars, TypeOK
    <2>3. \A c \in Clients, o \in Statuses : Uses(c, o)' => Uses(c, o)
      BY <2>1, <2>2, NilAssumption DEF Uses
    <2> QED
      BY <1>t, <2>1, <2>3, FewerUses
  <1> QED
    BY <1>1, <1>2, <1>3, <1>4 DEF BInv, Next, BoundsReached

\* A request that is turned away as banned leaves in its own RejectBanned step.
LEMMA TurnedAwayIsBanned ==
  ASSUME TypeOK, [Next]_vars, NEW r \in Requests, TurnedAway(r)
  PROVE  RejectBanned(r)
  <1> USE DEF TurnedAway
  <1>1. ASSUME NEW q \in Requests, Handle(q), q # r PROVE FALSE
    <2>1. pc'[r] = pc[r]
      BY <1>1 DEF Handle, LoadOrStore, Lock, RejectBanned, CheckWindow,
         ResetWindow, CountRequest, Admit, Limit, Ban, Moves, Leaves, TypeOK
    <2> QED
      BY <2>1
  <1>2. ASSUME NEW q \in Requests, NEW c \in Clients, NEW p \in Paths,
               NEW b \in BOOLEAN, Arrive(q, c, p, b)
        PROVE  FALSE
    BY <1>2 DEF Arrive, Moves, TypeOK
  <1>3. ASSUME Cleanup \/ Tick \/ UNCHANGED vars PROVE FALSE
    BY <1>3 DEF Cleanup, Wake, Examine, Delete, Sleep, Tick, vars, reqVars
  <1>4. Handle(r)
    BY <1>1, <1>2, <1>3 DEF Next, BoundsReached
  <1>5. ~CheckWindow(r)
    BY DEF CheckWindow, Moves, TypeOK
  <1> QED
    BY <1>4, <1>5 DEF Handle, LoadOrStore, Lock, ResetWindow, CountRequest, Admit,
       Limit, Ban, Moves

\* ratelimit.go:102-142: for any clients, however their requests overlap each other
\* and the sweep, nobody is turned away for a ban that ban_threshold requests of its
\* own over their limits have not earned, or that has run out.
THEOREM BansEarned == Spec => BanEarned
  <1>1. ASSUME BInv, [Next]_vars, NEW r \in Requests, TurnedAway(r)
        PROVE  EarnedBan(req[r].ip, req[r].now)
    <2> DEFINE own == req[r].ip
               h   == held[r]
    <2>1. TypeOK /\ EarnedInv /\ HeldInv
      BY <1>1 DEF BInv, IInv
    <2>2. RejectBanned(r)
      BY <1>1, <2>1, TurnedAwayIsBanned
    <2>3. h \in Statuses /\ own \in Clients /\ req[r].now \in Nat
      BY <2>1, <2>2 DEF RejectBanned, HeldInv, TypeOK, Request
    <2>4. Uses(own, h)
      BY DEF Uses
    <2>5. heap[h].BannedUntil \in Nat /\ req[r].now < heap[h].BannedUntil
      BY <2>1, <2>2, <2>3 DEF RejectBanned, Banned, TypeOK, Status
    <2>6. BanOf(own, h)
      BY <2>1, <2>3, <2>4, <2>5 DEF EarnedInv, Accounted
    <2> QED
      BY <2>5, <2>6 DEF BanOf, EarnedBan
  <1>2. BInv /\ [Next]_vars =>
          [\A r \in Requests : TurnedAway(r) => EarnedBan(req[r].ip, req[r].now)]_vars
    BY <1>1
  <1> QED
    BY <1>2, BInvInit, BInvNext, PTL DEF Spec, BanEarned

-----------------------------------------------------------------------------
(* The refinement of AtomicLimiter *)

ClockInv == clock \in 0 .. MaxTime /\ \A r \in Requests : req[r].now \in 0 .. clock

RInv == IInv /\ ClockInv /\ IdleInv


-----------------------------------------------------------------------------
(* The additional invariants *)

LEMMA RInvInit == Init => RInv
  <1> SUFFICES ASSUME Init PROVE RInv
    OBVIOUS
  <1>0. NoRequest.now = 0
    BY DEF NoRequest
  <1>1. ClockInv
    BY <1>0, BoundAssumption DEF Init, ClockInv
  <1>2. IdleInv
    BY DEF Init, IdleInv
  <1> QED
    BY <1>1, <1>2, InitInv DEF RInv

LEMMA RInvNext ==
  ASSUME RInv, [Next]_vars
  PROVE  RInv'
  <1> USE DEF RInv
  <1>t. TypeOK
    BY DEF IInv
  <1>1. IInv' /\ IdleInv'
    BY <1>t, NextInv, IdleNext
  <1>2. ASSUME NEW r \in Requests, Handle(r) PROVE ClockInv'
    <2>1. clock' = clock /\ \A q \in Requests : req'[q] \in {req[q], NoRequest}
      BY <1>2, <1>t DEF Handle, LoadOrStore, Lock, RejectBanned, CheckWindow,
         ResetWindow, CountRequest, Admit, Limit, Ban, Leaves, TypeOK
    <2>2. NoRequest.now = 0
      BY DEF NoRequest
    <2>3. ClockInv'
      BY <2>1, <2>2, BoundAssumption DEF ClockInv
    <2> QED
      BY <2>3
  <1>3. ASSUME NEW r \in Requests, NEW c \in Clients, NEW p \in Paths,
               NEW b \in BOOLEAN, Arrive(r, c, p, b)
        PROVE  ClockInv'
    BY <1>3, <1>t DEF Arrive, Moves, ClockInv, TypeOK
  <1>4. ASSUME Cleanup PROVE ClockInv'
    BY <1>4 DEF Cleanup, Wake, Examine, Delete, Sleep, reqVars, ClockInv
  <1>5. ASSUME Tick PROVE ClockInv'
    BY <1>5, BoundAssumption DEF Tick, reqVars, ClockInv
  <1>6. ASSUME UNCHANGED vars PROVE ClockInv'
    BY <1>6 DEF vars, ClockInv
  <1> QED
    BY <1>1, <1>2, <1>3, <1>4, <1>5, <1>6 DEF Next, BoundsReached

-----------------------------------------------------------------------------
(* The refinement mapping, step by step *)

\* The holder of rl.mu is the only request that can have decided, and only on the
\* object that it holds.
LEMMA Undecided ==
  ASSUME mu = Nil \/ pc[mu] \notin Decided
  PROVE  tally = [o \in Statuses |-> heap[o]] /\ refused = rateLimited
  BY DEF tally, refused, DecidedOn

LEMMA DecidedBy ==
  ASSUME NEW r \in Requests, mu = r, pc[r] \in Decided, held[r] \in Statuses
  PROVE  /\ tally = [o \in Statuses |-> IF o = held[r] THEN Outcome(heap[o], r) ELSE heap[o]]
         /\ refused = IF WillBeOver(heap[held[r]], r) THEN rateLimited + 1 ELSE rateLimited
  BY NilAssumption DEF tally, refused, DecidedOn

LEMMA AllowanceIsOne ==
  ASSUME NEW rq \in Request
  PROVE  Allowance(rq) \in Allowances
  BY DEF Allowance, Allowances, Request

\* Steps that leave every object and the owner's progress alone.
LEMMA Stutters ==
  ASSUME UNCHANGED <<heap, mu, rateLimited>>, inUse' \subseteq inUse,
         mu # Nil => (pc[mu] \in Decided <=> pc'[mu] \in Decided),
         mu # Nil /\ pc[mu] \in Decided =>
            pc'[mu] = pc[mu] /\ held'[mu] = held[mu] /\ req'[mu] = req[mu]
  PROVE  Abstract!Forget
  <1>1. \A o : DecidedOn(o)' <=> DecidedOn(o)
    BY DEF DecidedOn
  <1>2. ASSUME NEW o, DecidedOn(o)
        PROVE  /\ Outcome(heap[o], mu)' = Outcome(heap[o], mu)
               /\ WillBeOver(heap[o], mu)' <=> WillBeOver(heap[o], mu)
    <2>1. mu' = mu /\ heap' = heap /\ pc'[mu] = pc[mu] /\ req'[mu] = req[mu]
      BY <1>2 DEF DecidedOn
    <2> QED
      BY <2>1 DEF Outcome, WillBeOver, PunishedIn, CountedIn
  <1>3. tally' = tally
    BY <1>1, <1>2 DEF tally
  <1>4. refused' = refused
    BY <1>1, <1>2 DEF refused
  <1> QED
    BY <1>3, <1>4 DEF Abstract!Forget

\* CheckWindow is the step at which a request is judged.
LEMMA CheckWindowImplements ==
  ASSUME RInv, NEW r \in Requests, CheckWindow(r)
  PROVE  [Abstract!Next]_(Abstract!vars)
  <1> DEFINE o == held[r]
             s == heap[o]
             rq == req[r]
             counted == Abstract!Counted(s, rq.now)
             over == counted.Count > Allowance(rq)
  <1>1. TypeOK /\ ClockInv /\ Stages(r) /\ r # Nil /\ Nil \notin Statuses
    BY StagesOfAll, NilAssumption DEF RInv, IInv
  <1>2. /\ pc[r] = "locked" /\ mu = r /\ o \in Statuses /\ s \in Status /\ rq \in Request
        /\ rq.now >= s.BannedUntil
    BY <1>1 DEF CheckWindow, Moves, Stages, TypeOK, Banned, Status, Request
  <1>3. /\ UNCHANGED <<clients, heap, mu, req, held, rateLimited>>
        /\ pc'[r] = IF WindowOver(s, rq.now) THEN "reset" ELSE "count"
    BY <1>1 DEF CheckWindow, Moves, TypeOK
  <1>4. CountedIn(s, r)' = counted
    BY <1>2, <1>3 DEF CountedIn, Abstract!Counted, WindowOver
  <1>5. WillBeOver(s, r)' <=> over
    BY <1>3, <1>4 DEF WillBeOver
  <1>6. PunishedIn(CountedIn(s, r), r)' = Abstract!Punished(counted, rq.now)
    BY <1>3, <1>4 DEF PunishedIn, Abstract!Punished
  <1>7. Outcome(s, r)' = IF over THEN Abstract!Punished(counted, rq.now) ELSE counted
    BY <1>4, <1>5, <1>6 DEF Outcome
  <1>8. tally = [x \in Statuses |-> heap[x]] /\ refused = rateLimited
    BY <1>2, Undecided DEF Decided
  <1>9. /\ tally' = [x \in Statuses |-> IF x = o THEN Outcome(s, r)' ELSE heap[x]]
        /\ refused' = IF over THEN rateLimited + 1 ELSE rateLimited
    <2>1. \A x : DecidedOn(x)' <=> x = o
      BY <1>1, <1>2, <1>3 DEF DecidedOn, Decided
    <2>2. mu' = r /\ heap' = heap
      BY <1>2, <1>3
    <2> QED
      BY <1>2, <1>3, <1>5, <2>1, <2>2 DEF tally, refused
  <1>10. o \in inUse /\ inUse' = inUse
    BY <1>1, <1>2, <1>3 DEF inUse, Live
  <1>11. Abstract!Judge(o, rq.now, Allowance(rq))
    BY <1>2, <1>7, <1>8, <1>9, <1>10 DEF Abstract!Judge
  <1>12. rq.now \in 0 .. MaxTime /\ Allowance(rq) \in Allowances
    BY <1>1, <1>2, AllowanceIsOne, BoundAssumption DEF ClockInv
  <1> QED
    BY <1>2, <1>11, <1>12 DEF Abstract!Next

\* ResetWindow and CountRequest do what CheckWindow has decided.
LEMMA CountingStutters ==
  ASSUME RInv, NEW r \in Requests, ResetWindow(r) \/ CountRequest(r)
  PROVE  UNCHANGED Abstract!vars
  <1> DEFINE o == held[r]
  <1>1. TypeOK /\ Stages(r)
    BY StagesOfAll DEF RInv, IInv
  <1>2. /\ pc[r] \in {"reset", "count"} /\ pc'[r] \in {"count", "judge"}
        /\ mu = r /\ o \in Statuses /\ heap[o] \in Status
        /\ UNCHANGED <<clients, mu, req, held, rateLimited>>
    BY <1>1 DEF ResetWindow, CountRequest, Moves, Stages, TypeOK
  <1>3. \A x \in Statuses \ {o} : heap'[x] = heap[x]
    BY <1>1 DEF ResetWindow, CountRequest, TypeOK
  <1>4. CountedIn(heap[o], r)' = CountedIn(heap[o], r)
    <2>1. CASE ResetWindow(r)
      <3>1. pc[r] = "reset" /\ pc'[r] = "count"
            /\ heap'[o] = [heap[o] EXCEPT !.Count = 0, !.WindowTime = req[r].now]
        BY <1>1, <1>2, <2>1 DEF ResetWindow, Moves, TypeOK
      <3>2. CountedIn(heap[o], r)' = [heap'[o] EXCEPT !.Count = @ + 1]
        BY <1>2, <3>1 DEF CountedIn
      <3>3. heap'[o].Count + 1 = 1
        BY <1>2, <3>1 DEF Status
      <3>4. [heap'[o] EXCEPT !.Count = @ + 1]
              = [heap[o] EXCEPT !.Count = 1, !.WindowTime = req[r].now]
        BY <1>2, <3>1, <3>3 DEF Status
      <3> QED
        BY <3>1, <3>2, <3>4 DEF CountedIn
    <2>2. CASE CountRequest(r)
      <3>1. pc[r] = "count" /\ pc'[r] = "judge"
            /\ heap'[o] = [heap[o] EXCEPT !.Count = @ + 1]
        BY <1>1, <1>2, <2>2 DEF CountRequest, Moves, TypeOK
      <3> QED
        BY <1>2, <3>1 DEF CountedIn
    <2> QED
      BY <2>1, <2>2
  <1>5. /\ Outcome(heap[o], r)' = Outcome(heap[o], r)
        /\ WillBeOver(heap[o], r)' <=> WillBeOver(heap[o], r)
    BY <1>2, <1>4 DEF Outcome, WillBeOver, PunishedIn
  <1>6. \A x : DecidedOn(x) <=> x = o
    BY <1>2, NilAssumption DEF DecidedOn, Decided
  <1>7. \A x : DecidedOn(x)' <=> x = o
    BY <1>2, NilAssumption DEF DecidedOn, Decided
  <1>8. tally' = tally
    BY <1>2, <1>3, <1>5, <1>6, <1>7 DEF tally
  <1>9. refused' = refused
    BY <1>2, <1>5, <1>6, <1>7 DEF refused
  <1>10. inUse' = inUse
    BY <1>2 DEF inUse, Live
  <1> QED
    BY <1>8, <1>9, <1>10 DEF Abstract!vars

\* Admit, Limit and Ban carry out the verdict; only a pointer is dropped.
LEMMA VerdictForgets ==
  ASSUME RInv, NEW r \in Requests, Admit(r) \/ Limit(r) \/ Ban(r)
  PROVE  Abstract!Forget
  <1> DEFINE o == held[r]
  <1>1. TypeOK /\ Stages(r)
    BY StagesOfAll DEF RInv, IInv
  <1>2. /\ pc[r] = "judge" /\ mu = r /\ mu' = Nil /\ clients' = clients /\ Leaves(r)
        /\ o \in Statuses /\ heap[o] \in Status
    BY <1>1 DEF Admit, Limit, Ban, Unlock, Stages, TypeOK
  <1>3. CountedIn(heap[o], r) = heap[o]
    BY <1>2 DEF CountedIn
  <1>4. \A x \in Statuses \ {o} : heap'[x] = heap[x]
    BY <1>1 DEF Admit, Limit, Ban, TypeOK
  <1>5. WillBeOver(heap[o], r) <=> OverLimit(r)
    BY <1>3 DEF WillBeOver, OverLimit
  <1>6. heap'[o] = Outcome(heap[o], r)
    <2>1. CASE Admit(r)
      BY <1>3, <1>5, <2>1 DEF Admit, Outcome
    <2>2. CASE Limit(r)
      <3>1. heap'[o] = [heap[o] EXCEPT !.BanCount = @ + 1]
        BY <1>1, <1>2, <2>2 DEF Limit, TypeOK
      <3> QED
        BY <1>2, <1>3, <1>5, <2>2, <3>1 DEF Limit, Bans, Outcome, PunishedIn, Status
    <2>3. CASE Ban(r)
      <3>1. heap'[o] = [heap[o] EXCEPT !.BanCount = @ + 1,
                                       !.BannedUntil = req[r].now + BanDuration]
        BY <1>1, <1>2, <2>3 DEF Ban, TypeOK
      <3> QED
        BY <1>2, <1>3, <1>5, <2>3, <3>1 DEF Ban, Bans, Outcome, PunishedIn, Status
    <2> QED
      BY <2>1, <2>2, <2>3
  <1>7. /\ tally = [x \in Statuses |-> IF x = o THEN Outcome(heap[o], r) ELSE heap[x]]
        /\ refused = IF WillBeOver(heap[o], r) THEN rateLimited + 1 ELSE rateLimited
    BY <1>2, DecidedBy DEF Decided
  <1>8. tally' = [x \in Statuses |-> heap'[x]] /\ refused' = rateLimited'
    BY <1>2 DEF tally, refused, DecidedOn
  <1>9. tally' = tally
    BY <1>4, <1>6, <1>7, <1>8
  <1>10. refused' = refused
    BY <1>5, <1>7, <1>8 DEF Admit, Limit, Ban
  <1>11. inUse' \subseteq inUse
    BY <1>1, <1>2 DEF Leaves, inUse, Live, TypeOK
  <1> QED
    BY <1>9, <1>10, <1>11 DEF Abstract!Forget

\* A handler's step that has no effect on tallies, or decides a verdict, or
\* carries out the one that was decided.
LEMMA HandleImplements ==
  ASSUME RInv, NEW r \in Requests, Handle(r)
  PROVE  [Abstract!Next]_(Abstract!vars)
  <1>t. TypeOK /\ IdleInv /\ ClockInv /\ \A q \in Requests : Stages(q)
    BY StagesOfAll DEF RInv, IInv
  <1>n. r # Nil /\ Nil \notin Statuses /\ req[r] \in Request
    BY <1>t, NilAssumption DEF TypeOK
  <1>f. ASSUME Abstract!Forget PROVE [Abstract!Next]_(Abstract!vars)
    BY <1>f DEF Abstract!Next
  <1>1. CASE LoadOrStore(r)
    <2>1. /\ pc[r] = "load" /\ pc'[r] = "lock" /\ held[r] = Nil
          /\ UNCHANGED <<mu, req, rateLimited>>
          /\ \A q \in Requests \ {r} : pc'[q] = pc[q]
      BY <1>1, <1>t DEF LoadOrStore, Moves, TypeOK, IdleInv
    <2>2. CASE clients[req[r].ip] # Nil /\ held' = [held EXCEPT ![r] = clients[req[r].ip]]
               /\ UNCHANGED <<clients, heap, admitted>>
      <3>1. inUse' \subseteq inUse
        BY <1>t, <1>n, <2>2 DEF inUse, Live, TypeOK, Request
      <3>2. \A q \in Requests \ {r} : held'[q] = held[q]
        BY <1>t, <2>2 DEF TypeOK
      <3> QED
        BY <1>f, <1>t, <2>1, <2>2, <3>1, <3>2, Stutters DEF Decided, TypeOK
    <2>3. ASSUME NEW o \in Statuses \ Live, clients[req[r].ip] = Nil,
                 heap' = [heap EXCEPT ![o] = NewStatus(req[r].now)],
                 clients' = [clients EXCEPT ![req[r].ip] = o],
                 held' = [held EXCEPT ![r] = o]
          PROVE  Abstract!Begin(o, req[r].now)
      <3>1. inUse' = inUse \cup {o}
        BY <1>t, <1>n, <2>1, <2>3 DEF inUse, Live, TypeOK, Request
      <3>2. ~DecidedOn(o) /\ ~DecidedOn(o)'
        BY <1>t, <2>1, <2>3 DEF DecidedOn, Live, Decided, TypeOK
      <3>3. ASSUME NEW x \in Statuses, x # o
            PROVE  /\ DecidedOn(x)' <=> DecidedOn(x)
                   /\ heap'[x] = heap[x]
                   /\ DecidedOn(x) => /\ Outcome(heap[x], mu)' = Outcome(heap[x], mu)
                                      /\ WillBeOver(heap[x], mu)' <=> WillBeOver(heap[x], mu)
        <4>1. heap'[x] = heap[x]
          BY <1>t, <2>3, <3>3 DEF TypeOK
        <4>2. mu \in Requests \ {r} => pc'[mu] = pc[mu] /\ held'[mu] = held[mu]
          BY <1>t, <2>1, <2>3 DEF TypeOK
        <4>3. DecidedOn(x)' <=> DecidedOn(x)
          BY <1>t, <2>1, <2>3, <3>3, <4>2 DEF DecidedOn, Decided, TypeOK
        <4>4. DecidedOn(x) => pc'[mu] = pc[mu] /\ mu' = mu /\ req' = req
          BY <1>t, <2>1, <4>2 DEF DecidedOn, Decided, TypeOK
        <4> QED
          BY <4>1, <4>3, <4>4 DEF Outcome, WillBeOver, PunishedIn, CountedIn
      <3>4. tally' = [tally EXCEPT ![o] = NewStatus(req[r].now)]
        BY <1>t, <2>3, <3>2, <3>3 DEF tally, TypeOK
      <3>5. refused' = refused
        BY <2>1, <3>2, <3>3 DEF refused
      <3>6. NewStatus(req[r].now) = Abstract!Fresh(req[r].now)
        BY DEF NewStatus, Abstract!Fresh
      <3> QED
        BY <2>3, <3>1, <3>4, <3>5, <3>6 DEF Abstract!Begin, inUse
    <2>4. req[r].now \in 0 .. MaxTime
      BY <1>t, BoundAssumption DEF ClockInv
    <2> QED
      BY <1>1, <2>2, <2>3, <2>4 DEF LoadOrStore, Abstract!Next
  <1>2. CASE Lock(r)
    <2>1. mu = Nil /\ mu' = r /\ pc'[r] = "locked" /\ UNCHANGED <<heap, rateLimited>>
      BY <1>2, <1>t DEF Lock, Moves, TypeOK
    <2>2. inUse' = inUse
      BY <1>2 DEF Lock, inUse, Live
    <2>3. tally' = tally
      BY <2>1, <1>n DEF tally, DecidedOn, Decided
    <2>4. refused' = refused
      BY <2>1, <1>n DEF refused, DecidedOn, Decided
    <2> QED
      BY <2>2, <2>3, <2>4 DEF Abstract!vars
  <1>3. CASE RejectBanned(r)
    <2>1. mu = r /\ pc[r] = "locked" /\ held[r] \in Statuses
      BY <1>3, <1>t DEF RejectBanned, Stages
    <2>2. mu' = Nil /\ heap' = heap /\ rateLimited' = rateLimited + 1
      BY <1>3 DEF RejectBanned, Unlock
    <2>3. /\ tally = [o \in Statuses |-> heap[o]] /\ tally' = tally
          /\ refused' = refused + 1
      BY <2>1, <2>2 DEF tally, refused, DecidedOn, Decided
    <2>4. inUse' \subseteq inUse
      BY <1>3, <1>t DEF RejectBanned, Leaves, inUse, Live, TypeOK
    <2>5. held[r] \in inUse
      BY <2>1, <1>n DEF inUse, Live
    <2>6. req[r].now < heap[held[r]].BannedUntil
      BY <1>3 DEF RejectBanned, Banned
    <2>7. req[r].now \in 0 .. MaxTime
      BY <1>t, BoundAssumption DEF ClockInv
    <2>8. Abstract!RefuseBanned(held[r], req[r].now)
      BY <2>1, <2>3, <2>4, <2>5, <2>6 DEF Abstract!RefuseBanned
    <2> QED
      BY <2>1, <2>7, <2>8 DEF Abstract!Next
  <1>4. CASE CheckWindow(r)
    BY <1>4, CheckWindowImplements
  <1>5. CASE ResetWindow(r) \/ CountRequest(r)
    BY <1>5, CountingStutters
  <1>6. CASE Admit(r) \/ Limit(r) \/ Ban(r)
    BY <1>6, <1>f, VerdictForgets
  <1> QED
    BY <1>1, <1>2, <1>3, <1>4, <1>5, <1>6 DEF Handle

-----------------------------------------------------------------------------
(* The theorem *)

LEMMA NextImplements ==
  ASSUME RInv, [Next]_vars
  PROVE  [Abstract!Next]_(Abstract!vars)
  <1>t. TypeOK /\ \A q \in Requests : Stages(q)
    BY StagesOfAll DEF RInv, IInv
  <1>1. ASSUME NEW r \in Requests, Handle(r) PROVE [Abstract!Next]_(Abstract!vars)
    BY <1>1, HandleImplements
  <1>2. ASSUME NEW r \in Requests, NEW c \in Clients, NEW p \in Paths,
               NEW b \in BOOLEAN, Arrive(r, c, p, b)
        PROVE  Abstract!Forget
    <2>1. inUse' \subseteq inUse
      BY <1>2 DEF Arrive, inUse, Live
    <2>2. pc[r] \notin Decided /\ pc'[r] \notin Decided
          /\ \A q \in Requests \ {r} : pc'[q] = pc[q] /\ req'[q] = req[q]
      BY <1>2, <1>t DEF Arrive, Moves, Decided, TypeOK
    <2> QED
      BY <1>2, <1>t, <2>1, <2>2, Stutters DEF Arrive, TypeOK
  <1>3. CASE Cleanup
    <2>1. UNCHANGED <<heap, mu, rateLimited, pc, req, held>>
      BY <1>3 DEF Cleanup, Wake, Examine, Delete, Sleep, reqVars
    <2>2. \A c \in Clients : clients'[c] \in {clients[c], Nil}
      BY <1>3, <1>t DEF Cleanup, Wake, Examine, Delete, Sleep, TypeOK
    <2>3. inUse' \subseteq inUse
      BY <2>1, <2>2 DEF inUse, Live
    <2> QED
      BY <2>1, <2>3, Stutters DEF Abstract!Next
  <1>4. CASE Tick \/ UNCHANGED vars
    <2>1. UNCHANGED <<clients, heap, mu, rateLimited, pc, req, held>>
      BY <1>4 DEF Tick, vars, reqVars, history
    <2>2. inUse' \subseteq inUse
      BY <2>1 DEF inUse, Live
    <2> QED
      BY <2>1, <2>2, Stutters DEF Abstract!Next
  <1> QED
    BY <1>1, <1>2, <1>3, <1>4 DEF Next, BoundsReached, Abstract!Next

\* ratelimit.go:92-155: the limiter judges its requests one after the other, for
\* any number of clients and requests, any limits and any order of clock readings.
THEOREM OneByOne == Spec => JudgedOneByOne
  <1>1. Init => Abstract!Init
    <2> SUFFICES ASSUME Init PROVE Abstract!Init
      OBVIOUS
    <2>1. inUse = {}
      BY DEF Init, inUse, Live
    <2>2. tally = [o \in Statuses |-> NewStatus(0)] /\ refused = 0
      BY Undecided DEF Init
    <2> QED
      BY <2>1, <2>2 DEF Abstract!Init, NewStatus, Abstract!Fresh
  <1>2. RInv /\ [Next]_vars => RInv'
    BY RInvNext
  <1>3. RInv /\ [Next]_vars => [Abstract!Next]_(Abstract!vars)
    BY NextImplements
  <1> QED
    BY <1>1, <1>2, <1>3, RInvInit, PTL DEF Spec, JudgedOneByOne, Abstract!Spec
=============================================================================
