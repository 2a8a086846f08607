-------------------------- MODULE DashboardProofs --------------------------
(***************************************************************************)
(* Proofs about the door of the dashboard, DashboardAuth and               *)
(* DashboardToken.                                                         *)
(*                                                                         *)
(* basicAuth counts without a lock, and a failing login with another one   *)
(* of its client in flight is counted wrongly. AtMostTenBetweenLogins and  *)
(* LocksEnd therefore assume Alone: a failing request is the only one of   *)
(* its client; requests that succeed overlap, such as the three fetches of *)
(* the page when it opens, and so do those of different clients. The       *)
(* argument follows the failures of a client since it last got in. The     *)
(* counter counts the last Count of them; those before, which a reset has  *)
(* taken out of the count, are a window or more older (Batched). So no     *)
(* window holds failures from both sides of a reset, and Limit is the most *)
(* it can hold. LoginAt says what is known at each step of a request that  *)
(* will fail, between the test of the count and the writing of it. What    *)
(* requests that will succeed do to an entry among themselves goes with    *)
(* it: the first of them to get in deletes it, and from then on none of    *)
(* them holds a full one (RightAt).                                        *)
(*                                                                         *)
(* LocksEarned holds without Alone. Counted and still to be counted        *)
(* failures (Pending) are together at most those since the last login,     *)
(* with the count that is in the entry and with each one that is about to  *)
(* be written to it (Earned): an overlap loses failures, and never makes   *)
(* one up.                                                                 *)
(*                                                                         *)
(* The token: the browser's cookie changes only when an answer brings one, *)
(* and only a request sent without a cookie is answered with one           *)
(* (SetsInv). Once the cookie is there and no such request is under way    *)
(* (Settled), header and cookie of every POST are the same token           *)
(* (CalmInv).                                                              *)
(***************************************************************************)
EXTENDS DashboardAuth, DashboardToken, FiniteSetTheorems, TLAPS

-----------------------------------------------------------------------------
(* basicAuth: types *)

USE DEF PCs, Times, history

\* Past LoadOrStore a request has an entry.
HeldInv == \A r \in Slots : pc[r] \notin {"idle", "load"} => held[r] \in Attempts

LEMMA NoRequestType == NoRequest \in Request
  <1>1. (CHOOSE c \in Clients : TRUE) \in Clients
    BY ClientAssumption
  <1> QED
    BY <1>1, BoundAssumption DEF NoRequest, Request

LEMMA LeavesType ==
  ASSUME TypeOK, HeldInv, NEW r \in Slots, Leaves(r)
  PROVE  /\ pc' \in [Slots -> PCs] /\ req' \in [Slots -> Request]
         /\ held' \in [Slots -> Attempts \cup {Nil}] /\ read' \in [Slots -> Nat]
         /\ HeldInv'
  BY NoRequestType DEF Leaves, TypeOK, HeldInv

LEMMA HandleType ==
  ASSUME TypeOK, HeldInv, NEW r \in Slots, Handle(r)
  PROVE  TypeOK' /\ HeldInv'
  <1> USE BoundAssumption DEF TypeOK
  <1>1. ASSUME NEW c \in Clients, NEW right \in BOOLEAN, Arrive(r, c, right)
        PROVE  TypeOK' /\ HeldInv'
    BY <1>1 DEF Arrive, Moves, Request, HeldInv
  <1>2. CASE LoadOrStore(r)
    <2>1. req[r].ip \in Clients /\ req[r].now \in 0 .. MaxTime
      BY DEF Request
    <2>2. HeldInv'
      BY <1>2, <2>1 DEF LoadOrStore, Moves, HeldInv
    <2>3. [Count |-> 0, Last |-> req[r].now] \in Attempt
      BY <2>1 DEF Attempt
    <2>4. heap' \in [Attempts -> Attempt]
      BY <1>2, <2>3 DEF LoadOrStore
    <2>5. /\ loginAttempts' \in [Clients -> Attempts \cup {Nil}]
          /\ held' \in [Slots -> Attempts \cup {Nil}]
      BY <1>2, <2>1 DEF LoadOrStore
    <2> QED
      BY <1>2, <2>2, <2>4, <2>5 DEF LoadOrStore, Moves
  <1>3. CASE Refuse(r)
    BY <1>3, LeavesType DEF Refuse
  <1>4. CASE CheckCount(r)
    BY <1>4 DEF CheckCount, Moves, HeldInv
  <1>5. CASE ResetCount(r)
    <2>1. heap' \in [Attempts -> Attempt]
      BY <1>5 DEF ResetCount, Attempt
    <2> QED
      BY <1>5, <2>1 DEF ResetCount, Moves, HeldInv
  <1>6. CASE Touch(r)
    <2>1. heap' \in [Attempts -> Attempt]
      BY <1>6 DEF Touch, Attempt, Request
    <2> QED
      BY <1>6, <2>1 DEF Touch, Moves, HeldInv
  <1>7. CASE Verify(r)
    <2>1. /\ Append(failures[req[r].ip], req[r].now) \in Seq(0 .. MaxTime)
          /\ Append(sinceLogin[req[r].ip], req[r].now) \in Seq(0 .. MaxTime)
      BY DEF Request
    <2> QED
      BY <1>7, <2>1 DEF Verify, Moves, HeldInv
  <1>8. CASE ReadCount(r)
    <2>1. heap[held[r]].Count \in Nat
      BY <1>8 DEF ReadCount, Moves, HeldInv, Attempt
    <2> QED
      BY <1>8, <2>1 DEF ReadCount, Moves, HeldInv
  <1>9. CASE WriteCount(r)
    <2>1. heap' \in [Attempts -> Attempt]
      <3>1. read[r] + 1 \in Nat
        OBVIOUS
      <3> DEFINE n == read[r] + 1
      <3> HIDE DEF n
      <3>2. heap' = [heap EXCEPT ![held[r]].Count = n]
        BY <1>9 DEF WriteCount, n
      <3> QED
        BY <3>1, <3>2 DEF Attempt, n
    <2>2. Leaves(r)
      BY <1>9 DEF WriteCount
    <2> QED
      BY <1>9, <2>1, <2>2, LeavesType DEF WriteCount
  <1>10. CASE DeleteEntry(r)
    <2>1. sinceLogin' \in [Clients -> Seq(0 .. MaxTime)]
      <3>1. << >> \in Seq(0 .. MaxTime)
        OBVIOUS
      <3> QED
        BY <1>10, <3>1 DEF DeleteEntry
    <2> QED
      BY <1>10, <2>1, LeavesType DEF DeleteEntry
  <1> QED
    BY <1>1, <1>2, <1>3, <1>4, <1>5, <1>6, <1>7, <1>8, <1>9, <1>10 DEF Handle

LEMMA InitType == Init => TypeOK /\ HeldInv
  BY NoRequestType, BoundAssumption DEF Init, TypeOK, HeldInv, Attempt

LEMMA NextType == TypeOK /\ HeldInv /\ [Next]_vars => TypeOK' /\ HeldInv'
  <1> SUFFICES ASSUME TypeOK, HeldInv, [Next]_vars PROVE TypeOK' /\ HeldInv'
    OBVIOUS
  <1>1. CASE Tick
    BY <1>1, BoundAssumption DEF Tick, TypeOK, HeldInv
  <1>2. CASE UNCHANGED vars
    BY <1>2 DEF vars, TypeOK, HeldInv
  <1> QED
    BY <1>1, <1>2, HandleType DEF Next, Bounded

\* Every variable of DashboardAuth keeps its type, however many logins are checked
\* at the same time.
THEOREM AuthTypeCorrect == Spec => []TypeOK
  <1> QED
    BY InitType, NextType, PTL DEF Spec

-----------------------------------------------------------------------------
(* basicAuth: whose entry is whose *)

Ours(r)  == req[r].ip
Entry(c) == heap[loginAttempts[c]]

ApartInv == \A c, d \in Clients :
    loginAttempts[c] = loginAttempts[d] /\ loginAttempts[c] # Nil => c = d

\* No two clients have the same entry, not even one that was deleted meanwhile.
OwnerInv ==
    /\ \A r \in Slots : pc[r] \in {"idle", "load"} => held[r] = Nil
    /\ \A r \in Slots, c \in Clients :
          held[r] # Nil /\ held[r] = loginAttempts[c] => Ours(r) = c
    /\ \A r, q \in Slots : held[r] # Nil /\ held[r] = held[q] => Ours(r) = Ours(q)

Unmoved(q) == pc'[q] = pc[q] /\ req'[q] = req[q] /\ held'[q] = held[q] /\ read'[q] = read[q]

\* A step of one request leaves the others where they are.
LEMMA OthersUnmoved ==
  ASSUME TypeOK, NEW r \in Slots, Handle(r)
  PROVE  clock' = clock /\ \A q \in Slots \ {r} : Unmoved(q)
  BY DEF Handle, Arrive, LoadOrStore, Refuse, CheckCount, ResetCount, Touch, Verify,
         ReadCount, WriteCount, DeleteEntry, Moves, Leaves, Unmoved, TypeOK

LEMMA OwnerHandle ==
  ASSUME TypeOK, HeldInv, ApartInv, OwnerInv, NEW r \in Slots, Handle(r)
  PROVE  ApartInv' /\ OwnerInv'
  <1>a. Ours(r) \in Clients
    BY DEF TypeOK, Request, Ours
  <1>1. CASE \/ CheckCount(r) \/ ResetCount(r) \/ Touch(r) \/ Verify(r) \/ ReadCount(r)
             \/ Refuse(r) \/ WriteCount(r) \/ DeleteEntry(r)
    <2>1. /\ \A q \in Slots : \/ held'[q] = held[q] /\ req'[q] = req[q]
                              \/ held'[q] = Nil
          /\ \A q \in Slots : pc'[q] \in {"idle", "load"} =>
                                  pc[q] \in {"idle", "load"} \/ held'[q] = Nil
          /\ \A c \in Clients : loginAttempts'[c] \in {loginAttempts[c], Nil}
      BY <1>1 DEF CheckCount, ResetCount, Touch, Verify, ReadCount, Refuse, WriteCount,
                  DeleteEntry, Moves, Leaves, TypeOK
    <2>2. ApartInv'
      BY <2>1 DEF ApartInv
    <2> QED
      BY <2>1, <2>2 DEF OwnerInv, Ours
  <1>2. ASSUME NEW c \in Clients, NEW right \in BOOLEAN, Arrive(r, c, right)
        PROVE  ApartInv' /\ OwnerInv'
    BY <1>2 DEF Arrive, Moves, ApartInv, OwnerInv, Ours, TypeOK
  <1>3. ASSUME LoadOrStore(r), loginAttempts[Ours(r)] # Nil,
               held' = [held EXCEPT ![r] = loginAttempts[Ours(r)]],
               UNCHANGED <<loginAttempts, heap>>
        PROVE  ApartInv' /\ OwnerInv'
    BY <1>a, <1>3 DEF LoadOrStore, Moves, ApartInv, OwnerInv, Ours, TypeOK
  <1>4. ASSUME LoadOrStore(r), NEW o \in Attempts \ Live,
               loginAttempts' = [loginAttempts EXCEPT ![Ours(r)] = o],
               held' = [held EXCEPT ![r] = o]
        PROVE  ApartInv' /\ OwnerInv'
    <2>1. /\ \A c \in Clients : loginAttempts[c] # o
          /\ \A q \in Slots : held[q] # o
          /\ o # Nil
      BY NilAssumption DEF Live
    <2>2. req' = req /\ pc' = [pc EXCEPT ![r] = "check"] /\ pc[r] = "load"
      BY <1>4 DEF LoadOrStore, Moves
    <2> QED
      BY <1>a, <1>4, <2>1, <2>2 DEF ApartInv, OwnerInv, Ours, TypeOK
  <1>5. CASE LoadOrStore(r)
    BY <1>3, <1>4, <1>5 DEF LoadOrStore, Ours
  <1> QED
    BY <1>1, <1>2, <1>5 DEF Handle

\* A step of a request leaves the entries, the failures and the held entries of the
\* other clients alone.
LEMMA Frame ==
  ASSUME TypeOK, HeldInv, ApartInv, OwnerInv, NEW r \in Slots, Handle(r),
         pc[r] # "idle", NEW d \in Clients, d # Ours(r)
  PROVE  /\ loginAttempts'[d] = loginAttempts[d] /\ sinceLogin'[d] = sinceLogin[d]
         /\ loginAttempts[d] # Nil => Entry(d)' = Entry(d)
         /\ \A q \in Slots : Ours(q) = d /\ held[q] # Nil => heap'[held[q]] = heap[held[q]]
  <1>a. Ours(r) \in Clients
    BY DEF TypeOK, Request, Ours
  <1>1. /\ loginAttempts'[d] = loginAttempts[d] /\ sinceLogin'[d] = sinceLogin[d]
    BY <1>a DEF Handle, Arrive, LoadOrStore, Refuse, CheckCount, ResetCount, Touch, Verify,
                ReadCount, WriteCount, DeleteEntry, Moves, Leaves, TypeOK, Ours
  <1>2. PICK o : /\ o = held[r] \/ o \in Attempts \ Live
                 /\ \A x \in Attempts : x # o => heap'[x] = heap[x]
                 /\ o = Nil => heap' = heap
    <2>1. CASE LoadOrStore(r)
      <3>1. CASE UNCHANGED heap
        BY <3>1
      <3>2. CASE ~UNCHANGED heap
        <4>1. PICK x \in Attempts \ Live :
                 heap' = [heap EXCEPT ![x] = [Count |-> 0, Last |-> req[r].now]]
          BY <2>1, <3>2 DEF LoadOrStore
        <4>2. \A y \in Attempts : y # x => heap'[y] = heap[y]
          BY <4>1 DEF TypeOK
        <4> QED
          BY <4>1, <4>2, NilAssumption
      <3> QED
        BY <3>1, <3>2
    <2>2. CASE ~LoadOrStore(r)
      BY <2>2, NilAssumption DEF Handle, Arrive, Refuse, CheckCount, ResetCount, Touch, Verify,
                  ReadCount, WriteCount, DeleteEntry, Moves, Leaves, TypeOK, HeldInv
    <2> QED
      BY <2>1, <2>2
  <1>3. loginAttempts[d] # Nil => Entry(d)' = Entry(d)
    <2> SUFFICES ASSUME loginAttempts[d] # Nil PROVE heap'[loginAttempts[d]] = Entry(d)
      BY <1>1 DEF Entry
    <2>1. loginAttempts[d] \in Attempts /\ loginAttempts[d] \in Live
      BY DEF TypeOK, Live
    <2>2. loginAttempts[d] # held[r]
      BY DEF OwnerInv
    <2> QED
      BY <1>2, <2>1, <2>2 DEF Entry
  <1>4. ASSUME NEW q \in Slots, Ours(q) = d, held[q] # Nil
        PROVE  heap'[held[q]] = heap[held[q]]
    <2>1. held[q] \in Attempts /\ held[q] \in Live
      BY <1>4 DEF TypeOK, Live
    <2>2. held[q] # held[r]
      BY <1>4 DEF OwnerInv
    <2> QED
      BY <1>2, <2>1, <2>2
  <1> QED
    BY <1>1, <1>3, <1>4

-----------------------------------------------------------------------------
(* basicAuth, for clients whose failing requests do not overlap *)

\* What failures f of a client, the last n of which its counter has counted since it
\* was reset, have to do with the counter: none is later than last, and those from
\* before the reset are a window or more before the others and before time next.
Batched(f, n, last, next) ==
    /\ n \in 0 .. Limit /\ n <= Len(f)
    /\ \A i \in 1 .. Len(f) : f[i] <= last
    /\ \A i \in 1 .. Len(f) - n : f[i] + Window <= next
    /\ \A i \in 1 .. Len(f) - n, j \in Len(f) - n + 1 .. Len(f) : f[i] + Window <= f[j]

\* The entry of c may differ from what its failures say: a request is past the test.
Serving(c) == \E r \in Slots : pc[r] \notin {"idle", "load", "check"} /\ Ours(r) = c

\* Between two requests the counter counts the last failures, the last one at Last.
Counted(c) ==
    /\ Batched(sinceLogin[c], Entry(c).Count, Entry(c).Last, Entry(c).Last)
    /\ Entry(c).Count > 0 => sinceLogin[c][Len(sinceLogin[c])] = Entry(c).Last

\* What holds of a client at any time: the failures are past, there is an entry if there
\* are any, and an entry that is full is marked with the last of them.
Marked(c) ==
    /\ \A i \in 1 .. Len(sinceLogin[c]) : sinceLogin[c][i] <= clock
    /\ loginAttempts[c] = Nil => sinceLogin[c] = << >>
    /\ loginAttempts[c] # Nil /\ Entry(c).Count >= Limit =>
          sinceLogin[c] # << >> /\ sinceLogin[c][Len(sinceLogin[c])] = Entry(c).Last

ClientOf(c) ==
    /\ Marked(c)
    /\ ~Serving(c) /\ loginAttempts[c] # Nil => Counted(c) /\ Entry(c).Last <= clock

ClientInv == \A c \in Clients : ClientOf(c)

\* What a login that will fail has established: it is the only one of its client.
LoginAt(r, at, c, e, now) ==
    CASE at = "load"   -> loginAttempts[c] # Nil => e.Last <= now
      [] at = "check"  -> Counted(c) /\ e.Last <= now
      [] at = "reset"  -> Counted(c) /\ e.Last + Window <= now
      [] at = "touch"  -> Batched(sinceLogin[c], e.Count, e.Last, now) /\ e.Last <= now
                          /\ e.Count < Limit
      [] at = "verify" -> Batched(sinceLogin[c], e.Count, now, now) /\ e.Last = now
                          /\ e.Count < Limit
      [] at \in {"read", "write"} ->
            /\ Batched(sinceLogin[c], e.Count + 1, now, now) /\ e.Last = now
            /\ sinceLogin[c][Len(sinceLogin[c])] = now
            /\ at = "write" => read[r] = e.Count
      [] OTHER -> TRUE

\* What one that will succeed can count on, with others like it about: the failures of
\* its client are past, and an entry that is not full will not fill up any more. If its
\* own is no longer the client's, a login has come in between.
RightAt(r, at, c, now) ==
    /\ at \notin {"read", "write"}
    /\ at # "idle" => \A i \in 1 .. Len(sinceLogin[c]) : sinceLogin[c][i] <= now
    /\ held[r] # Nil /\ held[r] # loginAttempts[c] =>
          /\ heap[held[r]].Count < Limit
          /\ loginAttempts[c] # Nil => Entry(c).Count < Limit
    /\ at \in {"touch", "verify", "delete"} => heap[held[r]].Count < Limit

LoginOf(r) ==
    /\ pc[r] # "idle" => req[r].now <= clock
    /\ req[r].right => RightAt(r, pc[r], Ours(r), req[r].now)
    /\ ~req[r].right =>
          /\ pc[r] # "delete"
          /\ pc[r] \notin {"idle", "load"} => held[r] = loginAttempts[Ours(r)]
          /\ LoginAt(r, pc[r], Ours(r), Entry(Ours(r)), req[r].now)

LoginInv == \A r \in Slots : LoginOf(r)

AuthInv == /\ TypeOK /\ HeldInv /\ ApartInv /\ OwnerInv
           /\ ClientInv /\ LoginInv
           /\ TenBetweenLogins

-----------------------------------------------------------------------------
(* Lemmas about batches and windows *)

LEMMA BatchOver ==
  ASSUME NEW f \in Seq(Times), NEW n \in Nat, NEW last \in Times, NEW now \in Times,
         Batched(f, n, last, last), last + Window <= now
  PROVE  Batched(f, 0, last, now)
  BY LimitAssumption, BoundAssumption DEF Batched

LEMMA BatchLater ==
  ASSUME NEW f \in Seq(Times), NEW n \in Nat, NEW last \in Times, NEW now \in Times,
         NEW next \in Times, Batched(f, n, last, next), last <= now, next <= now
  PROVE  Batched(f, n, last, now) /\ Batched(f, n, now, now)
  BY LimitAssumption, BoundAssumption DEF Batched

LEMMA BatchGrows ==
  ASSUME NEW f \in Seq(Times), NEW n \in Nat, NEW now \in Times,
         Batched(f, n, now, now), n < Limit
  PROVE  /\ Batched(Append(f, now), n + 1, now, now)
         /\ Append(f, now)[Len(Append(f, now))] = now
  <1> USE LimitAssumption, BoundAssumption
  <1> DEFINE g == Append(f, now)
  <1>1. /\ Len(f) \in Nat /\ Len(g) = Len(f) + 1 /\ g[Len(g)] = now
        /\ \A i \in 1 .. Len(f) : g[i] = f[i] /\ f[i] \in Times
    OBVIOUS
  <1> HIDE DEF g
  <1>2. n + 1 \in 0 .. Limit /\ n + 1 <= Len(g) /\ Len(g) - (n + 1) = Len(f) - n
    BY <1>1 DEF Batched
  <1>3. \A i \in 1 .. Len(g) : i \in 1 .. Len(f) \/ (i = Len(g) /\ g[i] = now)
    BY <1>1
  <1>4. \A i \in 1 .. Len(g) : g[i] <= now
    <2>1. \A i \in 1 .. Len(f) : f[i] <= now
      BY DEF Batched
    <2> QED
      BY <1>1, <1>3, <2>1
  <1>5. ASSUME NEW i \in 1 .. Len(f) - n
        PROVE  g[i] + Window <= now /\ g[i] = f[i] /\ i \in 1 .. Len(f)
    <2>1. i \in 1 .. Len(f)
      BY <1>1
    <2>2. f[i] + Window <= now
      BY DEF Batched
    <2> QED
      BY <1>1, <2>1, <2>2
  <1>6. ASSUME NEW i \in 1 .. Len(f) - n, NEW j \in Len(f) - n + 1 .. Len(g)
        PROVE  g[i] + Window <= g[j]
    <2>1. CASE j = Len(g)
      BY <1>1, <1>5, <2>1
    <2>2. CASE j # Len(g)
      <3>1. n <= Len(f)
        BY DEF Batched
      <3>2. j \in 1 .. Len(f) /\ j \in Len(f) - n + 1 .. Len(f)
        BY <1>1, <2>2, <3>1
      <3>3. f[i] + Window <= f[j]
        BY <3>2 DEF Batched
      <3> QED
        BY <1>1, <1>5, <3>2, <3>3
    <2> QED
      BY <2>1, <2>2
  <1>7. Batched(g, n + 1, now, now)
    BY <1>2, <1>4, <1>5, <1>6 DEF Batched
  <1> QED
    BY <1>1, <1>7 DEF g

LEMMA ElementIn ==
  ASSUME NEW S, NEW f \in Seq(S), NEW i \in 1 .. Len(f)
  PROVE  f[i] \in S
  OBVIOUS

InWindow(f, t) == {i \in DOMAIN f : f[i] \in LastWindow(t)}

LEMMA InWindowFinite ==
  ASSUME NEW f \in Seq(Times), NEW t \in Times
  PROVE  /\ IsFiniteSet(InWindow(f, t)) /\ Cardinality(InWindow(f, t)) \in Nat
         /\ InWindow(f, t) \subseteq 1 .. Len(f)
  <1>1. InWindow(f, t) \subseteq 1 .. Len(f)
    BY DEF InWindow
  <1>2. IsFiniteSet(1 .. Len(f))
    BY FS_Interval
  <1> QED
    BY <1>1, <1>2, FS_Subset, FS_CardinalityType

LEMMA LastOnes ==
  ASSUME NEW k \in Nat, NEW n \in Nat
  PROVE  IsFiniteSet(k - n .. k) /\ Cardinality(k - n .. k) = n + 1
  <1> DEFINE a == k - n
  <1>1. a \in Int /\ k \in Int /\ a <= k /\ k - a + 1 = n + 1
    OBVIOUS
  <1> HIDE DEF a
  <1>2. IsFiniteSet(a .. k) /\ Cardinality(a .. k) = k - a + 1
    BY <1>1, FS_Interval
  <1> QED
    BY <1>1, <1>2 DEF a

\* One more failure: the window it is in holds nothing but its batch.
LEMMA WindowGrows ==
  ASSUME NEW f \in Seq(Times), NEW n \in Nat, NEW now \in Times, NEW t \in Times,
         Batched(f, n, now, now), n < Limit, Cardinality(InWindow(f, t)) <= Limit
  PROVE  Cardinality(InWindow(Append(f, now), t)) <= Limit
  <1> USE LimitAssumption, BoundAssumption
  <1> DEFINE g == Append(f, now)
  <1>1. g \in Seq(Times) /\ Len(g) = Len(f) + 1 /\ g[Len(g)] = now
        /\ Len(f) \in Nat /\ \A i \in 1 .. Len(f) : g[i] = f[i] /\ f[i] \in Times
    OBVIOUS
  <1> HIDE DEF g
  <1>2. CASE now \notin LastWindow(t)
    <2>1. InWindow(g, t) = InWindow(f, t)
      <3>1. DOMAIN f = 1 .. Len(f) /\ DOMAIN g = 1 .. Len(g)
        BY <1>1
      <3>2. \A i \in 1 .. Len(g) : i \in 1 .. Len(f) \/ i = Len(g)
        BY <1>1
      <3>3. 1 .. Len(f) \subseteq 1 .. Len(g)
        BY <1>1
      <3> QED
        BY <1>1, <1>2, <3>1, <3>2, <3>3 DEF InWindow
    <2> QED
      BY <2>1 DEF g
  <1>3. CASE now \in LastWindow(t)
    <2> DEFINE B == Len(g) - n .. Len(g)
    <2>1. InWindow(g, t) \subseteq B
      <3> SUFFICES ASSUME NEW i \in 1 .. Len(g), g[i] \in LastWindow(t), i < Len(g) - n
                   PROVE  FALSE
        <4>1. DOMAIN g = 1 .. Len(g) /\ Len(g) \in Nat
          BY <1>1
        <4>2. InWindow(g, t) = {i \in 1 .. Len(g) : g[i] \in LastWindow(t)}
          BY <4>1 DEF InWindow
        <4>3. \A i \in 1 .. Len(g) : ~(i < Len(g) - n) => i \in B
          BY <4>1
        <4> HIDE DEF B
        <4> QED
          BY <4>2, <4>3
      <3>1. i \in 1 .. Len(f) - n
        BY <1>1
      <3>2. f[i] = g[i] /\ f[i] \in Times
        <4>1. i \in 1 .. Len(f)
          BY <1>1, <3>1
        <4> QED
          BY <1>1, <4>1
      <3>3. f[i] + Window <= now
        BY <3>1 DEF Batched
      <3> QED
        BY <1>3, <3>2, <3>3 DEF LastWindow
    <2>2. IsFiniteSet(B) /\ Cardinality(B) = n + 1
      <3>1. Len(g) \in Nat
        BY <1>1
      <3> QED
        BY <3>1, LastOnes
    <2>3. Cardinality(InWindow(g, t)) <= n + 1
      BY <2>1, <2>2, FS_Subset
    <2>4. Cardinality(InWindow(g, t)) \in Nat
      BY <1>1, InWindowFinite
    <2> QED
      BY <2>3, <2>4 DEF g
  <1> QED
    BY <1>2, <1>3

-----------------------------------------------------------------------------
(* The steps of basicAuth *)

LEMMA AuthInitInv == Init => AuthInv
  <1> SUFFICES ASSUME Init PROVE AuthInv
    OBVIOUS
  <1>1. TypeOK /\ HeldInv
    BY InitType
  <1>2. ApartInv /\ OwnerInv
    BY DEF Init, ApartInv, OwnerInv
  <1>3. ClientInv
    BY DEF Init, ClientInv, ClientOf, Marked
  <1>4. LoginInv
    BY DEF Init, LoginInv, LoginOf, LoginAt, NoRequest
  <1>5. TenBetweenLogins
    <2> SUFFICES ASSUME NEW c \in Clients, NEW t \in Times
                 PROVE  InTimes(sinceLogin[c], LastWindow(t)) <= Limit
      BY DEF TenBetweenLogins
    <2>1. InTimes(sinceLogin[c], LastWindow(t)) = Cardinality({})
      BY DEF Init, InTimes
    <2> QED
      BY <2>1, FS_EmptySet, LimitAssumption
  <1> QED
    BY <1>1, <1>2, <1>3, <1>4, <1>5 DEF AuthInv

\* A step for client c: what is left to show is what it does to c.
LEMMA Elsewhere ==
  ASSUME AuthInv, NEW r \in Slots, Handle(r), NEW c \in Clients,
         pc[r] # "idle" => Ours(r) = c, pc[r] = "idle" => Ours(r)' = c,
         ClientOf(c)', LoginOf(r)',
         \A q \in Slots \ {r} : pc[q] # "idle" /\ Ours(q) = c => LoginOf(q)',
         \A t \in Times : Cardinality(InWindow(sinceLogin'[c], t)) <= Limit
  PROVE  AuthInv'
  <1> USE DEF AuthInv
  <1>a. TypeOK' /\ HeldInv' /\ ApartInv' /\ OwnerInv'
    BY HandleType, OwnerHandle
  <1>b. clock' = clock /\ \A q \in Slots \ {r} : Unmoved(q) /\ Ours(q)' = Ours(q)
    BY OthersUnmoved DEF Unmoved, Ours
  <1>c. ASSUME NEW d \in Clients, d # c
        PROVE  /\ loginAttempts'[d] = loginAttempts[d] /\ sinceLogin'[d] = sinceLogin[d]
               /\ loginAttempts[d] # Nil => Entry(d)' = Entry(d)
               /\ \A q \in Slots : Ours(q) = d /\ held[q] # Nil
                                     => heap'[held[q]] = heap[held[q]]
    <2>1. CASE pc[r] # "idle"
      BY <1>c, <2>1, Frame
    <2>2. CASE pc[r] = "idle"
      <3>1. UNCHANGED <<loginAttempts, sinceLogin, heap>>
        BY <2>2 DEF Handle, Arrive, LoadOrStore, Refuse, CheckCount, ResetCount, Touch,
                    Verify, ReadCount, WriteCount, DeleteEntry, Moves
      <3> QED
        BY <3>1 DEF Entry
    <2> QED
      BY <2>1, <2>2
  <1>1. ClientInv'
    <2> SUFFICES ASSUME NEW d \in Clients, d # c PROVE ClientOf(d)'
      BY DEF ClientInv
    <2>1. ClientOf(d)
      BY DEF ClientInv
    <2>2. Serving(d) => Serving(d)'
      <3> SUFFICES ASSUME NEW q \in Slots, pc[q] \notin {"idle", "load", "check"}, Ours(q) = d
                   PROVE  Serving(d)'
        BY DEF Serving
      <3>1. q # r
        OBVIOUS
      <3> QED
        BY <1>b, <3>1 DEF Serving, Unmoved
    <2> QED
      BY <1>b, <1>c, <2>1, <2>2 DEF ClientOf, Marked, Counted
  <1>2. LoginInv'
    <2> SUFFICES ASSUME NEW q \in Slots, q # r PROVE LoginOf(q)'
      BY DEF LoginInv
    <2>1. Unmoved(q) /\ Ours(q)' = Ours(q) /\ LoginOf(q)
      BY <1>b DEF LoginInv
    <2>2. CASE pc[q] = "idle"
      <3>1. pc'[q] = "idle" /\ held'[q] = Nil
        BY <2>1, <2>2 DEF OwnerInv, Unmoved
      <3> QED
        BY <3>1 DEF LoginOf, LoginAt, RightAt
    <2>3. CASE pc[q] # "idle" /\ Ours(q) # c
      <3> PICK d \in Clients : d = Ours(q)
        BY DEF TypeOK, Request, Ours
      <3>1. /\ loginAttempts'[d] = loginAttempts[d] /\ sinceLogin'[d] = sinceLogin[d]
            /\ loginAttempts[d] # Nil => Entry(d)' = Entry(d)
            /\ held[q] # Nil => heap'[held[q]] = heap[held[q]]
        BY <1>c, <2>3
      <3>2. pc[q] \notin {"idle", "load"} => held[q] # Nil
        BY NilAssumption DEF HeldInv
      <3>3. req[q].right => LoginOf(q)'
        BY <1>b, <2>1, <2>3, <3>1, <3>2 DEF LoginOf, RightAt, Unmoved
      <3>4. ~req[q].right => LoginOf(q)'
        <4> SUFFICES ASSUME ~req[q].right PROVE LoginOf(q)'
          OBVIOUS
        <4>1. pc[q] # "load" => loginAttempts[d] # Nil
          BY <2>1, <2>3, <3>2 DEF LoginOf
        <4>2. LoginAt(q, pc[q], d, Entry(d), req[q].now)
          BY <2>1 DEF LoginOf
        <4>3. LoginAt(q, pc[q], d, Entry(d), req[q].now)'
          BY <2>1, <3>1, <4>1, <4>2 DEF LoginAt, Counted, Unmoved
        <4> QED
          BY <1>b, <2>1, <2>3, <3>1, <4>3 DEF LoginOf, Unmoved
      <3> QED
        BY <3>3, <3>4
    <2> QED
      BY <2>2, <2>3
  <1>3. TenBetweenLogins'
    BY <1>c DEF TenBetweenLogins, InTimes, InWindow, LastWindow
  <1> QED
    BY <1>a, <1>1, <1>2, <1>3

LEMMA Windows ==
  ASSUME AuthInv, NEW c \in Clients, NEW t \in Times
  PROVE  Cardinality(InWindow(sinceLogin[c], t)) <= Limit
  BY DEF AuthInv, TenBetweenLogins, InTimes, InWindow

LEMMA NoWindows ==
  ASSUME NEW t \in Times
  PROVE  Cardinality(InWindow(<< >>, t)) <= Limit
  <1>1. InWindow(<< >>, t) = {}
    BY DEF InWindow
  <1> QED
    BY <1>1, FS_EmptySet, LimitAssumption

LEMMA Own ==
  ASSUME AuthInv, NEW r \in Slots
  PROVE  /\ Ours(r) \in Clients /\ req[r].now \in Times /\ sinceLogin[Ours(r)] \in Seq(Times)
         /\ LoginOf(r) /\ ClientOf(Ours(r))
         /\ pc[r] \notin {"idle", "load"} =>
               held[r] \in Attempts /\ held[r] # Nil /\ heap[held[r]] \in Attempt
         /\ pc[r] \in {"idle", "load"} => held[r] = Nil
  BY NilAssumption DEF AuthInv, TypeOK, Request, Ours, LoginInv, ClientInv, HeldInv, OwnerInv

\* A request that is answered leaves nothing to say about it.
LEMMA GoneLogin ==
  ASSUME TypeOK, NEW r \in Slots, Leaves(r)
  PROVE  LoginOf(r)' /\ pc'[r] = "idle"
  <1>1. pc'[r] = "idle" /\ req'[r] = NoRequest
    BY DEF Leaves, TypeOK
  <1> QED
    BY <1>1 DEF LoginOf, LoginAt, NoRequest

\* Requests with the right credentials, any number of them together.
LEMMA RightInv ==
  ASSUME Alone, AuthInv, NEW r \in Slots, Handle(r), pc[r] # "idle", req[r].right
  PROVE  AuthInv'
  <1> PICK c \in Clients : c = Ours(r)
    BY Own
  <1> PICK now \in Times : now = req[r].now
    BY Own
  <1>a. TypeOK /\ HeldInv /\ TypeOK' /\ HeldInv' /\ clock' = clock
        /\ \A q \in Slots \ {r} : Unmoved(q)
    BY HandleType, OthersUnmoved DEF AuthInv
  <1>b. /\ RightAt(r, pc[r], c, now) /\ now <= clock /\ ClientOf(c)
        /\ pc[r] # "load" => held[r] \in Attempts /\ held[r] # Nil /\ heap[held[r]] \in Attempt
    BY Own DEF LoginOf
  <1>c. ASSUME NEW q \in Slots \ {r}, pc[q] # "idle", Ours(q) = c
        PROVE  /\ req[q].right /\ req[q].now <= clock /\ RightAt(q, pc[q], c, req[q].now)
               /\ Unmoved(q) /\ held[q] \in Attempts \cup {Nil}
    BY <1>a, <1>c, Own DEF Alone, Ours, LoginOf
  <1>d. /\ loginAttempts[c] # Nil => loginAttempts[c] \in Attempts /\ Entry(c) \in Attempt
        /\ heap \in [Attempts -> Attempt]
    BY <1>a DEF TypeOK, Entry
  \* What is left for each action.
  <1>e. ASSUME sinceLogin'[c] \in {sinceLogin[c], << >>}, ClientOf(c)', LoginOf(r)',
               \A q \in Slots \ {r} : pc[q] # "idle" /\ Ours(q) = c =>
                   /\ held[q] # Nil /\ held[q] # loginAttempts'[c] =>
                         /\ heap'[held[q]].Count < Limit
                         /\ loginAttempts'[c] # Nil => Entry(c)'.Count < Limit
                   /\ held[q] # Nil /\ heap[held[q]].Count < Limit
                         => heap'[held[q]].Count < Limit
        PROVE  AuthInv'
    <2>1. ASSUME NEW q \in Slots \ {r}, pc[q] # "idle", Ours(q) = c
          PROVE  LoginOf(q)'
      <3>1. pc'[q] = pc[q] /\ req'[q] = req[q] /\ held'[q] = held[q] /\ Ours(q)' = c
        BY <1>c, <2>1 DEF Unmoved, Ours
      <3>2. pc[q] \in {"touch", "verify", "delete"} => held[q] # Nil
        BY <1>a, NilAssumption DEF HeldInv
      <3>3. \A i \in 1 .. Len(sinceLogin'[c]) : sinceLogin'[c][i] <= req[q].now
        BY <1>c, <1>e, <2>1 DEF RightAt
      <3>4. RightAt(q, pc[q], c, req[q].now)'
        BY <1>c, <1>e, <2>1, <3>1, <3>2, <3>3 DEF RightAt
      <3> QED
        BY <1>a, <1>c, <2>1, <3>1, <3>4 DEF LoginOf
    <2>2. \A t \in Times : Cardinality(InWindow(sinceLogin'[c], t)) <= Limit
      BY <1>e, Windows, NoWindows
    <2> QED
      BY <1>e, <2>1, <2>2, Elsewhere
  <1>1. CASE LoadOrStore(r)
    <2>1. /\ pc[r] = "load" /\ UNCHANGED <<clock, req, sinceLogin>> /\ pc'[r] = "check"
          /\ Ours(r)' = c
      BY <1>1, <1>a DEF LoadOrStore, Moves, TypeOK, Ours
    <2>2. Serving(c) => Serving(c)'
      BY <1>a, <2>1 DEF Serving, Unmoved, Ours
    <2>3. CASE loginAttempts[c] # Nil
      <3>1. UNCHANGED <<loginAttempts, heap>> /\ held'[r] = loginAttempts[c]
        BY <1>1, <1>a, <2>3 DEF LoadOrStore, Ours, TypeOK
      <3>2. ClientOf(c)'
        BY <1>b, <2>1, <2>2, <3>1 DEF ClientOf, Marked, Counted, Entry
      <3>3. LoginOf(r)'
        BY <1>b, <2>1, <3>1 DEF LoginOf, RightAt
      <3> QED
        BY <1>c, <1>e, <2>1, <3>1, <3>2, <3>3 DEF RightAt, Entry
    <2>4. CASE loginAttempts[c] = Nil
      <3>1. PICK o \in Attempts \ Live :
               /\ heap' = [heap EXCEPT ![o] = [Count |-> 0, Last |-> now]]
               /\ loginAttempts' = [loginAttempts EXCEPT ![c] = o]
               /\ held' = [held EXCEPT ![r] = o]
        BY <1>1, <2>4 DEF LoadOrStore, Ours
      <3>2. /\ held'[r] = o /\ loginAttempts'[c] = o /\ heap'[o].Count = 0
            /\ heap'[o].Last = now /\ o # Nil /\ \A q \in Slots : held[q] # o
            /\ \A x \in Attempts : x # o => heap'[x] = heap[x]
        BY <1>a, <3>1, NilAssumption DEF TypeOK, Live
      <3>3. sinceLogin'[c] = << >>
        BY <1>b, <2>1, <2>4 DEF ClientOf, Marked
      <3>4. ClientOf(c)'
        <4>1. Batched(<< >>, 0, now, now)
          BY LimitAssumption DEF Batched
        <4> QED
          BY <1>b, <2>1, <3>2, <3>3, <4>1, LimitAssumption
             DEF ClientOf, Marked, Counted, Entry
      <3>5. LoginOf(r)'
        BY <1>b, <2>1, <3>2, <3>3 DEF LoginOf, RightAt
      <3> QED
        BY <1>c, <1>e, <2>1, <2>4, <3>2, <3>3, <3>4, <3>5, LimitAssumption DEF RightAt, Entry
    <2> QED
      BY <2>3, <2>4
  <1>2. CASE Refuse(r)
    <2>1. /\ pc[r] = "check" /\ Leaves(r) /\ UNCHANGED <<clock, loginAttempts, heap, sinceLogin>>
      BY <1>2 DEF Refuse
    <2>2. LoginOf(r)'
      BY <1>a, <2>1, GoneLogin
    <2>3. Serving(c) => Serving(c)'
      BY <1>a, <2>1 DEF Serving, Unmoved, Ours
    <2>4. ClientOf(c)'
      BY <1>b, <2>1, <2>3 DEF ClientOf, Marked, Counted, Entry
    <2> QED
      BY <1>c, <1>e, <2>1, <2>2, <2>4 DEF RightAt, Entry
  <1>3. CASE CheckCount(r)
    <2>1. /\ pc[r] = "check"
          /\ UNCHANGED <<clock, loginAttempts, heap, req, held, read, sinceLogin>>
          /\ pc'[r] = IF heap[held[r]].Count >= Limit THEN "reset" ELSE "touch"
          /\ Ours(r)' = c
      BY <1>3, <1>a DEF CheckCount, Moves, TypeOK, Ours
    <2>2. Serving(c)'
      BY <2>1 DEF Serving
    <2>3. ClientOf(c)'
      BY <1>b, <2>1, <2>2 DEF ClientOf, Marked, Entry
    <2>4. heap[held[r]].Count \in Nat
      BY <1>b, <2>1 DEF Attempt
    <2>5. pc'[r] = "reset" \/ (pc'[r] = "touch" /\ heap[held[r]].Count < Limit)
      BY <2>1, <2>4, LimitAssumption
    <2>6. RightAt(r, pc[r], c, now)'
      BY <1>b, <2>1, <2>5 DEF RightAt, Entry
    <2>7. LoginOf(r)'
      BY <1>b, <2>1, <2>6 DEF LoginOf
    <2> QED
      BY <1>c, <1>e, <2>1, <2>3, <2>7 DEF RightAt, Entry
  <1>4. CASE ResetCount(r)
    <2>1. /\ pc[r] = "reset" /\ UNCHANGED <<clock, loginAttempts, req, held, read, sinceLogin>>
          /\ pc'[r] = "touch" /\ Ours(r)' = c /\ heap' = [heap EXCEPT ![held[r]].Count = 0]
      BY <1>4, <1>a DEF ResetCount, Moves, TypeOK, Ours
    <2>2. Serving(c)'
      BY <2>1 DEF Serving
    <2>3. /\ heap'[held[r]].Count = 0
          /\ \A x \in Attempts : x # held[r] => heap'[x] = heap[x]
      BY <1>b, <1>d, <2>1 DEF Attempt
    <2>4. \A x \in Attempts : heap'[x].Count = 0 \/ heap'[x] = heap[x]
      BY <2>3
    <2>5. ClientOf(c)'
      BY <1>b, <1>d, <2>1, <2>2, <2>4, LimitAssumption DEF ClientOf, Marked, Entry
    <2>6. RightAt(r, pc[r], c, now)'
      BY <1>b, <1>d, <2>1, <2>3, <2>4, LimitAssumption DEF RightAt, Entry
    <2>7. LoginOf(r)'
      BY <1>b, <2>1, <2>6 DEF LoginOf
    <2>8. loginAttempts[c] # Nil /\ Entry(c).Count < Limit => Entry(c)'.Count < Limit
      BY <1>d, <2>1, <2>4, LimitAssumption DEF Entry
    <2> QED
      BY <1>c, <1>e, <2>1, <2>4, <2>5, <2>7, <2>8, LimitAssumption DEF RightAt
  <1>5. CASE Touch(r)
    <2>1. /\ pc[r] = "touch" /\ UNCHANGED <<clock, loginAttempts, req, held, read, sinceLogin>>
          /\ pc'[r] = "verify" /\ Ours(r)' = c /\ heap' = [heap EXCEPT ![held[r]].Last = now]
      BY <1>5, <1>a DEF Touch, Moves, TypeOK, Ours
    <2>2. Serving(c)'
      BY <2>1 DEF Serving
    <2>3. /\ heap[held[r]].Count < Limit /\ heap[held[r]].Count \in Nat
          /\ \A x \in Attempts : heap'[x].Count = heap[x].Count
          /\ \A x \in Attempts : x # held[r] => heap'[x] = heap[x]
      BY <1>b, <1>d, <2>1 DEF Attempt, RightAt
    <2>4. ClientOf(c)'
      <3>1. CASE loginAttempts[c] = held[r]
        <4>1. ~(Entry(c)'.Count >= Limit)
          BY <1>b, <2>1, <2>3, <3>1, LimitAssumption DEF Entry
        <4> QED
          BY <1>b, <2>1, <2>2, <4>1 DEF ClientOf, Marked, Entry
      <3>2. CASE loginAttempts[c] # held[r]
        BY <1>b, <1>d, <2>1, <2>2, <2>3, <3>2 DEF ClientOf, Marked, Entry
      <3> QED
        BY <3>1, <3>2
    <2>5. RightAt(r, pc[r], c, now)'
      BY <1>b, <1>d, <2>1, <2>3 DEF RightAt, Entry
    <2>6. LoginOf(r)'
      BY <1>b, <2>1, <2>5 DEF LoginOf
    <2>7. loginAttempts[c] # Nil => Entry(c)'.Count = Entry(c).Count
      BY <1>d, <2>1, <2>3 DEF Entry
    <2> QED
      BY <1>c, <1>e, <2>1, <2>3, <2>4, <2>6, <2>7 DEF RightAt
  <1>6. CASE Verify(r)
    <2>1. /\ pc[r] = "verify"
          /\ UNCHANGED <<clock, loginAttempts, heap, req, held, read, sinceLogin>>
          /\ pc'[r] = "delete" /\ Ours(r)' = c
      BY <1>6, <1>a DEF Verify, Moves, TypeOK, Ours
    <2>2. Serving(c)'
      BY <2>1 DEF Serving
    <2>3. ClientOf(c)'
      BY <1>b, <2>1, <2>2 DEF ClientOf, Marked, Entry
    <2>4. RightAt(r, pc[r], c, now)'
      BY <1>b, <2>1 DEF RightAt, Entry
    <2>5. LoginOf(r)'
      BY <1>b, <2>1, <2>4 DEF LoginOf
    <2> QED
      BY <1>c, <1>e, <2>1, <2>3, <2>5 DEF RightAt, Entry
  <1>7. CASE ReadCount(r) \/ WriteCount(r)
    BY <1>7, <1>b DEF ReadCount, WriteCount, Moves, RightAt
  <1>8. CASE DeleteEntry(r)
    <2>1. /\ pc[r] = "delete" /\ Leaves(r) /\ UNCHANGED <<clock, heap>>
          /\ loginAttempts'[c] = Nil /\ sinceLogin'[c] = << >>
      BY <1>8, <1>a DEF DeleteEntry, Ours, TypeOK
    <2>2. LoginOf(r)'
      BY <1>a, <2>1, GoneLogin
    <2>3. ClientOf(c)'
      BY <2>1 DEF ClientOf, Marked
    <2>4. loginAttempts[c] # Nil => Entry(c).Count < Limit
      <3>1. CASE held[r] = loginAttempts[c]
        BY <1>b, <2>1, <3>1 DEF RightAt, Entry
      <3>2. CASE held[r] # loginAttempts[c]
        BY <1>b, <2>1, <3>2 DEF RightAt
      <3> QED
        BY <3>1, <3>2
    <2>5. ASSUME NEW q \in Slots \ {r}, pc[q] # "idle", Ours(q) = c, held[q] # Nil
          PROVE  heap[held[q]].Count < Limit
      <3>1. CASE held[q] = loginAttempts[c]
        BY <2>4, <2>5, <3>1 DEF Entry
      <3>2. CASE held[q] # loginAttempts[c]
        BY <1>c, <2>5, <3>2 DEF RightAt
      <3> QED
        BY <3>1, <3>2
    <2> QED
      BY <1>e, <2>1, <2>2, <2>3, <2>5
  <1>9. ~ \E d \in Clients, right \in BOOLEAN : Arrive(r, d, right)
    BY DEF Arrive, Moves
  <1> QED
    BY <1>1, <1>2, <1>3, <1>4, <1>5, <1>6, <1>7, <1>8, <1>9 DEF Handle

LEMMA ArriveInv ==
  ASSUME Alone, Alone', AuthInv, NEW r \in Slots, NEW c \in Clients, NEW right \in BOOLEAN,
         Arrive(r, c, right)
  PROVE  AuthInv'
  <1>1. Handle(r)
    BY DEF Handle
  <1>a. TypeOK /\ OwnerInv /\ clock \in Times /\ \A q \in Slots \ {r} : Unmoved(q)
    BY <1>1, OthersUnmoved DEF AuthInv, TypeOK
  <1>2. /\ UNCHANGED <<clock, loginAttempts, heap, held, read, sinceLogin>>
        /\ pc[r] = "idle" /\ pc'[r] = "load" /\ Ours(r)' = c
        /\ req'[r].now = clock /\ req'[r].right = right
    BY <1>a DEF Arrive, Moves, TypeOK, Ours
  <1>3. ClientOf(c)
    BY DEF AuthInv, ClientInv
  <1>4. Serving(c) => Serving(c)'
    BY <1>a, <1>2 DEF Serving, Unmoved, Ours
  <1>5. ClientOf(c)'
    BY <1>2, <1>3, <1>4 DEF ClientOf, Marked, Counted, Entry
  <1>6. held'[r] = Nil
    BY <1>a, <1>2 DEF OwnerInv
  <1>7. ~right /\ loginAttempts[c] # Nil => Entry(c).Last <= clock
    <2> SUFFICES ASSUME ~right PROVE ~Serving(c)
      BY <1>3 DEF ClientOf
    <2> SUFFICES ASSUME NEW q \in Slots, pc[q] # "idle", Ours(q) = c PROVE FALSE
      BY DEF Serving
    <2>1. q # r /\ pc'[q] # "idle" /\ Ours(q)' = c
      BY <1>a, <1>2 DEF Unmoved, Ours
    <2> QED
      BY <1>2, <2>1 DEF Alone, Ours
  <1>8. LoginOf(r)'
    <2>1. clock <= clock
      BY <1>a
    <2>2. right => RightAt(r, pc[r], c, clock)'
      BY <1>2, <1>3, <1>6 DEF RightAt, ClientOf, Marked
    <2>3. ~right => LoginAt(r, pc[r], c, Entry(c), clock)'
      BY <1>2, <1>7 DEF LoginAt, Entry
    <2> QED
      BY <1>2, <2>1, <2>2, <2>3 DEF LoginOf
  <1>9. ASSUME NEW q \in Slots \ {r}, pc[q] # "idle", Ours(q) = c PROVE LoginOf(q)'
    <2>1. Unmoved(q) /\ Ours(q)' = c
      BY <1>a, <1>9 DEF Unmoved, Ours
    <2>2. req[q].right
      BY <1>2, <1>9, <2>1 DEF Alone, Ours, Unmoved
    <2>3. LoginOf(q)
      BY Own
    <2> QED
      BY <1>2, <1>9, <2>1, <2>2, <2>3 DEF LoginOf, RightAt, Entry, Unmoved
  <1>10. \A t \in Times : Cardinality(InWindow(sinceLogin'[c], t)) <= Limit
    BY <1>2, Windows
  <1> QED
    BY <1>1, <1>2, <1>5, <1>8, <1>9, <1>10, Elsewhere

\* A request that will fail.
LEMMA FailInv ==
  ASSUME Alone, AuthInv, NEW r \in Slots, Handle(r), pc[r] # "idle", ~req[r].right
  PROVE  AuthInv'
  <1> PICK c \in Clients : c = Ours(r)
    BY Own
  <1> PICK now \in Times : now = req[r].now
    BY Own
  <1> DEFINE e == Entry(c)
  <1>a. TypeOK /\ HeldInv /\ TypeOK' /\ HeldInv' /\ clock' = clock
        /\ \A q \in Slots \ {r} : Unmoved(q)
    BY HandleType, OthersUnmoved DEF AuthInv
  <1>b. /\ LoginAt(r, pc[r], c, e, now) /\ now <= clock /\ ClientOf(c) /\ pc[r] # "delete"
        /\ sinceLogin[c] \in Seq(Times) /\ clock \in Times
        /\ pc[r] # "load" =>
              /\ held[r] \in Attempts /\ held[r] # Nil /\ held[r] = loginAttempts[c]
              /\ heap[held[r]] = e /\ e \in Attempt /\ e.Count \in Nat /\ e.Last \in Times
    BY <1>a, Own DEF LoginOf, Entry, Attempt, TypeOK
  <1>c. \A q \in Slots \ {r} : pc[q] = "idle" \/ Ours(q) # c
    BY DEF Alone, Ours
  <1>d. \A t \in Times : Cardinality(InWindow(sinceLogin[c], t)) <= Limit
    BY Windows
  <1>s. ~Serving(c) \/ pc[r] \notin {"idle", "load", "check"}
    BY <1>c DEF Serving
  \* A step that leaves the request at work past the test.
  <1>e. ASSUME UNCHANGED <<clock, loginAttempts, held, req>>,
               pc'[r] \notin {"idle", "load", "check", "delete"}, pc[r] # "load",
               Marked(c)', LoginAt(r, pc[r], c, Entry(c), now)',
               \A t \in Times : Cardinality(InWindow(sinceLogin'[c], t)) <= Limit
        PROVE  AuthInv'
    <2>1. Ours(r)' = c /\ Serving(c)'
      BY <1>e DEF Ours, Serving
    <2>2. LoginOf(r)'
      BY <1>b, <1>e, <2>1 DEF LoginOf
    <2> QED
      BY <1>c, <1>e, <2>1, <2>2, Elsewhere DEF ClientOf
  \* A step that answers it.
  <1>f. ASSUME Leaves(r), UNCHANGED <<clock, loginAttempts, sinceLogin>>, Marked(c)',
               pc[r] # "load", Counted(c)', Entry(c)'.Last <= clock
        PROVE  AuthInv'
    <2>1. LoginOf(r)'
      BY <1>a, <1>f, GoneLogin
    <2>2. ClientOf(c)'
      BY <1>f DEF ClientOf
    <2> QED
      BY <1>c, <1>d, <1>f, <2>1, <2>2, Elsewhere
  <1>1. CASE LoadOrStore(r)
    <2>1. /\ pc[r] = "load" /\ UNCHANGED <<clock, req, sinceLogin>> /\ pc'[r] = "check"
          /\ Ours(r)' = c
      BY <1>1, <1>a DEF LoadOrStore, Moves, TypeOK, Ours
    <2>2. ~Serving(c)
      BY <1>s, <2>1
    <2>3. CASE loginAttempts[c] # Nil
      <3>1. UNCHANGED <<loginAttempts, heap>> /\ held'[r] = loginAttempts[c]
        BY <1>1, <1>a, <2>3 DEF LoadOrStore, Ours, TypeOK
      <3>2. Entry(c)' = e /\ e.Last <= now /\ Counted(c) /\ e.Last <= clock /\ Marked(c)
        BY <1>b, <2>1, <2>2, <2>3, <3>1 DEF LoginAt, ClientOf, Entry
      <3>3. Counted(c)' /\ Marked(c)'
        BY <2>1, <3>1, <3>2 DEF Counted, Marked
      <3>4. ClientOf(c)'
        BY <2>1, <3>2, <3>3 DEF ClientOf
      <3>5. LoginOf(r)'
        BY <1>b, <2>1, <3>1, <3>2, <3>3 DEF LoginOf, LoginAt
      <3> QED
        BY <1>c, <1>d, <2>1, <3>4, <3>5, Elsewhere
    <2>4. CASE loginAttempts[c] = Nil
      <3>1. PICK o \in Attempts \ Live :
               /\ heap' = [heap EXCEPT ![o] = [Count |-> 0, Last |-> now]]
               /\ loginAttempts' = [loginAttempts EXCEPT ![c] = o]
               /\ held' = [held EXCEPT ![r] = o]
        BY <1>1, <2>4 DEF LoadOrStore, Ours
      <3>2. /\ held'[r] = o /\ loginAttempts'[c] = o /\ o # Nil
            /\ Entry(c)'.Count = 0 /\ Entry(c)'.Last = now
        BY <1>a, <3>1, NilAssumption DEF TypeOK, Entry
      <3>3. sinceLogin'[c] = << >>
        BY <1>b, <2>1, <2>4 DEF ClientOf, Marked
      <3>4. Counted(c)' /\ Marked(c)'
        <4>1. Batched(<< >>, 0, now, now)
          BY LimitAssumption DEF Batched
        <4> QED
          BY <3>2, <3>3, <4>1, LimitAssumption DEF Counted, Marked
      <3>5. ClientOf(c)'
        BY <1>b, <2>1, <3>2, <3>4 DEF ClientOf
      <3>6. now <= now
        BY BoundAssumption
      <3>7. LoginOf(r)'
        BY <1>b, <2>1, <3>2, <3>4, <3>6 DEF LoginOf, LoginAt
      <3> QED
        BY <1>c, <1>d, <2>1, <3>5, <3>7, Elsewhere
    <2> QED
      BY <2>3, <2>4
  <1>2. CASE Refuse(r)
    <2>1. pc[r] = "check" /\ Leaves(r) /\ UNCHANGED <<clock, loginAttempts, heap, sinceLogin>>
      BY <1>2 DEF Refuse
    <2>2. Counted(c) /\ e.Last <= now /\ Marked(c)
      BY <1>b, <2>1 DEF LoginAt, ClientOf
    <2>3. e.Last <= clock
      BY <1>b, <2>1, <2>2, BoundAssumption
    <2>4. Entry(c)' = e /\ Counted(c)' /\ Marked(c)'
      BY <2>1, <2>2 DEF Entry, Counted, Marked
    <2> QED
      BY <1>f, <2>1, <2>3, <2>4
  <1>3. CASE CheckCount(r)
    <2>1. /\ pc[r] = "check"
          /\ UNCHANGED <<clock, loginAttempts, heap, req, held, read, sinceLogin>>
          /\ pc'[r] = IF e.Count >= Limit THEN "reset" ELSE "touch"
          /\ ~LockedOut(e, now)
      BY <1>3, <1>a, <1>b DEF CheckCount, Moves, TypeOK
    <2>2. Counted(c) /\ e.Last <= now /\ Marked(c)
      BY <1>b, <2>1 DEF LoginAt, ClientOf
    <2>3. Entry(c)' = e /\ Counted(c)' /\ Marked(c)'
      BY <2>1, <2>2 DEF Entry, Counted, Marked
    <2>4. Batched(sinceLogin[c], e.Count, e.Last, now)
      BY <1>b, <2>1, <2>2, BatchLater DEF Counted
    <2>5. CASE e.Count >= Limit
      <3>1. e.Last + Window <= now
        BY <1>b, <2>1, <2>5, LimitAssumption DEF LockedOut
      <3>2. LoginAt(r, pc[r], c, Entry(c), now)'
        BY <2>1, <2>3, <2>5, <3>1 DEF LoginAt
      <3> QED
        BY <1>d, <1>e, <2>1, <2>3, <2>5, <3>2
    <2>6. CASE ~(e.Count >= Limit)
      <3>1. e.Count < Limit
        BY <1>b, <2>1, <2>6, LimitAssumption
      <3>2. pc'[r] = "touch"
        BY <2>1, <2>6
      <3>3. LoginAt(r, pc[r], c, Entry(c), now)'
        BY <2>1, <2>2, <2>3, <2>4, <3>1, <3>2 DEF LoginAt
      <3> QED
        BY <1>d, <1>e, <2>1, <2>3, <3>2, <3>3
    <2> QED
      BY <2>5, <2>6
  <1>4. CASE ResetCount(r)
    <2>1. /\ pc[r] = "reset" /\ UNCHANGED <<clock, loginAttempts, req, held, read, sinceLogin>>
          /\ pc'[r] = "touch" /\ heap' = [heap EXCEPT ![held[r]].Count = 0]
      BY <1>4, <1>a DEF ResetCount, Moves, TypeOK
    <2>2. Counted(c) /\ e.Last + Window <= now /\ Marked(c)
      BY <1>b, <2>1 DEF LoginAt, ClientOf
    <2>3. Entry(c)'.Count = 0 /\ Entry(c)'.Last = e.Last
      BY <1>a, <1>b, <2>1 DEF Entry, TypeOK, Attempt
    <2>4. Batched(sinceLogin[c], 0, e.Last, now)
      BY <1>b, <2>1, <2>2, BatchOver DEF Counted
    <2>5. e.Last <= now
      BY <1>b, <2>1, <2>2, LimitAssumption
    <2>6. Marked(c)'
      BY <2>1, <2>2, <2>3, LimitAssumption DEF Marked
    <2>7. LoginAt(r, pc[r], c, Entry(c), now)'
      BY <2>1, <2>3, <2>4, <2>5, LimitAssumption DEF LoginAt
    <2> QED
      BY <1>d, <1>e, <2>1, <2>6, <2>7
  <1>5. CASE Touch(r)
    <2>1. /\ pc[r] = "touch" /\ UNCHANGED <<clock, loginAttempts, req, held, read, sinceLogin>>
          /\ pc'[r] = "verify" /\ heap' = [heap EXCEPT ![held[r]].Last = now]
      BY <1>5, <1>a DEF Touch, Moves, TypeOK
    <2>2. /\ Batched(sinceLogin[c], e.Count, e.Last, now) /\ e.Last <= now /\ e.Count < Limit
          /\ Marked(c)
      BY <1>b, <2>1 DEF LoginAt, ClientOf
    <2>3. Entry(c)'.Count = e.Count /\ Entry(c)'.Last = now
      BY <1>a, <1>b, <2>1 DEF Entry, TypeOK, Attempt
    <2>4. Batched(sinceLogin[c], e.Count, now, now)
      BY <1>b, <2>1, <2>2, BatchLater
    <2>5. ~(Entry(c)'.Count >= Limit)
      BY <1>b, <2>1, <2>2, <2>3, LimitAssumption
    <2>6. Marked(c)'
      BY <2>1, <2>2, <2>5 DEF Marked
    <2>7. LoginAt(r, pc[r], c, Entry(c), now)'
      BY <2>1, <2>2, <2>3, <2>4 DEF LoginAt
    <2> QED
      BY <1>d, <1>e, <2>1, <2>6, <2>7
  <1>6. CASE Verify(r)
    <2>1. /\ pc[r] = "verify" /\ UNCHANGED <<clock, loginAttempts, heap, req, held, read>>
          /\ pc'[r] = "read" /\ sinceLogin'[c] = Append(sinceLogin[c], now)
      BY <1>6, <1>a DEF Verify, Moves, TypeOK, Ours
    <2>2. /\ Batched(sinceLogin[c], e.Count, now, now) /\ e.Last = now /\ e.Count < Limit
          /\ Marked(c) /\ e.Count \in Nat
      BY <1>b, <2>1 DEF LoginAt, ClientOf
    <2>3. Entry(c)' = e
      BY <2>1 DEF Entry
    <2>4. /\ Batched(sinceLogin'[c], e.Count + 1, now, now)
          /\ sinceLogin'[c][Len(sinceLogin'[c])] = now
      BY <1>b, <2>1, <2>2, BatchGrows
    <2> HIDE DEF e
    <2>5. \A t \in Times : Cardinality(InWindow(sinceLogin'[c], t)) <= Limit
      BY <1>b, <1>d, <2>1, <2>2, WindowGrows
    <2>6. \A i \in 1 .. Len(sinceLogin'[c]) : sinceLogin'[c][i] <= clock
      <3>1. \A i \in 1 .. Len(sinceLogin[c]) : sinceLogin[c][i] <= clock
        BY <2>2 DEF Marked
      <3>2. /\ Len(sinceLogin'[c]) = Len(sinceLogin[c]) + 1 /\ Len(sinceLogin[c]) \in Nat
            /\ \A i \in 1 .. Len(sinceLogin[c]) : sinceLogin'[c][i] = sinceLogin[c][i]
        BY <1>b, <2>1
      <3>3. \A i \in 1 .. Len(sinceLogin'[c]) :
               i \in 1 .. Len(sinceLogin[c]) \/ i = Len(sinceLogin'[c])
        BY <3>2
      <3> QED
        BY <1>b, <2>4, <3>1, <3>2, <3>3
    <2>7. ~(Entry(c)'.Count >= Limit) /\ loginAttempts'[c] # Nil
      BY <1>b, <2>1, <2>2, <2>3, LimitAssumption
    <2>8. Marked(c)'
      BY <2>1, <2>6, <2>7 DEF Marked
    <2>9. LoginAt(r, pc[r], c, Entry(c), now)'
      BY <2>1, <2>2, <2>3, <2>4 DEF LoginAt
    <2> QED
      BY <1>e, <2>1, <2>5, <2>8, <2>9
  <1>7. CASE ReadCount(r)
    <2>1. /\ pc[r] = "read" /\ UNCHANGED <<clock, loginAttempts, heap, req, held, sinceLogin>>
          /\ pc'[r] = "write" /\ read'[r] = e.Count
      BY <1>7, <1>a, <1>b DEF ReadCount, Moves, TypeOK
    <2>2. Entry(c)' = e /\ Marked(c)'
      BY <1>b, <2>1 DEF Entry, ClientOf, Marked
    <2>3. LoginAt(r, pc[r], c, Entry(c), now)'
      BY <1>b, <2>1, <2>2 DEF LoginAt
    <2> QED
      BY <1>d, <1>e, <2>1, <2>2, <2>3
  <1>8. CASE WriteCount(r)
    <2>1. /\ pc[r] = "write" /\ Leaves(r) /\ UNCHANGED <<clock, loginAttempts, sinceLogin>>
          /\ heap' = [heap EXCEPT ![held[r]].Count = read[r] + 1]
      BY <1>8 DEF WriteCount
    <2>2. /\ Batched(sinceLogin[c], e.Count + 1, now, now) /\ e.Last = now
          /\ sinceLogin[c][Len(sinceLogin[c])] = now /\ read[r] = e.Count /\ Marked(c)
      BY <1>b, <2>1 DEF LoginAt, ClientOf
    <2>3. Entry(c)'.Count = e.Count + 1 /\ Entry(c)'.Last = now
      BY <1>a, <1>b, <2>1, <2>2 DEF Entry, TypeOK, Attempt
    <2>4. Counted(c)'
      BY <2>1, <2>2, <2>3 DEF Counted
    <2>5. sinceLogin[c] # << >>
      BY <1>b, <2>1, <2>2 DEF Batched
    <2>6. Marked(c)'
      BY <1>b, <2>1, <2>2, <2>3, <2>5 DEF Marked
    <2> QED
      BY <1>b, <1>f, <2>1, <2>3, <2>4, <2>6
  <1>9. ~DeleteEntry(r) /\ ~ \E d \in Clients, right \in BOOLEAN : Arrive(r, d, right)
    BY <1>b DEF DeleteEntry, Arrive, Moves
  <1> QED
    BY <1>1, <1>2, <1>3, <1>4, <1>5, <1>6, <1>7, <1>8, <1>9 DEF Handle

LEMMA HandleInv ==
  ASSUME Alone, Alone', AuthInv, NEW r \in Slots, Handle(r)
  PROVE  AuthInv'
  <1>1. CASE pc[r] # "idle"
    BY <1>1, RightInv, FailInv
  <1>2. CASE pc[r] = "idle"
    BY <1>2, ArriveInv DEF Handle, LoadOrStore, Refuse, CheckCount, ResetCount, Touch, Verify,
                           ReadCount, WriteCount, DeleteEntry, Moves
  <1> QED
    BY <1>1, <1>2

LEMMA AuthNextInv == Alone /\ Alone' /\ AuthInv /\ [Next]_vars => AuthInv'
  <1> SUFFICES ASSUME Alone, Alone', AuthInv, [Next]_vars PROVE AuthInv'
    OBVIOUS
  <1>a. TypeOK' /\ HeldInv'
    BY NextType DEF AuthInv
  <1>1. CASE Tick
    <2>1. UNCHANGED <<loginAttempts, heap, pc, req, held, read, sinceLogin>>
      BY <1>1 DEF Tick
    <2>2. clock' = clock + 1 /\ clock \in Nat
      BY <1>1 DEF Tick, AuthInv, TypeOK
    <2>3. ClientInv'
      <3> SUFFICES ASSUME NEW c \in Clients PROVE ClientOf(c)'
        BY DEF ClientInv
      <3>1. /\ ClientOf(c) /\ sinceLogin[c] \in Seq(Times)
            /\ loginAttempts[c] # Nil => Entry(c).Last \in Times
        BY DEF AuthInv, ClientInv, TypeOK, Entry, Attempt
      <3>2. /\ Marked(c)' = /\ \A i \in 1 .. Len(sinceLogin[c]) : sinceLogin[c][i] <= clock'
                            /\ loginAttempts[c] = Nil => sinceLogin[c] = << >>
                            /\ loginAttempts[c] # Nil /\ Entry(c).Count >= Limit =>
                                  /\ sinceLogin[c] # << >>
                                  /\ sinceLogin[c][Len(sinceLogin[c])] = Entry(c).Last
            /\ Counted(c)' = Counted(c) /\ Serving(c)' = Serving(c) /\ Entry(c)' = Entry(c)
        BY <2>1 DEF Marked, Counted, Serving, Entry, Ours
      <3>3. \A i \in 1 .. Len(sinceLogin[c]) : sinceLogin[c][i] <= clock'
        <4> SUFFICES ASSUME NEW i \in 1 .. Len(sinceLogin[c])
                     PROVE  sinceLogin[c][i] <= clock'
          OBVIOUS
        <4>0. sinceLogin[c][i] <= clock
          BY <3>1 DEF ClientOf, Marked
        <4>1. sinceLogin[c][i] \in Times
          BY <3>1, ElementIn
        <4> DEFINE f == sinceLogin[c][i]
        <4> HIDE DEF f
        <4>2. f <= clock /\ f \in Times
          BY <4>0, <4>1 DEF f
        <4>3. f <= clock'
          BY <2>2, <4>2, BoundAssumption
        <4> QED
          BY <4>3 DEF f
      <3> QED
        BY <2>1, <2>2, <3>1, <3>2, <3>3 DEF ClientOf, Marked
    <2>4. ApartInv' /\ OwnerInv'
      BY <2>1 DEF AuthInv, ApartInv, OwnerInv, Ours
    <2>5. LoginInv'
      <3> SUFFICES ASSUME NEW r \in Slots PROVE LoginOf(r)'
        BY DEF LoginInv
      <3>1. req[r].now \in Times /\ LoginOf(r)
        BY Own
      <3>2. pc[r] # "idle" => req[r].now <= clock'
        BY <2>2, <3>1 DEF LoginOf
      <3> QED
        BY <2>1, <3>1, <3>2 DEF LoginOf, LoginAt, RightAt, Counted, Entry, Ours
    <2>6. TenBetweenLogins'
      BY <2>1 DEF AuthInv, TenBetweenLogins, InTimes, LastWindow
    <2> QED
      BY <1>a, <2>3, <2>4, <2>5, <2>6 DEF AuthInv
  <1>2. CASE UNCHANGED vars
    <2>1. UNCHANGED <<clock, loginAttempts, heap, pc, req, held, read, sinceLogin>>
      BY <1>2 DEF vars
    <2>2. ClientInv'
      BY <2>1 DEF AuthInv, ClientInv, ClientOf, Marked, Serving, Counted, Entry, Ours
    <2>3. LoginInv'
      BY <2>1 DEF AuthInv, LoginInv, LoginOf, LoginAt, RightAt, Counted, Entry, Ours
    <2>4. ApartInv' /\ OwnerInv' /\ TenBetweenLogins'
      BY <2>1 DEF AuthInv, ApartInv, OwnerInv, Ours, TenBetweenLogins, InTimes, LastWindow
    <2> QED
      BY <1>a, <2>2, <2>3, <2>4 DEF AuthInv
  <1> QED
    BY <1>1, <1>2, HandleInv DEF Next, Bounded

LEMMA RefusedByRefuse ==
  ASSUME TypeOK, [Next]_vars, NEW r \in Slots, Refused(r)
  PROVE  Refuse(r)
  <1>1. pc[r] = "check" /\ pc'[r] = "idle"
    BY DEF Refused
  <1>2. Handle(r)
    <2>1. ASSUME NEW q \in Slots, Handle(q), q # r PROVE FALSE
      BY <1>1, <2>1, OthersUnmoved DEF Unmoved
    <2> QED
      BY <1>1, <2>1 DEF Next, vars, Tick, Bounded
  <1> QED
    BY <1>1, <1>2 DEF Handle, Arrive, LoadOrStore, CheckCount, ResetCount, Touch, Verify,
                      ReadCount, WriteCount, DeleteEntry, Moves, TypeOK

LEMMA RefusedInWindow ==
  ASSUME AuthInv, [Next]_vars, NEW r \in Slots, Refused(r)
  PROVE  InTimes(sinceLogin[req[r].ip], LastWindow(req[r].now)) > 0
  <1> DEFINE c == Ours(r)  e == heap[held[r]]  now == req[r].now  f == sinceLogin[c]
  <1>1. Refuse(r)
    BY RefusedByRefuse DEF AuthInv
  <1>2. /\ f \in Seq(Times) /\ e.Count \in Nat /\ e.Last \in Times /\ now \in Times
        /\ pc[r] = "check" /\ held[r] # Nil /\ LoginOf(r) /\ ClientOf(c)
    BY <1>1, Own DEF Refuse, Attempt
  <1>3. e.Count >= Limit /\ now - e.Last < Window
    BY <1>1 DEF Refuse, LockedOut
  <1>4. held[r] = loginAttempts[c]
    BY <1>2, <1>3, LimitAssumption DEF LoginOf, RightAt
  <1>5. e = Entry(c) /\ f # << >> /\ f[Len(f)] = e.Last
    BY <1>2, <1>3, <1>4 DEF ClientOf, Marked, Entry
  <1>6. \A i \in 1 .. Len(f) : f[i] <= now \/ ~req[r].right
    BY <1>2 DEF LoginOf, RightAt
  <1>7. req[r].right \/ e.Last <= now
    BY <1>2, <1>5 DEF LoginOf, LoginAt
  <1> HIDE DEF c, e, now, f
  <1>8. Len(f) \in 1 .. Len(f)
    BY <1>2, <1>5
  <1>9. e.Last <= now
    BY <1>5, <1>6, <1>7, <1>8
  <1>10. e.Last \in LastWindow(now)
    BY <1>2, <1>3, <1>9, LimitAssumption DEF LastWindow
  <1>11. Len(f) \in InWindow(f, now)
    BY <1>2, <1>5, <1>8, <1>10 DEF InWindow
  <1>12. IsFiniteSet(InWindow(f, now)) /\ Cardinality(InWindow(f, now)) \in Nat
    BY <1>2, InWindowFinite
  <1>13. Cardinality(InWindow(f, now)) > 0
    BY <1>11, <1>12, FS_EmptySet
  <1> QED
    BY <1>13 DEF c, f, now, Ours, InTimes, InWindow

\* Between two logins of a client, no window has more than Limit of its failed logins,
\* across resets of the counter, whatever the number of clients and of requests in
\* flight, the limit and the window. Requests that succeed overlap as they like, those
\* of other clients too; a client's failing request has no other of that client about.
THEOREM AtMostTenBetweenLogins == Spec /\ []Alone => []TenBetweenLogins
  <1>1. AuthInv => TenBetweenLogins
    BY DEF AuthInv
  <1> QED
    BY AuthInitInv, AuthNextInv, <1>1, PTL DEF Spec

\* Under the same condition a refusal follows a failure of that client, since it last
\* got in, that is less than a window old.
THEOREM LocksEnd == Spec /\ []Alone => RefusalEnds
  <1>1. AuthInv /\ [Next]_vars =>
          [\A r \in Slots :
              Refused(r) => InTimes(sinceLogin[req[r].ip], LastWindow(req[r].now)) > 0]_vars
    BY RefusedInWindow
  <1> QED
    BY AuthInitInv, AuthNextInv, <1>1, PTL DEF Spec, RefusalEnds

-----------------------------------------------------------------------------
(* basicAuth, whatever logins overlap *)

\* Failed logins of client c that its entry has not counted yet.
Pending(c) ==
    {r \in Slots : pc[r] \in {"read", "write"} /\ held[r] = loginAttempts[c]}

InFlight == {r \in Slots : pc[r] # "idle"}

\* What is counted and what is still to be counted has failed since the last login;
\* so it has with what a request is about to write in place of the count.
Earned(c) ==
    loginAttempts[c] # Nil =>
        /\ Entry(c).Count + Cardinality(Pending(c)) <= Len(sinceLogin[c])
        /\ \A r \in Pending(c) :
              pc[r] = "write" => read[r] + Cardinality(Pending(c)) <= Len(sinceLogin[c])

EarnedInv == \A c \in Clients : Earned(c)

OverlapInv == /\ TypeOK /\ HeldInv
              /\ IsFiniteSet(InFlight) /\ ApartInv /\ OwnerInv /\ EarnedInv

LEMMA PendingFinite ==
  ASSUME OverlapInv, NEW c \in Clients
  PROVE  IsFiniteSet(Pending(c)) /\ Cardinality(Pending(c)) \in Nat
  <1>1. Pending(c) \subseteq InFlight
    BY DEF Pending, InFlight
  <1> QED
    BY <1>1, FS_Subset, FS_CardinalityType DEF OverlapInv

\* The entry of c goes on with the same requests, and counts no more than before.
LEMMA EarnedStays ==
  ASSUME OverlapInv, TypeOK', NEW c \in Clients, loginAttempts'[c] = loginAttempts[c],
         loginAttempts[c] # Nil => Entry(c).Count' <= Entry(c).Count,
         sinceLogin'[c] = sinceLogin[c], Pending(c)' = Pending(c),
         \A r \in Pending(c) : pc'[r] = "write" =>
             \/ pc[r] = "write" /\ read'[r] = read[r]
             \/ read'[r] = Entry(c).Count
  PROVE  Earned(c)'
  <1> SUFFICES ASSUME loginAttempts[c] # Nil PROVE Earned(c)'
    BY DEF Earned
  <1> DEFINE n == Cardinality(Pending(c))  f == Len(sinceLogin[c])
  <1>1. n \in Nat
    BY PendingFinite
  <1>2. f \in Nat
    BY DEF OverlapInv, TypeOK
  <1>3. Entry(c).Count \in Nat /\ Entry(c).Count' \in Nat
    BY DEF OverlapInv, TypeOK, Entry, Attempt
  <1>4. /\ Entry(c).Count + n <= f
        /\ \A r \in Pending(c) : pc[r] = "write" => read[r] + n <= f
    BY DEF OverlapInv, EarnedInv, Earned
  <1>5. Cardinality(Pending(c))' = n /\ Len(sinceLogin[c])' = f
    OBVIOUS
  <1>6. Entry(c).Count' + n <= f
    BY <1>1, <1>2, <1>3, <1>4
  <1>7. \A r \in Pending(c)' : pc'[r] = "write" => read'[r] + n <= f
    BY <1>4
  <1> HIDE DEF n, f
  <1> QED
    BY <1>5, <1>6, <1>7 DEF Earned

LEMMA InFlightFinite ==
  ASSUME OverlapInv, NEW r \in Slots, Handle(r)
  PROVE  IsFiniteSet(InFlight)'
  <1>1. \A q \in Slots \ {r} : pc'[q] = pc[q]
    BY OthersUnmoved DEF OverlapInv, Unmoved
  <1>2. InFlight' \subseteq InFlight \cup {r}
    BY <1>1 DEF InFlight
  <1>3. IsFiniteSet(InFlight \cup {r})
    BY FS_AddElement DEF OverlapInv
  <1> QED
    BY <1>2, <1>3, FS_Subset

LEMMA EarnedArrive ==
  ASSUME OverlapInv, TypeOK', NEW r \in Slots, NEW d \in Clients, NEW right \in BOOLEAN,
         Arrive(r, d, right), NEW c \in Clients
  PROVE  Earned(c)'
  <1>1. /\ loginAttempts' = loginAttempts /\ heap' = heap /\ sinceLogin' = sinceLogin
        /\ read' = read /\ held' = held
        /\ \A q \in Slots : pc'[q] = pc[q] \/ (pc[q] = "idle" /\ pc'[q] = "load")
    BY DEF Arrive, Moves, OverlapInv, TypeOK
  <1>2. Pending(c)' = Pending(c)
    BY <1>1 DEF Pending
  <1>3. loginAttempts[c] # Nil => Entry(c).Count' <= Entry(c).Count
    BY <1>1 DEF Entry, OverlapInv, TypeOK, Attempt
  <1>4. \A q \in Pending(c) : pc'[q] = "write" => pc[q] = "write" /\ read'[q] = read[q]
    BY <1>1 DEF Pending
  <1> QED
    BY <1>1, <1>2, <1>3, <1>4, EarnedStays

LEMMA EarnedLoad ==
  ASSUME OverlapInv, TypeOK', NEW r \in Slots, LoadOrStore(r), NEW c \in Clients
  PROVE  Earned(c)'
  <1>a. Ours(r) \in Clients
    BY DEF OverlapInv, TypeOK, Request, Ours
  <1>1. /\ sinceLogin' = sinceLogin /\ read' = read
        /\ pc[r] = "load" /\ pc'[r] = "check" /\ \A q \in Slots : q # r => pc'[q] = pc[q]
    BY DEF LoadOrStore, Moves, OverlapInv, TypeOK
  <1>2. \A q \in Slots : q # r => held'[q] = held[q]
    BY OthersUnmoved DEF Handle, OverlapInv, Unmoved
  <1>3. \A q \in Slots : pc'[q] \in {"read", "write"} => q # r /\ pc[q] = pc'[q]
    BY <1>1
  <1>4. ASSUME loginAttempts'[c] = loginAttempts[c],
               loginAttempts[c] # Nil => Entry(c)' = Entry(c)
        PROVE  Earned(c)'
    <2>1. Pending(c)' = Pending(c)
      BY <1>1, <1>2, <1>3, <1>4 DEF Pending
    <2>2. loginAttempts[c] # Nil => Entry(c).Count' <= Entry(c).Count
      BY <1>4 DEF Entry, OverlapInv, TypeOK, Attempt
    <2>3. \A q \in Pending(c) : pc'[q] = "write" => pc[q] = "write" /\ read'[q] = read[q]
      BY <1>1 DEF Pending
    <2> QED
      BY <1>1, <1>4, <2>1, <2>2, <2>3, EarnedStays
  <1>5. ASSUME NEW o \in Attempts \ Live,
               heap' = [heap EXCEPT ![o] = [Count |-> 0, Last |-> req[r].now]],
               loginAttempts' = [loginAttempts EXCEPT ![Ours(r)] = o]
        PROVE  Earned(c)'
    <2>1. /\ \A d \in Clients : loginAttempts[d] # o
          /\ \A q \in Slots : held[q] # o
      BY DEF Live
    <2>2. CASE c # Ours(r)
      <3>1. /\ loginAttempts'[c] = loginAttempts[c]
            /\ loginAttempts[c] # Nil => Entry(c)' = Entry(c)
        BY <1>5, <2>1, <2>2 DEF OverlapInv, TypeOK, Entry
      <3> QED
        BY <1>4, <3>1
    <2>3. CASE c = Ours(r)
      <3>1. loginAttempts'[c] = o /\ Entry(c)'.Count = 0
        BY <1>5, <2>3 DEF OverlapInv, TypeOK, Entry
      <3>2. Pending(c)' = {}
        BY <1>2, <1>3, <2>1, <3>1 DEF Pending
      <3>3. Cardinality(Pending(c)') = 0
        BY <3>2, FS_EmptySet
      <3>4. Len(sinceLogin'[c]) \in Nat
        BY DEF TypeOK
      <3> QED
        BY <3>1, <3>2, <3>3, <3>4 DEF Earned, Entry
    <2> QED
      BY <2>2, <2>3
  <1>6. CASE loginAttempts' = loginAttempts /\ heap' = heap
    BY <1>4, <1>6 DEF Entry
  <1> QED
    BY <1>5, <1>6 DEF LoadOrStore, Ours

\* The steps that neither count nor fail.
LEMMA EarnedOther ==
  ASSUME OverlapInv, TypeOK', NEW r \in Slots, NEW c \in Clients,
         CheckCount(r) \/ ResetCount(r) \/ Touch(r) \/ Refuse(r)
  PROVE  Earned(c)'
  <1>1. /\ loginAttempts' = loginAttempts /\ sinceLogin' = sinceLogin
        /\ \A q \in Slots : q # r => Unmoved(q)
        /\ pc[r] \notin {"read", "write"} /\ pc'[r] \notin {"read", "write"}
    <2>1. \A q \in Slots : q # r => Unmoved(q)
      BY OthersUnmoved DEF Handle, OverlapInv
    <2> QED
      BY <2>1 DEF CheckCount, ResetCount, Touch, Refuse, Moves, Leaves, OverlapInv, TypeOK
  <1>2. Pending(c)' = Pending(c)
    BY <1>1 DEF Pending, Unmoved
  <1>3. loginAttempts[c] # Nil => Entry(c).Count' <= Entry(c).Count
    <2> SUFFICES ASSUME loginAttempts[c] # Nil PROVE Entry(c).Count' <= Entry(c).Count
      OBVIOUS
    <2>1. loginAttempts[c] \in Attempts /\ Entry(c) \in Attempt /\ Entry(c).Count \in Nat
      BY DEF OverlapInv, TypeOK, Entry, Attempt
    <2>2. Entry(c)'.Count = Entry(c).Count \/ Entry(c)'.Count = 0
      <3>1. CASE heap' = heap
        BY <1>1, <3>1 DEF Entry
      <3>2. CASE heap' = [heap EXCEPT ![held[r]].Count = 0]
        BY <1>1, <2>1, <3>2 DEF Entry, OverlapInv, TypeOK, Attempt
      <3>3. CASE heap' = [heap EXCEPT ![held[r]].Last = req[r].now]
        BY <1>1, <2>1, <3>3 DEF Entry, OverlapInv, TypeOK, Attempt
      <3> QED
        BY <3>1, <3>2, <3>3 DEF CheckCount, ResetCount, Touch, Refuse
    <2> QED
      BY <2>1, <2>2
  <1>4. \A q \in Pending(c) : pc'[q] = "write" => pc[q] = "write" /\ read'[q] = read[q]
    BY <1>1 DEF Pending, Unmoved
  <1> QED
    BY <1>1, <1>2, <1>3, <1>4, EarnedStays

LEMMA EarnedVerify ==
  ASSUME OverlapInv, TypeOK', NEW r \in Slots, Verify(r), NEW c \in Clients
  PROVE  Earned(c)'
  <1> DEFINE n == Cardinality(Pending(c))  m == Cardinality(Pending(c)')
             f == Len(sinceLogin[c])  g == Len(sinceLogin'[c])
  <1>1. /\ loginAttempts' = loginAttempts /\ heap' = heap /\ held' = held /\ read' = read
        /\ pc[r] = "verify" /\ pc' = [pc EXCEPT ![r] = IF req[r].right THEN "delete" ELSE "read"]
        /\ \A q \in Slots : q # r => pc'[q] = pc[q]
    BY DEF Verify, Moves, OverlapInv, TypeOK
  <1>2. n \in Nat /\ IsFiniteSet(Pending(c)) /\ r \notin Pending(c)
    BY <1>1, PendingFinite DEF Pending
  <1>3. f \in Nat /\ g \in Nat
    BY DEF OverlapInv, TypeOK
  <1>4. \/ m = n /\ g = f
        \/ m \in {n, n + 1} /\ g = f + 1
    <2>1. CASE req[r].right
      <3>1. Pending(c)' = Pending(c)
        BY <1>1, <2>1 DEF Pending, OverlapInv, TypeOK
      <3> QED
        BY <2>1, <3>1 DEF Verify
    <2>2. CASE ~req[r].right
      <3>1. pc'[r] = "read"
        BY <1>1, <2>2 DEF OverlapInv, TypeOK
      <3>2. CASE held[r] = loginAttempts[c]
        <4>1. Pending(c)' = Pending(c) \cup {r}
          BY <1>1, <3>1, <3>2 DEF Pending
        <4>2. m = n + 1
          BY <1>2, <4>1, FS_AddElement
        <4>3. held[r] # Nil
          BY <1>1, NilAssumption DEF OverlapInv, HeldInv
        <4>4. Ours(r) = c
          BY <3>2, <4>3 DEF OverlapInv, OwnerInv
        <4>5. g = f + 1
          BY <2>2, <4>4 DEF Verify, Ours, OverlapInv, TypeOK, Request
        <4> QED
          BY <4>2, <4>5
      <3>3. CASE held[r] # loginAttempts[c]
        <4>1. Pending(c)' = Pending(c)
          BY <1>1, <3>1, <3>3 DEF Pending
        <4>2. sinceLogin' = [sinceLogin EXCEPT ![Ours(r)] = Append(@, req[r].now)]
          BY <2>2 DEF Verify, Ours
        <4>3. sinceLogin \in [Clients -> Seq(Times)] /\ req[r].now \in Times
          BY DEF OverlapInv, TypeOK, Request
        <4>4. \/ sinceLogin'[c] = sinceLogin[c]
              \/ sinceLogin'[c] = Append(sinceLogin[c], req[r].now)
          BY <4>2, <4>3
        <4>5. g = f \/ g = f + 1
          BY <4>3, <4>4
        <4> QED
          BY <4>1, <4>5
      <3> QED
        BY <3>2, <3>3
    <2> QED
      BY <2>1, <2>2
  <1>5. \A q \in Pending(c)' : pc'[q] = "write" => q \in Pending(c) /\ pc[q] = "write"
    BY <1>1 DEF Pending, OverlapInv, TypeOK
  <1>6. Earned(c)
    BY DEF OverlapInv, EarnedInv
  <1>7. Entry(c)' = Entry(c) /\ loginAttempts'[c] = loginAttempts[c]
    BY <1>1 DEF Entry
  <1> SUFFICES ASSUME loginAttempts[c] # Nil PROVE Earned(c)'
    BY <1>7 DEF Earned
  <1>8. Entry(c).Count \in Nat /\ \A q \in Slots : read[q] \in Nat
    BY DEF OverlapInv, TypeOK, Entry, Attempt
  <1>9. Entry(c).Count + n <= f /\ \A q \in Pending(c) : pc[q] = "write" => read[q] + n <= f
    BY <1>6 DEF Earned
  <1> HIDE DEF n, m, f, g
  <1>10. Entry(c).Count + m <= g
    BY <1>2, <1>3, <1>4, <1>8, <1>9
  <1>11. \A q \in Pending(c)' : pc'[q] = "write" => read'[q] + m <= g
    <2>1. \A q \in Pending(c) : q \in Slots
      BY DEF Pending
    <2> QED
      BY <1>1, <1>2, <1>3, <1>4, <1>5, <1>8, <1>9, <2>1
  <1> QED
    BY <1>7, <1>10, <1>11 DEF Earned, m, g

LEMMA EarnedRead ==
  ASSUME OverlapInv, TypeOK', NEW r \in Slots, ReadCount(r), NEW c \in Clients
  PROVE  Earned(c)'
  <1>1. /\ loginAttempts' = loginAttempts /\ heap' = heap /\ held' = held
        /\ sinceLogin' = sinceLogin
        /\ pc[r] = "read" /\ pc' = [pc EXCEPT ![r] = "write"]
        /\ read' = [read EXCEPT ![r] = heap[held[r]].Count]
    BY DEF ReadCount, Moves
  <1>2. Pending(c)' = Pending(c)
    BY <1>1 DEF Pending, OverlapInv, TypeOK
  <1>3. loginAttempts[c] # Nil => Entry(c).Count' <= Entry(c).Count
    BY <1>1 DEF Entry, OverlapInv, TypeOK, Attempt
  <1>4. ASSUME NEW q \in Pending(c), pc'[q] = "write"
        PROVE  \/ pc[q] = "write" /\ read'[q] = read[q]
               \/ read'[q] = Entry(c).Count
    <2>1. q \in Slots /\ held[q] = loginAttempts[c]
      BY DEF Pending
    <2>2. CASE q = r
      BY <1>1, <2>1, <2>2 DEF Entry, OverlapInv, TypeOK
    <2>3. CASE q # r
      BY <1>1, <1>4, <2>1, <2>3 DEF OverlapInv, TypeOK
    <2> QED
      BY <2>2, <2>3
  <1> QED
    BY <1>1, <1>2, <1>3, <1>4, EarnedStays

LEMMA EarnedWrite ==
  ASSUME OverlapInv, TypeOK', NEW r \in Slots, WriteCount(r), NEW c \in Clients
  PROVE  Earned(c)'
  <1>1. /\ loginAttempts' = loginAttempts /\ sinceLogin' = sinceLogin
        /\ heap' = [heap EXCEPT ![held[r]].Count = read[r] + 1]
        /\ pc[r] = "write" /\ pc'[r] = "idle" /\ held[r] \in Attempts
        /\ \A q \in Slots : q # r => pc'[q] = pc[q] /\ held'[q] = held[q] /\ read'[q] = read[q]
    <2>1. \A q \in Slots : q # r => Unmoved(q)
      BY OthersUnmoved DEF Handle, OverlapInv
    <2> QED
      BY <2>1 DEF WriteCount, Leaves, Unmoved, OverlapInv, TypeOK, HeldInv
  <1>2. CASE held[r] # loginAttempts[c]
    <2>1. Pending(c)' = Pending(c)
      BY <1>1, <1>2 DEF Pending
    <2>2. loginAttempts[c] # Nil => Entry(c).Count' <= Entry(c).Count
      <3> SUFFICES ASSUME loginAttempts[c] # Nil PROVE Entry(c).Count' <= Entry(c).Count
        OBVIOUS
      <3>1. loginAttempts[c] \in Attempts /\ Entry(c).Count \in Nat
        BY DEF OverlapInv, TypeOK, Entry, Attempt
      <3>2. Entry(c)' = Entry(c)
        BY <1>1, <1>2, <3>1 DEF Entry, OverlapInv, TypeOK
      <3> QED
        BY <3>1, <3>2
    <2>3. \A q \in Pending(c) : pc'[q] = "write" => pc[q] = "write" /\ read'[q] = read[q]
      BY <1>1 DEF Pending
    <2> QED
      BY <1>1, <2>1, <2>2, <2>3, EarnedStays
  <1>3. CASE held[r] = loginAttempts[c]
    <2> DEFINE n == Cardinality(Pending(c))  f == Len(sinceLogin[c])
    <2>1. r \in Pending(c) /\ loginAttempts[c] # Nil
      BY <1>1, <1>3, NilAssumption DEF Pending
    <2>2. IsFiniteSet(Pending(c)) /\ n \in Nat /\ f \in Nat
      BY PendingFinite DEF OverlapInv, TypeOK
    <2>3. \A q \in Pending(c) : pc[q] = "write" => read[q] + n <= f
      BY <2>1 DEF OverlapInv, EarnedInv, Earned
    <2>4. Pending(c)' = Pending(c) \ {r}
      BY <1>1 DEF Pending
    <2>5. Cardinality(Pending(c)') = n - 1
      BY <2>1, <2>2, <2>4, FS_RemoveElement
    <2>6. Entry(c)'.Count = read[r] + 1
      BY <1>1, <1>3 DEF Entry, OverlapInv, TypeOK, Attempt
    <2>7. \A q \in Slots : read[q] \in Nat
      BY DEF OverlapInv, TypeOK
    <2>8. Len(sinceLogin[c])' = f
      BY <1>1
    <2> HIDE DEF n, f
    <2>9. read[r] + 1 + (n - 1) <= f
      BY <1>1, <2>1, <2>2, <2>3, <2>7
    <2>10. \A q \in Pending(c)' : pc'[q] = "write" => read'[q] + (n - 1) <= f
      <3> SUFFICES ASSUME NEW q \in Pending(c)', pc'[q] = "write"
                   PROVE  read'[q] + (n - 1) <= f
        OBVIOUS
      <3>1. q \in Pending(c) /\ q \in Slots /\ q # r
        BY <2>4 DEF Pending
      <3>2. read'[q] = read[q] /\ read[q] + n <= f
        BY <1>1, <2>3, <3>1
      <3> QED
        BY <2>2, <2>7, <3>1, <3>2
    <2> QED
      BY <2>5, <2>6, <2>8, <2>9, <2>10 DEF Earned
  <1> QED
    BY <1>2, <1>3

LEMMA EarnedDelete ==
  ASSUME OverlapInv, TypeOK', NEW r \in Slots, DeleteEntry(r), NEW c \in Clients
  PROVE  Earned(c)'
  <1>a. Ours(r) \in Clients
    BY DEF OverlapInv, TypeOK, Request, Ours
  <1>1. CASE c = Ours(r)
    <2>1. loginAttempts'[c] = Nil
      BY <1>a, <1>1 DEF DeleteEntry, Ours, OverlapInv, TypeOK
    <2> QED
      BY <2>1 DEF Earned
  <1>2. CASE c # Ours(r)
    <2>1. /\ loginAttempts'[c] = loginAttempts[c] /\ heap' = heap /\ sinceLogin'[c] = sinceLogin[c]
          /\ pc[r] = "delete" /\ pc'[r] = "idle"
          /\ \A q \in Slots : q # r => Unmoved(q)
      <3>1. \A q \in Slots : q # r => Unmoved(q)
        BY OthersUnmoved DEF Handle, OverlapInv
      <3> QED
        BY <1>2, <3>1 DEF DeleteEntry, Leaves, Ours, OverlapInv, TypeOK
    <2>2. Pending(c)' = Pending(c)
      BY <2>1 DEF Pending, Unmoved
    <2>3. loginAttempts[c] # Nil => Entry(c).Count' <= Entry(c).Count
      BY <2>1 DEF Entry, OverlapInv, TypeOK, Attempt
    <2>4. \A q \in Pending(c) : pc'[q] = "write" => pc[q] = "write" /\ read'[q] = read[q]
      BY <2>1 DEF Pending, Unmoved
    <2> QED
      BY <2>1, <2>2, <2>3, <2>4, EarnedStays
  <1> QED
    BY <1>1, <1>2

LEMMA OverlapInitInv == Init => OverlapInv
  <1> SUFFICES ASSUME Init PROVE OverlapInv
    OBVIOUS
  <1>1. InFlight = {}
    BY DEF Init, InFlight
  <1>2. ApartInv /\ OwnerInv /\ EarnedInv
    BY DEF Init, ApartInv, OwnerInv, EarnedInv, Earned
  <1> QED
    BY <1>1, <1>2, InitType, FS_EmptySet DEF OverlapInv

LEMMA OverlapNextInv == OverlapInv /\ [Next]_vars => OverlapInv'
  <1> SUFFICES ASSUME OverlapInv, [Next]_vars PROVE OverlapInv'
    OBVIOUS
  <1>a. TypeOK' /\ HeldInv'
    BY NextType DEF OverlapInv
  <1>1. ASSUME NEW r \in Slots, Handle(r) PROVE OverlapInv'
    <2>1. EarnedInv'
      <3> SUFFICES ASSUME NEW c \in Clients PROVE Earned(c)'
        BY DEF EarnedInv
      <3> QED
        BY <1>a, <1>1, EarnedArrive, EarnedLoad, EarnedOther, EarnedVerify, EarnedRead,
           EarnedWrite, EarnedDelete DEF Handle
    <2> QED
      BY <1>a, <1>1, <2>1, InFlightFinite, OwnerHandle DEF OverlapInv
  <1>2. CASE UNCHANGED <<loginAttempts, heap, pc, req, held, read, history>>
    BY <1>a, <1>2 DEF OverlapInv, InFlight, ApartInv, OwnerInv, EarnedInv, Earned, Entry,
                      Pending, Ours
  <1> QED
    BY <1>1, <1>2 DEF Next, Tick, Bounded, vars

\* Whatever logins overlap, a client is locked out by the entry it has only after Limit
\* failures since it last got in: an increment that is lost loses failures, and none
\* is counted twice or carried over a login.
THEOREM LocksEarned == Spec => LockEarned
  <1>1. ASSUME OverlapInv, [Next]_vars, NEW r \in Slots, Refused(r),
               held[r] = loginAttempts[req[r].ip]
        PROVE  Len(sinceLogin[req[r].ip]) >= Limit
    <2> DEFINE c == req[r].ip  n == Cardinality(Pending(c))
    <2>1. Refuse(r)
      BY <1>1, RefusedByRefuse DEF OverlapInv
    <2>2. c \in Clients /\ Len(sinceLogin[c]) \in Nat
      BY <1>1 DEF OverlapInv, TypeOK, Request
    <2>3. held[r] \in Attempts /\ loginAttempts[c] # Nil /\ Entry(c) = heap[held[r]]
      BY <1>1, <2>1, NilAssumption DEF OverlapInv, HeldInv, Refuse, Entry
    <2>4. Entry(c).Count >= Limit /\ Entry(c).Count \in Nat
      BY <1>1, <2>1, <2>3 DEF Refuse, LockedOut, OverlapInv, TypeOK, Attempt
    <2>5. Entry(c).Count + n <= Len(sinceLogin[c]) /\ n \in Nat
      BY <1>1, <2>2, <2>3, PendingFinite DEF OverlapInv, EarnedInv, Earned
    <2> HIDE DEF n
    <2> QED
      BY <2>2, <2>4, <2>5, LimitAssumption
  <1>2. OverlapInv /\ [Next]_vars =>
          [\A r \in Slots : Refused(r) /\ held[r] = loginAttempts[req[r].ip] =>
              Len(sinceLogin[req[r].ip]) >= Limit]_vars
    BY <1>1
  <1> QED
    BY OverlapInitInv, OverlapNextInv, <1>2, PTL DEF Spec, LockEarned

-----------------------------------------------------------------------------
(* csrfMiddleware *)

\* Only a request that went out without a cookie is answered with one.
SetsInv == \A t \in Tabs :
    /\ fetch[t].sets # NoToken => fetch[t].at \in {"door", "answered"}
    /\ fetch[t].sets # NoToken => fetch[t].cookie = NoToken

\* Once settled, the browser's token stays, and a POST that read it brings it twice.
CalmInv == \A t \in Tabs : fetch[t].calm =>
    /\ Settled /\ fetch[t].header = jar
    /\ fetch[t].at # "header" => fetch[t].cookie = jar

TokenInv == TokenTypeOK /\ SetsInv /\ CalmInv

LEMMA NoRequestOutType == NoRequestOut \in Exchange
  BY DEF NoRequestOut, Exchange, Token

LEMMA TokenInitInv == TokenInit => TokenInv
  BY NoRequestOutType
     DEF TokenInit, TokenInv, TokenTypeOK, SetsInv, CalmInv, NoRequestOut, Token

\* What one tab's step does to the browser's token.
LEMMA JarStays ==
  ASSUME TokenInv, Settled, NEW t \in Tabs, TakeAnswer(t)
  PROVE  jar' = jar
  BY DEF TokenInv, SetsInv, Settled, TakeAnswer, Fetch

LEMMA TabStep ==
  ASSUME TokenInv, NEW t \in Tabs, NEW q \in Exchange,
         fetch' = [fetch EXCEPT ![t] = q], jar' \in Token, credentials' \in BOOLEAN,
         q.at = "page" => q = NoRequestOut,
         q.sets # NoToken => q.at \in {"door", "answered"} /\ q.cookie = NoToken,
         Settled => jar' = jar,
         Settled /\ q.at \in {"sent", "door", "answered"} => q.cookie # NoToken,
         q.calm => /\ Settled /\ q.header = jar
                   /\ q.at # "header" => q.cookie = jar
  PROVE  TokenInv'
  <1> USE DEF TokenInv
  <1>1. TokenTypeOK'
    BY DEF TokenTypeOK
  <1>2. SetsInv'
    BY DEF SetsInv, TokenTypeOK
  <1>3. Settled => Settled'
    BY DEF Settled, TokenTypeOK
  <1>4. CalmInv'
    BY <1>3 DEF CalmInv, TokenTypeOK
  <1> QED
    BY <1>1, <1>2, <1>4

LEMMA TokenNextInv == TokenInv /\ [TokenNext]_tokenVars => TokenInv'
  <1> SUFFICES ASSUME TokenInv, [TokenNext]_tokenVars PROVE TokenInv'
    OBVIOUS
  <1> USE DEF TokenInv, Fetch
  <1>a. \A t \in Tabs : fetch[t] \in Exchange
    BY DEF TokenTypeOK
  <1>b. jar \in Token /\ credentials \in BOOLEAN /\ fetch \in [Tabs -> Exchange]
    BY DEF TokenTypeOK
  <1>1. CASE SwitchCredentials
    BY <1>1 DEF SwitchCredentials, TokenTypeOK, SetsInv, CalmInv, Settled
  <1>2. CASE CloseBrowser
    BY <1>2, NoRequestOutType
       DEF CloseBrowser, TokenTypeOK, SetsInv, CalmInv, NoRequestOut, Token
  <1>3. CASE UNCHANGED tokenVars
    BY <1>3 DEF tokenVars, TokenTypeOK, SetsInv, CalmInv, Settled
  <1>4. ASSUME NEW t \in Tabs, Get(t) PROVE TokenInv'
    <2> DEFINE q == [NoRequestOut EXCEPT !.at = "sent", !.cookie = jar]
    <2>1. q \in Exchange /\ q.at = "sent" /\ q.cookie = jar /\ q.sets = NoToken /\ ~q.calm
      BY <1>b DEF NoRequestOut, Exchange, Token
    <2>2. fetch' = [fetch EXCEPT ![t] = q] /\ jar' = jar /\ credentials' = credentials
      BY <1>4 DEF Get
    <2> HIDE DEF q
    <2> QED
      BY <1>b, <2>1, <2>2, TabStep DEF Settled
  <1>5. ASSUME NEW t \in Tabs, ReadCookie(t) PROVE TokenInv'
    <2> DEFINE q == [NoRequestOut EXCEPT !.at = "header", !.post = TRUE, !.header = jar,
                                         !.calm = Settled]
    <2>0. Settled \in BOOLEAN
      BY DEF Settled
    <2>1. /\ q \in Exchange /\ q.at = "header" /\ q.header = jar /\ q.sets = NoToken
          /\ q.calm = Settled
      BY <1>b, <2>0 DEF NoRequestOut, Exchange, Token
    <2>2. fetch' = [fetch EXCEPT ![t] = q] /\ jar' = jar /\ credentials' = credentials
      BY <1>5 DEF ReadCookie
    <2> HIDE DEF q
    <2> QED
      BY <1>b, <2>1, <2>2, TabStep
  <1>6. ASSUME NEW t \in Tabs, Post(t) PROVE TokenInv'
    <2> DEFINE q == [fetch[t] EXCEPT !.at = "sent", !.cookie = jar]
    <2>1. /\ q \in Exchange /\ q.at = "sent" /\ q.cookie = jar /\ q.sets = fetch[t].sets
          /\ q.header = fetch[t].header /\ q.calm = fetch[t].calm
      BY <1>a, <1>b DEF Exchange
    <2>2. fetch' = [fetch EXCEPT ![t] = q] /\ jar' = jar /\ credentials' = credentials
      BY <1>6 DEF Post
    <2>3. q.sets = NoToken
      BY <1>6, <2>1 DEF Post, SetsInv
    <2> HIDE DEF q
    <2> QED
      BY <1>b, <2>1, <2>2, <2>3, TabStep DEF CalmInv, Settled
  <1>7. ASSUME NEW t \in Tabs, NEW k \in Token, PassDoor(t, k) PROVE TokenInv'
    <2> DEFINE q == [fetch[t] EXCEPT !.at = "door", !.sets = k]
    <2>1. /\ q \in Exchange /\ q.at = "door" /\ q.cookie = fetch[t].cookie /\ q.sets = k
          /\ q.header = fetch[t].header /\ q.calm = fetch[t].calm
      BY <1>a DEF Exchange
    <2>2. fetch' = [fetch EXCEPT ![t] = q] /\ jar' = jar /\ credentials' = credentials
      BY <1>7 DEF PassDoor
    <2>3. fetch[t].at = "sent" /\ (k # NoToken => fetch[t].cookie = NoToken)
      BY <1>7 DEF PassDoor, SetCookie
    <2> HIDE DEF q
    <2> QED
      BY <1>b, <2>1, <2>2, <2>3, TabStep DEF CalmInv, Settled
  <1>8. ASSUME NEW t \in Tabs, CsrfMiddleware(t) PROVE TokenInv'
    <2> DEFINE q == [fetch[t] EXCEPT !.at = "answered"]
    <2>1. /\ q \in Exchange /\ q.at = "answered" /\ q.cookie = fetch[t].cookie
          /\ q.sets = fetch[t].sets /\ q.header = fetch[t].header /\ q.calm = fetch[t].calm
      BY <1>a DEF Exchange
    <2>2. fetch' = [fetch EXCEPT ![t] = q] /\ jar' = jar /\ credentials' = credentials
      BY <1>8 DEF CsrfMiddleware
    <2>3. fetch[t].at = "door"
      BY <1>8 DEF CsrfMiddleware
    <2> HIDE DEF q
    <2> QED
      BY <1>b, <2>1, <2>2, <2>3, TabStep DEF CalmInv, SetsInv, Settled
  <1>9. ASSUME NEW t \in Tabs, TakeAnswer(t) PROVE TokenInv'
    <2>1. jar' \in Token
      BY <1>9, <1>a, <1>b DEF TakeAnswer, Exchange
    <2>2. /\ NoRequestOut.at = "page" /\ NoRequestOut.sets = NoToken
          /\ ~NoRequestOut.calm
      BY DEF NoRequestOut
    <2> QED
      BY <1>9, <1>b, <2>1, <2>2, JarStays, NoRequestOutType, TabStep DEF TakeAnswer
  <1> QED
    BY <1>1, <1>2, <1>3, <1>4, <1>5, <1>6, <1>7, <1>8, <1>9 DEF TokenNext

\* The cookie, the tabs and what they have under way keep their types.
THEOREM TokenTypeCorrect == TokenSpec => []TokenTypeOK
  <1>1. TokenInv => TokenTypeOK
    BY DEF TokenInv
  <1> QED
    BY <1>1, TokenInitInv, TokenNextInv, PTL DEF TokenSpec

\* dashboard.go:111-124 and 133-144: once the browser has its token and the first
\* answers are in, no POST of any number of tabs is refused for its token.
THEOREM PostsAccepted == TokenSpec => []NoPostRefusedOnceSettled
  <1>1. TokenInv => NoPostRefusedOnceSettled
    BY DEF TokenInv, CalmInv, Settled, NoPostRefusedOnceSettled, TokenInvalid
  <1> QED
    BY <1>1, TokenInitInv, TokenNextInv, PTL DEF TokenSpec
=============================================================================
