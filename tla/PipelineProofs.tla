--------------------------- MODULE PipelineProofs ---------------------------
(***************************************************************************)
(* Proofs about Pipeline, for any number of requests in flight, any inputs *)
(* and configurations, and any number of reloads.                          *)
(*                                                                         *)
(* Every step of a request is of one of four kinds: it arrives, it goes on *)
(* to the next handler, it is rejected and counted, it ends uncounted.     *)
(* The statistics are about the kinds only, so most lemmas are too.        *)
(***************************************************************************)
EXTENDS Pipeline, FiniteSetTheorems, TLAPS

Active == {r \in Slots : pc[r] # "idle"}

RejectedIn(s) == s["Blocked"] + s["RateLimited"] + s["IPBlocked"]
                 + s["BotDetected"] + s["ValidationFail"]

\* The chain and the dashboard have the statistics of the first NewEngine.
StatsInv == engineStats = 1 /\ chainStats = 1 /\ IsFiniteSet(DOMAIN stats)

\* StatsAddUp of the object they share.
SumInv ==
    /\ stats[1]["Total"] = arrived
    /\ stats[1]["Total"] = Cardinality(Active) + passed + RejectedIn(stats[1])

PastBots == {"validator", "waf", "director", "backend"}

\* Agents are spelled as AgentAssumption says, and BotDetection has looked at them.
AgentInv ==
    \A r \in Slots :
        /\ req[r].agent \cap Google # {} => "google" \in req[r].agent
        /\ /\ pc[r] \in PastBots /\ req[r].agent \cap ScannerRuleExempt \cap Google # {}
           /\ conf.botDetection /\ conf.verifyByDNS /\ conf.allowedBots = AllowedBots
           => ConfirmedByGoogle(req[r])

IInv == TypeOK /\ StatsInv /\ SumInv /\ HoneypotHolds /\ AgentInv

-----------------------------------------------------------------------------
(* The kinds of steps *)

Kept == UNCHANGED <<conf, engineStats, chainStats>>

Arrives(r) ==
    /\ pc[r] = "idle" /\ pc' = [pc EXCEPT ![r] = "host"]
    /\ arrived < MaxRequests /\ arrived' = arrived + 1
    /\ Count("Total") /\ passed' = passed

GoesOn(r) ==
    /\ pc[r] # "idle"
    /\ \E stage \in Stages \ {"idle"} : pc' = [pc EXCEPT ![r] = stage]
    /\ UNCHANGED <<stats, passed, arrived>>

IsRejected(r) ==
    /\ pc[r] # "idle" /\ pc' = [pc EXCEPT ![r] = "idle"]
    /\ \E c \in Rejections : Count(c)
    /\ UNCHANGED <<passed, arrived>>

Ends(r) ==
    /\ pc[r] # "idle" /\ pc' = [pc EXCEPT ![r] = "idle"]
    /\ passed' = passed + 1
    /\ UNCHANGED <<stats, arrived>>

Step(r) == Arrives(r) \/ GoesOn(r) \/ IsRejected(r) \/ Ends(r)

LEMMA KindOfStep ==
  ASSUME NEW r \in Slots, Handle(r)
  PROVE  Step(r) /\ Kept
  <1> USE DEF Step, Kept, Arrives, GoesOn, IsRejected, Ends, Continue, Reject,
              AnswerUncounted, Goes, Stages, Rejections
  <1>1. ASSUME NEW facts \in Inputs, Arrive(r, facts) PROVE Step(r) /\ Kept
    BY <1>1 DEF Arrive
  <1>2. CASE MasterHandler(r)
    BY <1>2 DEF MasterHandler
  <1>3. CASE SecurityHeaders(r)
    BY <1>3 DEF SecurityHeaders
  <1>4. CASE RateLimiter(r)
    BY <1>4 DEF RateLimiter
  <1>5. CASE IPReputation(r)
    BY <1>5 DEF IPReputation
  <1>6. CASE BotDetection(r)
    BY <1>6 DEF BotDetection
  <1>7. CASE RequestValidator(r)
    BY <1>7 DEF RequestValidator
  <1>8. CASE WAF(r)
    BY <1>8 DEF WAF
  <1>9. CASE Director(r)
    BY <1>9 DEF Director
  <1>10. CASE Backend(r)
    BY <1>10 DEF Backend
  <1> QED
    BY <1>1, <1>2, <1>3, <1>4, <1>5, <1>6, <1>7, <1>8, <1>9, <1>10 DEF Handle

\* What BotDetection does to a request at most: it puts a vendor's mark on it.
LEMMA MarkOfBots ==
  ASSUME NEW r \in Slots, BotDetection(r)
  PROVE  \E v \in Vendors : req' = req \/ req' = [req EXCEPT ![r] = [req[r] EXCEPT !.mark = v]]
  <1> DEFINE vendor == GetBotVendor(FirstBot(conf.allowedBots, req[r].agent))
  <1>1. vendor \in Vendors
    BY DEF GetBotVendor, Family, Vendors
  <1>2. req' = req \/ req' = [req EXCEPT ![r] = [req[r] EXCEPT !.mark = vendor]]
    BY DEF BotDetection, Continue, Reject
  <1> QED
    BY <1>1, <1>2

\* The facts and the history of a request are its own.
LEMMA ReqOfStep ==
  ASSUME TypeOK, NEW r \in Slots, Handle(r)
  PROVE  /\ req' \in [Slots -> Facts] /\ seen' \in [Slots -> Seen]
         /\ \A q \in Slots \ {r} : req'[q] = req[q] /\ pc'[q] = pc[q]
  <1> USE DEF TypeOK, Continue, Reject, AnswerUncounted, Goes
  <1>1. ASSUME NEW facts \in Inputs, Arrive(r, facts)
        PROVE  /\ req' \in [Slots -> Facts] /\ seen' \in [Slots -> Seen]
               /\ \A q \in Slots \ {r} : req'[q] = req[q] /\ pc'[q] = pc[q]
    BY <1>1, InputAssumption DEF Arrive, Unseen, Seen
  <1>2. CASE MasterHandler(r)
    BY <1>2 DEF MasterHandler
  <1>3. CASE SecurityHeaders(r)
    BY <1>3 DEF SecurityHeaders
  <1>4. CASE RateLimiter(r)
    <2> DEFINE generous == conf.rateLimit /\ req[r].mark # ""
    <2>1. generous \in BOOLEAN
      OBVIOUS
    <2>2. seen' = seen \/ seen' = [seen EXCEPT ![r] = [seen[r] EXCEPT !.generous = generous]]
      BY <1>4 DEF RateLimiter
    <2> HIDE DEF generous
    <2>3. seen' \in [Slots -> Seen]
      BY <2>1, <2>2 DEF Seen
    <2> QED
      BY <1>4, <2>3 DEF RateLimiter
  <1>5. CASE IPReputation(r)
    BY <1>5 DEF IPReputation
  <1>6. CASE BotDetection(r)
    <2>0. conf.verifyByDNS \in BOOLEAN
      BY DEF Config
    <2>1. seen' \in [Slots -> Seen]
      <3>1. seen' = seen
            \/ seen' = [seen EXCEPT ![r] = [seen[r] EXCEPT !.verified = conf.verifyByDNS]]
        BY <1>6 DEF BotDetection
      <3> QED
        BY <2>0, <3>1 DEF Seen
    <2>2. req' \in [Slots -> Facts]
      <3>1. PICK v \in Vendors :
              req' = req \/ req' = [req EXCEPT ![r] = [req[r] EXCEPT !.mark = v]]
        BY <1>6, MarkOfBots
      <3>2. req[r] \in Facts
        OBVIOUS
      <3>3. [req[r] EXCEPT !.mark = v] \in Facts
        BY <3>2 DEF Facts, Marks
      <3> QED
        BY <3>1, <3>3
    <2> QED
      BY <1>6, <2>1, <2>2 DEF BotDetection
  <1>7. CASE RequestValidator(r)
    BY <1>7 DEF RequestValidator
  <1>8. CASE WAF(r)
    BY <1>8 DEF WAF
  <1>9. CASE Director(r)
    BY <1>9 DEF Director, Facts, Marks
  <1>10. CASE Backend(r)
    BY <1>10 DEF Backend
  <1> QED
    BY <1>1, <1>2, <1>3, <1>4, <1>5, <1>6, <1>7, <1>8, <1>9, <1>10 DEF Handle

-----------------------------------------------------------------------------
(* The statistics *)

LEMMA StatsShape ==
  ASSUME TypeOK, StatsInv
  PROVE  /\ 1 \in DOMAIN stats
         /\ stats[1] \in [Counters -> Nat]
  BY DEF TypeOK, StatsInv

LEMMA CountOne ==
  ASSUME TypeOK, StatsInv, NEW c \in Counters, Count(c)
  PROVE  /\ stats' \in [1..Cardinality(DOMAIN stats') -> [Counters -> Nat]]
         /\ DOMAIN stats' = DOMAIN stats
         /\ stats'[1] = [stats[1] EXCEPT ![c] = stats[1][c] + 1]
  <1>1. 1 \in DOMAIN stats /\ stats[1] \in [Counters -> Nat]
    BY StatsShape
  <1>2. stats' = [stats EXCEPT ![1] = [stats[1] EXCEPT ![c] = stats[1][c] + 1]]
    BY DEF Count, CountedBy, StatsInv
  <1>3. DOMAIN stats' = DOMAIN stats
    BY <1>2
  <1>4. [stats[1] EXCEPT ![c] = stats[1][c] + 1] \in [Counters -> Nat]
    BY <1>1
  <1>5. stats \in [DOMAIN stats -> [Counters -> Nat]]
        /\ DOMAIN stats = 1..Cardinality(DOMAIN stats)
    BY DEF TypeOK
  <1>6. stats' \in [DOMAIN stats -> [Counters -> Nat]]
    BY <1>1, <1>2, <1>4, <1>5
  <1> QED
    BY <1>1, <1>2, <1>3, <1>5, <1>6

LEMMA DomainOfStep ==
  ASSUME TypeOK, StatsInv, NEW r \in Slots, Step(r)
  PROVE  /\ stats' \in [1..Cardinality(DOMAIN stats') -> [Counters -> Nat]]
         /\ DOMAIN stats' = DOMAIN stats
  <1>1. CASE stats' = stats
    BY <1>1 DEF TypeOK
  <1>2. CASE \E c \in Counters : Count(c)
    BY <1>2, CountOne
  <1> QED
    BY <1>1, <1>2 DEF Step, Arrives, GoesOn, IsRejected, Ends, Counters

LEMMA ReloadKeeps ==
  ASSUME TypeOK, StatsInv, Reload
  PROVE  /\ stats' \in [1..Cardinality(DOMAIN stats') -> [Counters -> Nat]]
         /\ 1 \in DOMAIN stats' /\ stats'[1] = stats[1]
         /\ IsFiniteSet(DOMAIN stats')
  <1> DEFINE k == Cardinality(DOMAIN stats)
  <1>1. DOMAIN stats = 1..k /\ 1 \in 1..k /\ stats \in [1..k -> [Counters -> Nat]]
    BY StatsShape DEF TypeOK
  <1>2. k \in Nat
    BY FS_CardinalityType DEF StatsInv
  <1>3. /\ stats' = [i \in 1..(k + 1) |-> IF i \in 1..k THEN stats[i] ELSE Zero]
        /\ DOMAIN stats' = 1..(k + 1)
    BY <1>1 DEF Reload
  <1>4. Zero \in [Counters -> Nat]
    BY DEF Zero
  <1>5. Cardinality(1..(k + 1)) = k + 1 /\ IsFiniteSet(1..(k + 1))
    BY <1>2, FS_Interval
  <1>6. stats' \in [1..(k + 1) -> [Counters -> Nat]]
    BY <1>1, <1>3, <1>4
  <1>7. 1 \in 1..(k + 1) /\ stats'[1] = stats[1]
    BY <1>1, <1>2, <1>3
  <1> QED
    BY <1>3, <1>5, <1>6, <1>7

-----------------------------------------------------------------------------
(* The requests in flight *)

LEMMA ActiveFinite == IsFiniteSet(Active) /\ Cardinality(Active) \in Nat
  <1>1. Active \in SUBSET Slots
    BY DEF Active
  <1> QED
    BY <1>1, SlotAssumption, FS_Subset, FS_CardinalityType

LEMMA OneMore ==
  ASSUME TypeOK, NEW r \in Slots, pc[r] = "idle", pc' = [pc EXCEPT ![r] = "host"]
  PROVE  Cardinality(Active') = Cardinality(Active) + 1
  <1>1. Active' = Active \cup {r} /\ r \notin Active
    BY DEF Active, TypeOK
  <1> QED
    BY <1>1, ActiveFinite, FS_AddElement

LEMMA OneLess ==
  ASSUME TypeOK, NEW r \in Slots, pc[r] # "idle", pc' = [pc EXCEPT ![r] = "idle"]
  PROVE  Cardinality(Active') = Cardinality(Active) - 1
  <1>1. Active' = Active \ {r} /\ r \in Active
    BY DEF Active, TypeOK
  <1> QED
    BY <1>1, ActiveFinite, FS_RemoveElement

LEMMA SumOfStep ==
  ASSUME TypeOK, StatsInv, SumInv, NEW r \in Slots, Step(r)
  PROVE  SumInv'
  <1>s. stats[1] \in [Counters -> Nat] /\ passed \in Nat /\ arrived \in Nat
        /\ Cardinality(Active) \in Nat
    BY StatsShape, ActiveFinite, BoundAssumption DEF TypeOK
  <1> USE DEF Counters, Rejections
  <1>1. CASE Arrives(r)
    <2>1. stats'[1] = [stats[1] EXCEPT !["Total"] = stats[1]["Total"] + 1]
      BY <1>1, CountOne DEF Arrives
    <2>2. stats'[1]["Total"] = stats[1]["Total"] + 1
          /\ RejectedIn(stats'[1]) = RejectedIn(stats[1])
      BY <1>s, <2>1 DEF RejectedIn
    <2>3. Cardinality(Active') = Cardinality(Active) + 1
      BY <1>1, OneMore DEF Arrives
    <2>4. RejectedIn(stats[1]) \in Nat
      BY <1>s DEF RejectedIn
    <2>5. stats[1]["Total"] = arrived
          /\ stats[1]["Total"] = Cardinality(Active) + passed + RejectedIn(stats[1])
      BY DEF SumInv
    <2>6. arrived' = arrived + 1 /\ passed' = passed
      BY <1>1 DEF Arrives
    <2>7. stats'[1]["Total"] = Cardinality(Active') + passed' + RejectedIn(stats'[1])
      BY <1>s, <2>2, <2>3, <2>4, <2>5, <2>6
    <2> QED
      BY <2>2, <2>5, <2>6, <2>7 DEF SumInv
  <1>2. CASE GoesOn(r)
    <2>1. Active' = Active
      BY <1>2 DEF GoesOn, Active, TypeOK
    <2> QED
      BY <1>2, <2>1 DEF GoesOn, SumInv
  <1>3. CASE IsRejected(r)
    <2>1. PICK c \in Rejections : Count(c)
      BY <1>3 DEF IsRejected
    <2>2. stats'[1] = [stats[1] EXCEPT ![c] = stats[1][c] + 1]
      BY <2>1, CountOne
    <2>3. stats'[1]["Total"] = stats[1]["Total"]
          /\ RejectedIn(stats'[1]) = RejectedIn(stats[1]) + 1
      BY <1>s, <2>2 DEF RejectedIn
    <2>4. Cardinality(Active') = Cardinality(Active) - 1
      BY <1>3, OneLess DEF IsRejected
    <2>5. RejectedIn(stats[1]) \in Nat
      BY <1>s DEF RejectedIn
    <2>6. stats[1]["Total"] = arrived
          /\ stats[1]["Total"] = Cardinality(Active) + passed + RejectedIn(stats[1])
      BY DEF SumInv
    <2>7. arrived' = arrived /\ passed' = passed
      BY <1>3 DEF IsRejected
    <2>8. stats'[1]["Total"] = Cardinality(Active') + passed' + RejectedIn(stats'[1])
      BY <1>s, <2>3, <2>4, <2>5, <2>6, <2>7
    <2> QED
      BY <2>3, <2>6, <2>7, <2>8 DEF SumInv
  <1>4. CASE Ends(r)
    <2>1. Cardinality(Active') = Cardinality(Active) - 1
      BY <1>4, OneLess DEF Ends
    <2>2. RejectedIn(stats[1]) \in Nat
      BY <1>s DEF RejectedIn
    <2>3. stats' = stats /\ arrived' = arrived /\ passed' = passed + 1
      BY <1>4 DEF Ends
    <2>4. stats[1]["Total"] = arrived
          /\ stats[1]["Total"] = Cardinality(Active) + passed + RejectedIn(stats[1])
      BY DEF SumInv
    <2>5. stats'[1]["Total"] = Cardinality(Active') + passed' + RejectedIn(stats'[1])
      BY <1>s, <2>1, <2>2, <2>3, <2>4
    <2> QED
      BY <2>3, <2>4, <2>5 DEF SumInv
  <1> QED
    BY <1>1, <1>2, <1>3, <1>4 DEF Step

-----------------------------------------------------------------------------
(* What a handler does to its own request *)

LEMMA HoneypotOfStep ==
  ASSUME IInv, NEW r \in Slots, Handle(r)
  PROVE  HoneypotHolds'
  <1>1. TypeOK /\ HoneypotHolds /\ conf' = conf
    BY KindOfStep DEF IInv, Kept
  <1>2. ASSUME NEW q \in Slots \ {r}, pc'[q] \in PastBots, conf.botDetection
        PROVE  ~req'[q].honeypot
    BY <1>1, <1>2, ReqOfStep DEF HoneypotHolds, PastBots
  <1>3. ASSUME pc'[r] \in PastBots, conf.botDetection PROVE ~req'[r].honeypot
    <2>1. BotDetection(r) \/ RequestValidator(r) \/ WAF(r) \/ Director(r)
      BY <1>1, <1>3 DEF Handle, Arrive, MasterHandler, SecurityHeaders, RateLimiter,
         IPReputation, Backend, Continue, Reject, AnswerUncounted, Goes, TypeOK, PastBots
    <2>2. CASE BotDetection(r)
      <3>1. ~req[r].honeypot
        BY <1>1, <1>3, <2>2 DEF BotDetection, Reject, Goes, TypeOK, PastBots
      <3>2. PICK v \in Vendors :
              req' = req \/ req' = [req EXCEPT ![r] = [req[r] EXCEPT !.mark = v]]
        BY <2>2, MarkOfBots
      <3> QED
        BY <1>1, <3>1, <3>2 DEF TypeOK, Facts
    <2>3. CASE RequestValidator(r) \/ WAF(r) \/ Director(r)
      <3>1. pc[r] \in PastBots /\ req'[r].honeypot = req[r].honeypot
        BY <1>1, <2>3 DEF RequestValidator, WAF, Director, Reject, AnswerUncounted,
           TypeOK, PastBots, Facts
      <3> QED
        BY <1>1, <1>3, <3>1 DEF HoneypotHolds, PastBots
    <2> QED
      BY <2>1, <2>2, <2>3
  <1> QED
    BY <1>1, <1>2, <1>3 DEF HoneypotHolds, PastBots

\* The default list judges an agent that names Google by one of Google's keywords.
LEMMA FirstBotOfGoogle ==
  ASSUME NEW agent, "google" \in agent
  PROVE  LET bot == FirstBot(AllowedBots, agent)
         IN  bot # NoBot /\ Family(bot) = "google"
  <1> DEFINE matching == {i \in DOMAIN AllowedBots : AllowedBots[i] \in agent}
  <1>1. /\ DOMAIN AllowedBots = 1..25
        /\ AllowedBots[1] = "googlebot" /\ AllowedBots[2] = "google"
    BY DEF AllowedBots
  <1>2. ASSUME NEW k \in matching, \A i \in matching : k <= i
        PROVE  Min(matching) = k
    <2>1. Min(matching) \in matching /\ \A i \in matching : Min(matching) <= i
      BY <1>2 DEF Min
    <2>2. matching \subseteq 1..25
      BY <1>1
    <2> QED
      BY <1>2, <2>1, <2>2
  <1>3. 2 \in matching
    BY <1>1
  <1>4. CASE "googlebot" \in agent
    <2>1. 1 \in matching /\ \A i \in matching : 1 <= i
      BY <1>1, <1>4
    <2>2. FirstBot(AllowedBots, agent) = "googlebot"
      BY <1>1, <1>2, <2>1 DEF FirstBot
    <2> QED
      BY <2>2 DEF Family, Google, ScannerRuleExempt, NoBot
  <1>5. CASE "googlebot" \notin agent
    <2>1. \A i \in matching : 2 <= i
      BY <1>1, <1>5
    <2>2. FirstBot(AllowedBots, agent) = "google"
      BY <1>1, <1>2, <1>3, <2>1 DEF FirstBot
    <2> QED
      BY <2>2 DEF Family, Google, NoBot
  <1> QED
    BY <1>4, <1>5

\* What handlers after Arrive may change of a request is its mark.
LEMMA AgentOfStep ==
  ASSUME TypeOK, NEW r \in Slots, Handle(r)
  PROVE  \/ \E facts \in Inputs : req'[r] = facts /\ pc'[r] = "host"
         \/ req'[r].agent = req[r].agent /\ req'[r].names = req[r].names
  <1> USE DEF TypeOK, Continue, Reject, AnswerUncounted, Goes, Facts
  <1>1. ASSUME NEW facts \in Inputs, Arrive(r, facts)
        PROVE  \E f \in Inputs : req'[r] = f /\ pc'[r] = "host"
    BY <1>1 DEF Arrive
  <1>2. CASE MasterHandler(r) \/ SecurityHeaders(r) \/ RateLimiter(r) \/ IPReputation(r)
    BY <1>2 DEF MasterHandler, SecurityHeaders, RateLimiter, IPReputation
  <1>3. CASE BotDetection(r)
    <2>1. PICK v \in Vendors :
            req' = req \/ req' = [req EXCEPT ![r] = [req[r] EXCEPT !.mark = v]]
      BY <1>3, MarkOfBots
    <2> QED
      BY <2>1
  <1>4. CASE RequestValidator(r) \/ WAF(r) \/ Director(r) \/ Backend(r)
    BY <1>4 DEF RequestValidator, WAF, Director, Backend
  <1> QED
    BY <1>1, <1>2, <1>3, <1>4 DEF Handle

LEMMA AgentInvOfStep ==
  ASSUME IInv, NEW r \in Slots, Handle(r)
  PROVE  AgentInv'
  <1> DEFINE Asked(q) == /\ q.agent \cap ScannerRuleExempt \cap Google # {}
                         /\ conf.botDetection /\ conf.verifyByDNS
                         /\ conf.allowedBots = AllowedBots
             Spelled(q) == q.agent \cap Google # {} => "google" \in q.agent
  <1>1. TypeOK /\ AgentInv /\ conf' = conf
    BY KindOfStep DEF IInv, Kept
  <1>2. ASSUME NEW q \in Slots \ {r}
        PROVE  Spelled(req'[q]) /\ (pc'[q] \in PastBots /\ Asked(req'[q])
                                     => ConfirmedByGoogle(req'[q]))
    BY <1>1, ReqOfStep DEF AgentInv
  <1>3. Spelled(req'[r])
    BY <1>1, AgentOfStep, AgentAssumption DEF AgentInv
  <1>4. ASSUME pc'[r] \in PastBots, Asked(req'[r]) PROVE ConfirmedByGoogle(req'[r])
    <2>1. req'[r].agent = req[r].agent /\ req'[r].names = req[r].names
      BY <1>1, <1>4, AgentOfStep DEF PastBots
    <2>2. ConfirmedByGoogle(req[r]) => ConfirmedByGoogle(req'[r])
      BY <2>1 DEF ConfirmedByGoogle
    <2>3. Spelled(req[r]) /\ Asked(req[r])
      BY <1>1, <1>4, <2>1 DEF AgentInv
    <2>4. BotDetection(r) \/ RequestValidator(r) \/ WAF(r) \/ Director(r)
      BY <1>1, <1>4 DEF Handle, Arrive, MasterHandler, SecurityHeaders, RateLimiter,
         IPReputation, Backend, Continue, Reject, AnswerUncounted, Goes, TypeOK, PastBots
    <2>5. CASE BotDetection(r)
      <3> DEFINE bot == FirstBot(AllowedBots, req[r].agent)
      <3>1. bot # NoBot /\ Family(bot) = "google"
        <4>1. "google" \in req[r].agent
          BY <2>3
        <4> QED
          BY <4>1, FirstBotOfGoogle
      <3>2. VerifySearchBotDNS(req[r].names, bot)
        BY <1>1, <1>4, <2>3, <2>5, <3>1
           DEF BotDetection, Reject, Goes, TypeOK, PastBots
      <3> HIDE DEF bot
      <3>3. PICK i \in DOMAIN req[r].names :
              IsOfficialBotDomain(req[r].names[i], bot) /\ req[r].names[i].confirms
        BY <3>2 DEF VerifySearchBotDNS
      <3>4. ConfirmedByGoogle(req[r])
        BY <3>1, <3>3 DEF IsOfficialBotDomain, ConfirmedByGoogle
      <3> QED
        BY <2>2, <3>4
    <2>6. CASE RequestValidator(r) \/ WAF(r) \/ Director(r)
      <3>1. pc[r] \in PastBots
        BY <2>6 DEF RequestValidator, WAF, Director, PastBots
      <3> QED
        BY <1>1, <2>2, <2>3, <3>1 DEF AgentInv
    <2> QED
      BY <2>4, <2>5, <2>6
  <1> QED
    BY <1>1, <1>2, <1>3, <1>4 DEF AgentInv

-----------------------------------------------------------------------------
(* The inductive invariant *)

LEMMA InitInv == Init => IInv
  <1> SUFFICES ASSUME Init PROVE IInv
    OBVIOUS
  <1> USE DEF Init
  <1>1. DOMAIN stats = {1} /\ Cardinality({1}) = 1 /\ {1} = 1..1 /\ stats[1] = Zero
    BY FS_Singleton
  <1>2. Zero \in [Counters -> Nat] /\ \A c \in Counters : Zero[c] = 0
    BY DEF Zero
  <1>3. stats \in [1..Cardinality(DOMAIN stats) -> [Counters -> Nat]]
    BY <1>1, <1>2
  <1>4. (CHOOSE f \in Inputs : TRUE) \in Facts
    BY InputAssumption
  <1>5. TypeOK
    <2>1. Unseen \in Seen /\ "idle" \in Stages
      BY DEF Unseen, Seen, Stages
    <2>2. engineStats \in DOMAIN stats /\ chainStats \in DOMAIN stats
      BY <1>1
    <2>3. passed \in Nat /\ arrived \in 0..MaxRequests /\ conf \in Config
      BY ConfigAssumption, BoundAssumption
    <2>4. /\ pc \in [Slots -> Stages] /\ seen \in [Slots -> Seen]
          /\ req \in [Slots -> Facts]
      BY <1>4, <2>1
    <2> QED
      BY <1>3, <2>2, <2>3, <2>4 DEF TypeOK
  <1>6. Cardinality(Active) = 0
    BY FS_EmptySet DEF Active
  <1>7. SumInv
    BY <1>1, <1>2, <1>6 DEF SumInv, RejectedIn, Counters, Rejections
  <1>8. AgentInv
    BY InputAssumption, AgentAssumption DEF AgentInv, PastBots
  <1> QED
    BY <1>1, <1>5, <1>7, <1>8, FS_Singleton DEF IInv, StatsInv, HoneypotHolds

LEMMA HandleType ==
  ASSUME TypeOK, StatsInv, NEW r \in Slots, Handle(r)
  PROVE  TypeOK'
  <1>1. Step(r) /\ Kept
    BY KindOfStep
  <1>2. req' \in [Slots -> Facts] /\ seen' \in [Slots -> Seen]
    BY ReqOfStep
  <1>3. pc' \in [Slots -> Stages]
    BY <1>1 DEF Step, Arrives, GoesOn, IsRejected, Ends, TypeOK, Stages
  <1>4. /\ stats' \in [1..Cardinality(DOMAIN stats') -> [Counters -> Nat]]
        /\ DOMAIN stats' = DOMAIN stats
    BY <1>1, DomainOfStep
  <1>5. passed' \in Nat /\ arrived' \in 0..MaxRequests
    BY <1>1, BoundAssumption DEF Step, Arrives, GoesOn, IsRejected, Ends, TypeOK
  <1> QED
    BY <1>1, <1>2, <1>3, <1>4, <1>5 DEF TypeOK, Kept

LEMMA NextInv ==
  ASSUME IInv, [Next]_vars
  PROVE  IInv'
  <1>1. TypeOK /\ StatsInv /\ SumInv
    BY DEF IInv
  <1>2. ASSUME NEW r \in Slots, Handle(r) PROVE IInv'
    <2>1. Step(r) /\ Kept
      BY <1>2, KindOfStep
    <2>2. StatsInv'
      BY <1>1, <2>1, DomainOfStep DEF StatsInv, Kept
    <2> QED
      BY <1>1, <1>2, <2>1, <2>2, HandleType, SumOfStep, HoneypotOfStep,
         AgentInvOfStep
         DEF IInv
  <1>3. CASE Reload
    <2>1. UNCHANGED <<conf, pc, req, seen, engineStats, chainStats, passed, arrived>>
      BY <1>3 DEF Reload
    <2>2. /\ stats' \in [1..Cardinality(DOMAIN stats') -> [Counters -> Nat]]
          /\ 1 \in DOMAIN stats' /\ stats'[1] = stats[1] /\ IsFiniteSet(DOMAIN stats')
      BY <1>1, <1>3, ReloadKeeps
    <2>3. TypeOK' /\ StatsInv'
      BY <1>1, <2>1, <2>2 DEF TypeOK, StatsInv
    <2>4. SumInv'
      BY <1>1, <2>1, <2>2 DEF SumInv, Active
    <2> QED
      BY <2>1, <2>3, <2>4 DEF IInv, HoneypotHolds, AgentInv, ConfirmedByGoogle
  <1>4. CASE UNCHANGED vars
    BY <1>4 DEF vars, IInv, TypeOK, StatsInv, SumInv, Active, HoneypotHolds,
       AgentInv, ConfirmedByGoogle
  <1> QED
    BY <1>2, <1>3, <1>4 DEF Next, Bounded

\* Pipeline's inductive invariant holds in every behaviour.
THEOREM Invariance == Spec => []IInv
  <1> QED
    BY InitInv, NextInv, PTL DEF Spec

-----------------------------------------------------------------------------
(* The properties *)

\* engine.go:13-22 and the handlers' locals keep their types.
THEOREM TypeCorrect == Spec => []TypeOK
  <1>1. IInv => TypeOK
    BY DEF IInv
  <1> QED
    BY <1>1, Invariance, PTL

\* engine.go:122-134 leaves Stats alone: with any number of requests in flight and
\* of reloads, the total is what arrived, and each request of it is in flight, was
\* counted by exactly one module, or ended uncounted.
THEOREM Statistics == Spec => []StatsAddUp
  <1>1. IInv => StatsAddUp
    <2> SUFFICES ASSUME IInv PROVE StatsAddUp
      OBVIOUS
    <2>1. stats[1] \in [Counters -> Nat] /\ passed \in Nat /\ Cardinality(Active) \in Nat
      BY StatsShape, ActiveFinite DEF IInv, TypeOK
    <2>2. InFlight = Cardinality(Active)
      BY DEF InFlight, Active
    <2> QED
      BY <2>1, <2>2 DEF IInv, StatsInv, SumInv, StatsAddUp, RejectedIn, Counters, Rejections
  <1> QED
    BY <1>1, Invariance, PTL

\* botdetect.go:33-40: nothing gets a request past a honeypot path.
THEOREM Honeypot == Spec => []HoneypotHolds
  <1>1. IInv => HoneypotHolds
    BY DEF IInv
  <1> QED
    BY <1>1, Invariance, PTL

\* engine.go:67-70 with config.go:204-226: for any inputs, sites and lists of addresses,
\* in any interleaving, the default list lets no agent that names Google and is exempt
\* from scanner rules reach the WAF without a name of Google's that confirms the
\* address getClientIP returned for it.
THEOREM GoogleAgents == Spec => []GoogleAgentsVerified
  <1>1. IInv => GoogleAgentsVerified
    BY DEF IInv, AgentInv, PastBots, GoogleAgentsVerified
  <1> QED
    BY <1>1, Invariance, PTL
=============================================================================
