----------------------- MODULE ResponseWritersProofs -----------------------
(***************************************************************************)
(* Proofs about ResponseWriters, for any status codes, refusals, denials   *)
(* and policies of the backend, and any number of hints and chunks.        *)
(*                                                                         *)
(* A response is committed by the first final status that passes the       *)
(* wrappers.  Committed says what the wrappers have agreed on from then on,*)
(* and that no later call of a handler changes it: the lemmas FirstStatus, *)
(* LaterWrite and LaterFlush say it of the writers one by one.             *)
(***************************************************************************)
EXTENDS ResponseWriters, SequenceTheorems, TLAPS

Final == 200..599

\* The policies that go out with a response that is a block page or is not, where
\* the backend has sent the policies csp.
Sent(page, csp) == <<IF page THEN "block"
                     ELSE IF Contains(csp, "sandbox") THEN "site; sandbox" ELSE "site">>

\* n responses were counted as blocked.
Committed(x, n, csp) ==
    /\ x \in Writer
    /\ x.sent # 0
    /\ site.headers => x.headerWritten
    /\ site.log => x.statusCode = x.sent
    /\ site.headers /\ site.csp => x.wireCSP = Sent(x.wroteBlock, csp)
    /\ "page" \in x.body => x.wroteBlock
    /\ x.wroteBlock => /\ site.waf
                       /\ x.sent = 403
                       /\ x.wireCSP = <<"block">>
                       /\ x.body \subseteq {"page"}
                       /\ n = 1

\* A writer that has passed on nothing but hints.
Untouched(x) ==
    /\ x \in Writer
    /\ x.csp = <<>> /\ x.length = "any"
    /\ x.sent = 0 /\ x.body = {}
    /\ x.headerWritten = FALSE /\ x.wroteBlock = FALSE

StageInv ==
    /\ at \in {"host", "handler"} =>
          Untouched(w) /\ blocked = 0 /\ answer.csp = <<>>
    /\ at \in {"denied", "copy", "return", "finish", "aborted"} =>
          Committed(w, blocked, answer.csp)
    /\ at = "denied" => site.waf
    /\ at = "finish" /\ site.log => logged = w.sent
    /\ at = "done" => OnePolicy /\ BlockPageAlone
    /\ at = "hijacked" => w.sent = 0 /\ w.body = {} /\ ~w.wroteBlock

WritersInv == WriterTypeOK /\ StageInv

-----------------------------------------------------------------------------
(* The writers *)

LEMMA PolicyType ==
  ASSUME NEW csp
  PROVE  <<Policy(csp)>> \in CSPs
  BY DEF Policy, CSPs, Policies

LEMMA BlockPolicy == Policy(<<"block">>) = "block"
  BY DEF Policy

\* No backend sends the block page's policy.
LEMMA UpstreamPolicy ==
  ASSUME NEW csp \in UpstreamCSPs \cup {<<>>}
  PROVE  Policy(csp) = IF Contains(csp, "sandbox") THEN "site; sandbox" ELSE "site"
  <1>1. csp \in Seq({"sandbox", "other"})
    BY CSPAssumption, EmptySeq
  <1>2. csp \in [1 .. Len(csp) -> {"sandbox", "other"}]
    BY <1>1, LenProperties
  <1>3. \A i \in DOMAIN csp : csp[i] # "block"
    BY <1>2
  <1> QED
    BY <1>3 DEF Policy

\* secHeaderWriter alone, which answers a CORS preflight.
LEMMA FirstStatusBelow ==
  ASSUME NEW x \in Writer, NEW code \in Status \cap Final,
         x.sent = 0, ~x.headerWritten
  PROVE  LET y == SwWriteHeader(x, code)
         IN  /\ y \in Writer
             /\ y.sent = code
             /\ site.headers => y.headerWritten
             /\ y.statusCode = x.statusCode
             /\ y.wireCSP = IF site.headers /\ site.csp THEN <<Policy(x.csp)>> ELSE x.csp
             /\ y.wroteBlock = x.wroteBlock
             /\ y.body = x.body
  <1> DEFINE b == IF site.headers
                  THEN [x EXCEPT !.headerWritten = TRUE,
                                 !.csp = IF site.csp THEN <<Policy(x.csp)>> ELSE @]
                  ELSE x
             y == [b EXCEPT !.sent = code, !.wireCSP = b.csp, !.wireLength = b.length]
  <1>1. ~Informational(code)
    BY DEF Final, Informational
  <1>2. b \in Writer /\ b.sent = 0
    BY PolicyType DEF Writer
  <1>3. SwWriteHeader(x, code) = y
    BY <1>1, <1>2 DEF SwWriteHeader, ApplyHeaders, NetWriteHeader
  <1>4. y \in Writer
    BY <1>2 DEF Writer
  <1>5. y.sent = code /\ y.wireCSP = b.csp /\ y.wroteBlock = x.wroteBlock /\ y.body = x.body
    BY DEF Writer
  <1> QED
    BY <1>3, <1>4, <1>5 DEF Writer

LEMMA FirstStatus ==
  ASSUME NEW x \in Writer, NEW code \in Status \cap Final,
         x.sent = 0, ~x.headerWritten
  PROVE  LET y == RwWriteHeader(x, code)
         IN  /\ y \in Writer
             /\ y.sent = code
             /\ site.headers => y.headerWritten
             /\ y.statusCode = IF site.log THEN code ELSE x.statusCode
             /\ y.wireCSP = IF site.headers /\ site.csp THEN <<Policy(x.csp)>> ELSE x.csp
             /\ y.wroteBlock = x.wroteBlock
             /\ y.body = x.body
  <1> DEFINE a == IF site.log THEN [x EXCEPT !.statusCode = code] ELSE x
  <1>1. /\ a \in Writer /\ a.sent = 0 /\ ~a.headerWritten /\ a.csp = x.csp
        /\ a.statusCode = IF site.log THEN code ELSE x.statusCode
        /\ a.wroteBlock = x.wroteBlock /\ a.body = x.body
    BY DEF Writer
  <1>2. RwWriteHeader(x, code) = SwWriteHeader(a, code)
    BY DEF RwWriteHeader
  <1> HIDE DEF a
  <1> QED
    BY <1>1, <1>2, FirstStatusBelow

LEMMA LaterWrite ==
  ASSUME WriterTypeOK, NEW x \in Writer, x.sent # 0, NEW part \in Bodies,
         site.headers => x.headerWritten,
         site.log => x.statusCode = x.sent
  PROVE  LET y == RwWrite(x, part)
         IN  y = x \/ y = [x EXCEPT !.body = @ \cup {part}]
  BY DEF RwWrite, SwWrite, NetWrite, NetWriteHeader, Writer

LEMMA LaterFlush ==
  ASSUME WriterTypeOK, NEW x \in Writer, x.sent # 0, site.headers => x.headerWritten
  PROVE  RwFlush(x) = x
  BY DEF RwFlush, SwFlush, NetFlush, SwWriteHeader, NetWriteHeader, Informational

-----------------------------------------------------------------------------
(* The first final status commits *)

LEMMA FinalIsSent == \A code \in Final : code # 0
  BY DEF Final

LEMMA FirstThrough ==
  ASSUME WriterTypeOK, NEW x \in Writer, NEW code \in Status \cap Final,
         x.sent = 0, ~x.headerWritten, ~x.wroteBlock, x.body = {},
         x.csp \in UpstreamCSPs \cup {<<>>}
  PROVE  /\ Committed(RwWriteHeader(x, code), blocked, x.csp)
         /\ ~RwWriteHeader(x, code).wroteBlock
  <1>1. Policy(x.csp) = IF Contains(x.csp, "sandbox") THEN "site; sandbox" ELSE "site"
    BY UpstreamPolicy
  <1> DEFINE y == RwWriteHeader(x, code)
  <1>2. /\ y \in Writer
        /\ y.sent = code
        /\ site.headers => y.headerWritten
        /\ site.log => y.statusCode = code
        /\ site.headers /\ site.csp => y.wireCSP = <<Policy(x.csp)>>
        /\ ~y.wroteBlock
        /\ y.body = {}
    BY FirstStatus
  <1>3. code # 0
    BY FinalIsSent
  <1> HIDE DEF y
  <1>4. site.headers /\ site.csp => y.wireCSP = Sent(y.wroteBlock, x.csp)
    BY <1>1, <1>2 DEF Sent
  <1>5. Committed(y, blocked, x.csp) /\ ~y.wroteBlock
    BY <1>2, <1>3, <1>4 DEF Committed
  <1> QED
    BY <1>5 DEF y

LEMMA AsPage ==
  ASSUME NEW x \in Writer
  PROVE  LET y == PageHeaders([x EXCEPT !.wroteBlock = TRUE])
         IN  /\ y \in Writer /\ y.sent = x.sent /\ y.headerWritten = x.headerWritten
             /\ y.body = x.body /\ y.csp = <<"block">> /\ y.wroteBlock
  <1> DEFINE page == <<"block">>
             v == [x EXCEPT !.wroteBlock = TRUE]
             y == [v EXCEPT !.csp = page]
  <1>1. page \in CSPs
    BY DEF CSPs, Policies
  <1>2. /\ v \in Writer /\ v.sent = x.sent /\ v.headerWritten = x.headerWritten
        /\ v.body = x.body /\ v.wroteBlock = TRUE
    BY DEF Writer
  <1>3. PageHeaders(v) = y
    BY DEF PageHeaders
  <1> HIDE DEF page, v
  <1>4. /\ y \in Writer /\ y.sent = x.sent /\ y.headerWritten = x.headerWritten
        /\ y.body = x.body /\ y.csp = page /\ y.wroteBlock = TRUE
    BY <1>1, <1>2 DEF Writer
  <1> HIDE DEF y
  <1> QED
    BY <1>3, <1>4 DEF page, v

\* interceptorRW turns the status into a block page.
LEMMA FirstBlock ==
  ASSUME WriterTypeOK, NEW x \in Writer, NEW code \in {403, 406}, NEW policies, site.waf,
         x.sent = 0, ~x.headerWritten, x.body = {}
  PROVE  Committed(IwWriteHeader(x, code), 1, policies)
  <1> DEFINE y == PageHeaders([x EXCEPT !.wroteBlock = TRUE])
             z == RwWriteHeader(y, 403)
             u == RwWrite(z, "page")
  <1>1. /\ y \in Writer /\ y.sent = 0 /\ ~y.headerWritten /\ y.body = {}
        /\ y.csp = <<"block">> /\ y.wroteBlock
    BY AsPage
  <1>2. 403 \in Status \cap Final
    BY DEF Status, Final
  <1> HIDE DEF y
  <1>3. /\ z \in Writer
        /\ z.sent = 403
        /\ site.headers => z.headerWritten
        /\ site.log => z.statusCode = 403
        /\ z.wireCSP = <<"block">>
        /\ z.wroteBlock
        /\ z.body = {}
    BY <1>1, <1>2, FirstStatus, BlockPolicy
  <1> HIDE DEF z
  <1>4. u = z \/ u = [z EXCEPT !.body = @ \cup {"page"}]
    BY <1>3, LaterWrite DEF Bodies
  <1>5. IwWriteHeader(x, code) = u
    BY DEF IwWriteHeader, IsBlock, y, z
  <1>6. /\ u \in Writer /\ u.sent = 403 /\ u.wroteBlock /\ u.body \subseteq {"page"}
        /\ u.wireCSP = <<"block">> /\ u.statusCode = z.statusCode
        /\ u.headerWritten = z.headerWritten
    BY <1>3, <1>4 DEF Writer, Bodies
  <1> HIDE DEF u
  <1>7. Committed(u, 1, policies)
    BY <1>3, <1>6 DEF Committed, Sent
  <1> QED
    BY <1>5, <1>7

\* The two together: what the proxy's writer makes of it.
LEMMA FirstOfProxy ==
  ASSUME WriterTypeOK, NEW x \in Writer, NEW code \in Status \cap Final, blocked = 0,
         x.sent = 0, ~x.headerWritten, ~x.wroteBlock, x.body = {},
         x.csp \in UpstreamCSPs \cup {<<>>}
  PROVE  Committed(WriteHeader(x, code), Counts(code), x.csp)
  <1>1. CASE site.waf /\ code \in {403, 406}
    BY <1>1, FirstBlock DEF WriteHeader, Counts, IsBlock
  <1>2. CASE ~(site.waf /\ code \in {403, 406})
    BY <1>2, FirstThrough DEF WriteHeader, IwWriteHeader, Counts, IsBlock
  <1> QED
    BY <1>1, <1>2

-----------------------------------------------------------------------------
(* Later calls change nothing but the body *)

LEMMA LaterBody ==
  ASSUME WriterTypeOK, NEW x, NEW n, NEW csp, Committed(x, n, csp), NEW part \in {"notice", "upstream"},
         ~x.wroteBlock
  PROVE  Committed(RwWrite(x, part), n, csp)
  <1>1. RwWrite(x, part) = x \/ RwWrite(x, part) = [x EXCEPT !.body = @ \cup {part}]
    BY LaterWrite DEF Committed, Bodies
  <1>2. Committed([x EXCEPT !.body = @ \cup {part}], n, csp)
    BY DEF Committed, Writer, Bodies
  <1> QED
    BY <1>1, <1>2

LEMMA LaterOfProxy ==
  ASSUME WriterTypeOK, NEW x, NEW n, NEW csp, Committed(x, n, csp), NEW part \in {"notice", "upstream"}
  PROVE  /\ Committed(Write(x, part), n, csp)
         /\ site.waf => Committed(IwWrite(x, part), n, csp)
         /\ Flush(x) = x
  <1>1. CASE x.wroteBlock
    BY <1>1, LaterFlush DEF Committed, Write, IwWrite, Flush, IwFlush
  <1>2. CASE ~x.wroteBlock
    BY <1>2, LaterBody, LaterFlush DEF Committed, Write, IwWrite, Flush, IwFlush
  <1> QED
    BY <1>1, <1>2

-----------------------------------------------------------------------------
(* The invariant *)

LEMMA FreshType == FreshWriter \in Writer
  <1>1. <<>> \in CSPs /\ 0 \in Status
    BY DEF CSPs, Status
  <1> QED
    BY <1>1 DEF FreshWriter, Writer

LEMMA InitWriters == WriterInit => WritersInv
  <1> SUFFICES ASSUME WriterInit PROVE WritersInv
    OBVIOUS
  <1>1. answer \in [code : Codes \cup {0}, csp : UpstreamCSPs \cup {<<>>}] /\ answer.csp = <<>>
    BY DEF WriterInit
  <1>2. 0 \in Status
    BY DEF Status
  <1>3. WriterTypeOK
    BY <1>1, <1>2, FreshType, WriterBoundAssumption DEF WriterInit, WriterTypeOK, PCs
  <1>4. Untouched(w)
    BY FreshType DEF WriterInit, Untouched, FreshWriter
  <1> QED
    BY <1>1, <1>3, <1>4 DEF WriterInit, WritersInv, StageInv

LEMMA CommittedStays ==
  ASSUME site' = site, Committed(w', blocked', answer'.csp)
  PROVE  Committed(w, blocked, answer.csp)'
  BY DEF Committed

\* The steps that leave the writers of a committed response alone.
LEMMA QuietSteps ==
  ASSUME WritersInv, KnownHost \/ EndOfBody \/ Abort \/ UNCHANGED writerVars
  PROVE  WritersInv'
  <1> USE DEF WritersInv
  <1>1. WriterTypeOK'
    BY DEF WriterTypeOK, KnownHost, EndOfBody, Abort, PCs, writerVars
  <1>2. CASE UNCHANGED writerVars
    <2>1. UNCHANGED <<site, at, w, blocked, logged, answer>>
      BY <1>2 DEF writerVars
    <2>2. Committed(w, blocked, answer.csp) => Committed(w, blocked, answer.csp)'
      BY <2>1, CommittedStays
    <2>3. OnePolicy => OnePolicy'
      BY <2>1 DEF OnePolicy
    <2>4. BlockPageAlone => BlockPageAlone'
      BY <2>1 DEF BlockPageAlone
    <2> QED
      BY <1>1, <2>1, <2>2, <2>3, <2>4 DEF StageInv, Untouched
  <1>3. CASE KnownHost
    BY <1>1, <1>3 DEF KnownHost, StageInv, Untouched
  <1>4. CASE EndOfBody \/ Abort
    BY <1>1, <1>4 DEF EndOfBody, Abort, StageInv, Committed
  <1> QED
    BY <1>2, <1>3, <1>4

\* A committed response has the two properties, in this state and the next.
LEMMA CommittedShows ==
  ASSUME Committed(w, blocked, answer.csp)
  PROVE  OnePolicy /\ BlockPageAlone
  <1>1. "page" \in w.body => w.wroteBlock
    BY DEF Committed
  <1>2. OnePolicy
    <2>1. CASE w.wroteBlock
      BY <2>1 DEF Committed, OnePolicy, Sent
    <2>2. CASE ~w.wroteBlock
      BY <1>1, <2>2 DEF Committed, OnePolicy, Sent
    <2> QED
      BY <2>1, <2>2
  <1>3. BlockPageAlone
    BY DEF Committed, BlockPageAlone
  <1> QED
    BY <1>2, <1>3

LEMMA CommittedShowsNext ==
  ASSUME Committed(w, blocked, answer.csp)'
  PROVE  OnePolicy' /\ BlockPageAlone'
  <1>1. "page" \in w'.body => w'.wroteBlock
    BY DEF Committed
  <1>2. OnePolicy'
    <2>1. CASE w'.wroteBlock
      BY <2>1 DEF Committed, OnePolicy, Sent
    <2>2. CASE ~w'.wroteBlock
      BY <1>1, <2>2 DEF Committed, OnePolicy, Sent
    <2> QED
      BY <2>1, <2>2
  <1>3. BlockPageAlone'
    BY DEF Committed, BlockPageAlone
  <1> QED
    BY <1>2, <1>3

\* A handler's first call commits, and the handler goes on.
LEMMA GoesOn ==
  ASSUME WritersInv, UNCHANGED <<site, logged>>, WriterTypeOK',
         at' \in {"denied", "copy", "return", "aborted"}, at' = "denied" => site.waf,
         Committed(w', blocked', answer'.csp)
  PROVE  WritersInv'
  BY CommittedStays DEF WritersInv, StageInv

LEMMA UnknownHostKeeps ==
  ASSUME WritersInv, UnknownHost
  PROVE  WritersInv'
  <1> DEFINE page == <<"block">>
             code == 403
             a == [w EXCEPT !.csp = page]
             c == [a EXCEPT !.sent = code, !.wireCSP = page, !.wireLength = a.length]
             d == [c EXCEPT !.body = @ \cup {"page"}]
  <1>1. Untouched(w) /\ blocked = 0 /\ at' = "done"
    BY DEF UnknownHost, WritersInv, StageInv
  <1>2. page \in CSPs /\ code \in Status /\ code # 0
    BY DEF CSPs, Policies, Status
  <1>3. a \in Writer /\ a.sent = 0 /\ a.length = "any" /\ a.csp = page
        /\ a.wroteBlock = FALSE /\ a.body = {}
    BY <1>1, <1>2 DEF Writer, Untouched
  <1>4. NetWriteHeader(PageHeaders(w), code) = c /\ PageHeaders(w) = a
    BY <1>3 DEF PageHeaders, NetWriteHeader, Informational
  <1> HIDE DEF a, page, code
  <1>5. c \in Writer /\ c.sent = code /\ c.wireCSP = page /\ c.wireLength = "any"
        /\ c.wroteBlock = FALSE /\ c.body = {}
    <2>1. c \in Writer
      BY <1>2, <1>3 DEF Writer
    <2>2. c.sent = code /\ c.wireCSP = page /\ c.wireLength = a.length
      BY <1>3 DEF Writer
    <2>3. c.wroteBlock = a.wroteBlock /\ c.body = a.body
      BY <1>3 DEF Writer
    <2> QED
      BY <1>3, <2>1, <2>2, <2>3
  <1> HIDE DEF c
  <1>6. w' = d
    <2>1. NetWrite(c, "page") = d
      BY <1>2, <1>5 DEF NetWrite, NetWriteHeader
    <2> QED
      BY <1>4, <2>1 DEF UnknownHost, code
  <1>7. d \in Writer /\ d.sent = code /\ d.wireCSP = page /\ d.wroteBlock = FALSE
        /\ d.body = {"page"}
    BY <1>5 DEF Writer, Bodies
  <1> HIDE DEF d
  <1>8. WriterTypeOK'
    BY <1>6, <1>7 DEF UnknownHost, WritersInv, WriterTypeOK, PCs
  <1>9. OnePolicy'
    BY <1>1, <1>6, <1>7 DEF UnknownHost, OnePolicy, page
  <1>10. BlockPageAlone'
    BY <1>1, <1>6, <1>7 DEF UnknownHost, BlockPageAlone
  <1> QED
    BY <1>1, <1>8, <1>9, <1>10 DEF WritersInv, StageInv

LEMMA PreflightKeeps ==
  ASSUME WritersInv, Preflight
  PROVE  WritersInv'
  <1>1. Untouched(w) /\ blocked = 0 /\ answer.csp = <<>> /\ at' = "done"
    BY DEF Preflight, WritersInv, StageInv
  <1>2. 204 \in Status \cap Final
    BY DEF Status, Final
  <1>3. /\ w' \in Writer
        /\ w'.wireCSP = IF site.headers /\ site.csp THEN <<Policy(<<>>)>> ELSE <<>>
        /\ ~w'.wroteBlock
        /\ w'.body = {}
    BY <1>1, <1>2, FirstStatusBelow DEF Preflight, Untouched
  <1>4. WriterTypeOK'
    BY <1>3 DEF Preflight, WritersInv, WriterTypeOK, PCs
  <1>5. OnePolicy'
    BY <1>1, <1>3, UpstreamPolicy DEF Preflight, OnePolicy
  <1>6. BlockPageAlone'
    BY <1>3 DEF BlockPageAlone
  <1> QED
    BY <1>1, <1>4, <1>5, <1>6 DEF WritersInv, StageInv

LEMMA RefuseKeeps ==
  ASSUME WritersInv, NEW code \in Refusals, Refuse(code)
  PROVE  WritersInv'
  <1>1. WriterTypeOK /\ Untouched(w) /\ blocked = 0 /\ answer.csp = <<>> /\ at' = "return"
    BY DEF Refuse, WritersInv, StageInv
  <1>2. code \in Status \cap Final
    BY CodeAssumption DEF Status, Final
  <1>3. Committed(RwWriteHeader(w, code), blocked, <<>>) /\ ~RwWriteHeader(w, code).wroteBlock
    BY <1>1, <1>2, FirstThrough DEF Untouched
  <1>4. Committed(w', blocked', answer'.csp)
    BY <1>1, <1>3, LaterBody DEF Refuse
  <1>5. WriterTypeOK'
    BY <1>1, <1>4 DEF Refuse, WriterTypeOK, PCs, Committed
  <1> QED
    BY <1>1, <1>4, <1>5, GoesOn DEF Refuse

LEMMA DenyKeeps ==
  ASSUME WritersInv, NEW code \in Denials, Deny(code)
  PROVE  WritersInv'
  <1>1. WriterTypeOK /\ Untouched(w) /\ blocked = 0 /\ answer.csp = <<>> /\ at' = "denied" /\ site.waf
    BY DEF Deny, WritersInv, StageInv
  <1>2. code \in Status \cap Final
    BY CodeAssumption DEF Status, Final
  <1>3. Committed(w', blocked', answer'.csp)
    BY <1>1, <1>2, FirstOfProxy DEF Deny, WriteHeader, Untouched
  <1>4. blocked' \in Nat
    BY <1>1 DEF Deny, Counts
  <1>5. WriterTypeOK'
    BY <1>1, <1>3, <1>4 DEF Deny, WriterTypeOK, PCs, Committed
  <1> QED
    BY <1>1, <1>3, <1>5, GoesOn DEF Deny

LEMMA DenyBodyKeeps ==
  ASSUME WritersInv, DenyBody
  PROVE  WritersInv'
  <1>1. WriterTypeOK /\ Committed(w, blocked, answer.csp) /\ site.waf /\ at' = "return"
    BY DEF DenyBody, WritersInv, StageInv
  <1>2. Committed(IwWrite(w, "notice"), blocked, answer.csp)
    BY <1>1, LaterOfProxy
  <1>3. Committed(w', blocked', answer'.csp)
    BY <1>1, <1>2 DEF DenyBody
  <1>4. WriterTypeOK'
    BY <1>1, <1>3 DEF DenyBody, WriterTypeOK, PCs, Committed
  <1> QED
    BY <1>1, <1>3, <1>4, GoesOn DEF DenyBody

\* A hint passes every wrapper and leaves its status with responseWriterWrapper.
LEMMA HintKeeps ==
  ASSUME WritersInv, NEW csp \in UpstreamCSPs, Hint(csp)
  PROVE  WritersInv'
  <1> DEFINE a == [w EXCEPT !.csp = csp]
             b == [a EXCEPT !.statusCode = 103]
             c == IF site.log THEN b ELSE a
  <1>1. Untouched(w) /\ blocked = 0 /\ answer.csp = <<>> /\ at = "handler"
    BY DEF Hint, WritersInv, StageInv
  <1>2. csp \in CSPs /\ 103 \in Status /\ <<>> \in CSPs
    BY DEF CSPs, Status
  <1>3. WriteHeader(a, 103) = c
    BY DEF WriteHeader, IwWriteHeader, IsBlock, RwWriteHeader, SwWriteHeader, NetWriteHeader,
           Informational
  <1>4. w' = [c EXCEPT !.csp = <<>>]
    BY <1>3 DEF Hint
  <1>5. c \in Writer /\ c.length = "any" /\ c.sent = 0 /\ c.body = {}
        /\ c.headerWritten = FALSE /\ c.wroteBlock = FALSE
    <2>1. a \in Writer /\ a.length = "any" /\ a.sent = 0 /\ a.body = {}
          /\ a.headerWritten = FALSE /\ a.wroteBlock = FALSE
      BY <1>1, <1>2 DEF Writer, Untouched
    <2> HIDE DEF a
    <2> QED
      BY <1>2, <2>1 DEF Writer
  <1> HIDE DEF c
  <1>6. Untouched(w')
    BY <1>2, <1>4, <1>5 DEF Untouched, Writer
  <1>7. hints' \in 0..MaxHints
    BY WriterBoundAssumption DEF Hint, WritersInv, WriterTypeOK
  <1>8. WriterTypeOK'
    BY <1>6, <1>7 DEF Hint, WritersInv, WriterTypeOK, Untouched
  <1> QED
    BY <1>1, <1>6, <1>8 DEF Hint, WritersInv, StageInv

LEMMA AnswerKeeps ==
  ASSUME WritersInv, NEW code \in Codes, NEW csp \in UpstreamCSPs,
         NEW length \in {"any", "upstream"}, Answer(code, csp, length)
  PROVE  WritersInv'
  <1> DEFINE x == [w EXCEPT !.csp = @ \o csp, !.length = length]
  <1>1. WriterTypeOK /\ Untouched(w) /\ blocked = 0 /\ at' = "copy"
    BY DEF Answer, WritersInv, StageInv
  <1>2. code \in Status \cap Final
    BY CodeAssumption DEF Status, Final
  <1>3. <<>> \o csp = csp
    BY CSPAssumption, ConcatEmptySeq
  <1>4. x \in Writer /\ x.csp = csp /\ x.sent = 0 /\ x.headerWritten = FALSE
        /\ x.wroteBlock = FALSE /\ x.body = {}
    <2>1. csp \in CSPs
      BY DEF CSPs
    <2>2. x = [w EXCEPT !.csp = csp, !.length = length]
      BY <1>1, <1>3 DEF Untouched
    <2> HIDE DEF x
    <2> QED
      BY <1>1, <2>1, <2>2 DEF Writer, Untouched
  <1> HIDE DEF x
  <1>5. Committed(WriteHeader(x, code), Counts(code), csp)
    BY <1>1, <1>2, <1>4, FirstOfProxy
  <1>6. w' = WriteHeader(x, code) /\ blocked' = Counts(code)
        /\ answer' = [code |-> code, csp |-> csp]
    BY DEF Answer, x
  <1>7. Committed(w', blocked', answer'.csp)
    BY <1>5, <1>6
  <1>8. blocked' \in Nat
    BY <1>1, <1>6 DEF Counts
  <1>9. WriterTypeOK'
    BY <1>1, <1>6, <1>7, <1>8 DEF Answer, WriterTypeOK, PCs, Committed
  <1> QED
    BY <1>1, <1>7, <1>9, GoesOn DEF Answer

LEMMA CopyChunkKeeps ==
  ASSUME WritersInv, CopyChunk
  PROVE  WritersInv'
  <1>1. WriterTypeOK /\ Committed(w, blocked, answer.csp) /\ at' = "copy"
    BY DEF CopyChunk, WritersInv, StageInv
  <1>2. Committed(Write(w, "upstream"), blocked, answer.csp)
    BY <1>1, LaterOfProxy
  <1>3. Flush(Write(w, "upstream")) = Write(w, "upstream")
    BY <1>1, <1>2, LaterOfProxy
  <1>4. Committed(w', blocked', answer'.csp)
    BY <1>2, <1>3 DEF CopyChunk
  <1>5. chunks' \in 0..MaxChunks
    BY WriterBoundAssumption DEF CopyChunk, WritersInv, WriterTypeOK
  <1>6. WriterTypeOK'
    BY <1>1, <1>4, <1>5 DEF CopyChunk, WriterTypeOK, PCs, Committed
  <1> QED
    BY <1>1, <1>4, <1>6, GoesOn DEF CopyChunk

\* proxy.ErrorHandler, for a backend that is gone and for an upgrade.
LEMMA BadGatewayKeeps ==
  ASSUME WritersInv, BadGateway \/ (Upgrade /\ at' = "return")
  PROVE  WritersInv'
  <1>1. WriterTypeOK /\ Untouched(w) /\ blocked = 0 /\ answer.csp = <<>> /\ at' = "return"
    BY DEF BadGateway, Upgrade, WritersInv, StageInv
  <1>2. 502 \in Status \cap Final
    BY DEF Status, Final
  <1>3. Counts(502) = 0
    BY <1>1 DEF Counts, IsBlock
  <1>4. Committed(WriteHeader(w, 502), 0, <<>>)
    BY <1>1, <1>2, <1>3, FirstOfProxy DEF Untouched
  <1>5. w' = Write(WriteHeader(w, 502), "notice") /\ blocked' = 0 /\ answer'.csp = <<>>
    BY <1>1 DEF BadGateway, Upgrade
  <1>6. Committed(w', blocked', answer'.csp)
    BY <1>1, <1>4, <1>5, LaterOfProxy
  <1>7. WriterTypeOK'
    BY <1>1, <1>6 DEF BadGateway, Upgrade, WriterTypeOK, PCs, Committed
  <1> QED
    BY <1>1, <1>6, <1>7, GoesOn DEF BadGateway, Upgrade

LEMMA HijackKeeps ==
  ASSUME WritersInv, Upgrade, at' # "return"
  PROVE  WritersInv'
  <1>1. WriterTypeOK /\ Untouched(w) /\ at' = "hijacked" /\ w' = w
    BY DEF Upgrade, WritersInv, StageInv
  <1>2. WriterTypeOK'
    BY <1>1 DEF Upgrade, WriterTypeOK, PCs
  <1> QED
    BY <1>1, <1>2 DEF WritersInv, StageInv, Untouched

\* ThreatLogger takes the status down; responseWriterWrapper has it from the call
\* that committed the response.
LEMMA LogKeeps ==
  ASSUME WritersInv, Log
  PROVE  WritersInv'
  <1>1. WriterTypeOK /\ Committed(w, blocked, answer.csp) /\ at' = "finish"
    BY DEF Log, WritersInv, StageInv
  <1>2. site.log => w.statusCode = w.sent /\ w.sent # 0
    BY <1>1 DEF Committed
  <1>3. w' = w /\ (site.log => logged' = w.sent) /\ logged' \in Status
    BY <1>1, <1>2 DEF Log, Committed, WriterTypeOK, Writer
  <1>4. Committed(w, blocked, answer.csp)'
    BY <1>1, <1>3, CommittedStays DEF Log
  <1>5. WriterTypeOK'
    BY <1>1, <1>3 DEF Log, WriterTypeOK, PCs
  <1> QED
    BY <1>1, <1>3, <1>4, <1>5 DEF Log, WritersInv, StageInv

\* After that nothing reaches the wire any more.
LEMMA FinishKeeps ==
  ASSUME WritersInv, Finish
  PROVE  WritersInv' /\ w' = w
  <1>1. WriterTypeOK /\ Committed(w, blocked, answer.csp) /\ at' = "done"
    BY DEF Finish, WritersInv, StageInv
  <1>2. w' = w
    BY <1>1 DEF Finish, Committed, SwWriteHeader, NetFlush, NetWriteHeader, Informational
  <1>3. Committed(w, blocked, answer.csp)'
    BY <1>1, <1>2, CommittedStays DEF Finish
  <1>4. OnePolicy' /\ BlockPageAlone'
    BY <1>3, CommittedShowsNext
  <1>5. WriterTypeOK'
    BY <1>1, <1>2 DEF Finish, WriterTypeOK, PCs
  <1> QED
    BY <1>1, <1>2, <1>4, <1>5 DEF WritersInv, StageInv

LEMMA NextWriters ==
  ASSUME WritersInv, [WriterNext]_writerVars
  PROVE  WritersInv'
  <1>1. CASE UNCHANGED writerVars
    BY <1>1, QuietSteps
  <1>2. CASE Proxy
    BY <1>2, HintKeeps, AnswerKeeps, CopyChunkKeeps, QuietSteps, BadGatewayKeeps, HijackKeeps
       DEF Proxy
  <1> QED
    BY <1>1, <1>2, QuietSteps, UnknownHostKeeps, PreflightKeeps, RefuseKeeps, DenyKeeps,
       DenyBodyKeeps, LogKeeps, FinishKeeps DEF WriterNext, Over

LEMMA WritersInvariance == WriterSpec => []WritersInv
  BY InitWriters, NextWriters, PTL DEF WriterSpec

-----------------------------------------------------------------------------
(* The theorems *)

\* Every wrapper's state, and what went out, has its type.
THEOREM TypeCorrect == WriterSpec => []WriterTypeOK
  BY WritersInvariance, PTL DEF WritersInv

\* securityheaders.go:53-113: exactly one policy goes out, the site's, sandboxed if
\* and only if the answer asks for it, for any lists of policies the backend may send
\* in its hints and in its answer, or the block page's.
THEOREM Policed == WriterSpec => []OnePolicy
  <1>1. WritersInv => OnePolicy
    <2>1. CASE at \in {"host", "handler", "hijacked"}
      BY <2>1 DEF WritersInv, StageInv, Untouched, OnePolicy
    <2>2. CASE at \in {"denied", "copy", "return", "finish", "aborted"}
      BY <2>2, CommittedShows DEF WritersInv, StageInv
    <2>3. CASE at = "done"
      BY <2>3 DEF WritersInv, StageInv
    <2> QED
      BY <2>1, <2>2, <2>3 DEF WritersInv, WriterTypeOK, PCs
  <1> QED
    BY <1>1, WritersInvariance, PTL

\* proxy.go and block.go: what turned a response into a block page, nothing else gets
\* into it, however often and from wherever the handlers write afterwards.
THEOREM Alone == WriterSpec => []BlockPageAlone
  <1>1. WritersInv => BlockPageAlone
    <2>1. CASE at \in {"host", "handler", "hijacked"}
      BY <2>1 DEF WritersInv, StageInv, Untouched, BlockPageAlone
    <2>2. CASE at \in {"denied", "copy", "return", "finish", "aborted"}
      BY <2>2, CommittedShows DEF WritersInv, StageInv
    <2>3. CASE at = "done"
      BY <2>3 DEF WritersInv, StageInv
    <2> QED
      BY <2>1, <2>2, <2>3 DEF WritersInv, WriterTypeOK, PCs
  <1> QED
    BY <1>1, WritersInvariance, PTL

\* threatlogger.go:81-113: the line in the log has the status the client got.
THEOREM LoggedRight == WriterSpec => LoggedAsSent
  <1>1. WritersInv /\ [WriterNext]_writerVars =>
            [at = "finish" /\ at' = "done" /\ site.log => logged = w'.sent]_writerVars
    <2> SUFFICES ASSUME WritersInv, [WriterNext]_writerVars, at = "finish", at' = "done", site.log
                 PROVE  logged = w'.sent
      OBVIOUS
    <2>1. logged = w.sent
      BY DEF WritersInv, StageInv
    <2>2. Finish
      BY DEF WriterNext, writerVars, UnknownHost, KnownHost, Preflight, Refuse, Deny, DenyBody, Proxy, Hint,
             Answer, CopyChunk, EndOfBody, Abort, Upgrade, BadGateway, Log, Over
    <2> QED
      BY <2>1, <2>2, FinishKeeps
  <1> QED
    BY <1>1, WritersInvariance, PTL DEF WriterSpec, LoggedAsSent
=============================================================================
