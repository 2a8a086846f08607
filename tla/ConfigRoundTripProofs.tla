----------------------- MODULE ConfigRoundTripProofs -----------------------
(***************************************************************************)
(* That a restart keeps what a single admin's save was acknowledged with.  *)
(* There are two parts to it.  KeptInv: LoadConfig has nothing to put into *)
(* the limits of a configuration that was loaded once, nor has the page.   *)
(* The live one alone is not inductive: any object a handler works on may  *)
(* become live, and a page may be posted long after it was fetched, after  *)
(* a restart too.  AckedInv: until the file is truncated again, it is what *)
(* was acknowledged, and so is what is live.                               *)
(***************************************************************************)
EXTENDS ConfigRoundTrip, ConfigSavesProofs

Kept == Restored \cup OffPage

\* LoadConfig finds nothing to put in.
Settled(s) == \A f \in Kept : LoadConfig(s)[f] = s[f]

KeptInv ==
    /\ Up => \A o \in Objects : Settled(heap[o].settings)
    /\ \A a \in Admins : page[a] # Nil => Settled(page[a].settings)

USE DEF Restored, OffPage, Kept, Up

LEMMA LoadedIsSettled ==
  ASSUME NEW s \in [Fields -> Values]
  PROVE  Settled(LoadConfig(s))
  BY DEF Settled, LoadConfig, Fields, Bare, Verbatim

\* What the page posts is settled if what it had fetched was.
LEMMA PostedIsSettled ==
  ASSUME NEW s \in [Fields -> Values], NEW t \in [Fields -> Values], Settled(s)
  PROVE  Settled(BuildConfig(s, t))
  <1> SUFFICES ASSUME NEW f \in Kept
               PROVE  LoadConfig(BuildConfig(s, t))[f] = BuildConfig(s, t)[f]
    BY DEF Settled
  <1>1. f \in Fields
    BY DEF Fields
  <1>2. CASE f \in OffPage
    <2>1. BuildConfig(s, t)[f] = s[f]
      BY <1>1, <1>2 DEF BuildConfig
    <2>2. LoadConfig(s)[f] = s[f]
      BY DEF Settled
    <2> QED
      BY <1>1, <2>1, <2>2 DEF LoadConfig
  <1>3. CASE f \in Restored
    <2>1. BuildConfig(s, t)[f] # "unset"
      BY <1>1, <1>3 DEF BuildConfig
    <2> QED
      BY <1>1, <2>1 DEF LoadConfig
  <1> QED
    BY <1>2, <1>3

LEMMA InitKept == Init => KeptInv
  BY DEF Init, KeptInv

LEMMA ProcessKept ==
  ASSUME ShapeInv, KeptInv, Process
  PROVE  KeptInv'
  <1> USE DEF ShapeInv
  <1>1. page' = page
    BY DEF Process, Boot, BootFails, HashPassword, OpenHashFile, WriteHashFile, Crash, vars
  <1>2. Up' => \A o \in Objects : Settled(heap'[o].settings)
    <2>1. CASE Boot
      <3>1. file \in Config /\ file.settings \in Settings
        BY <2>1 DEF Boot, Loadable, Config
      <3>2. Loaded.settings = LoadConfig(file.settings)
        BY <3>1, LoadedType, FieldsAssumption
      <3>3. Settled(Loaded.settings)
        BY <3>1, <3>2, LoadedIsSettled, FieldsAssumption
      <3> QED
        BY <2>1, <3>3 DEF Boot
    <2>2. CASE HashPassword
      <3>1. \A o \in Objects : heap'[o].settings = heap[o].settings
        BY <2>2 DEF HashPassword, TypeOK, Config
      <3> QED
        BY <2>2, <3>1 DEF HashPassword, KeptInv
    <2>3. CASE BootFails \/ OpenHashFile \/ WriteHashFile
      BY <2>3 DEF BootFails, OpenHashFile, WriteHashFile, vars, KeptInv
    <2>4. CASE Crash
      BY <2>4 DEF Crash
    <2> QED
      BY <2>1, <2>2, <2>3, <2>4 DEF Process
  <1> QED
    BY <1>1, <1>2 DEF KeptInv

LEMMA RequestKept ==
  ASSUME ShapeInv, KeptInv, NEW a \in Admins, Request(a)
  PROVE  KeptInv'
  <1> USE DEF ShapeInv
  <1>1. CASE HandleGetConfig(a)
    <2>1. Settled(heap[engine.config].settings)
      BY <1>1 DEF HandleGetConfig, EngineInv, KeptInv
    <2>2. UNCHANGED <<boot, heap>> /\ page' = [page EXCEPT ![a] = heap[engine.config]]
      BY <1>1 DEF HandleGetConfig
    <2>3. \A b \in Admins : page'[b] # Nil => Settled(page'[b].settings)
      BY <2>1, <2>2 DEF TypeOK, KeptInv
    <2> QED
      BY <2>2, <2>3 DEF KeptInv
  <1>2. ASSUME NEW op \in {"add", "remove"}, NEW l \in Lists, NEW ip \in IPs,
               HandleListPost(a, op, l, ip)
        PROVE  KeptInv'
    BY <1>2 DEF HandleListPost, KeptInv
  <1>3. ASSUME NEW s \in Entered, NEW typed \in Typed \cup {Nil},
               HandleUpdateConfig(a, s, typed)
        PROVE  KeptInv'
    <2>1. page[a] \in Config /\ page[a].settings \in Settings /\ boot = "serving"
      BY <1>3 DEF HandleUpdateConfig, Posts, TypeOK, Config
    <2>2. Form(a, s, typed).settings = BuildConfig(page[a].settings, s)
      BY <2>1, FieldsAssumption DEF Form, Config
    <2>3. Settled(Form(a, s, typed).settings)
      BY <1>3, <2>1, <2>2, PostedIsSettled, FieldsAssumption, InputAssumption
         DEF HandleUpdateConfig, KeptInv
    <2>4. Form(a, s, typed) \in Config
      BY <1>3, FormType DEF HandleUpdateConfig
    <2> DEFINE new == [Form(a, s, typed) EXCEPT
                          !.password = Normalised(@, heap[engine.config].password)]
    <2>5. new.settings = Form(a, s, typed).settings
      BY <2>4 DEF Config
    <2> HIDE DEF new
    <2>6. PICK o \in Objects \ Reachable : heap' = [heap EXCEPT ![o] = new]
      BY <1>3 DEF HandleUpdateConfig, new
    <2>7. \A x \in Objects : Settled(heap'[x].settings)
      BY <2>1, <2>3, <2>5, <2>6 DEF KeptInv, TypeOK
    <2> QED
      BY <1>3, <2>7 DEF HandleUpdateConfig, KeptInv
  <1>4. CASE HandleReload(a)
    BY <1>4 DEF HandleReload, KeptInv
  <1> QED
    BY <1>1, <1>2, <1>3, <1>4 DEF Request

LEMMA HandlerKept ==
  ASSUME ShapeInv, KeptInv, NEW a \in Admins, Save(a) \/ Reload(a)
  PROVE  KeptInv'
  <1>1. UNCHANGED <<boot, page>>
    BY DEF Save, EditList, Marshal, OpenFile, WriteFile,
           Reload, BuildFails, Build, CloseLog, AssignConfig, AssignLog
  <1>2. \A o \in Objects : heap'[o].settings = heap[o].settings
    <2>1. CASE EditList(a)
      BY <2>1 DEF EditList, ShapeInv, TypeOK, Config
    <2>2. CASE ~EditList(a)
      BY <2>2 DEF Save, Marshal, OpenFile, WriteFile,
                  Reload, BuildFails, Build, CloseLog, AssignConfig, AssignLog
    <2> QED
      BY <2>1, <2>2
  <1> QED
    BY <1>1, <1>2 DEF KeptInv

LEMMA NextKept ==
  ASSUME ShapeInv, KeptInv, [Next]_vars
  PROVE  KeptInv'
  <1>1. CASE UNCHANGED vars
    BY <1>1 DEF vars, KeptInv
  <1>2. CASE Headless
    BY <1>1, <1>2 DEF Headless
  <1> QED
    BY <1>1, <1>2, ProcessKept, RequestKept, HandlerKept DEF Next

-----------------------------------------------------------------------------
(* What was acknowledged is in the file, and live *)

Agrees(c) == /\ c.password = acked.password
             /\ \A f \in Kept : c.settings[f] = acked.settings[f]

AckedInv == acked # Nil =>
    /\ acked \in Config /\ file = acked
    /\ Hashed(acked.password) /\ Settled(acked.settings)
    /\ boot # "hashwrite"
    /\ boot = "hash" => acked.password.form = "long"
    /\ Up => Agrees(Live)
    /\ \A a \in Admins :
          /\ pc[a] # "write"
          /\ pc[a] \in {"build", "close", "config", "log"} =>
                job[a].op = "reload" /\ job[a].cfg = engine.config

\* The answer to a save.
LEMMA AnswerAcked ==
  ASSUME OneAdmin, ShapeInv, SaveInv, HashedInv, KeptInv, Next,
         NEW a \in Admins, Acknowledging(a), acked' = Live'
  PROVE  AckedInv'
  <1> USE DEF ShapeInv
  <1>1. AssignLog(a) /\ job[a].op # "reload"
    BY AnswerIsAssignLog DEF Acknowledging
  <1>2. boot = "serving" /\ boot' = boot /\ file' = file /\ heap' = heap
    BY <1>1 DEF AssignLog, JobInv
  <1>3. engine.config = job[a].cfg /\ file = heap[job[a].cfg] /\ engine.config \in Objects
    BY <1>1, <1>2 DEF AssignLog, SaveInv, EngineInv
  <1>4. engine'.config = engine.config
    BY <1>1 DEF AssignLog, TypeOK
  <1>5. acked' = heap[engine.config] /\ file' = acked' /\ Live' = acked' /\ acked' \in Config
    BY <1>2, <1>3, <1>4 DEF Live, TypeOK
  <1>6. Hashed(heap[engine.config].password) /\ Settled(heap[engine.config].settings)
    BY <1>2, <1>3 DEF HashedInv, KeptInv
  <1>7. \A b \in Admins : pc'[b] = "idle"
    BY <1>1 DEF AssignLog, Returns, TypeOK, OneAdmin
  <1>8. Agrees(Live)'
    BY <1>5 DEF Agrees
  <1>9. Hashed(acked.password)' /\ Settled(acked.settings)'
    BY <1>5, <1>6 DEF Hashed, Settled
  <1> QED
    BY <1>2, <1>5, <1>7, <1>8, <1>9 DEF AckedInv

\* What the process does from then on.
LEMMA ProcessAcked ==
  ASSUME ShapeInv, AckedInv, acked # Nil, acked' = acked, file' # Empty, Process
  PROVE  AckedInv'
  <1> USE DEF ShapeInv
  <1>1. CASE Boot
    <2>1. file \in Config /\ file' = file /\ file = acked /\ file.settings \in Settings
      BY <1>1 DEF Boot, Loadable, AckedInv, Config
    <2>2. Loaded.settings = LoadConfig(file.settings) /\ Loaded.password = file.password
      BY <2>1, LoadedType, FieldsAssumption
    <2>3. Live' = Loaded
      BY <1>1 DEF Boot, Live
    <2>4. \A f \in Kept : LoadConfig(acked.settings)[f] = acked.settings[f]
      BY DEF AckedInv, Settled
    <2>5. Agrees(Live)'
      BY <2>1, <2>2, <2>3, <2>4 DEF Agrees
    <2>6. boot' = "hash" => acked.password.form = "long"
      BY <1>1, <2>1 DEF Boot, AckedInv, Hashed
    <2>7. boot' # "hashwrite" /\ UNCHANGED <<pc, job>> /\ \A a \in Admins : pc[a] = "idle"
      BY <1>1 DEF Boot, handlerVars, JobInv, TypeOK
    <2> QED
      BY <2>1, <2>5, <2>6, <2>7 DEF AckedInv, Settled, Hashed
  <1>2. CASE HashPassword
    <2>1. heap[engine.config].password = acked.password /\ acked.password.form = "long"
      BY <1>2 DEF HashPassword, AckedInv, Agrees, Live
    <2>2. boot' = "headless" /\ UNCHANGED <<heap, engine, file, pc, job>>
      BY <1>2, <2>1 DEF HashPassword, handlerVars
    <2> QED
      BY <1>2, <2>2 DEF HashPassword, AckedInv, Agrees, Live, Settled, Hashed
  <1>3. CASE OpenHashFile
    <2>1. boot = "hashopen" /\ boot' = "serving" /\ UNCHANGED <<heap, engine, file, pc, job>>
      BY <1>3 DEF OpenHashFile, handlerVars
    <2> QED
      BY <2>1 DEF AckedInv, Agrees, Live, Settled, Hashed
  <1>4. CASE WriteHashFile
    BY <1>4 DEF WriteHashFile, AckedInv
  <1>5. CASE BootFails
    BY <1>5 DEF BootFails, vars, handlerVars, AckedInv, Agrees, Live, Settled, Hashed
  <1>6. CASE Crash
    BY <1>6 DEF Crash, AckedInv, Settled, Hashed
  <1> QED
    BY <1>1, <1>2, <1>3, <1>4, <1>5, <1>6 DEF Process

\* What the next requests do, up to the next truncation.
LEMMA HandlerAcked ==
  ASSUME OneAdmin, ShapeInv, AckedInv, acked # Nil, acked' = acked, file' # Empty,
         NEW a \in Admins, Request(a) \/ Save(a) \/ Reload(a)
  PROVE  AckedInv'
  <1> USE DEF ShapeInv
  <1>1. boot = "serving" /\ boot' = boot /\ engine.config \in Objects
    BY DEF Request, HandleGetConfig, HandleListPost, HandleUpdateConfig, HandleReload, Posts,
           Save, EditList, Marshal, OpenFile, WriteFile, Moves, JobInv, EngineInv,
           Reload, BuildFails, Build, CloseLog, AssignConfig, AssignLog
  <1>2. \A b \in Admins : b = a
    BY DEF OneAdmin
  <1>3. ~WriteFile(a) /\ file' = file
    BY DEF Request, HandleGetConfig, HandleListPost, HandleUpdateConfig, HandleReload,
           Save, EditList, Marshal, OpenFile, WriteFile, AckedInv,
           Reload, BuildFails, Build, CloseLog, AssignConfig, AssignLog
  <1>4. engine'.config = engine.config
    <2>1. CASE AssignConfig(a)
      BY <2>1 DEF AssignConfig, Moves, AckedInv, TypeOK
    <2>2. CASE ~AssignConfig(a)
      BY <2>2 DEF Request, HandleGetConfig, HandleListPost, HandleUpdateConfig, HandleReload,
           Save, EditList, Marshal, OpenFile, WriteFile, TypeOK,
           Reload, BuildFails, Build, CloseLog, AssignLog
    <2> QED
      BY <2>1, <2>2
  <1>5. /\ heap'[engine.config].settings = heap[engine.config].settings
        /\ heap'[engine.config].password = heap[engine.config].password
    <2>1. CASE EditList(a)
      BY <1>1, <2>1 DEF EditList, TypeOK, Config
    <2>2. CASE Request(a)
      <3>1. CASE \E s \in Entered, typed \in Typed \cup {Nil} : HandleUpdateConfig(a, s, typed)
        BY <1>1, <3>1, UpdateEffect DEF Reachable
      <3>2. CASE ~\E s \in Entered, typed \in Typed \cup {Nil} :
                    HandleUpdateConfig(a, s, typed)
        BY <2>2, <3>2 DEF Request, HandleGetConfig, HandleListPost, HandleReload
      <3> QED
        BY <3>1, <3>2
    <2>3. CASE ~EditList(a) /\ ~Request(a)
      BY <2>3 DEF Save, Marshal, OpenFile, WriteFile,
                  Reload, BuildFails, Build, CloseLog, AssignConfig, AssignLog
    <2> QED
      BY <2>1, <2>2, <2>3
  <1>6. Agrees(Live)'
    BY <1>1, <1>4, <1>5 DEF AckedInv, Agrees, Live
  <1>7. /\ pc'[a] # "write"
        /\ pc'[a] \in {"build", "close", "config", "log"} =>
              job'[a].op = "reload" /\ job'[a].cfg = engine'.config
    <2>1. CASE HandleReload(a)
      <3>1. [NoJob EXCEPT !.op = "reload", !.cfg = engine.config].op = "reload"
        BY NoJobType DEF Job
      <3>2. [NoJob EXCEPT !.op = "reload", !.cfg = engine.config].cfg = engine.config
        BY NoJobType DEF Job
      <3> QED
        BY <1>4, <2>1, <3>1, <3>2 DEF HandleReload, Moves, TypeOK
    <2>2. CASE Request(a) /\ ~HandleReload(a)
      BY <1>4, <2>2
         DEF Request, HandleGetConfig, HandleListPost, HandleUpdateConfig, handlerVars,
             Moves, AckedInv, TypeOK
    <2>3. CASE Save(a)
      <3>1. pc'[a] \in {"marshal", "open", "idle"}
        BY <1>3, <2>3, FileAssumption
           DEF Save, EditList, Marshal, OpenFile, Moves, Returns, TypeOK
      <3> QED
        BY <3>1
    <2>4. CASE BuildFails(a) \/ AssignLog(a)
      BY <2>4 DEF BuildFails, AssignLog, Returns, TypeOK
    <2>5. CASE Build(a) \/ CloseLog(a) \/ AssignConfig(a)
      <3>1. /\ pc[a] \in {"build", "close", "config"}
            /\ pc'[a] \in {"close", "config", "log"}
            /\ job'[a].op = job[a].op /\ job'[a].cfg = job[a].cfg
        BY <2>5 DEF Build, CloseLog, AssignConfig, Moves, TypeOK, Job
      <3> QED
        BY <1>4, <3>1 DEF AckedInv
    <2> QED
      BY <2>1, <2>2, <2>3, <2>4, <2>5 DEF Reload
  <1> QED
    BY <1>1, <1>2, <1>3, <1>6, <1>7 DEF AckedInv, Settled, Hashed

LEMMA NextAcked ==
  ASSUME OneAdmin, ShapeInv, SaveInv, HashedInv, KeptInv, AckedInv,
         [RoundTripNext]_<<vars, acked>>
  PROVE  AckedInv'
  <1>1. CASE UNCHANGED <<vars, acked>>
    BY <1>1 DEF vars, handlerVars, AckedInv, Agrees, Live, Settled, Hashed
  <1>2. CASE RoundTripNext
    <2>1. CASE \E a \in Admins : Acknowledging(a)
      BY <1>2, <2>1, AnswerAcked DEF RoundTripNext
    <2>2. CASE ~\E a \in Admins : Acknowledging(a)
      <3>1. CASE acked' = Nil
        BY <3>1 DEF AckedInv
      <3>2. CASE acked' # Nil
        <4>1. acked' = acked /\ acked # Nil /\ file' # Empty /\ Next
          BY <1>2, <2>2, <3>2 DEF RoundTripNext
        <4>2. CASE Headless
          BY <4>1, <4>2
             DEF Headless, vars, handlerVars, AckedInv, Agrees, Live, Settled, Hashed
        <4> QED
          BY <4>1, <4>2, ProcessAcked, HandlerAcked DEF Next
      <3> QED
        BY <3>1, <3>2
    <2> QED
      BY <2>1, <2>2
  <1> QED
    BY <1>1, <1>2

\* index.html:1312-1335, config.go:191-253 and dashboard.go:355-372: what a single admin's
\* save was acknowledged with, limits, password and what is not on the page, is what the
\* process goes on with until the file is next truncated, whatever is left out of the
\* file, refused, edited and not saved, and wherever the process dies.
THEOREM RestartKeeps ==
  ASSUME OneAdmin
  PROVE  RoundTripSpec => []RestartKeepsSaved
  <1> DEFINE Inv == ShapeInv /\ SaveInv /\ HashedInv /\ KeptInv /\ AckedInv
  <1>1. RoundTripInit => Inv
    BY InitShape, InitHashed, InitKept DEF RoundTripInit, Init, SaveInv, AckedInv
  <1>2. Inv /\ [RoundTripNext]_<<vars, acked>> => Inv'
    <2>1. [RoundTripNext]_<<vars, acked>> => [Next]_vars
      BY DEF RoundTripNext
    <2> QED
      BY <2>1, NextShape, NextSave, NextHashed, NextKept, NextAcked
  <1>3. Inv => RestartKeepsSaved
    BY DEF AckedInv, Agrees, RestartKeepsSaved
  <1> QED
    BY <1>1, <1>2, <1>3, PTL DEF RoundTripSpec
=============================================================================
