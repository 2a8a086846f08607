------------------------- MODULE ConfigStoreProofs -------------------------
(***************************************************************************)
(* Proofs about ConfigStore, for any number of admins and faults.          *)
(*                                                                         *)
(* The inductive invariant IInv is made of three layers.  ShapeInv: types, *)
(* and which pointers and bytes a process and a handler have at each       *)
(* stage.  LoadInv: not only the live configuration but every one that a   *)
(* handler is about to make live has passed NewEngine, and no object that  *)
(* is still in use is reused.  LogInv: the log file a handler has opened   *)
(* is its own, so that no other handler's Close can close it.              *)
(***************************************************************************)
EXTENDS ConfigStore, TLAPS

EngineInv == Up => engine.config \in Objects

JobInv == \A a \in Admins :
    /\ pc[a] # "idle" => boot = "serving" /\ job[a].cfg \in Objects
    /\ pc[a] \in {"open", "write"} => job[a].data \in Config

ShapeInv == TypeOK /\ EngineInv /\ JobInv

LoadInv ==
    /\ LiveConfigLoads
    /\ \A a \in Admins :
          pc[a] \in {"close", "config"} => Verdict(heap[job[a].cfg].settings) = "ok"

HasLog(a) == pc[a] \in {"close", "config", "log"}

LogInv ==
    /\ EngineLogOpen
    /\ engine.log <= opened
    /\ \A a \in Admins :
          HasLog(a) => /\ job[a].log \in open \cup {0}
                       /\ job[a].log # 0 => job[a].log # engine.log
    /\ \A a, b \in Admins :
          HasLog(a) /\ HasLog(b) /\ a # b /\ job[a].log # 0 => job[a].log # job[b].log

IInv == ShapeInv /\ LoadInv /\ LogInv

USE DEF Boots, PCs, Up

-----------------------------------------------------------------------------
(* The values the operators return *)

LEMMA NoJobType == NoJob \in Job
  <1>1. (CHOOSE l \in Lists : TRUE) \in Lists
    BY InputAssumption
  <1> QED
    BY <1>1 DEF NoJob, Job

LEMMA NoListsType == NoLists \in [Lists -> SUBSET IPs]
  BY DEF NoLists

LEMMA BcryptType ==
  ASSUME NEW p \in Password
  PROVE  Bcrypt(p) \in Password
  BY DEF Bcrypt, Password, Forms

LEMMA NormalisedType ==
  ASSUME NEW p \in Password, NEW old \in Password
  PROVE  Normalised(p, old) \in Password
  BY BcryptType DEF Normalised

LEMMA LoadedType ==
  ASSUME file \in Config
  PROVE  /\ Loaded \in Config
         /\ Loaded.settings = Defaulted(file.settings)
         /\ Loaded.password = file.password
  <1>1. Defaulted(file.settings) \in Settings
    BY LoadingAssumption DEF Config
  <1> QED
    BY <1>1 DEF Loaded, Config

LEMMA AbsentType == Absent \in Password
  BY DEF Absent, Password, Forms

LEMMA CutShortType ==
  ASSUME NEW c \in Config
  PROVE  CutShort(c) \subseteq Config
  <1> SUFFICES ASSUME NEW d \in CutShort(c)
               PROVE  d \in Config
    OBVIOUS
  <1>1. c.settings \in Settings /\ c.password \in Password
    BY DEF Config
  <1>2. CASE \E p \in CutPasswords(c.password) : d = [c EXCEPT !.password = p]
    <2>1. PICK p \in CutPasswords(c.password) : d = [c EXCEPT !.password = p]
      BY <1>2
    <2>2. p \in Password
      BY <1>1, <2>1, AbsentType DEF CutPasswords, Password, Forms
    <2> QED
      BY <2>1, <2>2 DEF Config
  <1>3. CASE \E l \in [Lists -> SUBSET IPs], s \in Cuts(c.settings) :
                d = [lists |-> l, settings |-> s, password |-> Absent]
    <2>1. PICK l \in [Lists -> SUBSET IPs], s \in Cuts(c.settings) :
                d = [lists |-> l, settings |-> s, password |-> Absent]
      BY <1>3
    <2>2. s \in Settings
      BY <1>1, <2>1, LoadingAssumption
    <2>3. [lists |-> l, settings |-> s, password |-> Absent] \in Config
      BY <2>1, <2>2, AbsentType DEF Config
    <2> QED
      BY <2>1, <2>3
  <1>4. \/ \E p \in CutPasswords(c.password) : d = [c EXCEPT !.password = p]
        \/ \E l \in [Lists -> SUBSET IPs], s \in Cuts(c.settings) :
              d = [lists |-> l, settings |-> s, password |-> Absent]
    BY DEF CutShort
  <1> QED
    BY <1>2, <1>3, <1>4

LEMMA FormType ==
  ASSUME TypeOK, NEW a \in Admins, page[a] # Nil,
         NEW s \in Entered, NEW typed \in Typed \cup {Nil}
  PROVE  Form(a, s, typed) \in Config
  <1>1. page[a] \in Config
    BY DEF TypeOK
  <1>2. typed # Nil => typed \in Password
    BY InputAssumption
  <1>3. Posted(page[a].settings, s) \in Settings
    BY <1>1, LoadingAssumption DEF Config
  <1> QED
    BY <1>1, <1>2, <1>3 DEF Form, Config

LEMMA OpenLogType ==
  ASSUME TypeOK, NEW cfg \in Config, OpenLogOf(cfg)
  PROVE  /\ LogOf(cfg) \in Nat
         /\ opened' \in Nat
         /\ open' \subseteq 1 .. opened'
  BY DEF TypeOK, LogOf, OpenLogOf

LEMMA ReturnsType ==
  ASSUME TypeOK, NEW a \in Admins, Returns(a)
  PROVE  pc' \in [Admins -> PCs] /\ job' \in [Admins -> Job]
  BY NoJobType DEF TypeOK, Returns

LEMMA FaultType ==
  ASSUME TypeOK, Fault
  PROVE  faults' \in Nat
  BY DEF TypeOK, Fault

-----------------------------------------------------------------------------
(* Types, and which pointers and bytes there are *)

LEMMA InitShape == Init => ShapeInv
  <1> SUFFICES ASSUME Init PROVE ShapeInv
    OBVIOUS
  <1>1. file \in Config
    BY InputAssumption DEF Init
  <1>2. TypeOK
    BY <1>1, NoJobType, NoListsType DEF Init, TypeOK, NoEngine, NoChain
  <1> QED
    BY <1>2 DEF Init, ShapeInv, EngineInv, JobInv

LEMMA ProcessShape ==
  ASSUME ShapeInv, Process
  PROVE  ShapeInv'
  <1> USE DEF ShapeInv
  <1>1. CASE Boot
    <2>1. Loaded \in Config
      BY <1>1, LoadedType DEF Boot, Loadable
    <2>2. Loaded.settings \in Settings /\ Loaded.lists \in [Lists -> SUBSET IPs]
      BY <2>1 DEF Config
    <2>3. PICK o \in Objects : engine' = [config |-> o, log |-> LogOf(Loaded)]
      BY <1>1 DEF Boot
    <2>4. /\ LogOf(Loaded) \in Nat
          /\ opened' \in Nat
          /\ open' \subseteq 1 .. opened'
      BY <1>1, <2>1, OpenLogType DEF Boot
    <2>5. heap' \in [Objects -> Config]
      BY <1>1, <2>1 DEF Boot
    <2>6. chain' \in [lists : [Lists -> SUBSET IPs], settings : Settings \cup {Nil}, log : Nat]
      BY <1>1, <2>2, <2>4 DEF Boot, ChainOf
    <2>7. TypeOK'
      BY <1>1, <2>3, <2>4, <2>5, <2>6 DEF Boot, TypeOK, handlerVars
    <2>8. EngineInv'
      BY <2>3 DEF EngineInv
    <2>9. JobInv'
      BY <1>1 DEF Boot, JobInv, handlerVars
    <2> QED
      BY <2>7, <2>8, <2>9
  <1>2. CASE BootFails
    BY <1>2 DEF BootFails, vars, handlerVars, TypeOK, EngineInv, JobInv
  <1>3. CASE HashPassword
    <2>1. engine.config \in Objects
      BY <1>3 DEF HashPassword, EngineInv
    <2>2. heap[engine.config] \in Config /\ heap[engine.config].password \in Password
      BY <2>1 DEF TypeOK, Config
    <2>3. [heap[engine.config] EXCEPT !.password = Bcrypt(@)] \in Config
      BY <2>2, BcryptType DEF Config
    <2>4. heap' \in [Objects -> Config]
      BY <1>3, <2>1, <2>2, <2>3, BcryptType DEF HashPassword, TypeOK, Config
    <2>5. TypeOK'
      BY <1>3, <2>4 DEF HashPassword, TypeOK, handlerVars
    <2>6. EngineInv' /\ JobInv'
      BY <1>3, <2>1 DEF HashPassword, EngineInv, JobInv, handlerVars
    <2> QED
      BY <2>5, <2>6
  <1>4. CASE OpenHashFile
    <2>1. faults' \in Nat
      BY <1>4, FaultType DEF OpenHashFile, TypeOK
    <2>2. TypeOK'
      BY <1>4, <2>1 DEF OpenHashFile, TypeOK, handlerVars
    <2>3. EngineInv' /\ JobInv'
      BY <1>4 DEF OpenHashFile, EngineInv, JobInv, handlerVars
    <2> QED
      BY <2>2, <2>3
  <1>5. CASE WriteHashFile
    <2>1. faults' \in Nat
      BY <1>5, FaultType DEF WriteHashFile, TypeOK
    <2>2. heap[engine.config] \in Config
      BY <1>5 DEF WriteHashFile, EngineInv, TypeOK
    <2>3. TypeOK'
      BY <1>5, <2>1, <2>2, CutShortType DEF WriteHashFile, TypeOK, handlerVars
    <2>4. EngineInv' /\ JobInv'
      BY <1>5 DEF WriteHashFile, EngineInv, JobInv, handlerVars
    <2> QED
      BY <2>3, <2>4
  <1>6. CASE Crash
    <2>1. faults' \in Nat
      BY <1>6, FaultType DEF Crash
    <2>2. TypeOK'
      BY <1>6, <2>1, NoJobType, NoListsType DEF Crash, TypeOK, NoEngine, NoChain
    <2>3. EngineInv' /\ JobInv'
      BY <1>6 DEF Crash, EngineInv, JobInv
    <2> QED
      BY <2>2, <2>3
  <1> QED
    BY <1>1, <1>2, <1>3, <1>4, <1>5, <1>6 DEF Process

LEMMA RequestShape ==
  ASSUME ShapeInv, NEW a \in Admins, Request(a)
  PROVE  ShapeInv'
  <1> USE DEF ShapeInv
  <1>1. CASE HandleGetConfig(a)
    <2>1. heap[engine.config] \in Config
      BY <1>1 DEF HandleGetConfig, EngineInv, TypeOK
    <2>2. TypeOK'
      BY <1>1, <2>1 DEF HandleGetConfig, TypeOK, handlerVars
    <2> QED
      BY <1>1, <2>2 DEF HandleGetConfig, EngineInv, JobInv, handlerVars
  <1>2. ASSUME NEW op \in {"add", "remove"}, NEW l \in Lists, NEW ip \in IPs,
               HandleListPost(a, op, l, ip)
        PROVE  ShapeInv'
    <2>1. engine.config \in Objects /\ boot = "serving"
      BY <1>2 DEF HandleListPost, Posts, EngineInv
    <2>2. heap[engine.config].lists[l] \subseteq IPs
      BY <2>1 DEF TypeOK, Config
    <2> DEFINE ips == IF op = "add" THEN heap[engine.config].lists[l] \cup {ip}
                                    ELSE heap[engine.config].lists[l] \ {ip}
               new == [NoJob EXCEPT !.op = op, !.list = l, !.ip = ip,
                                    !.cfg = engine.config, !.ips = ips]
    <2>3. ips \in SUBSET IPs
      BY <2>2
    <2>4. new \in Job /\ new.cfg = engine.config
      <3> HIDE DEF ips
      <3> QED
        BY <2>1, <2>3, NoJobType DEF Job
    <2>5. job' = [job EXCEPT ![a] = new] /\ pc' = [pc EXCEPT ![a] = "edit"]
      BY <1>2 DEF HandleListPost, Moves
    <2> HIDE DEF new
    <2>6. posts' \in Nat
      BY <1>2 DEF HandleListPost, Posts, TypeOK
    <2>7. TypeOK'
      BY <1>2, <2>4, <2>5, <2>6 DEF HandleListPost, TypeOK
    <2>8. EngineInv' /\ JobInv'
      BY <1>2, <2>1, <2>4, <2>5 DEF HandleListPost, EngineInv, JobInv, TypeOK
    <2> QED
      BY <2>7, <2>8
  <1>3. ASSUME NEW s \in Entered, NEW typed \in Typed \cup {Nil},
               HandleUpdateConfig(a, s, typed)
        PROVE  ShapeInv'
    <2>1. engine.config \in Objects /\ boot = "serving" /\ page[a] # Nil
      BY <1>3 DEF HandleUpdateConfig, Posts, EngineInv
    <2>2. heap[engine.config].password \in Password
      BY <2>1 DEF TypeOK, Config
    <2> DEFINE new == [Form(a, s, typed) EXCEPT
                          !.password = Normalised(@, heap[engine.config].password)]
    <2>3. Form(a, s, typed) \in Config
      BY <2>1, FormType
    <2>4. Form(a, s, typed).password \in Password
      BY <2>3 DEF Config
    <2>5. Normalised(Form(a, s, typed).password, heap[engine.config].password) \in Password
      BY <2>2, <2>4, NormalisedType
    <2>6. new \in Config
      BY <2>3, <2>5 DEF Config
    <2> HIDE DEF new
    <2>7. PICK o \in Objects \ Reachable :
               /\ heap' = [heap EXCEPT ![o] = new]
               /\ job' = [job EXCEPT ![a] = [NoJob EXCEPT !.op = "update", !.cfg = o]]
      BY <1>3 DEF HandleUpdateConfig, new
    <2>8. [NoJob EXCEPT !.op = "update", !.cfg = o] \in Job
      BY NoJobType DEF Job
    <2>9. posts' \in Nat
      BY <1>3 DEF HandleUpdateConfig, Posts, TypeOK
    <2>10. pc' = [pc EXCEPT ![a] = "marshal"]
      BY <1>3 DEF HandleUpdateConfig, Moves
    <2>11. TypeOK'
      BY <1>3, <2>6, <2>7, <2>8, <2>9, <2>10 DEF HandleUpdateConfig, TypeOK
    <2>12. EngineInv' /\ JobInv'
      BY <1>3, <2>1, <2>7, <2>10, NoJobType DEF HandleUpdateConfig, EngineInv, JobInv, TypeOK, Job
    <2> QED
      BY <2>11, <2>12
  <1>4. CASE HandleReload(a)
    <2>1. engine.config \in Objects /\ boot = "serving"
      BY <1>4 DEF HandleReload, Posts, EngineInv
    <2>2. [NoJob EXCEPT !.op = "reload", !.cfg = engine.config] \in Job
      BY <2>1, NoJobType DEF Job
    <2>3. posts' \in Nat
      BY <1>4 DEF HandleReload, Posts, TypeOK
    <2>4. TypeOK'
      BY <1>4, <2>2, <2>3 DEF HandleReload, Moves, TypeOK
    <2>5. EngineInv' /\ JobInv'
      BY <1>4, <2>1, NoJobType DEF HandleReload, Moves, EngineInv, JobInv, TypeOK, Job
    <2> QED
      BY <2>4, <2>5
  <1> QED
    BY <1>1, <1>2, <1>3, <1>4 DEF Request

LEMMA SaveShape ==
  ASSUME ShapeInv, NEW a \in Admins, Save(a)
  PROVE  ShapeInv'
  <1> USE DEF ShapeInv
  <1>1. job[a].cfg \in Objects /\ boot = "serving"
    BY DEF JobInv, Save, EditList, Marshal, OpenFile, WriteFile, Moves
  <1>2. CASE EditList(a)
    <2>1. job[a].ips \subseteq IPs /\ job[a].list \in Lists
      BY DEF TypeOK, Job
    <2>2. heap[job[a].cfg] \in Config
      BY <1>1 DEF TypeOK
    <2> DEFINE new == [heap[job[a].cfg] EXCEPT
                          !.lists = [heap[job[a].cfg].lists EXCEPT ![job[a].list] = job[a].ips]]
    <2>3. new \in Config
      BY <2>1, <2>2 DEF Config
    <2>4. heap' = [heap EXCEPT ![job[a].cfg] = new]
      BY <1>2 DEF EditList
    <2> HIDE DEF new
    <2>5. TypeOK'
      BY <1>2, <2>3, <2>4 DEF EditList, Moves, TypeOK
    <2>6. EngineInv' /\ JobInv'
      BY <1>1, <1>2 DEF EditList, Moves, EngineInv, JobInv, TypeOK
    <2> QED
      BY <2>5, <2>6
  <1>3. CASE Marshal(a)
    <2>1. heap[job[a].cfg] \in Config
      BY <1>1 DEF TypeOK
    <2>2. job' \in [Admins -> Job] /\ job'[a].data \in Config /\ job'[a].cfg = job[a].cfg
      BY <1>3, <2>1 DEF Marshal, TypeOK, Job
    <2>3. \A b \in Admins : b # a => job'[b] = job[b]
      BY <1>3 DEF Marshal, TypeOK
    <2>4. TypeOK'
      BY <1>3, <2>2 DEF Marshal, Moves, TypeOK
    <2>5. EngineInv' /\ JobInv'
      BY <1>1, <1>3, <2>2, <2>3 DEF Marshal, Moves, EngineInv, JobInv, TypeOK
    <2> QED
      BY <2>4, <2>5
  <1>4. CASE OpenFile(a)
    <2>1. /\ pc' \in [Admins -> PCs] /\ job' \in [Admins -> Job] /\ faults' \in Nat
          /\ file' \in Config \cup {Empty, Torn}
      BY <1>4, ReturnsType, FaultType DEF OpenFile, Moves, TypeOK
    <2>2. TypeOK'
      BY <1>4, <2>1 DEF OpenFile, TypeOK
    <2>3. EngineInv' /\ JobInv'
      BY <1>1, <1>4 DEF OpenFile, Moves, Returns, EngineInv, JobInv, TypeOK
    <2> QED
      BY <2>2, <2>3
  <1>5. CASE WriteFile(a)
    <2>1. job[a].data \in Config
      BY <1>5 DEF WriteFile, JobInv
    <2>2. /\ pc' \in [Admins -> PCs] /\ job' \in [Admins -> Job] /\ faults' \in Nat
          /\ file' \in Config \cup {Empty, Torn}
      BY <1>5, <2>1, ReturnsType, FaultType, CutShortType DEF WriteFile, Moves, TypeOK
    <2>3. TypeOK'
      BY <1>5, <2>2 DEF WriteFile, TypeOK
    <2>4. EngineInv' /\ JobInv'
      BY <1>1, <1>5 DEF WriteFile, Moves, Returns, EngineInv, JobInv, TypeOK
    <2> QED
      BY <2>3, <2>4
  <1> QED
    BY <1>2, <1>3, <1>4, <1>5 DEF Save

LEMMA ReloadShape ==
  ASSUME ShapeInv, NEW a \in Admins, Reload(a)
  PROVE  ShapeInv'
  <1> USE DEF ShapeInv
  <1>1. job[a].cfg \in Objects /\ boot = "serving"
    BY DEF JobInv, Reload, BuildFails, Build, CloseLog, AssignConfig, AssignLog, Moves
  <1>2. CASE BuildFails(a)
    <2>1. faults' \in Nat
      BY <1>2, FaultType DEF BuildFails, TypeOK
    <2>2. TypeOK'
      BY <1>2, <2>1, ReturnsType DEF BuildFails, TypeOK
    <2> QED
      BY <1>2, <2>2 DEF BuildFails, Returns, EngineInv, JobInv, TypeOK
  <1>3. CASE Build(a)
    <2>1. heap[job[a].cfg] \in Config
      BY <1>1 DEF TypeOK
    <2>2. LogOf(heap[job[a].cfg]) \in Nat /\ opened' \in Nat /\ open' \subseteq 1 .. opened'
      BY <1>3, <2>1, OpenLogType DEF Build
    <2>3. /\ job' \in [Admins -> Job]
          /\ \A b \in Admins : job'[b].cfg = job[b].cfg /\ job'[b].data = job[b].data
      BY <1>3, <2>2 DEF Build, TypeOK, Job
    <2>4. TypeOK'
      BY <1>3, <2>2, <2>3 DEF Build, Moves, TypeOK
    <2>5. EngineInv' /\ JobInv'
      BY <1>1, <1>3, <2>3 DEF Build, Moves, EngineInv, JobInv, TypeOK
    <2> QED
      BY <2>4, <2>5
  <1>4. CASE CloseLog(a)
    <2>1. TypeOK'
      BY <1>4 DEF CloseLog, Moves, TypeOK
    <2> QED
      BY <1>1, <1>4, <2>1 DEF CloseLog, Moves, EngineInv, JobInv, TypeOK
  <1>5. CASE AssignConfig(a)
    <2>1. TypeOK'
      BY <1>1, <1>5 DEF AssignConfig, Moves, TypeOK
    <2> QED
      BY <1>1, <1>5, <2>1 DEF AssignConfig, Moves, EngineInv, JobInv, TypeOK
  <1>6. CASE AssignLog(a)
    <2>1. job[a].log \in Nat
      BY DEF TypeOK, Job
    <2>2. TypeOK'
      BY <1>6, <2>1, ReturnsType DEF AssignLog, TypeOK
    <2> QED
      BY <1>1, <1>6, <2>2 DEF AssignLog, Returns, EngineInv, JobInv, TypeOK
  <1> QED
    BY <1>2, <1>3, <1>4, <1>5, <1>6 DEF Reload

LEMMA NextShape ==
  ASSUME ShapeInv, [Next]_vars
  PROVE  ShapeInv'
  <1>1. CASE UNCHANGED vars
    BY <1>1 DEF vars, handlerVars, ShapeInv, TypeOK, EngineInv, JobInv
  <1>2. CASE Headless
    BY <1>1, <1>2 DEF Headless
  <1> QED
    BY <1>1, <1>2, ProcessShape, RequestShape, SaveShape, ReloadShape DEF Next

-----------------------------------------------------------------------------
(* The live configuration loads *)

LEMMA InitLoad == Init => LoadInv
  BY DEF Init, LoadInv, LiveConfigLoads

LEMMA ProcessLoad ==
  ASSUME ShapeInv, LoadInv, Process
  PROVE  LoadInv'
  <1> USE DEF ShapeInv
  <1>1. CASE Boot
    <2>1. \A a \in Admins : pc'[a] = "idle"
      BY <1>1 DEF Boot, handlerVars, JobInv, TypeOK
    <2>2. Verdict(heap'[engine'.config].settings) = "ok"
      BY <1>1 DEF Boot, Loadable
    <2> QED
      BY <2>1, <2>2 DEF LoadInv, LiveConfigLoads, Live
  <1>2. CASE HashPassword
    <2>1. \A o \in Objects : heap'[o].settings = heap[o].settings
      BY <1>2 DEF HashPassword, TypeOK, Config
    <2>2. \A a \in Admins : pc'[a] = "idle"
      BY <1>2 DEF HashPassword, handlerVars, JobInv, TypeOK
    <2>3. engine' = engine /\ engine.config \in Objects
      BY <1>2 DEF HashPassword, EngineInv
    <2>4. Verdict(heap[engine.config].settings) = "ok"
      BY <1>2 DEF HashPassword, LoadInv, LiveConfigLoads, Live
    <2> QED
      BY <2>1, <2>2, <2>3, <2>4 DEF LoadInv, LiveConfigLoads, Live
  <1>3. CASE Crash
    BY <1>3 DEF Crash, LoadInv, LiveConfigLoads, TypeOK
  <1>4. CASE BootFails \/ OpenHashFile \/ WriteHashFile
    BY <1>4 DEF BootFails, OpenHashFile, WriteHashFile, vars, handlerVars, LoadInv,
                LiveConfigLoads, Live
  <1> QED
    BY <1>1, <1>2, <1>3, <1>4 DEF Process

\* A step of a handler that leaves the settings of every object in use alone and
\* does not bring the handler any nearer to AssignConfig.
LEMMA LoadKept ==
  ASSUME ShapeInv, LoadInv, NEW a \in Admins,
         boot' = boot, engine'.config = engine.config,
         \A o \in Reachable : o \in Objects => heap'[o].settings = heap[o].settings,
         \A b \in Admins : b # a => pc'[b] = pc[b] /\ job'[b] = job[b],
         pc'[a] \in {"close", "config"} =>
            Verdict(heap'[job'[a].cfg].settings) = "ok"
  PROVE  LoadInv'
  <1>1. Up => engine.config \in Objects /\ engine.config \in Reachable
    BY DEF ShapeInv, EngineInv, Reachable
  <1>2. LiveConfigLoads'
    BY <1>1 DEF LoadInv, LiveConfigLoads, Live
  <1>3. ASSUME NEW b \in Admins, pc'[b] \in {"close", "config"}
        PROVE  Verdict(heap'[job'[b].cfg].settings) = "ok"
    <2>1. CASE b = a
      BY <1>3, <2>1
    <2>2. CASE b # a
      <3>1. pc[b] = pc'[b] /\ job'[b].cfg = job[b].cfg
        BY <2>2
      <3>2. job[b].cfg \in Objects /\ job[b].cfg \in Reachable
        BY <1>3, <3>1 DEF ShapeInv, JobInv, Reachable
      <3> QED
        BY <1>3, <3>1, <3>2 DEF LoadInv
    <2> QED
      BY <2>1, <2>2
  <1> QED
    BY <1>2, <1>3 DEF LoadInv

LEMMA RequestLoad ==
  ASSUME ShapeInv, LoadInv, NEW a \in Admins, Request(a)
  PROVE  LoadInv'
  <1> USE DEF ShapeInv
  <1>1. CASE HandleGetConfig(a)
    BY <1>1, LoadKept DEF HandleGetConfig, handlerVars, LoadInv
  <1>2. ASSUME NEW op \in {"add", "remove"}, NEW l \in Lists, NEW ip \in IPs,
               HandleListPost(a, op, l, ip)
        PROVE  LoadInv'
    <2>1. pc' = [pc EXCEPT ![a] = "edit"] /\ pc \in [Admins -> PCs] /\ job \in [Admins -> Job]
      BY <1>2 DEF HandleListPost, Moves, TypeOK
    <2>2. UNCHANGED <<boot, heap, engine>>
      BY <1>2 DEF HandleListPost
    <2>3. \A b \in Admins : b # a => pc'[b] = pc[b] /\ job'[b] = job[b]
      BY <1>2, <2>1 DEF HandleListPost
    <2>4. pc'[a] = "edit"
      BY <2>1
    <2> QED
      BY <2>2, <2>3, <2>4, LoadKept
  <1>3. ASSUME NEW s \in Entered, NEW typed \in Typed \cup {Nil},
               HandleUpdateConfig(a, s, typed)
        PROVE  LoadInv'
    <2>1. pc'[a] = "marshal" /\ UNCHANGED <<boot, engine>>
      BY <1>3 DEF HandleUpdateConfig, Moves, TypeOK
    <2>2. \A b \in Admins : b # a => pc'[b] = pc[b] /\ job'[b] = job[b]
      BY <1>3 DEF HandleUpdateConfig, Moves, TypeOK
    <2>3. \A o \in Reachable : o \in Objects => heap'[o].settings = heap[o].settings
      BY <1>3 DEF HandleUpdateConfig, TypeOK
    <2> QED
      BY <2>1, <2>2, <2>3, LoadKept
  <1>4. CASE HandleReload(a)
    <2>1. pc'[a] = "build" /\ UNCHANGED <<boot, heap, engine>>
      BY <1>4 DEF HandleReload, Moves, TypeOK
    <2>2. \A b \in Admins : b # a => pc'[b] = pc[b] /\ job'[b] = job[b]
      BY <1>4 DEF HandleReload, Moves, TypeOK
    <2> QED
      BY <2>1, <2>2, LoadKept
  <1> QED
    BY <1>1, <1>2, <1>3, <1>4 DEF Request

LEMMA SaveLoad ==
  ASSUME ShapeInv, LoadInv, NEW a \in Admins, Save(a)
  PROVE  LoadInv'
  <1> USE DEF ShapeInv
  <1>1. /\ pc'[a] \notin {"close", "config"}
        /\ UNCHANGED <<boot, engine>>
        /\ \A b \in Admins : b # a => pc'[b] = pc[b] /\ job'[b] = job[b]
    BY DEF Save, EditList, Marshal, OpenFile, WriteFile, Moves, Returns, TypeOK
  <1>2. \A o \in Objects : heap'[o].settings = heap[o].settings
    <2>1. CASE EditList(a)
      BY <2>1 DEF EditList, TypeOK, Config
    <2>2. CASE Marshal(a) \/ OpenFile(a) \/ WriteFile(a)
      BY <2>2 DEF Marshal, OpenFile, WriteFile
    <2> QED
      BY <2>1, <2>2 DEF Save
  <1> QED
    BY <1>1, <1>2, LoadKept

LEMMA ReloadLoad ==
  ASSUME ShapeInv, LoadInv, NEW a \in Admins, Reload(a)
  PROVE  LoadInv'
  <1> USE DEF ShapeInv
  <1>1. UNCHANGED <<boot, heap>>
    BY DEF Reload, BuildFails, Build, CloseLog, AssignConfig, AssignLog
  <1>2. \A b \in Admins : b # a => pc'[b] = pc[b] /\ job'[b] = job[b]
    BY DEF Reload, BuildFails, Build, CloseLog, AssignConfig, AssignLog, Moves, Returns, TypeOK
  <1>3. CASE BuildFails(a)
    BY <1>1, <1>2, <1>3, LoadKept DEF BuildFails, Returns, TypeOK
  <1>4. CASE Build(a)
    <2>1. Verdict(heap[job[a].cfg].settings) = "ok" /\ job'[a].cfg = job[a].cfg /\ engine' = engine
      BY <1>4 DEF Build, TypeOK, Job
    <2> QED
      BY <1>1, <1>2, <2>1, LoadKept
  <1>5. CASE CloseLog(a)
    <2>1. Verdict(heap[job[a].cfg].settings) = "ok" /\ job' = job /\ engine' = engine
      BY <1>5 DEF CloseLog, Moves, LoadInv
    <2> QED
      BY <1>1, <1>2, <2>1, LoadKept
  <1>6. CASE AssignConfig(a)
    <2>1. Verdict(heap[job[a].cfg].settings) = "ok"
      BY <1>6 DEF AssignConfig, Moves, LoadInv
    <2>2. engine'.config = job[a].cfg /\ pc'[a] = "log" /\ job' = job
      BY <1>6 DEF AssignConfig, Moves, TypeOK
    <2>3. LiveConfigLoads'
      BY <1>1, <2>1, <2>2 DEF LiveConfigLoads, Live
    <2>4. \A b \in Admins :
             pc'[b] \in {"close", "config"} => Verdict(heap'[job'[b].cfg].settings) = "ok"
      BY <1>1, <1>2, <2>2 DEF LoadInv
    <2> QED
      BY <2>3, <2>4 DEF LoadInv
  <1>7. CASE AssignLog(a)
    BY <1>1, <1>2, <1>7, LoadKept DEF AssignLog, Returns, TypeOK
  <1> QED
    BY <1>3, <1>4, <1>5, <1>6, <1>7 DEF Reload

LEMMA NextLoad ==
  ASSUME ShapeInv, LoadInv, [Next]_vars
  PROVE  LoadInv'
  <1>1. CASE UNCHANGED vars
    BY <1>1 DEF vars, handlerVars, LoadInv, LiveConfigLoads, Live
  <1>2. CASE Headless
    BY <1>1, <1>2 DEF Headless
  <1> QED
    BY <1>1, <1>2, ProcessLoad, RequestLoad, SaveLoad, ReloadLoad DEF Next

-----------------------------------------------------------------------------
(* The engine's log file is open *)

LEMMA InitLog == Init => LogInv
  BY DEF Init, LogInv, EngineLogOpen, HasLog, NoEngine

LEMMA ProcessLog ==
  ASSUME ShapeInv, LogInv, Process
  PROVE  LogInv'
  <1> USE DEF ShapeInv
  <1>1. CASE Boot
    <2>1. \A a \in Admins : pc'[a] = "idle"
      BY <1>1 DEF Boot, handlerVars, JobInv, TypeOK
    <2>2. engine'.log = LogOf(Loaded)
      BY <1>1 DEF Boot
    <2>3. engine'.log \in open' \cup {0} /\ engine'.log <= opened'
      BY <1>1, <2>2 DEF Boot, OpenLogOf, LogOf, TypeOK
    <2> QED
      BY <2>1, <2>3 DEF LogInv, EngineLogOpen, HasLog
  <1>2. CASE Crash
    <2>1. \A a \in Admins : pc'[a] = "idle"
      BY <1>2 DEF Crash
    <2>2. engine'.log = 0 /\ opened' \in Nat /\ boot' = "down"
      BY <1>2 DEF Crash, NoEngine, TypeOK
    <2> QED
      BY <2>1, <2>2 DEF LogInv, EngineLogOpen, HasLog
  <1>3. CASE BootFails \/ HashPassword \/ OpenHashFile \/ WriteHashFile
    <2>1. UNCHANGED <<engine, open, opened, pc, job>> /\ (Up' => Up)
      BY <1>3 DEF BootFails, HashPassword, OpenHashFile, WriteHashFile, vars, handlerVars
    <2> QED
      BY <2>1 DEF LogInv, EngineLogOpen, HasLog
  <1> QED
    BY <1>1, <1>2, <1>3 DEF Process

\* A step of a handler before it opens a log file of its own.
LEMMA LogKept ==
  ASSUME ShapeInv, LogInv, NEW a \in Admins,
         boot' = boot, engine' = engine, open' = open, opened' = opened,
         ~HasLog(a), ~HasLog(a)',
         \A b \in Admins : b # a => pc'[b] = pc[b] /\ job'[b] = job[b]
  PROVE  LogInv'
  <1>1. \A b \in Admins : HasLog(b)' => HasLog(b) /\ job'[b] = job[b] /\ b # a
    BY DEF HasLog
  <1>2. EngineLogOpen'
    <2>1. (\A b \in Admins : pc'[b] \notin {"config", "log"})
             => \A b \in Admins : pc[b] \notin {"config", "log"}
      BY DEF HasLog
    <2> QED
      BY <2>1 DEF LogInv, EngineLogOpen
  <1>3. \A b \in Admins :
           HasLog(b)' => /\ job'[b].log \in open' \cup {0}
                         /\ job'[b].log # 0 => job'[b].log # engine'.log
    BY <1>1 DEF LogInv
  <1>4. \A b, c \in Admins :
           HasLog(b)' /\ HasLog(c)' /\ b # c /\ job'[b].log # 0 => job'[b].log # job'[c].log
    BY <1>1 DEF LogInv
  <1> QED
    BY <1>2, <1>3, <1>4 DEF LogInv

LEMMA RequestLog ==
  ASSUME ShapeInv, LogInv, NEW a \in Admins, Request(a)
  PROVE  LogInv'
  <1>1. CASE HandleGetConfig(a)
    BY <1>1 DEF HandleGetConfig, handlerVars, LogInv, EngineLogOpen, HasLog
  <1>2. CASE ~HandleGetConfig(a)
    <2>1. UNCHANGED <<boot, engine, open, opened>> /\ ~HasLog(a) /\ ~HasLog(a)'
      BY <1>2 DEF Request, HandleListPost, HandleUpdateConfig, HandleReload, Moves, HasLog,
                  ShapeInv, TypeOK
    <2>2. \A b \in Admins : b # a => pc'[b] = pc[b] /\ job'[b] = job[b]
      BY <1>2 DEF Request, HandleListPost, HandleUpdateConfig, HandleReload, Moves,
                  ShapeInv, TypeOK
    <2> QED
      BY <2>1, <2>2, LogKept
  <1> QED
    BY <1>1, <1>2

LEMMA SaveLog ==
  ASSUME ShapeInv, LogInv, NEW a \in Admins, Save(a)
  PROVE  LogInv'
  <1>1. UNCHANGED <<boot, engine, open, opened>> /\ ~HasLog(a) /\ ~HasLog(a)'
    BY DEF Save, EditList, Marshal, OpenFile, WriteFile, Moves, Returns, HasLog, ShapeInv, TypeOK
  <1>2. \A b \in Admins : b # a => pc'[b] = pc[b] /\ job'[b] = job[b]
    BY DEF Save, EditList, Marshal, OpenFile, WriteFile, Moves, Returns, ShapeInv, TypeOK
  <1> QED
    BY <1>1, <1>2, LogKept

LEMMA ReloadLog ==
  ASSUME ShapeInv, LogInv, NEW a \in Admins, Reload(a)
  PROVE  LogInv'
  <1> USE DEF ShapeInv
  <1>0. \A b \in Admins : b # a => pc'[b] = pc[b] /\ job'[b] = job[b]
    BY DEF Reload, BuildFails, Build, CloseLog, AssignConfig, AssignLog, Moves, Returns, TypeOK
  <1>1. CASE BuildFails(a)
    BY <1>0, <1>1, LogKept DEF BuildFails, Returns, HasLog, TypeOK
  <1>2. CASE Build(a)
    <2> DEFINE n == LogOf(heap[job[a].cfg])
    <2>1. pc[a] = "build" /\ pc'[a] = "close" /\ UNCHANGED <<boot, engine>>
      BY <1>2 DEF Build, Moves, TypeOK
    <2>2. job'[a].log = n
      BY <1>2 DEF Build, TypeOK, Job
    <2>3. /\ n \in open' \cup {0}
          /\ n # 0 => n = opened + 1
          /\ open \subseteq open' /\ opened <= opened' /\ opened \in Nat /\ opened' \in Nat
      BY <1>2 DEF Build, OpenLogOf, LogOf, TypeOK
    <2> HIDE DEF n
    <2>4. engine.log \in Nat /\ engine.log <= opened
      BY DEF TypeOK, LogInv
    <2>5. \A b \in Admins : HasLog(b)' /\ b # a => /\ HasLog(b) /\ job'[b].log = job[b].log
                                                   /\ job[b].log \in open \cup {0}
                                                   /\ job[b].log <= opened
      <3>1. \A x \in open : x <= opened
        BY DEF TypeOK
      <3> QED
        BY <1>0, <2>3, <3>1 DEF HasLog, LogInv
    <2>6. EngineLogOpen'
      <3>1. (\A b \in Admins : pc'[b] \notin {"config", "log"})
               => \A b \in Admins : pc[b] \notin {"config", "log"}
        BY <1>0, <2>1
      <3> QED
        BY <2>1, <2>3, <3>1 DEF LogInv, EngineLogOpen
    <2>7. \A b \in Admins :
             HasLog(b)' => /\ job'[b].log \in open' \cup {0}
                           /\ job'[b].log # 0 => job'[b].log # engine'.log
      <3> SUFFICES ASSUME NEW b \in Admins, HasLog(b)'
                   PROVE  /\ job'[b].log \in open' \cup {0}
                          /\ job'[b].log # 0 => job'[b].log # engine'.log
        OBVIOUS
      <3>1. CASE b = a
        BY <3>1, <2>1, <2>2, <2>3, <2>4
      <3>2. CASE b # a
        BY <3>2, <2>1, <2>3, <2>5 DEF LogInv
      <3> QED
        BY <3>1, <3>2
    <2>8. \A b, c \in Admins :
             HasLog(b)' /\ HasLog(c)' /\ b # c /\ job'[b].log # 0 => job'[b].log # job'[c].log
      <3> SUFFICES ASSUME NEW b \in Admins, NEW c \in Admins,
                          HasLog(b)', HasLog(c)', b # c, job'[b].log # 0
                   PROVE  job'[b].log # job'[c].log
        OBVIOUS
      <3>1. CASE b = a
        <4>1. job'[b].log = opened + 1 /\ job'[c].log <= opened
          BY <3>1, <2>2, <2>3, <2>5
        <4>2. job'[c].log \in Nat
          BY <3>1, <2>3, <2>5 DEF TypeOK, Job
        <4> QED
          BY <4>1, <4>2, <2>3
      <3>2. CASE c = a
        <4>1. job'[b].log <= opened /\ job'[b].log \in Nat
          BY <3>2, <2>5 DEF TypeOK, Job
        <4>2. job'[c].log = 0 \/ job'[c].log = opened + 1
          BY <3>2, <2>2, <2>3
        <4> QED
          BY <4>1, <4>2, <2>3
      <3>3. CASE b # a /\ c # a
        BY <3>3, <2>5 DEF LogInv
      <3> QED
        BY <3>1, <3>2, <3>3
    <2> QED
      BY <2>1, <2>3, <2>4, <2>6, <2>7, <2>8 DEF LogInv
  <1>3. CASE CloseLog(a)
    <2>1. /\ pc[a] = "close" /\ pc'[a] = "config"
          /\ open' = open \ {engine.log}
          /\ UNCHANGED <<boot, engine, opened, job>>
      BY <1>3 DEF CloseLog, Moves, TypeOK
    <2>2. \A b \in Admins : HasLog(b)' => HasLog(b)
      BY <1>0, <2>1 DEF HasLog
    <2>3. EngineLogOpen'
      BY <2>1 DEF EngineLogOpen
    <2>4. \A b \in Admins :
             HasLog(b)' => /\ job'[b].log \in open' \cup {0}
                           /\ job'[b].log # 0 => job'[b].log # engine'.log
      BY <2>1, <2>2 DEF LogInv
    <2> QED
      BY <2>1, <2>2, <2>3, <2>4 DEF LogInv
  <1>4. CASE AssignConfig(a)
    <2>1. /\ pc[a] = "config" /\ pc'[a] = "log" /\ engine'.log = engine.log
          /\ UNCHANGED <<boot, open, opened, job>>
      BY <1>4 DEF AssignConfig, Moves, TypeOK
    <2>2. \A b \in Admins : HasLog(b)' => HasLog(b)
      BY <1>0, <2>1 DEF HasLog
    <2>3. EngineLogOpen'
      BY <2>1 DEF EngineLogOpen
    <2> QED
      BY <2>1, <2>2, <2>3 DEF LogInv
  <1>5. CASE AssignLog(a)
    <2>1. /\ pc[a] = "log" /\ pc'[a] = "idle" /\ engine'.log = job[a].log
          /\ UNCHANGED <<boot, open, opened>>
      BY <1>5 DEF AssignLog, Returns, TypeOK
    <2>2. job[a].log \in open \cup {0} /\ job[a].log <= opened
      <3>1. \A x \in open : x <= opened
        BY DEF TypeOK
      <3>2. 0 <= opened
        BY DEF TypeOK
      <3> QED
        BY <2>1, <3>1, <3>2 DEF LogInv, HasLog
    <2>3. \A b \in Admins : HasLog(b)' => HasLog(b) /\ b # a /\ job'[b] = job[b]
      BY <1>0, <2>1 DEF HasLog
    <2>4. EngineLogOpen'
      BY <2>1, <2>2 DEF EngineLogOpen
    <2>5. \A b \in Admins :
             HasLog(b)' => /\ job'[b].log \in open' \cup {0}
                           /\ job'[b].log # 0 => job'[b].log # engine'.log
      BY <2>1, <2>3 DEF LogInv, HasLog
    <2>6. \A b, c \in Admins :
             HasLog(b)' /\ HasLog(c)' /\ b # c /\ job'[b].log # 0 => job'[b].log # job'[c].log
      BY <2>3 DEF LogInv
    <2> QED
      BY <2>1, <2>2, <2>4, <2>5, <2>6 DEF LogInv
  <1> QED
    BY <1>1, <1>2, <1>3, <1>4, <1>5 DEF Reload

LEMMA NextLog ==
  ASSUME ShapeInv, LogInv, [Next]_vars
  PROVE  LogInv'
  <1>1. CASE UNCHANGED vars
    BY <1>1 DEF vars, handlerVars, LogInv, EngineLogOpen, HasLog
  <1>2. CASE Headless
    BY <1>1, <1>2 DEF Headless
  <1> QED
    BY <1>1, <1>2, ProcessLog, RequestLog, SaveLog, ReloadLog DEF Next

-----------------------------------------------------------------------------
(* The theorems *)

\* The inductive invariant holds in every behaviour.
THEOREM Invariance == Spec => []IInv
  <1>1. Init => IInv
    BY InitShape, InitLoad, InitLog DEF IInv
  <1>2. IInv /\ [Next]_vars => IInv'
    BY NextShape, NextLoad, NextLog DEF IInv
  <1> QED
    BY <1>1, <1>2, PTL DEF Spec

\* Every variable has its type, whatever the admins, the settings and the faults.
THEOREM TypeCorrect == Spec => []TypeOK
  <1>1. IInv => TypeOK
    BY DEF IInv, ShapeInv
  <1> QED
    BY <1>1, Invariance, PTL

\* engine.go:112-137: however the handlers of any number of admins interleave and
\* wherever they fail, the configuration the engine points to has nothing in it that
\* NewEngine refuses.
THEOREM LiveLoads == Spec => []LiveConfigLoads
  <1>1. IInv => LiveConfigLoads
    BY DEF IInv, LoadInv
  <1> QED
    BY <1>1, Invariance, PTL

\* engine.go:118-135: while no handler is between Close and the assignment of its
\* own logger, the engine's log file is open.
THEOREM LogOpen == Spec => []EngineLogOpen
  <1>1. IInv => EngineLogOpen
    BY DEF IInv, LogInv
  <1> QED
    BY <1>1, Invariance, PTL
=============================================================================
