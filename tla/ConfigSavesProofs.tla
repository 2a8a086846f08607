------------------------- MODULE ConfigSavesProofs -------------------------
(***************************************************************************)
(* What saves keep.  The first part: that no plaintext password is         *)
(* written.  It does not follow from the live configuration alone: a       *)
(* password comes back from a page that was fetched long ago, or from the  *)
(* bytes of a handler that marshalled before another one saved.  HashedInv *)
(* follows it to all these places.                                         *)
(*                                                                         *)
(* The second part, about a single admin: an acknowledged save is in the   *)
(* file and in the engine, and no log file is left open.  Both fail with   *)
(* two, whose handlers overlap; they hold for one, whose next request may  *)
(* come only after the answer to the last one, wherever the process dies   *)
(* and whatever fails in between.                                          *)
(***************************************************************************)
EXTENDS ConfigStoreProofs

Hashed(p) == p.form # "plain"

\* From the moment Start has hashed it, what is live, and what a handler works on
\* or is about to write, is no plaintext.
HashedInv ==
    /\ boot \notin {"down", "hash", "headless"} => Hashed(heap[engine.config].password)
    /\ \A a \in Admins :
          /\ pc[a] # "idle" => Hashed(heap[job[a].cfg].password)
          /\ pc[a] \in {"open", "write"} => Hashed(job[a].data.password)

\* A step that puts a configuration into the file puts none with a plaintext password
\* there that opens anything.
WritesNoPlain ==
    file' # file /\ file' \in Config /\ file'.password.opens # NoOne => Hashed(file'.password)

USE DEF PCs, Up

-----------------------------------------------------------------------------
(* What the operators make of a password *)

LEMMA NormalisedIsHashed ==
  ASSUME NEW p \in Password, NEW old \in Password, Hashed(old)
  PROVE  Hashed(Normalised(p, old))
  BY DEF Hashed, Normalised, Bcrypt, Password, Forms

\* Nobody knows the password of a file that was cut short.
LEMMA CutIsUnknown ==
  ASSUME NEW c \in Config, NEW d \in CutShort(c)
  PROVE  d.password.opens = NoOne
  <1>1. CASE \E p \in CutPasswords(c.password) : d = [c EXCEPT !.password = p]
    <2>1. PICK p \in CutPasswords(c.password) : d = [c EXCEPT !.password = p]
      BY <1>1
    <2>2. p.opens = NoOne
      BY <2>1 DEF CutPasswords, Absent
    <2> QED
      BY <2>1, <2>2 DEF Config
  <1>2. CASE \E l \in [Lists -> SUBSET IPs], s \in Cuts(c.settings) :
                d = [lists |-> l, settings |-> s, password |-> Absent]
    BY <1>2 DEF Absent
  <1> QED
    BY <1>1, <1>2 DEF CutShort

\* What handleUpdateConfig puts into a new object.
LEMMA UpdateEffect ==
  ASSUME ShapeInv, NEW a \in Admins, NEW s \in Entered, NEW typed \in Typed \cup {Nil},
         HandleUpdateConfig(a, s, typed)
  PROVE  \E o \in Objects \ Reachable :
            /\ \A x \in Objects : x # o => heap'[x] = heap[x]
            /\ heap'[o].password = Normalised(Form(a, s, typed).password,
                                              heap[engine.config].password)
            /\ job'[a].cfg = o
  <1> USE DEF ShapeInv
  <1> DEFINE new == [Form(a, s, typed) EXCEPT
                        !.password = Normalised(@, heap[engine.config].password)]
  <1>1. Form(a, s, typed) \in Config
    BY FormType DEF HandleUpdateConfig
  <1>2. new.password = Normalised(Form(a, s, typed).password, heap[engine.config].password)
    BY <1>1 DEF Config
  <1> HIDE DEF new
  <1>3. PICK o \in Objects \ Reachable :
             /\ heap' = [heap EXCEPT ![o] = new]
             /\ job' = [job EXCEPT ![a] = [NoJob EXCEPT !.op = "update", !.cfg = o]]
    BY DEF HandleUpdateConfig, new
  <1>4. [NoJob EXCEPT !.op = "update", !.cfg = o].cfg = o
    BY NoJobType DEF Job
  <1> QED
    BY <1>2, <1>3, <1>4 DEF TypeOK

\* The password it puts there: typed, or as it was fetched.
LEMMA FormPassword ==
  ASSUME ShapeInv, NEW a \in Admins, NEW s \in Entered, NEW typed \in Typed \cup {Nil},
         HandleUpdateConfig(a, s, typed)
  PROVE  /\ Form(a, s, typed).password = IF typed = Nil THEN page[a].password ELSE typed
         /\ Form(a, s, typed).password \in Password
  <1>1. page[a] \in Config
    BY DEF HandleUpdateConfig, ShapeInv, TypeOK
  <1>2. Form(a, s, typed) \in Config
    BY FormType DEF HandleUpdateConfig, ShapeInv
  <1> QED
    BY <1>1, <1>2 DEF Form, Config

-----------------------------------------------------------------------------
(* No plaintext *)

LEMMA InitHashed == Init => HashedInv
  BY DEF Init, HashedInv

LEMMA ProcessHashed ==
  ASSUME ShapeInv, HashedInv, Process
  PROVE  HashedInv' /\ WritesNoPlain
  <1> USE DEF ShapeInv
  <1>1. CASE Boot
    <2>1. Hashed(file.password) \/ boot' \in {"hash", "headless"}
      BY <1>1 DEF Boot, Hashed
    <2>2. Hashed(file.password) => Hashed(heap'[engine'.config].password)
      BY <1>1, LoadedType DEF Boot, Loadable
    <2>3. \A a \in Admins : pc'[a] = "idle"
      BY <1>1 DEF Boot, handlerVars, JobInv, TypeOK
    <2> QED
      BY <1>1, <2>1, <2>2, <2>3 DEF Boot, HashedInv, WritesNoPlain
  <1>2. CASE HashPassword
    <2>1. engine.config \in Objects /\ heap[engine.config] \in Config
      BY <1>2 DEF HashPassword, EngineInv, TypeOK
    <2>2. Hashed(Bcrypt(heap[engine.config].password))
      BY DEF Hashed, Bcrypt
    <2>3. boot' = "headless" \/ heap' = [heap EXCEPT ![engine.config].password =
                                             Bcrypt(heap[engine.config].password)]
      BY <1>2 DEF HashPassword
    <2>4. boot' # "headless" => Hashed(heap'[engine.config].password)
      BY <2>1, <2>2, <2>3 DEF TypeOK, Config
    <2>5. \A a \in Admins : pc'[a] = "idle"
      BY <1>2 DEF HashPassword, handlerVars, JobInv, TypeOK
    <2> QED
      BY <1>2, <2>4, <2>5 DEF HashPassword, HashedInv, WritesNoPlain
  <1>3. CASE BootFails
    BY <1>3 DEF BootFails, vars, handlerVars, HashedInv, WritesNoPlain
  <1>4. CASE OpenHashFile
    BY <1>4, FileAssumption DEF OpenHashFile, handlerVars, HashedInv, WritesNoPlain
  <1>5. CASE WriteHashFile
    <2>1. heap[engine.config] \in Config /\ Hashed(heap[engine.config].password)
      BY <1>5 DEF WriteHashFile, EngineInv, TypeOK, HashedInv
    <2>2. \/ file' \in {heap[engine.config], Torn}
          \/ file' \in CutShort(heap[engine.config])
      BY <1>5 DEF WriteHashFile
    <2>3. WritesNoPlain
      BY <2>1, <2>2, CutIsUnknown, FileAssumption DEF WritesNoPlain
    <2>4. HashedInv'
      BY <1>5 DEF WriteHashFile, handlerVars, HashedInv
    <2> QED
      BY <2>3, <2>4
  <1>6. CASE Crash
    BY <1>6 DEF Crash, HashedInv, TypeOK, WritesNoPlain
  <1> QED
    BY <1>1, <1>2, <1>3, <1>4, <1>5, <1>6 DEF Process

LEMMA RequestHashed ==
  ASSUME ShapeInv, HashedInv, NEW a \in Admins, Request(a)
  PROVE  HashedInv' /\ file' = file
  <1> USE DEF ShapeInv
  <1>1. CASE HandleGetConfig(a)
    BY <1>1 DEF HandleGetConfig, handlerVars, HashedInv
  <1>2. ASSUME NEW op \in {"add", "remove"}, NEW l \in Lists, NEW ip \in IPs,
               HandleListPost(a, op, l, ip)
        PROVE  HashedInv' /\ file' = file
    <2>1. job'[a].cfg = engine.config /\ pc'[a] = "edit" /\ boot = "serving"
      BY <1>2, NoJobType DEF HandleListPost, Posts, Moves, TypeOK, Job
    <2>2. \A b \in Admins : b # a => pc'[b] = pc[b] /\ job'[b] = job[b]
      BY <1>2 DEF HandleListPost, Moves, TypeOK
    <2> QED
      BY <1>2, <2>1, <2>2 DEF HandleListPost, HashedInv
  <1>3. ASSUME NEW s \in Entered, NEW typed \in Typed \cup {Nil},
               HandleUpdateConfig(a, s, typed)
        PROVE  HashedInv' /\ file' = file
    <2>1. PICK o \in Objects \ Reachable :
              /\ \A x \in Objects : x # o => heap'[x] = heap[x]
              /\ heap'[o].password = Normalised(Form(a, s, typed).password,
                                                heap[engine.config].password)
              /\ job'[a].cfg = o
      BY <1>3, UpdateEffect
    <2>2. boot = "serving" /\ engine.config \in Objects /\ pc'[a] = "marshal"
      BY <1>3 DEF HandleUpdateConfig, Posts, Moves, EngineInv, TypeOK
    <2>3. heap[engine.config].password \in Password /\ Hashed(heap[engine.config].password)
      BY <2>2 DEF TypeOK, Config, HashedInv
    <2>4. Hashed(heap'[o].password)
      BY <1>3, <2>1, <2>3, FormPassword, NormalisedIsHashed
    <2>5. \A b \in Admins : b # a => pc'[b] = pc[b] /\ job'[b] = job[b]
      BY <1>3 DEF HandleUpdateConfig, Moves, TypeOK
    <2>6. heap'[engine.config] = heap[engine.config]
      BY <2>1, <2>2 DEF Reachable
    <2>7. \A b \in Admins : pc[b] # "idle" => heap'[job[b].cfg] = heap[job[b].cfg]
      BY <2>1 DEF Reachable, JobInv
    <2> QED
      BY <1>3, <2>1, <2>2, <2>3, <2>4, <2>5, <2>6, <2>7 DEF HandleUpdateConfig, HashedInv
  <1>4. CASE HandleReload(a)
    <2>1. job'[a].cfg = engine.config /\ pc'[a] = "build" /\ boot = "serving"
      BY <1>4, NoJobType DEF HandleReload, Posts, Moves, TypeOK, Job
    <2>2. \A b \in Admins : b # a => pc'[b] = pc[b] /\ job'[b] = job[b]
      BY <1>4 DEF HandleReload, Moves, TypeOK
    <2> QED
      BY <1>4, <2>1, <2>2 DEF HandleReload, HashedInv
  <1> QED
    BY <1>1, <1>2, <1>3, <1>4 DEF Request

LEMMA HandlerHashed ==
  ASSUME ShapeInv, HashedInv, NEW a \in Admins, Save(a) \/ Reload(a)
  PROVE  HashedInv' /\ WritesNoPlain
  <1> USE DEF ShapeInv
  <1>1. boot' = boot /\ boot = "serving" /\ job[a].cfg \in Objects
    BY DEF JobInv, Save, EditList, Marshal, OpenFile, WriteFile, Moves,
           Reload, BuildFails, Build, CloseLog, AssignConfig, AssignLog
  <1>2. \A o \in Objects : heap'[o].password = heap[o].password
    <2>1. CASE EditList(a)
      BY <2>1 DEF EditList, TypeOK, Config
    <2>2. CASE ~EditList(a)
      BY <2>2 DEF Save, Marshal, OpenFile, WriteFile,
                  Reload, BuildFails, Build, CloseLog, AssignConfig, AssignLog
    <2> QED
      BY <2>1, <2>2
  <1>3. /\ engine'.config \in {engine.config, job[a].cfg}
        /\ pc'[a] # "idle" => job'[a].cfg = job[a].cfg
        /\ \A b \in Admins : b # a => pc'[b] = pc[b] /\ job'[b] = job[b]
    <2>1. engine'.config \in {engine.config, job[a].cfg}
      BY DEF Save, EditList, Marshal, OpenFile, WriteFile, TypeOK,
             Reload, BuildFails, Build, CloseLog, AssignConfig, AssignLog
    <2>2. pc'[a] # "idle" => job'[a].cfg = job[a].cfg
      BY DEF Save, EditList, Marshal, OpenFile, WriteFile, Returns, TypeOK, Job,
             Reload, BuildFails, Build, CloseLog, AssignConfig, AssignLog
    <2>3. \A b \in Admins : b # a => pc'[b] = pc[b] /\ job'[b] = job[b]
      BY DEF Save, EditList, Marshal, OpenFile, WriteFile, Moves, Returns, TypeOK,
             Reload, BuildFails, Build, CloseLog, AssignConfig, AssignLog
    <2> QED
      BY <2>1, <2>2, <2>3
  <1>4. Hashed(heap[job[a].cfg].password)
    <2>1. pc[a] # "idle"
      BY DEF Save, EditList, Marshal, OpenFile, WriteFile, Moves,
             Reload, BuildFails, Build, CloseLog, AssignConfig, AssignLog
    <2> QED
      BY <2>1 DEF HashedInv
  <1>5. Hashed(heap'[engine'.config].password)
    BY <1>1, <1>2, <1>3, <1>4 DEF HashedInv, Hashed, EngineInv
  <1>6. \A b \in Admins : pc'[b] # "idle" => Hashed(heap'[job'[b].cfg].password)
    BY <1>1, <1>2, <1>3, <1>4 DEF HashedInv, Hashed, JobInv
  <1>7. pc'[a] \in {"open", "write"} => Hashed(job'[a].data.password)
    <2>1. CASE Marshal(a)
      BY <1>4, <2>1 DEF Marshal, TypeOK
    <2>2. CASE ~Marshal(a)
      BY <2>2 DEF Save, EditList, OpenFile, WriteFile, Moves, Returns, TypeOK, HashedInv,
                  Reload, BuildFails, Build, CloseLog, AssignConfig, AssignLog
    <2> QED
      BY <2>1, <2>2
  <1>8. WritesNoPlain
    <2>1. CASE WriteFile(a)
      <3>1. job[a].data \in Config /\ Hashed(job[a].data.password)
        BY <2>1 DEF WriteFile, JobInv, HashedInv
      <3>2. file' \in {job[a].data, Torn} \/ file' \in CutShort(job[a].data)
        BY <2>1 DEF WriteFile
      <3> QED
        BY <3>1, <3>2, CutIsUnknown, FileAssumption DEF WritesNoPlain
    <2>2. CASE ~WriteFile(a)
      BY <2>2, FileAssumption
         DEF WritesNoPlain, Save, EditList, Marshal, OpenFile,
             Reload, BuildFails, Build, CloseLog, AssignConfig, AssignLog
    <2> QED
      BY <2>1, <2>2
  <1> QED
    BY <1>1, <1>3, <1>5, <1>6, <1>7, <1>8 DEF HashedInv

LEMMA NextHashed ==
  ASSUME ShapeInv, HashedInv, [Next]_vars
  PROVE  HashedInv' /\ WritesNoPlain
  <1>1. CASE UNCHANGED vars
    BY <1>1 DEF vars, handlerVars, HashedInv, WritesNoPlain
  <1>2. CASE Headless
    BY <1>1, <1>2 DEF Headless
  <1>3. file' = file => WritesNoPlain
    BY DEF WritesNoPlain
  <1> QED
    BY <1>1, <1>2, <1>3, ProcessHashed, RequestHashed, HandlerHashed DEF Next

\* dashboard.go:168-186 and 341-353: whatever any number of admins save, in any order
\* and with any failure in between, no plaintext password that bcrypt takes and that opens
\* anything gets into the file.
THEOREM NoPlaintext == Spec => PlaintextNeverWritten
  <1>1. Init => ShapeInv /\ HashedInv
    BY InitShape, InitHashed
  <1>2. ShapeInv /\ HashedInv /\ [Next]_vars =>
            /\ (ShapeInv /\ HashedInv)'
            /\ [file' # file /\ file' \in Config /\ file'.password.opens # NoOne
                    => file'.password.form # "plain"]_vars
    BY NextShape, NextHashed DEF Hashed, WritesNoPlain
  <1> QED
    BY <1>1, <1>2, PTL DEF Spec, PlaintextNeverWritten

-----------------------------------------------------------------------------
(* A single admin *)

OneAdmin == \A a, b \in Admins : a = b

\* What a handler has marshalled is still the object it works on, and once it is
\* written the file is that object.
SaveInv == \A a \in Admins :
    /\ pc[a] \in {"open", "write"} => job[a].data = heap[job[a].cfg]
    /\ pc[a] = "write" => file = Empty
    /\ pc[a] \in {"build", "close", "config", "log"} /\ job[a].op # "reload" =>
          file = heap[job[a].cfg]
    /\ pc[a] = "log" => engine.config = job[a].cfg

\* The open files: the engine's, and the one the handler has opened for it.
FilesInv ==
    /\ boot = "down" => open = {}
    /\ Up /\ (\A a \in Admins : ~HasLog(a)) => open = {engine.log} \ {0}
    /\ \A a \in Admins :
          /\ pc[a] = "close" => open = {engine.log, job[a].log} \ {0}
          /\ pc[a] \in {"config", "log"} => open = {job[a].log} \ {0}


-----------------------------------------------------------------------------
(* Saves *)

LEMMA ProcessSave ==
  ASSUME ShapeInv, SaveInv, Process
  PROVE  SaveInv'
  <1>1. \A a \in Admins : pc'[a] = "idle" \/ BootFails
    BY DEF ShapeInv, JobInv, TypeOK, Process, Boot, HashPassword, OpenHashFile, WriteHashFile,
           Crash, handlerVars
  <1>2. CASE BootFails
    BY <1>2 DEF BootFails, vars, handlerVars, SaveInv
  <1> QED
    BY <1>1, <1>2 DEF SaveInv

LEMMA RequestSave ==
  ASSUME OneAdmin, ShapeInv, SaveInv, NEW a \in Admins, Request(a)
  PROVE  SaveInv'
  <1> USE DEF ShapeInv
  <1>1. \A b \in Admins : b = a
    BY DEF OneAdmin
  <1>2. CASE HandleGetConfig(a)
    BY <1>2 DEF HandleGetConfig, handlerVars, SaveInv
  <1>3. CASE HandleReload(a)
    <2>1. pc'[a] = "build" /\ job'[a].op = "reload"
      BY <1>3, NoJobType DEF HandleReload, Moves, TypeOK, Job
    <2> QED
      BY <1>1, <2>1 DEF SaveInv
  <1>4. CASE ~HandleGetConfig(a) /\ ~HandleReload(a)
    <2>1. pc'[a] \in {"edit", "marshal"}
      BY <1>4 DEF Request, HandleListPost, HandleUpdateConfig, Moves, TypeOK
    <2> QED
      BY <1>1, <2>1 DEF SaveInv
  <1> QED
    BY <1>2, <1>3, <1>4

LEMMA HandlerSave ==
  ASSUME OneAdmin, ShapeInv, SaveInv, NEW a \in Admins, Save(a) \/ Reload(a)
  PROVE  SaveInv'
  <1> USE DEF ShapeInv
  <1>1. \A b \in Admins : b = a
    BY DEF OneAdmin
  <1>2. CASE EditList(a)
    BY <1>1, <1>2 DEF EditList, Moves, TypeOK, SaveInv
  <1>3. CASE Marshal(a)
    <2>1. pc'[a] = "open" /\ job'[a].data = heap[job[a].cfg] /\ job'[a].cfg = job[a].cfg
          /\ heap' = heap
      BY <1>3 DEF Marshal, Moves, TypeOK, Job
    <2> QED
      BY <1>1, <2>1 DEF SaveInv
  <1>4. CASE OpenFile(a)
    <2>1. CASE pc'[a] = "write"
      BY <1>1, <1>4, <2>1 DEF OpenFile, Moves, Returns, TypeOK, SaveInv
    <2>2. CASE pc'[a] # "write"
      <3>1. pc'[a] = "idle"
        BY <1>4, <2>2 DEF OpenFile, Moves, Returns, TypeOK
      <3> QED
        BY <1>1, <3>1 DEF SaveInv
    <2> QED
      BY <2>1, <2>2
  <1>5. CASE WriteFile(a)
    <2>1. file = Empty /\ job[a].data = heap[job[a].cfg]
      BY <1>5 DEF WriteFile, SaveInv
    <2>2. CASE pc'[a] = "build"
      <3>1. file' = job[a].data /\ job' = job /\ heap' = heap
        BY <1>5, <2>1, <2>2 DEF WriteFile, Moves, Returns, TypeOK
      <3> QED
        BY <1>1, <2>1, <2>2, <3>1 DEF SaveInv
    <2>3. CASE pc'[a] # "build"
      <3>1. pc'[a] = "idle"
        BY <1>5, <2>3 DEF WriteFile, Moves, Returns, TypeOK
      <3> QED
        BY <1>1, <3>1 DEF SaveInv
    <2> QED
      BY <2>2, <2>3
  <1>6. CASE BuildFails(a) \/ AssignLog(a)
    <2>1. pc'[a] = "idle"
      BY <1>6 DEF BuildFails, AssignLog, Returns, TypeOK
    <2> QED
      BY <1>1, <2>1 DEF SaveInv
  <1>7. CASE Build(a)
    <2>1. /\ pc[a] = "build" /\ pc'[a] = "close" /\ file' = file /\ heap' = heap
          /\ job'[a].cfg = job[a].cfg /\ job'[a].op = job[a].op
      BY <1>7 DEF Build, Moves, TypeOK, Job
    <2> QED
      BY <1>1, <2>1 DEF SaveInv
  <1>8. CASE CloseLog(a) \/ AssignConfig(a)
    <2>1. /\ pc[a] \in {"close", "config"} /\ pc'[a] \in {"config", "log"}
          /\ file' = file /\ heap' = heap /\ job' = job
      BY <1>8 DEF CloseLog, AssignConfig, Moves, TypeOK
    <2>2. pc'[a] = "log" => engine'.config = job[a].cfg
      BY <1>8 DEF CloseLog, AssignConfig, Moves, TypeOK
    <2> QED
      BY <1>1, <2>1, <2>2 DEF SaveInv
  <1> QED
    BY <1>2, <1>3, <1>4, <1>5, <1>6, <1>7, <1>8 DEF Save, Reload

LEMMA NextSave ==
  ASSUME OneAdmin, ShapeInv, SaveInv, [Next]_vars
  PROVE  SaveInv'
  <1>1. CASE UNCHANGED vars
    BY <1>1 DEF vars, handlerVars, SaveInv
  <1>2. CASE Headless
    BY <1>1, <1>2 DEF Headless
  <1> QED
    BY <1>1, <1>2, ProcessSave, RequestSave, HandlerSave DEF Next

\* The step that answers a request with success is the assignment of the logger.
LEMMA AnswerIsAssignLog ==
  ASSUME ShapeInv, Next, NEW a \in Admins, Acknowledges(a)
  PROVE  AssignLog(a)
  <1> USE DEF ShapeInv
  <1>1. pc[a] = "log" /\ pc'[a] = "idle" /\ boot' = boot /\ boot = "serving"
    BY DEF Acknowledges, JobInv
  <1>2. ~Process /\ ~Headless
    BY <1>1 DEF Process, Boot, BootFails, HashPassword, OpenHashFile, WriteHashFile, Crash,
                Headless, vars
  <1>3. PICK b \in Admins : Request(b) \/ Save(b) \/ Reload(b)
    BY <1>2 DEF Next
  <1>4. CASE b # a
    <2>1. pc'[a] = pc[a]
      BY <1>3, <1>4 DEF Request, HandleGetConfig, HandleListPost, HandleUpdateConfig,
             HandleReload, Save, EditList, Marshal, OpenFile, WriteFile, Moves, Returns,
             Reload, BuildFails, Build, CloseLog, AssignConfig, AssignLog, handlerVars, TypeOK
    <2> QED
      BY <1>1, <2>1
  <1>5. CASE b = a
    BY <1>1, <1>3, <1>5 DEF Request, HandleGetConfig, HandleListPost, HandleUpdateConfig,
       HandleReload, Save, EditList, Marshal, OpenFile, WriteFile, Moves,
       Reload, BuildFails, Build, CloseLog, AssignConfig, handlerVars
  <1> QED
    BY <1>4, <1>5

\* dashboard.go:461-477 and 355-372: when the only admin is told that something is saved,
\* it is in the file and in the engine, whichever of his earlier saves failed halfway and
\* wherever the process died.
THEOREM Acknowledged ==
  ASSUME OneAdmin
  PROVE  Spec => SavedMeansLoaded
  <1>1. Init => ShapeInv /\ SaveInv
    BY InitShape DEF Init, SaveInv
  <1>2. ShapeInv /\ SaveInv /\ [Next]_vars => (ShapeInv /\ SaveInv)'
    BY NextShape, NextSave
  <1>3. ShapeInv /\ SaveInv /\ [Next]_vars =>
            [\A a \in Admins :
                Acknowledges(a) /\ job[a].op # "reload" => file' = Live']_vars
    <2> SUFFICES ASSUME ShapeInv, SaveInv, Next, NEW a \in Admins,
                        Acknowledges(a), job[a].op # "reload"
                 PROVE  file' = Live'
      OBVIOUS
    <2>1. AssignLog(a)
      BY AnswerIsAssignLog
    <2>2. engine.config = job[a].cfg /\ file = heap[job[a].cfg]
      BY <2>1 DEF AssignLog, SaveInv
    <2>3. engine'.config = engine.config
      BY <2>1 DEF AssignLog, ShapeInv, TypeOK
    <2> QED
      BY <2>1, <2>2, <2>3 DEF AssignLog, Live
  <1> QED
    BY <1>1, <1>2, <1>3, PTL DEF Spec, SavedMeansLoaded

-----------------------------------------------------------------------------
(* Log files *)

LEMMA ProcessFiles ==
  ASSUME ShapeInv, FilesInv, Process
  PROVE  FilesInv'
  <1> USE DEF ShapeInv
  <1>1. CASE BootFails
    BY <1>1 DEF BootFails, vars, FilesInv, HasLog
  <1>2. CASE Crash
    BY <1>2 DEF Crash, FilesInv, TypeOK
  <1>3. CASE Boot
    <2>1. open = {} /\ \A a \in Admins : pc'[a] = "idle"
      BY <1>3 DEF Boot, FilesInv, JobInv, handlerVars, TypeOK
    <2>2. engine'.log = LogOf(Loaded) /\ opened + 1 # 0
      BY <1>3 DEF Boot, TypeOK
    <2>3. open' = {engine'.log} \ {0}
      BY <1>3, <2>1, <2>2 DEF Boot, OpenLogOf, LogOf
    <2> QED
      BY <1>3, <2>1, <2>3 DEF Boot, FilesInv
  <1>4. CASE HashPassword \/ OpenHashFile \/ WriteHashFile
    BY <1>4 DEF HashPassword, OpenHashFile, WriteHashFile, handlerVars, FilesInv, HasLog
  <1> QED
    BY <1>1, <1>2, <1>3, <1>4 DEF Process

LEMMA HandlerFiles ==
  ASSUME OneAdmin, ShapeInv, LogInv, FilesInv, NEW a \in Admins,
         Request(a) \/ Save(a) \/ Reload(a)
  PROVE  FilesInv'
  <1> USE DEF ShapeInv
  <1>1. \A b \in Admins : b = a
    BY DEF OneAdmin
  <1>2. boot = "serving" /\ boot' = boot
    BY DEF Request, HandleGetConfig, HandleListPost, HandleUpdateConfig, HandleReload, Posts,
           Save, EditList, Marshal, OpenFile, WriteFile, Moves, JobInv,
           Reload, BuildFails, Build, CloseLog, AssignConfig, AssignLog
  <1>3. CASE Build(a)
    <2>1. open = {engine.log} \ {0} /\ job'[a].log = LogOf(heap[job[a].cfg]) /\ pc'[a] = "close"
      BY <1>1, <1>2, <1>3 DEF Build, Moves, TypeOK, Job, FilesInv, HasLog
    <2>2. open' = {engine.log, job'[a].log} \ {0}
      BY <1>3, <2>1 DEF Build, OpenLogOf, LogOf, TypeOK
    <2> QED
      BY <1>1, <1>2, <1>3, <2>1, <2>2 DEF Build, FilesInv, HasLog
  <1>4. CASE CloseLog(a)
    <2>1. open = {engine.log, job[a].log} \ {0} /\ (job[a].log # 0 => job[a].log # engine.log)
      BY <1>4 DEF CloseLog, Moves, FilesInv, LogInv, HasLog
    <2>2. open' = {job[a].log} \ {0} /\ pc'[a] = "config" /\ job' = job
      BY <1>4, <2>1 DEF CloseLog, Moves, TypeOK
    <2> QED
      BY <1>1, <1>2, <2>2 DEF FilesInv, HasLog
  <1>5. CASE AssignConfig(a)
    BY <1>1, <1>2, <1>5 DEF AssignConfig, Moves, TypeOK, FilesInv, HasLog
  <1>6. CASE AssignLog(a)
    <2>1. open = {job[a].log} \ {0} /\ open' = open /\ pc'[a] = "idle"
          /\ engine'.log = job[a].log
      BY <1>6 DEF AssignLog, Returns, TypeOK, FilesInv
    <2> QED
      BY <1>1, <1>2, <2>1 DEF FilesInv
  <1>7. CASE Request(a) \/ Save(a) \/ BuildFails(a)
    <2>1. open' = open /\ engine' = engine
      BY <1>7 DEF Request, HandleGetConfig, HandleListPost, HandleUpdateConfig, HandleReload,
             Save, EditList, Marshal, OpenFile, WriteFile, BuildFails
    <2>2. CASE HandleGetConfig(a)
      BY <1>1, <1>2, <2>1, <2>2 DEF HandleGetConfig, handlerVars, FilesInv, HasLog
    <2>3. CASE ~HandleGetConfig(a)
      <3>1. ~HasLog(a) /\ ~HasLog(a)'
        BY <1>7, <2>3 DEF Request, HandleListPost, HandleUpdateConfig, HandleReload, Moves,
               Save, EditList, Marshal, OpenFile, WriteFile, BuildFails, Returns, HasLog, TypeOK
      <3> QED
        BY <1>1, <1>2, <2>1, <3>1 DEF FilesInv, HasLog
    <2> QED
      BY <2>2, <2>3
  <1> QED
    BY <1>3, <1>4, <1>5, <1>6, <1>7 DEF Reload

LEMMA NextFiles ==
  ASSUME OneAdmin, ShapeInv, LogInv, FilesInv, [Next]_vars
  PROVE  FilesInv'
  <1>1. CASE UNCHANGED vars
    BY <1>1 DEF vars, handlerVars, FilesInv, HasLog
  <1>2. CASE Headless
    BY <1>1, <1>2 DEF Headless
  <1> QED
    BY <1>1, <1>2, ProcessFiles, HandlerFiles DEF Next

\* engine.go:85-120: a single admin's reloads leave no log file open but the engine's,
\* whatever NewEngine refuses and whichever write fails.
THEOREM OneLog ==
  ASSUME OneAdmin
  PROVE  Spec => []OneLogOpen
  <1>1. Init => FilesInv
    BY DEF Init, FilesInv
  <1>2. IInv /\ FilesInv /\ [Next]_vars => FilesInv'
    BY NextFiles DEF IInv
  <1>3. FilesInv => OneLogOpen
    BY DEF FilesInv, OneLogOpen, Quiet, HasLog
  <1> QED
    BY <1>1, <1>2, <1>3, Invariance, PTL DEF Spec
=============================================================================
