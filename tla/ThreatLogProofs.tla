-------------------------- MODULE ThreatLogProofs --------------------------
(***************************************************************************)
(* Proofs about the threat log, for files of any length.                   *)
(*                                                                         *)
(* CutsCostOne: FileInv says what a file is made of. What is missing of    *)
(* the lines that were written, and one more if the file does not end with *)
(* a line end, is at most what was cut short (DebtInv): after a cut the    *)
(* file ends in the middle of a line, the next line lands behind it and is *)
(* lost, but its own line end repairs the file. A line that stands whole   *)
(* in the file (LineAt) stays there when the file grows, and is an entry   *)
(* that is parsed.                                                         *)
(*                                                                         *)
(* ShowsTheLatest: in a file without cuts, what starts an entry starts a   *)
(* line (StartsInv). So what is read, the end of the file as Stat saw it,  *)
(* holds the same entries as the file does from there on (TailEntries),    *)
(* and the ascending sequence of those is the end of the file's            *)
(* (AscendingTail).                                                        *)
(***************************************************************************)
EXTENDS ThreatLog, SequenceTheorems, FiniteSetTheorems, TLAPS

-----------------------------------------------------------------------------
(* Types *)

USE DEF NL, Requests, Units

Look == [at : {"idle", "open", "stat", "read"}, file : Outputs, size : Nat]

LEMMA NoLookType == NoLook \in Look
  <1>1. (CHOOSE o \in Outputs : TRUE) \in Outputs
    BY SizeAssumption
  <1> QED
    BY <1>1 DEF NoLook, Look

LEMMA Bounds == /\ MaxEntries \in Nat /\ MaxReloads \in Nat /\ MaxCuts \in Nat /\ MaxStarts \in Nat
                /\ ReadLimit \in Nat \ {0} /\ PageSize \in Nat \ {0} /\ Sizes \subseteq Nat \ {0}
  BY LogBoundAssumption, PageAssumption, SizeAssumption

LEMMA FunctionIsSeq ==
  ASSUME NEW S, NEW n \in Nat, NEW f \in [1 .. n -> S]
  PROVE  f \in Seq(S) /\ Len(f) = n
  <1>1. f \in Seq(S)
    BY SeqDef
  <1> QED
    BY <1>1, LenProperties

\* The line of a request.
LEMMA TextFacts ==
  ASSUME LogTypeOK, NEW r \in 1 .. Len(size)
  PROVE  /\ size[r] \in Nat \ {0} /\ r \in Requests
         /\ Text(r) \in Seq(Units) /\ Len(Text(r)) = size[r]
         /\ \A i \in 1 .. size[r] : Text(r)[i] = IF i = 1 THEN r ELSE -r
  <1>1. size[r] \in Nat \ {0} /\ r \in Requests
    <2>1. size \in Seq(Sizes) /\ Len(size) \in 0 .. MaxEntries
      BY DEF LogTypeOK
    <2>2. size[r] \in Sizes
      BY <2>1, ElementOfSeq
    <2>3. Sizes \subseteq Nat \ {0} /\ MaxEntries \in Nat
      BY Bounds
    <2>4. r \in Requests
      BY <2>1, <2>3
    <2> QED
      BY <2>2, <2>3, <2>4
  <1>2. \A i \in 1 .. size[r] : (IF i = 1 THEN r ELSE -r) \in Units
    BY <1>1, Bounds
  <1>3. Text(r) \in [1 .. size[r] -> Units]
    BY <1>2 DEF Text
  <1>4. Text(r) \in Seq(Units) /\ Len(Text(r)) = size[r]
    BY <1>1, <1>3, FunctionIsSeq
  <1> QED
    BY <1>1, <1>4 DEF Text

\* What of its line a cut write puts into the file.
LEMMA TextCut ==
  ASSUME LogTypeOK, NEW r \in 1 .. Len(size), NEW n \in 0 .. size[r]
  PROVE  /\ SubSeq(Text(r), 1, n) \in Seq(Units) /\ Len(SubSeq(Text(r), 1, n)) = n
         /\ \A i \in 1 .. n : SubSeq(Text(r), 1, n)[i] = IF i = 1 THEN r ELSE -r
  <1>1. /\ size[r] \in Nat /\ Text(r) \in Seq(Units) /\ Len(Text(r)) = size[r]
        /\ \A i \in 1 .. size[r] : Text(r)[i] = IF i = 1 THEN r ELSE -r
    BY TextFacts
  <1> DEFINE t == Text(r)
  <1> HIDE DEF t
  <1>2. n \in Int /\ \A i \in 1 .. n : i \in 1 .. size[r]
    BY <1>1
  <1>3. \A i \in 1 .. n : t[i] \in Units
    BY <1>1, <1>2, ElementOfSeq DEF t
  <1>4. /\ SubSeq(t, 1, n) \in Seq(Units) /\ Len(SubSeq(t, 1, n)) = IF 1 <= n THEN n - 1 + 1 ELSE 0
        /\ \A i \in 1 .. n - 1 + 1 : SubSeq(t, 1, n)[i] = t[1 + i - 1]
    BY <1>2, <1>3, SubSeqProperties
  <1>5. \A i \in 1 .. n : SubSeq(t, 1, n)[i] = t[i]
    BY <1>2, <1>4
  <1> QED
    BY <1>1, <1>2, <1>4, <1>5 DEF t

LEMMA LogInitType == LogInit => LogTypeOK
  BY NoLookType, Bounds DEF LogInit, LogTypeOK, Settings, Look

LEMMA LogNextType == LogTypeOK /\ [LogNext]_logVars => LogTypeOK'
  <1> SUFFICES ASSUME LogTypeOK, [LogNext]_logVars PROVE LogTypeOK'
    OBVIOUS
  <1>1. ASSUME NEW s \in Sizes, Serve(s) PROVE LogTypeOK'
    <2>0. size \in Seq(Sizes) /\ size' = Append(size, s)
      BY <1>1 DEF Serve, LogTypeOK
    <2>1. size' \in Seq(Sizes) /\ Len(size') = Len(size) + 1
      BY <2>0, AppendProperties
    <2>2. serving' \subseteq 1 .. Len(size')
      <3>1. /\ serving \subseteq 1 .. Len(size) /\ serving' = serving \cup {Len(size) + 1}
            /\ Len(size) \in Nat
        BY <1>1 DEF Serve, LogTypeOK
      <3>2. Len(size') = Len(size) + 1
        BY <2>1
      <3>3. \A i \in 1 .. Len(size) : i \in 1 .. Len(size')
        BY <3>1, <3>2
      <3>4. Len(size) + 1 \in 1 .. Len(size')
        BY <3>1, <3>2
      <3> QED
        BY <3>1, <3>3, <3>4
    <2> QED
      BY <1>1, Bounds, <2>1, <2>2 DEF Serve, LogTypeOK
  <1>2. ASSUME NEW r \in serving, Println(r) PROVE LogTypeOK'
    <2>1. Append(Text(r), NL) \in Seq(Units) /\ r \in Requests
      <3>1. r \in 1 .. Len(size)
        BY DEF LogTypeOK
      <3> QED
        BY <3>1, TextFacts, Bounds, AppendProperties
    <2>2. files' \in [Outputs -> Seq(Units)]
      BY <1>2, <2>1, ConcatProperties DEF Println, LogTypeOK
    <2> QED
      BY <1>2, <2>1, <2>2 DEF Println, Ends, LogTypeOK
  <1>3. ASSUME NEW r \in serving, NEW n \in 0 .. size[r], PrintlnCut(r, n) PROVE LogTypeOK'
    <2>1. SubSeq(Text(r), 1, n) \in Seq(Units)
      <3>1. r \in 1 .. Len(size)
        BY DEF LogTypeOK
      <3> QED
        BY <3>1, TextCut
    <2>2. files' \in [Outputs -> Seq(Units)]
      BY <1>3, <2>1, ConcatProperties DEF PrintlnCut, LogTypeOK
    <2> QED
      BY <1>3, <2>2 DEF PrintlnCut, Ends, LogTypeOK
  <1>4. ASSUME NEW r \in serving, NotLogged(r) \/ Breaks(r) PROVE LogTypeOK'
    BY <1>4 DEF NotLogged, Breaks, Ends, LogTypeOK
  <1>5. ASSUME NEW s \in Settings, ReloadLog(s) PROVE LogTypeOK'
    <2>1. chain' \in [enabled : BOOLEAN, output : Outputs, open : BOOLEAN]
      BY <1>5 DEF ReloadLog, LogTypeOK
    <2>2. reloads' \in 0 .. MaxReloads
      BY <1>5, Bounds DEF ReloadLog, LogTypeOK
    <2> QED
      BY <1>5, <2>1, <2>2 DEF ReloadLog, OpenOutput, LogTypeOK
  <1>6. CASE Restart
    <2>1. look' \in [Viewers -> Look]
      BY <1>6, NoLookType DEF Restart
    <2>2. chain' \in [enabled : BOOLEAN, output : Outputs, open : BOOLEAN]
      <3>1. live.enabled \in BOOLEAN /\ live.output \in Outputs
        BY DEF Settings, LogTypeOK
      <3> QED
        BY <1>6, <3>1 DEF Restart
    <2>3. starts' \in 0 .. MaxStarts /\ serving' = {}
      BY <1>6, Bounds DEF Restart, LogTypeOK
    <2> QED
      BY <1>6, <2>1, <2>2, <2>3 DEF Restart, OpenOutput, Look, LogTypeOK
  <1>7. ASSUME NEW v \in Viewers, View(v) PROVE LogTypeOK'
    <2>1. NoLook \in Look /\ look \in [Viewers -> Look] /\ live.output \in Outputs
      BY NoLookType DEF Look, Settings, LogTypeOK
    <2>2. look' \in [Viewers -> Look]
      <3>1. CASE Stat(v)
        <4>1. look[v].file \in Outputs /\ look[v] \in Look
          BY <2>1 DEF Look
        <4>2. Len(files[look[v].file]) \in Nat
          BY <4>1, LenProperties DEF LogTypeOK
        <4> QED
          BY <2>1, <3>1, <4>1, <4>2 DEF Stat, Looks, Look
      <3>2. CASE OpenLog(v)
        BY <2>1, <3>2 DEF OpenLog, Looks, Look
      <3>3. CASE HandleThreats(v)
        BY <2>1, <3>3 DEF HandleThreats, Looks, Look
      <3>4. CASE Answer(v) \/ HandleThreatsOff(v)
        BY <2>1, <3>4 DEF Answer, HandleThreatsOff, Looks, logVars
      <3> QED
        BY <1>7, <3>1, <3>2, <3>3, <3>4 DEF View
    <2>3. UNCHANGED <<files, size, serving, live, chain, written, cuts, reloads, starts>>
      BY <1>7 DEF View, HandleThreatsOff, HandleThreats, OpenLog, Stat, Answer, logVars
    <2> QED
      BY <2>2, <2>3 DEF Look, LogTypeOK
  <1>8. CASE UNCHANGED logVars
    BY <1>8 DEF logVars, LogTypeOK
  <1> QED
    BY <1>1, <1>2, <1>3, <1>4, <1>5, <1>6, <1>7, <1>8 DEF LogNext, Traffic

\* Every variable of ThreatLog keeps its type.
THEOREM LogTypeCorrect == LogSpec => []LogTypeOK
  BY LogInitType, LogNextType, PTL DEF LogSpec

-----------------------------------------------------------------------------
(* What is in the files *)

\* At i starts the line of request r, and it ends with a line end.
LineAt(f, i, r) ==
    /\ i \in 1 .. Len(f) - size[r]
    /\ i = 1 \/ f[i - 1] = NL
    /\ \A k \in 1 .. size[r] : f[i + k - 1] = IF k = 1 THEN r ELSE -r
    /\ f[i + size[r]] = NL

Whole(o) == {r \in 1 .. Len(size) : \E i \in 1 .. Len(files[o]) : LineAt(files[o], i, r)}

\* The next line will not start at the start of a line.
Dirty(f) == IF f # << >> /\ f[Len(f)] # NL THEN 1 ELSE 0

UnitsInv   == \A o \in Outputs : \A i \in 1 .. Len(files[o]) :
                  files[o][i] \in -Len(size) .. Len(size)
WrittenInv == \A o \in Outputs : written[o] \subseteq 1 .. Len(size)

\* Each cut so far has cost one line, or will cost the next one.
DebtInv == \A o \in Outputs : Cardinality(written[o] \ Whole(o)) + Dirty(files[o]) <= cuts[o]

\* Without a cut, what starts an entry starts a line.
StartsInv == \A o \in Outputs : cuts[o] = 0 =>
    \A i \in 1 .. Len(files[o]) : files[o][i] > 0 => i = 1 \/ files[o][i - 1] = NL

FileInv == UnitsInv /\ WrittenInv /\ DebtInv /\ StartsInv

\* A file only grows while it is looked at.
LookInv == \A v \in Viewers : look[v].at = "read" => look[v].size <= Len(files[look[v].file])

LogInv == LogTypeOK /\ FileInv /\ LookInv

LEMMA ConcatAt ==
  ASSUME NEW f \in Seq(Units), NEW g \in Seq(Units)
  PROVE  /\ f \o g \in Seq(Units) /\ Len(f) \in Nat /\ Len(g) \in Nat
         /\ Len(f \o g) = Len(f) + Len(g)
         /\ \A j \in 1 .. Len(f) : (f \o g)[j] = f[j]
         /\ \A k \in 1 .. Len(g) : (f \o g)[Len(f) + k] = g[k]
  <1>1. f \o g \in Seq(Units) /\ Len(f \o g) = Len(f) + Len(g)
    BY ConcatProperties
  <1>2. Len(f) \in Nat /\ Len(g) \in Nat
    BY LenProperties
  <1>3. ASSUME NEW j \in 1 .. Len(f) PROVE (f \o g)[j] = f[j]
    <2>1. j \in 1 .. Len(f) + Len(g) /\ j <= Len(f)
      BY <1>2
    <2> QED
      BY <2>1, ConcatProperties
  <1>4. ASSUME NEW k \in 1 .. Len(g) PROVE (f \o g)[Len(f) + k] = g[k]
    <2> DEFINE j == Len(f) + k
    <2>1. j \in 1 .. Len(f) + Len(g) /\ ~(j <= Len(f)) /\ j - Len(f) = k
      BY <1>2
    <2> HIDE DEF j
    <2>2. (f \o g)[j] = g[j - Len(f)]
      BY <2>1, ConcatProperties
    <2> QED
      BY <2>1, <2>2 DEF j
  <1> QED
    BY <1>1, <1>2, <1>3, <1>4

\* Lines that are whole stay so when something is appended.
LEMMA LineStays ==
  ASSUME NEW f \in Seq(Units), NEW g \in Seq(Units), NEW i \in Nat, NEW r, size[r] \in Nat,
         LineAt(f, i, r)
  PROVE  LineAt(f \o g, i, r) /\ i \in 1 .. Len(f \o g)
  <1> DEFINE h == f \o g  n == size[r]
  <1>1. Len(f) \in Nat /\ Len(g) \in Nat /\ Len(h) = Len(f) + Len(g)
    BY ConcatAt
  <1>2. \A j \in 1 .. Len(f) : h[j] = f[j]
    BY ConcatAt
  <1> HIDE DEF h, n
  <1>3. /\ n \in Nat /\ i \in 1 .. Len(f) - n /\ (i = 1 \/ f[i - 1] = NL) /\ f[i + n] = NL
        /\ \A k \in 1 .. n : f[i + k - 1] = IF k = 1 THEN r ELSE -r
    BY DEF LineAt, n
  <1>4. i \in 1 .. Len(h) - n /\ i \in 1 .. Len(h)
    BY <1>1, <1>3
  <1>5. i = 1 \/ h[i - 1] = NL
    <2>1. i # 1 => i - 1 \in 1 .. Len(f)
      BY <1>1, <1>3
    <2> QED
      BY <1>2, <1>3, <2>1
  <1>6. \A k \in 1 .. n : h[i + k - 1] = IF k = 1 THEN r ELSE -r
    <2>1. \A k \in 1 .. n : i + k - 1 \in 1 .. Len(f)
      BY <1>1, <1>3
    <2> QED
      BY <1>2, <1>3, <2>1
  <1>7. h[i + n] = NL
    <2>1. i + n \in 1 .. Len(f)
      BY <1>1, <1>3
    <2> QED
      BY <1>2, <1>3, <2>1
  <1> QED
    BY <1>4, <1>5, <1>6, <1>7 DEF LineAt, h, n

\* A line that is appended to a file with a line end at its end, or to an empty one.
LEMMA LineComes ==
  ASSUME LogTypeOK, NEW f \in Seq(Units), NEW r \in 1 .. Len(size), Dirty(f) = 0
  PROVE  \E i \in 1 .. Len(f \o Append(Text(r), NL)) :
            LineAt(f \o Append(Text(r), NL), i, r)
  <1> DEFINE t == Append(Text(r), NL)  h == f \o t  n == size[r]
  <1>1. /\ n \in Nat \ {0} /\ t \in Seq(Units) /\ Len(t) = n + 1 /\ t[n + 1] = NL
        /\ \A k \in 1 .. n : t[k] = IF k = 1 THEN r ELSE -r
    <2>1. NL \in Units
      BY Bounds
    <2> QED
      BY TextFacts, <2>1, AppendProperties
  <1> HIDE DEF t, n
  <1>2. /\ Len(f) \in Nat /\ Len(h) = Len(f) + Len(t)
        /\ \A j \in 1 .. Len(f) : h[j] = f[j]
        /\ \A k \in 1 .. Len(t) : h[Len(f) + k] = t[k]
    BY <1>1, ConcatAt
  <1> HIDE DEF h
  <1>a. n \in Nat \ {0} /\ Len(f) \in Nat /\ Len(h) = Len(f) + n + 1
    BY <1>1, <1>2
  <1>b. \A k \in 1 .. n + 1 : h[Len(f) + k] = t[k]
    BY <1>1, <1>2
  <1> DEFINE i == Len(f) + 1
  <1>3. i \in 1 .. Len(h) - n /\ i \in 1 .. Len(h)
    BY <1>a
  <1>4. i = 1 \/ h[i - 1] = NL
    <2>1. i # 1 => f # << >> /\ Len(f) \in 1 .. Len(f) /\ i - 1 = Len(f)
      BY <1>a, EmptySeq
    <2> HIDE DEF i
    <2> QED
      BY <1>2, <2>1 DEF Dirty
  <1>5. \A k \in 1 .. n : h[i + k - 1] = IF k = 1 THEN r ELSE -r
    <2> SUFFICES ASSUME NEW k \in 1 .. n PROVE h[i + k - 1] = t[k]
      BY <1>1
    <2>1. i + k - 1 = Len(f) + k /\ k \in 1 .. n + 1
      BY <1>a
    <2> HIDE DEF i
    <2> QED
      BY <1>b, <2>1
  <1>6. h[i + n] = NL
    <2>1. i + n = Len(f) + (n + 1) /\ n + 1 \in 1 .. n + 1
      BY <1>a
    <2>2. h[Len(f) + (n + 1)] = t[n + 1]
      BY <1>b, <2>1
    <2> HIDE DEF i
    <2> QED
      BY <1>1, <2>1, <2>2
  <1>7. LineAt(h, i, r)
    BY <1>3, <1>4, <1>5, <1>6 DEF LineAt, n
  <1> QED
    BY <1>3, <1>7 DEF h, t

-----------------------------------------------------------------------------
(* The invariant of the files *)

LEMMA FilesSeq ==
  ASSUME LogTypeOK, NEW o \in Outputs
  PROVE  files[o] \in Seq(Units) /\ Len(files[o]) \in Nat /\ size \in Seq(Sizes)
         /\ Len(size) \in Nat /\ cuts[o] \in Nat /\ written[o] \subseteq Requests
  BY LenProperties DEF LogTypeOK

\* The written lines that cannot be read are finitely many.
LEMMA LostFinite ==
  ASSUME LogTypeOK, WrittenInv, NEW o \in Outputs
  PROVE  IsFiniteSet(written[o] \ Whole(o)) /\ Cardinality(written[o] \ Whole(o)) \in Nat
  <1>1. written[o] \ Whole(o) \subseteq 1 .. Len(size)
    BY DEF WrittenInv
  <1>2. IsFiniteSet(1 .. Len(size))
    BY FilesSeq, FS_Interval
  <1> QED
    BY <1>1, <1>2, FS_Subset, FS_CardinalityType

LEMMA LogInitInv == LogInit => FileInv /\ LookInv
  <1> SUFFICES ASSUME LogInit PROVE FileInv /\ LookInv
    OBVIOUS
  <1>1. UnitsInv /\ WrittenInv /\ StartsInv /\ LookInv
    BY DEF LogInit, UnitsInv, WrittenInv, StartsInv, LookInv, NoLook
  <1>2. DebtInv
    <2> SUFFICES ASSUME NEW o \in Outputs
                 PROVE  Cardinality(written[o] \ Whole(o)) + Dirty(files[o]) <= cuts[o]
      BY DEF DebtInv
    <2>1. written[o] \ Whole(o) = {} /\ Dirty(files[o]) = 0 /\ cuts[o] = 0
      BY DEF LogInit, Dirty
    <2> QED
      BY <2>1, FS_EmptySet
  <1> QED
    BY <1>1, <1>2 DEF FileInv

LEMMA FileInvStays ==
  ASSUME FileInv, UNCHANGED <<files, size, written, cuts>>
  PROVE  FileInv'
  BY DEF FileInv, UnitsInv, WrittenInv, DebtInv, StartsInv, Whole, LineAt

LEMMA ServeInv ==
  ASSUME LogTypeOK, LogTypeOK', FileInv, NEW s \in Sizes, Serve(s)
  PROVE  FileInv'
  <1>1. /\ UNCHANGED <<files, written, cuts>> /\ size' = Append(size, s)
        /\ size \in Seq(Sizes) /\ Len(size) \in Nat
    BY LenProperties DEF Serve, LogTypeOK
  <1>2. Len(size') = Len(size) + 1 /\ \A r \in 1 .. Len(size) : size'[r] = size[r]
    BY <1>1, AppendProperties
  <1>3. WrittenInv' /\ UnitsInv'
    <2>1. /\ \A i \in 1 .. Len(size) : i \in 1 .. Len(size')
          /\ \A i \in -Len(size) .. Len(size) : i \in -Len(size') .. Len(size')
      BY <1>1, <1>2
    <2> QED
      BY <1>1, <2>1 DEF FileInv, WrittenInv, UnitsInv
  <1>4. DebtInv'
    <2> SUFFICES ASSUME NEW o \in Outputs
                 PROVE  Cardinality(written[o] \ Whole(o)') + Dirty(files[o]) <= cuts[o]
      BY <1>1 DEF DebtInv
    <2>1. Whole(o) \subseteq Whole(o)'
      <3>1. \A r \in 1 .. Len(size) : r \in 1 .. Len(size') /\ size'[r] = size[r]
        BY <1>1, <1>2
      <3> QED
        BY <1>1, <3>1 DEF Whole, LineAt
    <2>2. /\ IsFiniteSet(written[o] \ Whole(o)) /\ Cardinality(written[o] \ Whole(o)) \in Nat
          /\ written[o] \ Whole(o)' \subseteq written[o] \ Whole(o)
      BY <2>1, LostFinite DEF FileInv
    <2>3. /\ Cardinality(written[o] \ Whole(o)') <= Cardinality(written[o] \ Whole(o))
          /\ Cardinality(written[o] \ Whole(o)') \in Nat
      BY <2>2, FS_Subset, FS_CardinalityType
    <2>4. Dirty(files[o]) \in Nat /\ cuts[o] \in Nat
      BY FilesSeq DEF Dirty
    <2> QED
      BY <2>2, <2>3, <2>4 DEF FileInv, DebtInv
  <1>5. StartsInv'
    BY <1>1 DEF FileInv, StartsInv
  <1> QED
    BY <1>3, <1>4, <1>5 DEF FileInv

\* Something of the line of request r is appended to the file of o.
LEMMA Grown ==
  ASSUME LogTypeOK, NEW o \in Outputs, NEW g \in Seq(Units),
         files' = [files EXCEPT ![o] = @ \o g], size' = size
  PROVE  /\ files'[o] = files[o] \o g /\ Whole(o) \subseteq Whole(o)'
         /\ \A p \in Outputs \ {o} : files'[p] = files[p] /\ Whole(p)' = Whole(p)
  <1>1. /\ files'[o] = files[o] \o g /\ \A p \in Outputs \ {o} : files'[p] = files[p]
    BY DEF LogTypeOK
  <1>2. \A p \in Outputs \ {o} : Whole(p)' = Whole(p)
    BY <1>1 DEF Whole, LineAt
  <1>3. ASSUME NEW r \in Whole(o) PROVE r \in Whole(o)'
    <2>1. r \in 1 .. Len(size) /\ files[o] \in Seq(Units)
      BY FilesSeq DEF Whole
    <2>2. PICK i \in 1 .. Len(files[o]) : LineAt(files[o], i, r)
      BY DEF Whole
    <2>3. size[r] \in Nat /\ i \in Nat
      <3>1. size[r] \in Nat
        BY <2>1, TextFacts
      <3> QED
        BY <2>2, <3>1 DEF LineAt
    <2>4. LineAt(files[o] \o g, i, r) /\ i \in 1 .. Len(files[o] \o g)
      BY <2>1, <2>2, <2>3, LineStays
    <2>5. LineAt(files[o], i, r)' /\ i \in 1 .. Len(files'[o])
      BY <1>1, <2>4 DEF LineAt
    <2> QED
      BY <2>1, <2>5 DEF Whole
  <1> QED
    BY <1>1, <1>2, <1>3

\* A piece of a request's line.
LEMMA UnitsGrow ==
  ASSUME LogTypeOK, UnitsInv, NEW o \in Outputs, NEW g \in Seq(Units),
         files' = [files EXCEPT ![o] = @ \o g], size' = size,
         \A k \in 1 .. Len(g) : g[k] \in -Len(size) .. Len(size)
  PROVE  UnitsInv'
  <1> SUFFICES ASSUME NEW p \in Outputs, NEW i \in 1 .. Len(files'[p])
               PROVE  files'[p][i] \in -Len(size) .. Len(size)
    BY DEF UnitsInv
  <1>1. CASE p # o
    BY <1>1, Grown DEF UnitsInv
  <1>2. CASE p = o
    <2> DEFINE f == files[o]
    <2>1. /\ f \in Seq(Units) /\ files'[o] = f \o g
          /\ \A j \in 1 .. Len(f) : f[j] \in -Len(size) .. Len(size)
      <3>1. \A j \in 1 .. Len(f) : f[j] \in -Len(size) .. Len(size)
        BY DEF UnitsInv
      <3> QED
        BY <3>1, Grown, FilesSeq
    <2> HIDE DEF f
    <2>2. /\ Len(f) \in Nat /\ Len(g) \in Nat /\ Len(files'[o]) = Len(f) + Len(g)
          /\ \A j \in 1 .. Len(f) : files'[o][j] = f[j]
          /\ \A k \in 1 .. Len(g) : files'[o][Len(f) + k] = g[k]
      <3>1. /\ Len(f) \in Nat /\ Len(g) \in Nat /\ Len(f \o g) = Len(f) + Len(g)
            /\ \A j \in 1 .. Len(f) : (f \o g)[j] = f[j]
            /\ \A k \in 1 .. Len(g) : (f \o g)[Len(f) + k] = g[k]
        BY <2>1, ConcatAt
      <3> QED
        BY <2>1, <3>1
    <2>3. CASE i <= Len(f)
      <3>1. i \in 1 .. Len(f)
        BY <1>2, <2>2, <2>3
      <3> QED
        BY <1>2, <2>1, <2>2, <3>1
    <2>4. CASE ~(i <= Len(f))
      <3>1. i - Len(f) \in 1 .. Len(g) /\ i = Len(f) + (i - Len(f))
        BY <1>2, <2>2, <2>4
      <3>2. files'[o][Len(f) + (i - Len(f))] = g[i - Len(f)]
        BY <2>2, <3>1
      <3> QED
        BY <1>2, <3>1, <3>2
    <2> QED
      BY <2>3, <2>4
  <1> QED
    BY <1>1, <1>2

LEMMA LineUnits ==
  ASSUME LogTypeOK, NEW r \in 1 .. Len(size), NEW t, t = Append(Text(r), NL)
  PROVE  /\ t \in Seq(Units) /\ Len(t) = size[r] + 1 /\ Len(t) \in Nat \ {0} /\ t[Len(t)] = NL
         /\ \A k \in 1 .. Len(t) : t[k] \in -Len(size) .. Len(size)
         /\ \A k \in 2 .. Len(t) : ~(t[k] > 0)
  <1> DEFINE n == size[r]
  <1>1. /\ n \in Nat \ {0} /\ Text(r) \in Seq(Units) /\ Len(Text(r)) = n
        /\ \A k \in 1 .. n : Text(r)[k] = IF k = 1 THEN r ELSE -r
    BY TextFacts
  <1>2. NL \in Units
    BY Bounds
  <1> HIDE DEF n
  <1>3. /\ t \in Seq(Units) /\ Len(t) = n + 1 /\ t[n + 1] = NL
        /\ \A k \in 1 .. n : t[k] = IF k = 1 THEN r ELSE -r
    BY <1>1, <1>2, AppendProperties
  <1>4. /\ \A k \in 1 .. n + 1 : k \in 1 .. n \/ k = n + 1
        /\ Len(size) \in Nat
    BY <1>1 DEF LogTypeOK
  <1>5. \A k \in 1 .. n + 1 : t[k] \in -Len(size) .. Len(size)
    BY <1>3, <1>4
  <1>6. \A k \in 2 .. n + 1 : ~(t[k] > 0)
    <2>1. \A k \in 2 .. n + 1 : k \in 1 .. n + 1 /\ k # 1
      BY <1>1
    <2> QED
      BY <1>3, <1>4, <2>1
  <1> QED
    BY <1>1, <1>3, <1>5, <1>6 DEF n

LEMMA OneMore ==
  ASSUME NEW A, IsFiniteSet(A), NEW x, NEW B, B \subseteq A \cup {x}
  PROVE  Cardinality(B) \in Nat /\ Cardinality(B) <= Cardinality(A) + 1
  <1> DEFINE C == A \cup {x}
  <1>1. IsFiniteSet(C) /\ Cardinality(C) = IF x \in A THEN Cardinality(A) ELSE Cardinality(A) + 1
    BY FS_AddElement
  <1>2. Cardinality(A) \in Nat /\ Cardinality(C) \in Nat
    BY <1>1, FS_CardinalityType
  <1> HIDE DEF C
  <1>3. B \subseteq C
    BY DEF C
  <1>4. Cardinality(B) <= Cardinality(C) /\ Cardinality(B) \in Nat
    BY <1>1, <1>3, FS_Subset, FS_CardinalityType
  <1> QED
    BY <1>1, <1>2, <1>4

LEMMA PrintlnInv ==
  ASSUME LogTypeOK, FileInv, NEW r \in serving, Println(r)
  PROVE  FileInv'
  <1> PICK o \in Outputs : o = chain.output
    BY DEF LogTypeOK
  <1> DEFINE f == files[o]  t == Append(Text(r), NL)
  <1>1. /\ r \in 1 .. Len(size) /\ UNCHANGED <<size, cuts>>
        /\ files' = [files EXCEPT ![o] = @ \o t] /\ written' = [written EXCEPT ![o] = @ \cup {r}]
    BY DEF Println, LogTypeOK
  <1>2. /\ t \in Seq(Units) /\ Len(t) \in Nat \ {0} /\ t[Len(t)] = NL
        /\ \A k \in 1 .. Len(t) : t[k] \in -Len(size) .. Len(size)
        /\ \A k \in 2 .. Len(t) : ~(t[k] > 0)
    BY <1>1, LineUnits
  <1>3. /\ f \in Seq(Units) /\ cuts[o] \in Nat
        /\ Dirty(f) \in {0, 1} /\ IsFiniteSet(written[o] \ Whole(o))
        /\ Cardinality(written[o] \ Whole(o)) \in Nat
        /\ Cardinality(written[o] \ Whole(o)) + Dirty(f) <= cuts[o]
    BY <1>1, FilesSeq, LostFinite DEF FileInv, DebtInv, Dirty
  <1>c. Dirty(f) = 0 => \E i \in 1 .. Len(f \o t) : LineAt(f \o t, i, r)
    BY <1>1, <1>3, LineComes
  <1> HIDE DEF t
  <1>4. /\ files'[o] = f \o t /\ Whole(o) \subseteq Whole(o)'
        /\ \A p \in Outputs \ {o} : files'[p] = files[p] /\ Whole(p)' = Whole(p)
    BY <1>1, <1>2, Grown
  <1>5. /\ written'[o] = written[o] \cup {r}
        /\ \A p \in Outputs \ {o} : written'[p] = written[p]
    BY <1>1 DEF LogTypeOK
  <1>6. UnitsInv'
    BY <1>1, <1>2, UnitsGrow DEF FileInv
  <1>7. WrittenInv'
    BY <1>1, <1>5 DEF FileInv, WrittenInv
  <1> HIDE DEF f
  <1>8. /\ Len(f) \in Nat /\ Len(f \o t) = Len(f) + Len(t) /\ f \o t \in Seq(Units)
        /\ \A j \in 1 .. Len(f) : (f \o t)[j] = f[j]
        /\ \A k \in 1 .. Len(t) : (f \o t)[Len(f) + k] = t[k]
    BY <1>2, <1>3, ConcatAt
  <1>9. Dirty(f \o t) = 0
    <2>1. (f \o t)[Len(f \o t)] = NL
      BY <1>2, <1>8
    <2> QED
      BY <2>1 DEF Dirty
  <1>10. DebtInv'
    <2> SUFFICES Cardinality(written'[o] \ Whole(o)') <= cuts[o]
      <3>1. \A p \in Outputs \ {o} :
               Cardinality(written[p] \ Whole(p)) + Dirty(files[p]) <= cuts[p]
        BY DEF FileInv, DebtInv
      <3>2. Cardinality(written'[o] \ Whole(o)') \in Nat
        <4>1. written'[o] \ Whole(o)' \subseteq (written[o] \ Whole(o)) \cup {r}
          BY <1>4, <1>5
        <4> QED
          BY <1>3, <4>1, OneMore
      <3>3. Cardinality(written'[o] \ Whole(o)') + Dirty(files'[o]) <= cuts[o]
        BY <1>3, <1>4, <1>9, <3>2
      <3> QED
        BY <1>1, <1>4, <1>5, <3>1, <3>3 DEF DebtInv
    <2>1. CASE Dirty(f) = 0
      <3>1. r \in Whole(o)'
        <4>1. PICK i \in 1 .. Len(f \o t) : LineAt(f \o t, i, r)
          BY <1>c, <2>1
        <4>2. LineAt(files[o], i, r)'
          BY <1>1, <1>4, <4>1 DEF LineAt
        <4> QED
          BY <1>1, <1>4, <4>1, <4>2 DEF Whole
      <3>2. written'[o] \ Whole(o)' \subseteq written[o] \ Whole(o)
        BY <1>4, <1>5, <3>1
      <3>3. /\ Cardinality(written'[o] \ Whole(o)') <= Cardinality(written[o] \ Whole(o))
            /\ Cardinality(written'[o] \ Whole(o)') \in Nat
        BY <1>3, <3>2, FS_Subset, FS_CardinalityType
      <3> QED
        BY <1>3, <2>1, <3>3
    <2>2. CASE Dirty(f) = 1
      <3>1. written'[o] \ Whole(o)' \subseteq (written[o] \ Whole(o)) \cup {r}
        BY <1>4, <1>5
      <3>2. /\ Cardinality(written'[o] \ Whole(o)') \in Nat
            /\ Cardinality(written'[o] \ Whole(o)') <= Cardinality(written[o] \ Whole(o)) + 1
        BY <1>3, <3>1, OneMore
      <3> QED
        BY <1>3, <2>2, <3>2
    <2> QED
      BY <1>3, <2>1, <2>2
  <1>11. StartsInv'
    <2> SUFFICES ASSUME cuts[o] = 0, NEW i \in 1 .. Len(f \o t), (f \o t)[i] > 0
                 PROVE  i = 1 \/ (f \o t)[i - 1] = NL
      BY <1>1, <1>4 DEF FileInv, StartsInv
    <2>1. Dirty(f) = 0
      BY <1>3
    <2>2. CASE i <= Len(f)
      <3>1. i \in 1 .. Len(f) /\ (i = 1 \/ i - 1 \in 1 .. Len(f))
        BY <1>8, <2>2
      <3>2. f[i] > 0
        BY <1>8, <3>1
      <3>3. i = 1 \/ f[i - 1] = NL
        BY <1>1, <3>1, <3>2 DEF FileInv, StartsInv, f
      <3> QED
        BY <1>8, <3>1, <3>3
    <2>3. CASE ~(i <= Len(f))
      <3>1. i - Len(f) \in 1 .. Len(t) /\ i = Len(f) + (i - Len(f))
        BY <1>2, <1>8, <2>3
      <3>2. (f \o t)[i] = t[i - Len(f)]
        BY <1>8, <3>1
      <3>3. i - Len(f) \notin 2 .. Len(t)
        BY <1>2, <3>2
      <3>4. i = Len(f) + 1 /\ (i = 1 \/ (f # << >> /\ i - 1 \in 1 .. Len(f) /\ i - 1 = Len(f)))
        BY <1>2, <1>8, <3>1, <3>3, EmptySeq
      <3>5. i # 1 => f[Len(f)] = NL
        BY <2>1, <3>4 DEF Dirty
      <3> QED
        BY <1>8, <3>4, <3>5
    <2> QED
      BY <2>2, <2>3
  <1> QED
    BY <1>6, <1>7, <1>10, <1>11 DEF FileInv

LEMMA PrintlnCutInv ==
  ASSUME LogTypeOK, FileInv, NEW r \in serving, NEW n \in 0 .. size[r], PrintlnCut(r, n)
  PROVE  FileInv'
  <1> PICK o \in Outputs : o = chain.output
    BY DEF LogTypeOK
  <1> DEFINE g == SubSeq(Text(r), 1, n)
  <1>1. /\ r \in 1 .. Len(size) /\ UNCHANGED <<size, written>>
        /\ files' = [files EXCEPT ![o] = @ \o g] /\ cuts' = [cuts EXCEPT ![o] = @ + 1]
    BY DEF PrintlnCut, LogTypeOK
  <1>2. /\ g \in Seq(Units) /\ Len(g) = n
        /\ \A k \in 1 .. n : g[k] = IF k = 1 THEN r ELSE -r
    BY <1>1, TextCut
  <1>3. \A k \in 1 .. Len(g) : g[k] \in -Len(size) .. Len(size)
    BY <1>1, <1>2, FilesSeq
  <1> HIDE DEF g
  <1>4. /\ Whole(o) \subseteq Whole(o)'
        /\ \A p \in Outputs \ {o} : files'[p] = files[p] /\ Whole(p)' = Whole(p)
    BY <1>1, <1>2, Grown
  <1>5. /\ cuts'[o] = cuts[o] + 1 /\ cuts[o] \in Nat
        /\ \A p \in Outputs \ {o} : cuts'[p] = cuts[p]
    BY <1>1 DEF LogTypeOK
  <1>6. UnitsInv' /\ WrittenInv'
    BY <1>1, <1>2, <1>3, UnitsGrow DEF FileInv, WrittenInv
  <1>7. DebtInv'
    <2>1. /\ Cardinality(written[o] \ Whole(o)) \in Nat /\ IsFiniteSet(written[o] \ Whole(o))
          /\ Cardinality(written[o] \ Whole(o)) + Dirty(files[o]) <= cuts[o]
      BY LostFinite DEF FileInv, DebtInv
    <2>2. written'[o] \ Whole(o)' \subseteq written[o] \ Whole(o)
      BY <1>1, <1>4
    <2>3. /\ Cardinality(written'[o] \ Whole(o)') <= Cardinality(written[o] \ Whole(o))
          /\ Cardinality(written'[o] \ Whole(o)') \in Nat
      BY <2>1, <2>2, FS_Subset, FS_CardinalityType
    <2>4. Dirty(files[o]) \in {0, 1} /\ Dirty(files'[o]) \in {0, 1}
      BY DEF Dirty
    <2>5. Cardinality(written'[o] \ Whole(o)') + Dirty(files'[o]) <= cuts'[o]
      BY <1>5, <2>1, <2>3, <2>4
    <2>6. \A p \in Outputs \ {o} :
             Cardinality(written[p] \ Whole(p)) + Dirty(files[p]) <= cuts[p]
      BY DEF FileInv, DebtInv
    <2> QED
      BY <1>1, <1>4, <1>5, <2>5, <2>6 DEF DebtInv
  <1>8. StartsInv'
    BY <1>4, <1>5 DEF FileInv, StartsInv
  <1> QED
    BY <1>6, <1>7, <1>8 DEF FileInv

LEMMA FileNextInv ==
  ASSUME LogTypeOK, LogTypeOK', FileInv, [LogNext]_logVars
  PROVE  FileInv' /\ \A o \in Outputs : Len(files[o]) <= Len(files'[o])
  <1>1. ASSUME NEW s \in Sizes, Serve(s) PROVE FileInv' /\ files' = files
    BY <1>1, ServeInv DEF Serve
  <1>2. ASSUME NEW r \in serving, Println(r)
        PROVE  /\ FileInv'
               /\ \E o \in Outputs, g \in Seq(Units) : files' = [files EXCEPT ![o] = @ \o g]
    <2>1. r \in 1 .. Len(size) /\ chain.output \in Outputs
      BY DEF LogTypeOK
    <2>2. Append(Text(r), NL) \in Seq(Units)
      BY <2>1, LineUnits
    <2> QED
      BY <1>2, <2>1, <2>2, PrintlnInv DEF Println
  <1>3. ASSUME NEW r \in serving, NEW n \in 0 .. size[r], PrintlnCut(r, n)
        PROVE  /\ FileInv'
               /\ \E o \in Outputs, g \in Seq(Units) : files' = [files EXCEPT ![o] = @ \o g]
    <2>1. r \in 1 .. Len(size) /\ chain.output \in Outputs
      BY DEF LogTypeOK
    <2>2. SubSeq(Text(r), 1, n) \in Seq(Units)
      BY <2>1, TextCut
    <2> QED
      BY <1>3, <2>1, <2>2, PrintlnCutInv DEF PrintlnCut
  <1>4. CASE UNCHANGED <<files, size, written, cuts>>
    BY <1>4, FileInvStays
  <1>5. \/ \E s \in Sizes : Serve(s)
        \/ \E r \in serving : Println(r) \/ \E n \in 0 .. size[r] : PrintlnCut(r, n)
        \/ UNCHANGED <<files, size, written, cuts>>
    BY DEF LogNext, Traffic, NotLogged, Breaks, ReloadLog, Restart, OpenOutput, View, logVars,
           HandleThreatsOff, HandleThreats, OpenLog, Stat, Answer
  <1>6. ASSUME NEW o \in Outputs, NEW g \in Seq(Units), files' = [files EXCEPT ![o] = @ \o g],
               NEW p \in Outputs
        PROVE  Len(files[p]) <= Len(files'[p])
    <2>1. files[o] \in Seq(Units) /\ Len(files[p]) \in Nat
      BY FilesSeq
    <2>2. Len(files[o] \o g) = Len(files[o]) + Len(g) /\ Len(files[o]) \in Nat /\ Len(g) \in Nat
      BY <2>1, ConcatAt
    <2>3. files'[p] = IF p = o THEN files[o] \o g ELSE files[p]
      BY <1>6 DEF LogTypeOK
    <2> QED
      BY <2>1, <2>2, <2>3
  <1>7. \A o \in Outputs : Len(files[o]) \in Nat
    BY FilesSeq
  <1>8. files' = files => \A o \in Outputs : Len(files[o]) <= Len(files'[o])
    BY <1>7
  <1> QED
    BY <1>1, <1>2, <1>3, <1>4, <1>5, <1>6, <1>8

LEMMA LookNextInv ==
  ASSUME LogTypeOK, LogTypeOK', FileInv, LookInv, [LogNext]_logVars
  PROVE  LookInv'
  <1>1. \A o \in Outputs : Len(files[o]) <= Len(files'[o]) /\ Len(files[o]) \in Nat
                           /\ Len(files'[o]) \in Nat
    <2>1. \A o \in Outputs : files[o] \in Seq(Units) /\ files'[o] \in Seq(Units)
      BY DEF LogTypeOK
    <2> QED
      BY <2>1, FileNextInv, LenProperties
  <1> SUFFICES ASSUME NEW v \in Viewers, look'[v].at = "read"
               PROVE  look'[v].size <= Len(files'[look'[v].file])
    BY DEF LookInv
  <1>2. look[v].file \in Outputs /\ look[v].size \in Nat
    BY DEF LogTypeOK
  <1>3. CASE look'[v] = look[v]
    <2>1. look[v].size <= Len(files[look[v].file])
      BY <1>3 DEF LookInv
    <2> QED
      BY <1>1, <1>2, <1>3, <2>1
  <1>4. CASE look'[v] # look[v]
    <2>1. Stat(v)
      <3>1. NoLook.at = "idle"
        BY DEF NoLook
      <3>2. ASSUME NEW w \in Viewers, View(w) PROVE Stat(v)
        <4>1. look \in [Viewers -> Look]
          BY DEF LogTypeOK, Look
        <4>2. ~HandleThreatsOff(w)
          BY <1>4 DEF HandleThreatsOff, logVars
        <4>3. ~Answer(w)
          BY <1>4, <3>1, <4>1 DEF Answer, Looks
        <4>4. ~HandleThreats(w) /\ ~OpenLog(w)
          <5>1. [NoLook EXCEPT !.at = "open"].at = "open"
            BY NoLookType DEF Look
          <5>2. [NoLook EXCEPT !.at = "stat", !.file = live.output].at = "stat"
            BY NoLookType DEF Look
          <5>3. ASSUME NEW x, look' = [look EXCEPT ![w] = x], x.at # "read" PROVE FALSE
            BY <1>4, <4>1, <5>3
          <5> QED
            BY <5>1, <5>2, <5>3 DEF HandleThreats, OpenLog, Looks
        <4>5. Stat(w) => w = v
          BY <1>4, <4>1 DEF Stat, Looks
        <4> QED
          BY <3>2, <4>2, <4>3, <4>4, <4>5 DEF View
      <3> QED
        BY <1>4, <3>1, <3>2
           DEF LogNext, Traffic, Serve, Println, PrintlnCut, NotLogged, Breaks, ReloadLog,
               Restart, logVars
    <2>2. look'[v] = [look[v] EXCEPT !.at = "read", !.size = Len(files[look[v].file])]
      BY <2>1 DEF Stat, Looks, LogTypeOK
    <2>3. look'[v].size = Len(files[look[v].file]) /\ look'[v].file = look[v].file
      BY <2>2 DEF LogTypeOK
    <2> QED
      BY <1>1, <1>2, <2>3
  <1> QED
    BY <1>3, <1>4

LEMMA LogInvInvariant == LogSpec => []LogInv
  <1>1. LogInit => LogInv
    BY LogInitType, LogInitInv DEF LogInv
  <1>2. LogInv /\ [LogNext]_logVars => LogInv'
    BY LogNextType, FileNextInv, LookNextInv DEF LogInv
  <1> QED
    BY <1>1, <1>2, PTL DEF LogSpec

-----------------------------------------------------------------------------
(* Ascending sequences *)

Rank(S, i) == Cardinality({j \in S : j <= i})

LEMMA RankRange ==
  ASSUME NEW S \in SUBSET Int, IsFiniteSet(S), NEW i \in Int
  PROVE  /\ IsFiniteSet({j \in S : j <= i}) /\ Rank(S, i) \in 0 .. Cardinality(S)
         /\ i \in S => Rank(S, i) \in 1 .. Cardinality(S)
  <1> DEFINE L == {j \in S : j <= i}
  <1>1. IsFiniteSet(L) /\ Cardinality(L) <= Cardinality(S) /\ Cardinality(L) \in Nat
    BY FS_Subset, FS_CardinalityType
  <1>2. Cardinality(S) \in Nat
    BY FS_CardinalityType
  <1>3. i \in S => Cardinality(L) # 0
    <2>1. i \in S => i \in L
      OBVIOUS
    <2> QED
      BY <1>1, <2>1, FS_EmptySet
  <1> QED
    BY <1>1, <1>2, <1>3 DEF Rank

LEMMA RankGrows ==
  ASSUME NEW S \in SUBSET Int, IsFiniteSet(S), NEW i \in S, NEW j \in S, i < j
  PROVE  Rank(S, i) < Rank(S, j)
  <1> DEFINE L == {k \in S : k <= i}  M == {k \in S : k <= j}
  <1>1. IsFiniteSet(M) /\ Cardinality(M) \in Nat
    BY FS_Subset, FS_CardinalityType
  <1>2. L \subseteq M /\ L # M
    <2>1. j \in M /\ j \notin L
      OBVIOUS
    <2>2. \A k \in S : k <= i => k <= j
      OBVIOUS
    <2>3. L \subseteq M
      BY <2>2
    <2> HIDE DEF L, M
    <2> QED
      BY <2>1, <2>3
  <1>3. Cardinality(L) <= Cardinality(M) /\ Cardinality(L) # Cardinality(M)
        /\ Cardinality(L) \in Nat
    <2> HIDE DEF L, M
    <2> QED
      BY <1>1, <1>2, FS_Subset, FS_CardinalityType
  <1> QED
    BY <1>1, <1>3 DEF Rank

LEMMA RankOnto ==
  ASSUME NEW S \in SUBSET Int, IsFiniteSet(S), NEW k \in 1 .. Cardinality(S)
  PROVE  \E i \in S : Rank(S, i) = k
  <1> DEFINE n == Cardinality(S)  f == [i \in S |-> Rank(S, i)]
  <1>1. n \in Nat /\ IsFiniteSet(1 .. n) /\ Cardinality(1 .. n) = n
    BY FS_CardinalityType, FS_Interval
  <1>2. f \in [S -> 1 .. n]
    <2>1. \A i \in S : Rank(S, i) \in 1 .. n
      BY RankRange
    <2> QED
      BY <2>1
  <1>3. \A i, j \in S : f[i] = f[j] => i = j
    <2> SUFFICES ASSUME NEW i \in S, NEW j \in S, Rank(S, i) = Rank(S, j), i # j PROVE FALSE
      OBVIOUS
    <2>1. Rank(S, i) \in 1 .. Cardinality(S) /\ Rank(S, j) \in 1 .. Cardinality(S)
      BY RankRange
    <2>2. i < j \/ j < i
      OBVIOUS
    <2> QED
      BY <1>1, <2>1, <2>2, RankGrows
  <1> HIDE DEF f
  <1>4. f \in Injection(S, 1 .. n)
    BY <1>2, <1>3 DEF Injection, IsInjective
  <1>5. f \in Surjection(S, 1 .. n)
    <2> HIDE DEF n
    <2>1. Cardinality(S) = Cardinality(1 .. n)
      BY <1>1 DEF n
    <2> QED
      BY <1>1, <1>4, <2>1, FS_Injection
  <1>6. \E i \in S : f[i] = k
    BY <1>5 DEF Surjection
  <1> QED
    BY <1>6 DEF f

LEMMA AscendingFacts ==
  ASSUME NEW S \in SUBSET Int, IsFiniteSet(S)
  PROVE  /\ DOMAIN Ascending(S) = 1 .. Cardinality(S) /\ Cardinality(S) \in Nat
         /\ \A k \in 1 .. Cardinality(S) :
               Ascending(S)[k] \in S /\ Rank(S, Ascending(S)[k]) = k
         /\ \A i \in S : Ascending(S)[Rank(S, i)] = i
  <1>1. DOMAIN Ascending(S) = 1 .. Cardinality(S) /\ Cardinality(S) \in Nat
    BY FS_CardinalityType DEF Ascending
  <1>2. ASSUME NEW k \in 1 .. Cardinality(S)
        PROVE  Ascending(S)[k] \in S /\ Rank(S, Ascending(S)[k]) = k
    <2>1. Ascending(S)[k] = CHOOSE i \in S : Rank(S, i) = k
      BY DEF Ascending, Rank
    <2> QED
      BY <2>1, RankOnto
  <1>3. ASSUME NEW i \in S PROVE Ascending(S)[Rank(S, i)] = i
    <2> DEFINE a == Ascending(S)[Rank(S, i)]
    <2>1. Rank(S, i) \in 1 .. Cardinality(S)
      BY RankRange
    <2>2. a \in S /\ Rank(S, a) = Rank(S, i)
      BY <1>2, <2>1
    <2> HIDE DEF a
    <2>3. ~(a < i) /\ ~(i < a)
      BY <1>1, <2>1, <2>2, RankGrows
    <2>4. a = i
      BY <2>2, <2>3
    <2> QED
      BY <2>4 DEF a
  <1> QED
    BY <1>1, <1>2, <1>3

LEMMA ParsedFacts ==
  ASSUME NEW buf, Len(buf) \in Nat
  PROVE  /\ Entries(buf) \in SUBSET Int /\ IsFiniteSet(Entries(buf))
         /\ Cardinality(Entries(buf)) \in Nat
         /\ Parsed(buf) = [k \in 1 .. Cardinality(Entries(buf)) |-> buf[Ascending(Entries(buf))[k]]]
         /\ \A i \in Entries(buf) : buf[i] \in ToSet(Parsed(buf))
  <1> DEFINE S == Entries(buf)
  <1>1. S \in SUBSET (1 .. Len(buf)) /\ S \in SUBSET Int
    BY DEF Entries
  <1>2. IsFiniteSet(S)
    <2>1. IsFiniteSet(1 .. Len(buf))
      BY FS_Interval
    <2> QED
      BY <1>1, <2>1, FS_Subset
  <1> HIDE DEF S
  <1>3. /\ DOMAIN Ascending(S) = 1 .. Cardinality(S) /\ Cardinality(S) \in Nat
        /\ \A i \in S : Ascending(S)[Rank(S, i)] = i
    BY <1>1, <1>2, AscendingFacts
  <1>4. Parsed(buf) = [k \in 1 .. Cardinality(S) |-> buf[Ascending(S)[k]]]
    BY <1>3 DEF Parsed, S
  <1>5. ASSUME NEW i \in S PROVE buf[i] \in ToSet(Parsed(buf))
    <2>1. Rank(S, i) \in 1 .. Cardinality(S)
      BY <1>1, <1>2, RankRange
    <2>2. Parsed(buf)[Rank(S, i)] = buf[i] /\ Rank(S, i) \in DOMAIN Parsed(buf)
      BY <1>3, <1>4, <2>1
    <2> QED
      BY <2>2 DEF ToSet
  <1> QED
    BY <1>1, <1>2, <1>3, <1>4, <1>5 DEF S

-----------------------------------------------------------------------------
(* Cuts *)

LEMMA LineIsEntry ==
  ASSUME LogTypeOK, NEW o \in Outputs, NEW r \in Whole(o)
  PROVE  r \in Readable(o)
  <1> DEFINE f == files[o]  n == size[r]
  <1>1. PICK i \in 1 .. Len(f) : LineAt(f, i, r)
    BY DEF Whole
  <1>2. /\ n \in Nat \ {0} /\ r \in Nat \ {0} /\ f \in Seq(Units) /\ Len(f) \in Nat
        /\ Text(r) \in Seq(Units) /\ Len(Text(r)) = n
        /\ \A k \in 1 .. n : Text(r)[k] = IF k = 1 THEN r ELSE -r
    BY TextFacts, FilesSeq DEF Whole
  <1> HIDE DEF f, n
  <1>3. /\ i \in 1 .. Len(f) - n /\ (i = 1 \/ f[i - 1] = NL) /\ f[i + n] = NL
        /\ \A k \in 1 .. n : f[i + k - 1] = IF k = 1 THEN r ELSE -r
    BY <1>1 DEF LineAt, n
  <1>4. f[i] = r
    <2>1. 1 \in 1 .. n /\ i + 1 - 1 = i
      BY <1>2
    <2> QED
      BY <1>3, <2>1
  <1>5. SubSeq(f, i, i + n - 1) = Text(r)
    <2> DEFINE t == SubSeq(f, i, i + n - 1)  e == i + n - 1
    <2>1. e \in Int /\ i \in Int /\ i <= e /\ e - i + 1 = n /\ \A k \in i .. e : k \in 1 .. Len(f)
      BY <1>2, <1>3
    <2>2. \A k \in i .. e : f[k] \in Units
      BY <1>2, <2>1, ElementOfSeq
    <2> HIDE DEF e
    <2>3. /\ SubSeq(f, i, e) \in Seq(Units)
          /\ Len(SubSeq(f, i, e)) = (IF i <= e THEN e - i + 1 ELSE 0)
          /\ \A k \in 1 .. e - i + 1 : SubSeq(f, i, e)[k] = f[i + k - 1]
      BY <2>1, <2>2, SubSeqProperties
    <2>4. t \in Seq(Units) /\ Len(t) = n /\ \A k \in 1 .. n : t[k] = f[i + k - 1]
      BY <2>1, <2>3 DEF e
    <2> HIDE DEF t
    <2>5. \A k \in 1 .. n : t[k] = Text(r)[k]
      BY <1>2, <1>3, <2>4
    <2>6. t = Text(r)
      BY <1>2, <2>4, <2>5, SeqEqual
    <2> QED
      BY <2>6 DEF t
  <1>6. i \in Entries(f)
    <2>1. size[f[i]] = n
      BY <1>4 DEF n
    <2>2. i + n - 1 <= Len(f) /\ f[i] > 0 /\ i \in 1 .. Len(f)
      BY <1>2, <1>3, <1>4
    <2>3. SubSeq(f, i, i + size[f[i]] - 1) = Text(f[i])
      BY <1>4, <1>5, <2>1
    <2>4. i + size[f[i]] - 1 <= Len(f) /\ f[i + size[f[i]]] = NL
      BY <1>3, <2>1, <2>2
    <2>5. EntryAt(f, i)
      BY <1>2, <1>3, <2>1, <2>2, <2>3, <2>4 DEF EntryAt
    <2> QED
      BY <2>2, <2>5 DEF Entries
  <1> QED
    BY <1>2, <1>4, <1>6, ParsedFacts DEF Readable, f

\* A line that was written whole stays in the file and can be read, through other
\* requests' lines, reloads and restarts; each line that was cut short spoils at most
\* one other.
THEOREM EachCutCostsOne == LogSpec => []CutsCostOne
  <1>1. LogInv => CutsCostOne
    <2> SUFFICES ASSUME LogInv, NEW o \in Outputs
                 PROVE  Cardinality(written[o] \ Readable(o)) <= cuts[o]
      BY DEF CutsCostOne
    <2>1. LogTypeOK /\ FileInv
      BY DEF LogInv
    <2>2. written[o] \ Readable(o) \subseteq written[o] \ Whole(o)
      BY <2>1, LineIsEntry
    <2>3. /\ IsFiniteSet(written[o] \ Whole(o)) /\ Cardinality(written[o] \ Whole(o)) \in Nat
          /\ Cardinality(written[o] \ Whole(o)) + Dirty(files[o]) <= cuts[o]
      BY <2>1, LostFinite DEF FileInv, DebtInv
    <2>4. /\ Cardinality(written[o] \ Readable(o)) <= Cardinality(written[o] \ Whole(o))
          /\ Cardinality(written[o] \ Readable(o)) \in Nat
      BY <2>2, <2>3, FS_Subset, FS_CardinalityType
    <2>5. Dirty(files[o]) \in Nat /\ cuts[o] \in Nat
      BY <2>1, FilesSeq DEF Dirty
    <2> QED
      BY <2>3, <2>4, <2>5
  <1> QED
    BY <1>1, LogInvInvariant, PTL

-----------------------------------------------------------------------------
(* The end of an ascending sequence *)

LEMMA ShiftedCardinality ==
  ASSUME NEW A \in SUBSET Int, IsFiniteSet(A), NEW B \in SUBSET Int, NEW d \in Int,
         \A i \in Int : i \in A <=> i + d \in B
  PROVE  IsFiniteSet(B) /\ Cardinality(B) = Cardinality(A)
  <1> DEFINE f == [i \in A |-> i + d]
  <1>1. f \in [A -> B] /\ \A i, j \in A : f[i] = f[j] => i = j
    OBVIOUS
  <1>2. \A b \in B : \E i \in A : f[i] = b
    <2> SUFFICES ASSUME NEW b \in B PROVE \E i \in A : f[i] = b
      OBVIOUS
    <2>1. b - d \in Int /\ (b - d) + d = b
      OBVIOUS
    <2>2. b - d \in A
      BY <2>1
    <2>3. f[b - d] = b
      BY <2>1, <2>2
    <2> QED
      BY <2>2, <2>3
  <1> HIDE DEF f
  <1>3. f \in Bijection(A, B)
    BY <1>1, <1>2 DEF Bijection, Injection, Surjection, IsInjective
  <1>4. ExistsBijection(A, B)
    BY <1>3 DEF ExistsBijection
  <1> QED
    BY <1>4, FS_Bijection

LEMMA DisjointUnion ==
  ASSUME NEW S, NEW A, NEW B, IsFiniteSet(A), IsFiniteSet(B), S = A \cup B, A \cap B = {}
  PROVE  Cardinality(S) = Cardinality(A) + Cardinality(B)
  <1>1. Cardinality(A) \in Nat /\ Cardinality(B) \in Nat /\ Cardinality(A \cap B) = 0
    BY FS_CardinalityType, FS_EmptySet
  <1>2. Cardinality(S) = Cardinality(A) + Cardinality(B) - Cardinality(A \cap B)
    BY FS_Union
  <1> QED
    BY <1>1, <1>2

\* T is what is left of S beyond d, moved down by d.
LEMMA RankBeyond ==
  ASSUME NEW S \in SUBSET Int, IsFiniteSet(S), NEW T \in SUBSET Int, NEW d \in Int,
         IsFiniteSet(T), \A i \in Int : i \in T <=> i + d \in S /\ i > 0
  PROVE  /\ Cardinality(S) = Rank(S, d) + Cardinality(T)
         /\ \A i \in T : Rank(S, i + d) = Rank(S, d) + Rank(T, i)
  <1> DEFINE A == {j \in S : j <= d}
  <1>1. IsFiniteSet(A)
    BY FS_Subset
  <1>2. Cardinality(S) = Rank(S, d) + Cardinality(T)
    <2> DEFINE B == {j \in S : j > d}
    <2>1. S = A \cup B /\ A \cap B = {}
      <3>1. \A j \in S : ~(j <= d) <=> j > d
        OBVIOUS
      <3> QED
        BY <3>1
    <2>2. \A i \in Int : i \in T <=> i + d \in B
      OBVIOUS
    <2>3. B \in SUBSET Int
      OBVIOUS
    <2> HIDE DEF A, B
    <2>4. IsFiniteSet(B) /\ Cardinality(B) = Cardinality(T)
      BY <2>2, <2>3, ShiftedCardinality
    <2>5. Cardinality(S) = Cardinality(A) + Cardinality(B)
      BY <1>1, <2>1, <2>4, DisjointUnion
    <2> QED
      BY <2>4, <2>5 DEF Rank, A
  <1>3. ASSUME NEW i \in T PROVE Rank(S, i + d) = Rank(S, d) + Rank(T, i)
    <2> DEFINE U == {j \in T : j <= i}  B == {j \in S : d < j /\ j <= i + d}
               C == {j \in S : j <= i + d}
    <2>1. C = A \cup B /\ A \cap B = {}
      <3>1. \A j \in S : /\ j <= i + d <=> j <= d \/ (d < j /\ j <= i + d)
                         /\ ~(j <= d /\ d < j)
        OBVIOUS
      <3> QED
        BY <3>1
    <2>2. \A j \in Int : j \in U <=> j + d \in B
      OBVIOUS
    <2>3. B \in SUBSET Int /\ U \in SUBSET Int
      OBVIOUS
    <2>4. IsFiniteSet(U)
      BY FS_Subset
    <2> HIDE DEF A, B, C, U
    <2>5. IsFiniteSet(B) /\ Cardinality(B) = Cardinality(U)
      BY <2>2, <2>3, <2>4, ShiftedCardinality
    <2>6. Cardinality(C) = Cardinality(A) + Cardinality(B)
      BY <1>1, <2>1, <2>5, DisjointUnion
    <2> QED
      BY <2>5, <2>6 DEF Rank, A, C, U
  <1> QED
    BY <1>2, <1>3

LEMMA AscendingTail ==
  ASSUME NEW S \in SUBSET Int, IsFiniteSet(S), NEW T \in SUBSET Int, NEW d \in Int,
         IsFiniteSet(T), \A i \in Int : i \in T <=> i + d \in S /\ i > 0
  PROVE  LET m == Rank(S, d)
         IN  /\ m \in Nat /\ Cardinality(S) = m + Cardinality(T)
             /\ \A k \in 1 .. Cardinality(T) : Ascending(S)[m + k] = Ascending(T)[k] + d
             /\ \A k \in 1 .. m : Ascending(S)[k] <= d
  <1> DEFINE m == Rank(S, d)
  <1>1. m \in Nat
    <2>1. m \in 0 .. Cardinality(S)
      BY RankRange
    <2> QED
      BY <2>1
  <1>2. /\ Cardinality(S) = m + Cardinality(T) /\ Cardinality(T) \in Nat
        /\ \A i \in T : Rank(S, i + d) = m + Rank(T, i)
    BY RankBeyond, FS_CardinalityType
  <1>3. /\ \A k \in 1 .. Cardinality(S) :
              Ascending(S)[k] \in S /\ Rank(S, Ascending(S)[k]) = k
        /\ \A i \in S : Ascending(S)[Rank(S, i)] = i
    BY AscendingFacts
  <1>4. \A k \in 1 .. Cardinality(T) : Ascending(T)[k] \in T /\ Rank(T, Ascending(T)[k]) = k
    BY AscendingFacts
  <1> HIDE DEF m
  <1>5. ASSUME NEW k \in 1 .. Cardinality(T)
        PROVE  Ascending(S)[m + k] = Ascending(T)[k] + d
    <2>1. Ascending(T)[k] \in T /\ Ascending(T)[k] + d \in S
      BY <1>4
    <2>2. Rank(S, Ascending(T)[k] + d) = m + k
      BY <1>2, <1>4, <2>1
    <2> QED
      BY <1>3, <2>1, <2>2
  <1>6. ASSUME NEW k \in 1 .. m, ~(Ascending(S)[k] <= d) PROVE FALSE
    <2> DEFINE a == Ascending(S)[k]
    <2>1. k \in 1 .. Cardinality(S)
      BY <1>1, <1>2
    <2>2. a \in S /\ Rank(S, a) = k
      BY <1>3, <2>1
    <2>3. ~(a <= d)
      BY <1>6
    <2> HIDE DEF a
    <2>4. a - d \in Int /\ (a - d) + d = a /\ a - d > 0
      BY <2>2, <2>3
    <2>5. a - d \in T
      BY <2>2, <2>4
    <2>6. Rank(S, (a - d) + d) = m + Rank(T, a - d)
      BY <1>2, <2>5
    <2>7. Rank(T, a - d) \in 1 .. Cardinality(T)
      BY <2>5, RankRange
    <2> QED
      BY <1>1, <1>2, <2>2, <2>4, <2>6, <2>7
  <1> QED
    BY <1>1, <1>2, <1>5, <1>6 DEF m

-----------------------------------------------------------------------------
(* What the dashboard shows *)

LEMMA ReverseFacts ==
  ASSUME NEW S, NEW s \in Seq(S)
  PROVE  /\ Reverse(s) \in Seq(S) /\ Len(Reverse(s)) = Len(s) /\ Len(s) \in Nat
         /\ \A k \in 1 .. Len(s) : Reverse(s)[k] = s[Len(s) - k + 1]
  <1>1. Len(s) \in Nat
    BY LenProperties
  <1>2. \A k \in 1 .. Len(s) : s[(Len(s) - k) + 1] \in S
    <2>1. \A k \in 1 .. Len(s) : (Len(s) - k) + 1 \in 1 .. Len(s)
      BY <1>1
    <2> QED
      BY <2>1, ElementOfSeq
  <1>3. Reverse(s) \in [1 .. Len(s) -> S]
    BY <1>2 DEF Reverse
  <1>4. Reverse(s) \in Seq(S) /\ Len(Reverse(s)) = Len(s)
    BY <1>1, <1>3, FunctionIsSeq
  <1> QED
    BY <1>1, <1>4 DEF Reverse

LEMMA ReversedSuffix ==
  ASSUME NEW S, NEW s \in Seq(S), NEW t \in Seq(S), Len(s) <= Len(t),
         \A k \in 1 .. Len(s) : s[k] = t[Len(t) - k + 1]
  PROVE  IsSuffix(Reverse(s), t)
  <1> DEFINE n == Len(s)  q == Reverse(Reverse(s))  u == Reverse(t)
  <1>1. /\ n \in Nat /\ Reverse(s) \in Seq(S) /\ Len(Reverse(s)) = n
        /\ \A k \in 1 .. n : Reverse(s)[k] = s[n - k + 1]
    BY ReverseFacts
  <1>2. /\ q \in Seq(S) /\ Len(q) = n /\ \A k \in 1 .. n : q[k] = Reverse(s)[n - k + 1]
    <2> DEFINE p == Reverse(s)
    <2>1. p \in Seq(S) /\ Len(p) = n
      BY <1>1
    <2> HIDE DEF p
    <2>2. /\ Reverse(p) \in Seq(S) /\ Len(Reverse(p)) = Len(p)
          /\ \A k \in 1 .. Len(p) : Reverse(p)[k] = p[Len(p) - k + 1]
      BY <2>1, ReverseFacts
    <2> QED
      BY <2>1, <2>2 DEF p
  <1>3. \A k \in 1 .. n : q[k] = s[k]
    <2> SUFFICES ASSUME NEW k \in 1 .. n PROVE q[k] = s[k]
      OBVIOUS
    <2> DEFINE j == n - k + 1
    <2>1. j \in 1 .. n /\ n - j + 1 = k
      BY <1>1
    <2>2. q[k] = Reverse(s)[j]
      BY <1>2
    <2> HIDE DEF j
    <2>3. Reverse(s)[j] = s[n - j + 1]
      BY <1>1, <2>1
    <2> QED
      BY <2>1, <2>2, <2>3
  <1>4. /\ u \in Seq(S) /\ Len(u) = Len(t) /\ Len(t) \in Nat
        /\ \A k \in 1 .. Len(t) : u[k] = t[Len(t) - k + 1]
    BY ReverseFacts
  <1> HIDE DEF n, q, u
  <1>5. \A k \in 1 .. n : k \in 1 .. Len(t) /\ q[k] = u[k]
    <2>1. \A k \in 1 .. n : k \in 1 .. Len(t) /\ s[k] = t[Len(t) - k + 1]
      BY <1>1, <1>4 DEF n
    <2> QED
      BY <1>3, <1>4, <2>1
  <1>6. /\ SubSeq(q, 1, n) \in Seq(S) /\ Len(SubSeq(q, 1, n)) = n
        /\ \A k \in 1 .. n : SubSeq(q, 1, n)[k] = q[k]
    BY <1>1, <1>2, SubSeqFull
  <1>7. /\ SubSeq(u, 1, n) \in Seq(S) /\ Len(SubSeq(u, 1, n)) = n
        /\ \A k \in 1 .. n : SubSeq(u, 1, n)[k] = u[k]
    <2>1. \A k \in 1 .. n : u[k] \in S
      BY <1>4, <1>5, ElementOfSeq
    <2>2. /\ SubSeq(u, 1, n) \in Seq(S)
          /\ Len(SubSeq(u, 1, n)) = (IF 1 <= n THEN n - 1 + 1 ELSE 0)
          /\ \A k \in 1 .. n - 1 + 1 : SubSeq(u, 1, n)[k] = u[1 + k - 1]
      BY <1>1, <2>1, SubSeqProperties
    <2>3. n - 1 + 1 = n /\ \A k \in 1 .. n : 1 + k - 1 = k
      BY <1>1
    <2> QED
      BY <1>1, <2>2, <2>3
  <1>8. \A k \in 1 .. n : SubSeq(q, 1, n)[k] = SubSeq(u, 1, n)[k]
    BY <1>5, <1>6, <1>7
  <1>9. SubSeq(q, 1, n) = SubSeq(u, 1, n)
    BY <1>6, <1>7, <1>8, SeqEqual
  <1>10. n <= Len(u)
    BY <1>4 DEF n
  <1> QED
    BY <1>2, <1>9, <1>10 DEF IsSuffix, IsPrefix, q, u

LEMMA ParsedSeq ==
  ASSUME NEW buf \in Seq(Units)
  PROVE  /\ Parsed(buf) \in Seq(Units) /\ Len(Parsed(buf)) = Cardinality(Entries(buf))
         /\ Cardinality(Entries(buf)) \in Nat
         /\ Entries(buf) \in SUBSET Int /\ IsFiniteSet(Entries(buf))
         /\ \A k \in 1 .. Cardinality(Entries(buf)) :
               /\ Ascending(Entries(buf))[k] \in Entries(buf)
               /\ Parsed(buf)[k] = buf[Ascending(Entries(buf))[k]]
  <1> DEFINE S == Entries(buf)  n == Cardinality(S)
  <1>1. /\ S \in SUBSET Int /\ IsFiniteSet(S) /\ n \in Nat
        /\ Parsed(buf) = [k \in 1 .. n |-> buf[Ascending(S)[k]]]
    BY ParsedFacts, LenProperties
  <1>2. \A k \in 1 .. n : Ascending(S)[k] \in S
    BY <1>1, AscendingFacts
  <1>3. \A i \in S : buf[i] \in Units
    BY ElementOfSeq DEF Entries
  <1> HIDE DEF n, S
  <1>4. Parsed(buf) \in [1 .. n -> Units]
    BY <1>1, <1>2, <1>3
  <1>5. Parsed(buf) \in Seq(Units) /\ Len(Parsed(buf)) = n
    BY <1>1, <1>4, FunctionIsSeq
  <1> QED
    BY <1>1, <1>2, <1>5 DEF S, n

LEMMA NewestFirstFacts ==
  ASSUME NEW S, NEW s \in Seq(S)
  PROVE  /\ NewestFirst(s) \in Seq(S)
         /\ Len(NewestFirst(s)) = IF Len(s) > PageSize THEN PageSize ELSE Len(s)
         /\ \A k \in 1 .. Len(NewestFirst(s)) : NewestFirst(s)[k] = s[Len(s) - k + 1]
  <1> DEFINE l == Len(s)  a == IF l > PageSize THEN l - PageSize + 1 ELSE 1
             p == SubSeq(s, a, l)  n == IF l > PageSize THEN PageSize ELSE l
  <1>1. l \in Nat /\ PageSize \in Nat \ {0}
    BY LenProperties, Bounds
  <1>2. a \in Int /\ n \in Nat /\ l - a + 1 = n /\ (IF a <= l THEN l - a + 1 ELSE 0) = n /\ a > 0
    <2>1. CASE l > PageSize
      <3>1. a = l - PageSize + 1 /\ n = PageSize
        BY <2>1
      <3> HIDE DEF a, n, l
      <3> QED
        BY <1>1, <2>1, <3>1
    <2>2. CASE ~(l > PageSize)
      <3>1. a = 1 /\ n = l
        BY <2>2
      <3> HIDE DEF a, n, l
      <3> QED
        BY <1>1, <2>2, <3>1
    <2> QED
      BY <2>1, <2>2
  <1> HIDE DEF a, n
  <1>3. \A i \in a .. l : s[i] \in S
    <2>1. \A i \in a .. l : i \in 1 .. Len(s)
      BY <1>1, <1>2
    <2> QED
      BY <2>1, ElementOfSeq
  <1>4. /\ p \in Seq(S) /\ Len(p) = n /\ \A i \in 1 .. n : p[i] = s[a + i - 1]
    BY <1>1, <1>2, <1>3, SubSeqProperties
  <1> HIDE DEF p
  <1>5. NewestFirst(s) = Reverse(p)
    BY DEF NewestFirst, p, a
  <1>6. /\ Reverse(p) \in Seq(S) /\ Len(Reverse(p)) = n
        /\ \A k \in 1 .. n : Reverse(p)[k] = p[n - k + 1]
    BY <1>4, ReverseFacts
  <1>7. ASSUME NEW k \in 1 .. n PROVE Reverse(p)[k] = s[l - k + 1]
    <2> DEFINE j == n - k + 1
    <2>1. j \in 1 .. n /\ a + j - 1 = l - k + 1
      BY <1>1, <1>2
    <2>2. Reverse(p)[k] = p[j]
      BY <1>6
    <2> HIDE DEF j
    <2>3. p[j] = s[a + j - 1]
      BY <1>4, <2>1
    <2> QED
      BY <2>1, <2>2, <2>3
  <1> QED
    BY <1>5, <1>6, <1>7 DEF n

\* The same piece of two sequences, one of which is the end of the other.
LEMMA SamePiece ==
  ASSUME NEW file \in Seq(Units), NEW buf \in Seq(Units), NEW d \in Nat,
         Len(file) = Len(buf) + d, \A i \in 1 .. Len(buf) : buf[i] = file[i + d],
         NEW i \in 1 .. Len(buf), NEW e \in i .. Len(buf)
  PROVE  SubSeq(buf, i, e) = SubSeq(file, i + d, e + d)
  <1> DEFINE p == SubSeq(buf, i, e)  q == SubSeq(file, i + d, e + d)  n == e - i + 1
  <1>1. /\ Len(buf) \in Nat /\ n \in Nat /\ i <= e /\ i + d <= e + d
        /\ (e + d) - (i + d) + 1 = n
    BY LenProperties
  <1>2. p \in Seq(Units) /\ Len(p) = n /\ \A k \in 1 .. n : p[k] = buf[i + k - 1]
    <2>1. \A k \in i .. e : buf[k] \in Units
      <3>1. \A k \in i .. e : k \in 1 .. Len(buf)
        BY <1>1
      <3> QED
        BY <3>1, ElementOfSeq
    <2> QED
      BY <1>1, <2>1, SubSeqProperties
  <1>3. q \in Seq(Units) /\ Len(q) = n /\ \A k \in 1 .. n : q[k] = file[i + d + k - 1]
    <2> DEFINE a == i + d  b == e + d
    <2>1. a \in Int /\ b \in Int /\ a <= b /\ b - a + 1 = n
      BY <1>1
    <2>2. \A k \in a .. b : file[k] \in Units
      <3>1. \A k \in a .. b : k \in 1 .. Len(file)
        BY <1>1
      <3> QED
        BY <3>1, ElementOfSeq
    <2> HIDE DEF a, b
    <2>3. /\ SubSeq(file, a, b) \in Seq(Units)
          /\ Len(SubSeq(file, a, b)) = (IF a <= b THEN b - a + 1 ELSE 0)
          /\ \A k \in 1 .. b - a + 1 : SubSeq(file, a, b)[k] = file[a + k - 1]
      BY <2>1, <2>2, SubSeqProperties
    <2> QED
      BY <2>1, <2>3 DEF a, b
  <1>4. \A k \in 1 .. n : buf[i + k - 1] = file[i + d + k - 1]
    <2>1. \A k \in 1 .. n : i + k - 1 \in 1 .. Len(buf) /\ (i + k - 1) + d = i + d + k - 1
      BY <1>1
    <2> QED
      BY <2>1
  <1> HIDE DEF p, q, n
  <1>5. \A k \in 1 .. n : p[k] = q[k]
    BY <1>2, <1>3, <1>4
  <1>6. p = q
    BY <1>2, <1>3, <1>5, SeqEqual
  <1> QED
    BY <1>6 DEF p, q

\* An entry, once it starts at the start of a line.
LEMMA EntryBegun ==
  ASSUME NEW buf \in Seq(Units), NEW i \in 1 .. Len(buf), buf[i] > 0,
         i = 1 \/ buf[i - 1] = NL, NEW s \in Nat, s = size[buf[i]]
  PROVE  EntryAt(buf, i) <=> /\ i + s - 1 <= Len(buf)
                             /\ SubSeq(buf, i, i + s - 1) = Text(buf[i])
                             /\ i + s > Len(buf) \/ buf[i + s] = NL
  BY DEF EntryAt

\* What an entry is in the end of the file it is in the file, and the other way around.
LEMMA TailEntries ==
  ASSUME NEW file \in Seq(Units), NEW buf \in Seq(Units), NEW d \in Nat,
         Len(file) = Len(buf) + d, \A i \in 1 .. Len(buf) : buf[i] = file[i + d],
         \A i \in 1 .. Len(file) : file[i] > 0 =>
             size[file[i]] \in Nat \ {0} /\ (i = 1 \/ file[i - 1] = NL)
  PROVE  \A i \in Int : i \in Entries(buf) <=> i + d \in Entries(file) /\ i > 0
  <1>a. Len(buf) \in Nat
    BY LenProperties
  <1>1. ASSUME NEW i \in Int, i \in 1 .. Len(buf)
        PROVE  EntryAt(buf, i) <=> EntryAt(file, i + d)
    <2> DEFINE s == size[buf[i]]
    <2>1. i + d \in 1 .. Len(file) /\ buf[i] = file[i + d]
      BY <1>1, <1>a
    <2>2. CASE ~(buf[i] > 0)
      BY <2>1, <2>2 DEF EntryAt
    <2>3. CASE buf[i] > 0
      <3>1. s \in Nat \ {0} /\ s = size[file[i + d]] /\ (i + d = 1 \/ file[i + d - 1] = NL)
        BY <2>1, <2>3
      <3>2. i = 1 \/ buf[i - 1] = NL
        <4>1. i # 1 => /\ i - 1 \in 1 .. Len(buf) /\ (i - 1) + d = i + d - 1 /\ i + d # 1
          BY <1>1, <1>a
        <4> QED
          BY <3>1, <4>1
      <3>3. EntryAt(buf, i) <=> /\ i + s - 1 <= Len(buf)
                                /\ SubSeq(buf, i, i + s - 1) = Text(buf[i])
                                /\ i + s > Len(buf) \/ buf[i + s] = NL
        BY <1>1, <2>3, <3>1, <3>2, EntryBegun
      <3>4. EntryAt(file, i + d) <=>
                /\ i + d + s - 1 <= Len(file)
                /\ SubSeq(file, i + d, i + d + s - 1) = Text(file[i + d])
                /\ i + d + s > Len(file) \/ file[i + d + s] = NL
        BY <1>1, <2>1, <2>3, <3>1 DEF EntryAt
      <3> HIDE DEF s
      <3>5. i + s - 1 <= Len(buf) <=> i + d + s - 1 <= Len(file)
        BY <1>a, <3>1
      <3>6. i + s - 1 <= Len(buf) =>
                SubSeq(buf, i, i + s - 1) = SubSeq(file, i + d, i + d + s - 1)
        <4> SUFFICES ASSUME i + s - 1 <= Len(buf)
                     PROVE  SubSeq(buf, i, i + s - 1) = SubSeq(file, i + d, i + d + s - 1)
          OBVIOUS
        <4> DEFINE e == i + s - 1
        <4>1. e \in i .. Len(buf) /\ e + d = i + d + s - 1
          BY <1>1, <1>a, <3>1
        <4> HIDE DEF e
        <4>2. SubSeq(buf, i, e) = SubSeq(file, i + d, e + d)
          BY <1>1, <4>1, SamePiece
        <4> QED
          BY <4>1, <4>2 DEF e
      <3>7. i + s > Len(buf) <=> i + d + s > Len(file)
        BY <1>a, <3>1
      <3>8. ~(i + s > Len(buf)) => buf[i + s] = file[i + d + s]
        <4>1. ~(i + s > Len(buf)) => i + s \in 1 .. Len(buf) /\ (i + s) + d = i + d + s
          BY <1>1, <1>a, <3>1
        <4> QED
          BY <4>1
      <3> QED
        BY <2>1, <3>3, <3>4, <3>5, <3>6, <3>7, <3>8
    <2> QED
      BY <2>2, <2>3
  <1>2. \A i \in Int : i \in 1 .. Len(buf) <=> i + d \in 1 .. Len(file) /\ i > 0
    BY <1>a
  <1> QED
    BY <1>1, <1>2 DEF Entries

LEMMA TailParsed ==
  ASSUME NEW file \in Seq(Units), NEW buf \in Seq(Units), NEW d \in Nat,
         Len(file) = Len(buf) + d, \A i \in 1 .. Len(buf) : buf[i] = file[i + d],
         \A i \in 1 .. Len(file) : file[i] > 0 =>
             size[file[i]] \in Nat \ {0} /\ (i = 1 \/ file[i - 1] = NL)
  PROVE  \E m \in Nat :
            /\ Len(Parsed(file)) = m + Len(Parsed(buf))
            /\ \A k \in 1 .. Len(Parsed(buf)) : Parsed(buf)[k] = Parsed(file)[m + k]
            /\ \A k \in 1 .. m : \E i \in 1 .. d :
                  EntryAt(file, i) /\ file[i] = Parsed(file)[k]
  <1> DEFINE S == Entries(file)  T == Entries(buf)  m == Rank(S, d)
             P == Parsed(buf)  all == Parsed(file)
  <1>1. /\ Len(all) = Cardinality(S) /\ S \in SUBSET Int /\ IsFiniteSet(S)
        /\ \A k \in 1 .. Cardinality(S) : Ascending(S)[k] \in S /\ all[k] = file[Ascending(S)[k]]
    BY ParsedSeq
  <1>2. /\ Len(P) = Cardinality(T) /\ Cardinality(T) \in Nat
        /\ T \in SUBSET Int /\ IsFiniteSet(T)
        /\ \A k \in 1 .. Cardinality(T) : Ascending(T)[k] \in T /\ P[k] = buf[Ascending(T)[k]]
    BY ParsedSeq
  <1>3. \A i \in Int : i \in T <=> i + d \in S /\ i > 0
    BY TailEntries
  <1>4. \A i \in T : buf[i] = file[i + d]
    BY DEF Entries
  <1>5. \A i \in S : i \in 1 .. Len(file) /\ EntryAt(file, i)
    BY DEF Entries
  <1> HIDE DEF S, T, P, all
  <1>6. /\ m \in Nat /\ Cardinality(S) = m + Cardinality(T)
        /\ \A k \in 1 .. Cardinality(T) : Ascending(S)[m + k] = Ascending(T)[k] + d
        /\ \A k \in 1 .. m : Ascending(S)[k] <= d
    BY <1>1, <1>2, <1>3, AscendingTail
  <1> HIDE DEF m
  <1>7. ASSUME NEW k \in 1 .. Len(P) PROVE P[k] = all[m + k]
    <2>1. k \in 1 .. Cardinality(T) /\ m + k \in 1 .. Cardinality(S)
      BY <1>2, <1>6
    <2>2. P[k] = file[Ascending(T)[k] + d]
      BY <1>2, <1>4, <2>1
    <2>3. all[m + k] = file[Ascending(S)[m + k]]
      BY <1>1, <2>1
    <2> QED
      BY <1>6, <2>1, <2>2, <2>3
  <1>8. ASSUME NEW k \in 1 .. m
        PROVE  \E i \in 1 .. d : EntryAt(file, i) /\ file[i] = all[k]
    <2> DEFINE i == Ascending(S)[k]
    <2>1. k \in 1 .. Cardinality(S)
      BY <1>2, <1>6
    <2>2. i \in S /\ all[k] = file[i] /\ i <= d
      BY <1>1, <1>6, <2>1
    <2> HIDE DEF i
    <2>3. i \in 1 .. d /\ EntryAt(file, i)
      BY <1>5, <2>2
    <2> QED
      BY <2>2, <2>3
  <1> QED
    BY <1>1, <1>2, <1>6, <1>7, <1>8 DEF P, all

\* What is shown of buf, the end of a file.
LEMMA LatestOfTail ==
  ASSUME NEW file \in Seq(Units), NEW buf \in Seq(Units), NEW d \in Nat,
         Len(file) = Len(buf) + d, \A i \in 1 .. Len(buf) : buf[i] = file[i + d],
         \A i \in 1 .. Len(file) : file[i] > 0 =>
             size[file[i]] \in Nat \ {0} /\ (i = 1 \/ file[i - 1] = NL),
         NEW shown, shown = NewestFirst(Parsed(buf))
  PROVE  /\ Len(shown) <= PageSize
         /\ IsSuffix(Reverse(shown), Parsed(file))
         /\ Len(shown) < PageSize /\ Len(shown) < Len(Parsed(file)) =>
               \E i \in 1 .. d :
                  EntryAt(file, i) /\ file[i] = Parsed(file)[Len(Parsed(file)) - Len(shown)]
  <1> DEFINE P == Parsed(buf)  all == Parsed(file)  n == Len(shown)
  <1>1. P \in Seq(Units) /\ all \in Seq(Units) /\ Len(P) \in Nat /\ Len(all) \in Nat
    BY ParsedSeq, LenProperties
  <1>2. PICK m \in Nat :
            /\ Len(all) = m + Len(P)
            /\ \A k \in 1 .. Len(P) : P[k] = all[m + k]
            /\ \A k \in 1 .. m : \E i \in 1 .. d : EntryAt(file, i) /\ file[i] = all[k]
    BY TailParsed
  <1>3. shown = NewestFirst(P)
    OBVIOUS
  <1> HIDE DEF P, all
  <1>4. /\ shown \in Seq(Units)
        /\ n = IF Len(P) > PageSize THEN PageSize ELSE Len(P)
        /\ \A k \in 1 .. n : shown[k] = P[Len(P) - k + 1]
    BY <1>1, <1>3, NewestFirstFacts
  <1>5. n \in Nat /\ n <= PageSize /\ n <= Len(P) /\ (n < PageSize => n = Len(P))
    BY <1>1, <1>4, Bounds
  <1>6. \A k \in 1 .. n : shown[k] = all[Len(all) - k + 1]
    <2> SUFFICES ASSUME NEW k \in 1 .. n PROVE shown[k] = all[Len(all) - k + 1]
      OBVIOUS
    <2> DEFINE j == Len(P) - k + 1
    <2>1. j \in 1 .. Len(P) /\ m + j = Len(all) - k + 1
      BY <1>1, <1>2, <1>5
    <2>2. shown[k] = P[j]
      BY <1>4
    <2> HIDE DEF j
    <2> QED
      BY <1>2, <2>1, <2>2
  <1>7. IsSuffix(Reverse(shown), all)
    <2>1. shown \in Seq(Units) /\ all \in Seq(Units) /\ Len(shown) <= Len(all)
      BY <1>1, <1>2, <1>4, <1>5
    <2>2. \A k \in 1 .. Len(shown) : shown[k] = all[Len(all) - k + 1]
      BY <1>6
    <2> QED
      BY <2>1, <2>2, ReversedSuffix
  <1>8. ASSUME n < PageSize, n < Len(all)
        PROVE  \E i \in 1 .. d : EntryAt(file, i) /\ file[i] = all[Len(all) - n]
    <2>1. n = Len(P)
      BY <1>5, <1>8
    <2> HIDE DEF n
    <2>2. Len(all) - n = m /\ m \in 1 .. m
      BY <1>1, <1>2, <1>5, <1>8, <2>1
    <2> QED
      BY <1>2, <2>2
  <1> QED
    BY <1>5, <1>7, <1>8 DEF all

\* What the handler reads is the end of the file that Stat saw.
LEMMA ReadAtFacts ==
  ASSUME NEW F \in Seq(Units), NEW n \in 0 .. Len(F)
  PROVE  LET file == SubSeq(F, 1, n)
             buf  == SubSeq(F, n - ReadSize(n) + 1, n)
             d    == n - ReadSize(n)
         IN  /\ file \in Seq(Units) /\ Len(file) = n /\ \A i \in 1 .. n : file[i] = F[i]
             /\ buf \in Seq(Units) /\ d \in Nat /\ Len(file) = Len(buf) + d
             /\ \A i \in 1 .. Len(buf) : buf[i] = file[i + d]
             /\ d > 0 => d = Len(file) - ReadLimit
  <1> DEFINE file == SubSeq(F, 1, n)  d == n - ReadSize(n)  buf == SubSeq(F, d + 1, n)
  <1>1. /\ n \in Nat /\ Len(F) \in Nat /\ n <= Len(F)
        /\ d \in Nat /\ d <= n /\ (d > 0 => d = n - ReadLimit)
    <2>1. Len(F) \in Nat
      BY LenProperties
    <2>2. n \in Nat /\ n <= Len(F)
      BY <2>1
    <2>3. ReadLimit \in Nat \ {0}
      BY Bounds
    <2>4. d = IF n < ReadLimit THEN 0 ELSE n - ReadLimit
      BY <2>2, <2>3 DEF ReadSize
    <2> HIDE DEF d
    <2> QED
      BY <2>1, <2>2, <2>3, <2>4
  <1> HIDE DEF d
  <1>2. \A i \in 1 .. n : F[i] \in Units
    <2>1. \A i \in 1 .. n : i \in 1 .. Len(F)
      BY <1>1
    <2> QED
      BY <2>1, ElementOfSeq
  <1>3. file \in Seq(Units) /\ Len(file) = n /\ \A i \in 1 .. n : file[i] = F[i]
    <2>1. /\ file \in Seq(Units)
          /\ Len(file) = (IF 1 <= n THEN n - 1 + 1 ELSE 0)
          /\ \A i \in 1 .. n - 1 + 1 : file[i] = F[1 + i - 1]
      BY <1>1, <1>2, SubSeqProperties
    <2>2. n - 1 + 1 = n /\ \A i \in 1 .. n : 1 + i - 1 = i
      BY <1>1
    <2> HIDE DEF file
    <2> QED
      BY <1>1, <2>1, <2>2
  <1>4. /\ buf \in Seq(Units) /\ Len(buf) = n - d
        /\ \A i \in 1 .. n - d : buf[i] = F[i + d]
    <2> DEFINE a == d + 1
    <2>1. /\ a \in Int /\ n - a + 1 = n - d /\ (IF a <= n THEN n - a + 1 ELSE 0) = n - d
          /\ a \in 1 .. n + 1 /\ \A i \in 1 .. n - d : a + i - 1 = i + d
      BY <1>1
    <2>2. \A i \in a .. n : F[i] \in Units
      <3>1. \A i \in a .. n : i \in 1 .. n
        BY <1>1
      <3> QED
        BY <1>2, <3>1
    <2>3. buf = SubSeq(F, a, n)
      OBVIOUS
    <2> HIDE DEF a, buf
    <2>4. /\ SubSeq(F, a, n) \in Seq(Units)
          /\ Len(SubSeq(F, a, n)) = (IF a <= n THEN n - a + 1 ELSE 0)
          /\ \A i \in 1 .. n - a + 1 : SubSeq(F, a, n)[i] = F[a + i - 1]
      BY <1>1, <2>1, <2>2, SubSeqProperties
    <2> QED
      BY <2>1, <2>3, <2>4
  <1> HIDE DEF file, buf
  <1>5. \A i \in 1 .. Len(buf) : buf[i] = file[i + d]
    <2>1. \A i \in 1 .. n - d : i + d \in 1 .. n
      BY <1>1
    <2> QED
      BY <1>3, <1>4, <2>1
  <1>6. Len(file) = Len(buf) + d
    BY <1>1, <1>3, <1>4
  <1> QED
    BY <1>1, <1>3, <1>4, <1>5, <1>6 DEF file, buf, d

\* handleThreats shows the latest entries of the file that Stat saw, the newest
\* first, although lines are appended before it reads and the read starts anywhere in
\* a line (dashboard.go:287-321).
THEOREM LatestShown == LogSpec => []ShowsTheLatest
  <1>1. ASSUME LogInv PROVE ShowsTheLatest
    <2> SUFFICES ASSUME NEW v \in Viewers, look[v].at = "read", cuts[look[v].file] = 0
                 PROVE  LET file == SubSeq(files[look[v].file], 1, look[v].size)
                            all  == Parsed(file)
                            n    == Len(Shown(v))
                        IN  /\ n <= PageSize
                            /\ IsSuffix(Reverse(Shown(v)), all)
                            /\ n < PageSize /\ n < Len(all) =>
                                  \E i \in 1 .. Len(file) - ReadLimit :
                                      EntryAt(file, i) /\ file[i] = all[Len(all) - n]
      BY DEF ShowsTheLatest
    <2> DEFINE o == look[v].file  F == files[o]  n == look[v].size
               file == SubSeq(F, 1, n)  d == n - ReadSize(n)
               buf == SubSeq(F, n - ReadSize(n) + 1, n)
    <2>1. o \in Outputs /\ n \in Nat /\ F \in Seq(Units) /\ n <= Len(F) /\ Len(F) \in Nat
      <3>1. look[v].file \in Outputs /\ look[v].size \in Nat
        BY <1>1 DEF LogInv, LogTypeOK
      <3>2. files[look[v].file] \in Seq(Units)
        BY <1>1, <3>1 DEF LogInv, LogTypeOK
      <3>3. look[v].size <= Len(files[look[v].file])
        BY <1>1 DEF LogInv, LookInv
      <3> QED
        BY <3>1, <3>2, <3>3, LenProperties
    <2>2. n \in 0 .. Len(F)
      BY <2>1
    <2>3. \A i \in 1 .. Len(F) : F[i] > 0 =>
              size[F[i]] \in Nat \ {0} /\ (i = 1 \/ F[i - 1] = NL)
      <3> SUFFICES ASSUME NEW i \in 1 .. Len(F), F[i] > 0
                   PROVE  size[F[i]] \in Nat \ {0} /\ (i = 1 \/ F[i - 1] = NL)
        OBVIOUS
      <3>1. i = 1 \/ F[i - 1] = NL
        BY <1>1, <2>1 DEF LogInv, FileInv, StartsInv
      <3>2. F[i] \in -Len(size) .. Len(size)
        BY <1>1, <2>1 DEF LogInv, FileInv, UnitsInv
      <3>3. size \in Seq(Sizes) /\ Len(size) \in Nat
        BY <1>1, LenProperties DEF LogInv, LogTypeOK
      <3> HIDE DEF F
      <3>4. F[i] \in 1 .. Len(size)
        BY <3>2, <3>3
      <3>5. size[F[i]] \in Sizes
        BY <3>3, <3>4, ElementOfSeq
      <3> QED
        BY <3>1, <3>5, SizeAssumption
    <2>4. Shown(v) = NewestFirst(Parsed(buf))
      BY DEF Shown, ReadAt
    <2> HIDE DEF o, F, n
    <2>5. /\ file \in Seq(Units) /\ Len(file) = n /\ \A i \in 1 .. n : file[i] = F[i]
          /\ buf \in Seq(Units) /\ d \in Nat /\ Len(file) = Len(buf) + d
          /\ \A i \in 1 .. Len(buf) : buf[i] = file[i + d]
          /\ d > 0 => d = Len(file) - ReadLimit
      BY <2>1, <2>2, ReadAtFacts
    <2> HIDE DEF file, d, buf
    <2>6. \A i \in 1 .. Len(file) : file[i] > 0 =>
              size[file[i]] \in Nat \ {0} /\ (i = 1 \/ file[i - 1] = NL)
      <3> SUFFICES ASSUME NEW i \in 1 .. Len(file), file[i] > 0
                   PROVE  size[file[i]] \in Nat \ {0} /\ (i = 1 \/ file[i - 1] = NL)
        OBVIOUS
      <3>1. i \in 1 .. n /\ i \in 1 .. Len(F) /\ file[i] = F[i]
        BY <2>1, <2>5
      <3>2. i # 1 => i - 1 \in 1 .. n
        BY <2>1, <3>1
      <3> QED
        BY <2>3, <2>5, <3>1, <3>2
    <2>7. /\ Len(Shown(v)) <= PageSize
          /\ IsSuffix(Reverse(Shown(v)), Parsed(file))
          /\ Len(Shown(v)) < PageSize /\ Len(Shown(v)) < Len(Parsed(file)) =>
                \E i \in 1 .. d : /\ EntryAt(file, i)
                                  /\ file[i] = Parsed(file)[Len(Parsed(file)) - Len(Shown(v))]
      BY <2>4, <2>5, <2>6, LatestOfTail
    <2>8. \A i \in 1 .. d : i \in 1 .. Len(file) - ReadLimit
      BY <2>5
    <2>9. file = SubSeq(files[look[v].file], 1, look[v].size)
      BY DEF file, F, o, n
    <2> QED
      BY <2>7, <2>8, <2>9
  <1> QED
    BY <1>1, LogInvInvariant, PTL

=============================================================================
