---------------------------- MODULE UsnLogProofs ----------------------------
(***************************************************************************)
(* Proofs about UsnLog, for any volumes, journals, sessions, crashes and   *)
(* any size of a file: how large a file grows, that the buffers of a       *)
(* journal follow one another, and that the files, read back, tell all     *)
(* that was collected.  What the folds of a reader compute is proved from  *)
(* least counterexamples.                                                  *)
(***************************************************************************)
EXTENDS UsnLog, TLAPS, NaturalsInduction, WellFoundedInduction, SequenceTheorems

Event == ({"SWITCH_VOLUME", "JOURNALRUPT"} \X Nat) \cup ({"USN_AND_RECORD"} \X Nat \X Nat)

\* Numbered files of events, and the log as a value.
Filings == UNION {[D -> Seq(Event)] : D \in SUBSET Nat}
Logs == [files : Filings, cur : Nat, flushed : Nat, lastfid : Nat, uuid : 0..N]

\* A log that is open: the file it writes is there, and no shorter than what is safe.
LogOK(l) ==
  /\ l \in Logs /\ l.cur \in DOMAIN l.files
  /\ l.flushed <= Len(l.files[l.cur])

\* The size of a file, which is 0 until it is made.
Size(fs, f) == IF f \in DOMAIN fs THEN Len(fs[f]) ELSE 0

LEMMA FilingIs ==
  ASSUME NEW fs
  PROVE  fs \in Filings <=> /\ fs = [f \in DOMAIN fs |-> fs[f]]
                            /\ DOMAIN fs \subseteq Nat
                            /\ \A f \in DOMAIN fs : fs[f] \in Seq(Event)
<1>1. ASSUME fs \in Filings
      PROVE  /\ fs = [f \in DOMAIN fs |-> fs[f]]
             /\ DOMAIN fs \subseteq Nat
             /\ \A f \in DOMAIN fs : fs[f] \in Seq(Event)
  BY <1>1 DEF Filings
<1>2. ASSUME fs = [f \in DOMAIN fs |-> fs[f]], DOMAIN fs \subseteq Nat,
             \A f \in DOMAIN fs : fs[f] \in Seq(Event)
      PROVE  fs \in Filings
  <2>1. fs \in [DOMAIN fs -> Seq(Event)]
    BY <1>2
  <2> QED BY <1>2, <2>1 DEF Filings
<1> QED BY <1>1, <1>2

LEMMA OpenedIs ==
  ASSUME NEW l \in Logs, NEW f \in Nat
  PROVE  /\ Opened(l, f) \in Logs
         /\ Opened(l, f).cur = f /\ Opened(l, f).lastfid = l.lastfid /\ Opened(l, f).uuid = l.uuid
         /\ DOMAIN Opened(l, f).files = DOMAIN l.files \cup {f}
         /\ \A g \in DOMAIN l.files : Opened(l, f).files[g] = l.files[g]
         /\ f \notin DOMAIN l.files => Opened(l, f).files[f] = <<>>
         /\ Opened(l, f).flushed = Len(Opened(l, f).files[f])
<1> DEFINE fs == [g \in DOMAIN l.files \cup {f} |-> IF g \in DOMAIN l.files THEN l.files[g] ELSE <<>>]
           o == Opened(l, f)
<1>1. o = [l EXCEPT !.files = fs, !.cur = f, !.flushed = Len(fs[f])]
  BY Zenon DEF Opened
<1>0. l.files \in Filings
  BY DEF Logs
<1>2. fs \in Filings /\ DOMAIN fs = DOMAIN l.files \cup {f}
  <2>1. DOMAIN fs = DOMAIN l.files \cup {f} /\ fs = [g \in DOMAIN fs |-> fs[g]]
    OBVIOUS
  <2>2. \A g \in DOMAIN fs : fs[g] \in Seq(Event)
    BY <1>0, FilingIs
  <2> QED BY <1>0, <2>1, <2>2, FilingIs
<1>3. Len(fs[f]) \in Nat
  BY <1>2, FilingIs
<1>4. /\ \A g \in DOMAIN l.files : fs[g] = l.files[g]
      /\ f \notin DOMAIN l.files => fs[f] = <<>>
  OBVIOUS
<1> HIDE DEF fs, o
<1>5. o \in Logs /\ o.files = fs /\ o.cur = f /\ o.flushed = Len(fs[f]) /\ o.lastfid = l.lastfid /\ o.uuid = l.uuid
  BY <1>1, <1>2, <1>3 DEF Logs
<1> QED BY <1>2, <1>4, <1>5 DEF o

LEMMA AppendedIs ==
  ASSUME NEW l \in Logs, l.cur \in DOMAIN l.files, NEW e \in Event
  PROVE  LET a == [l EXCEPT !.files[l.cur] = Append(@, e)]
         IN /\ a \in Logs /\ a.cur = l.cur /\ a.flushed = l.flushed /\ a.lastfid = l.lastfid /\ a.uuid = l.uuid
            /\ DOMAIN a.files = DOMAIN l.files
            /\ \A g \in DOMAIN l.files : g # l.cur => a.files[g] = l.files[g]
            /\ a.files[l.cur] = Append(l.files[l.cur], e)
<1> DEFINE fs == [l.files EXCEPT ![l.cur] = Append(l.files[l.cur], e)]
           a == [l EXCEPT !.files = fs]
<1>1. [l EXCEPT !.files[l.cur] = Append(@, e)] = a
  BY Zenon
<1>2. l.files \in Filings
  BY DEF Logs
<1>3. /\ fs = [g \in DOMAIN fs |-> fs[g]] /\ DOMAIN fs = DOMAIN l.files
      /\ \A g \in DOMAIN l.files : g # l.cur => fs[g] = l.files[g]
      /\ fs[l.cur] = Append(l.files[l.cur], e)
  OBVIOUS
<1>4. fs \in Filings
  <2>1. \A g \in DOMAIN fs : fs[g] \in Seq(Event)
    BY <1>2, <1>3, FilingIs
  <2>2. DOMAIN fs \subseteq Nat
    BY <1>2, <1>3, FilingIs
  <2> QED BY <1>3, <2>1, <2>2, FilingIs
<1> HIDE DEF fs
<1>5. a \in Logs /\ a.files = fs /\ a.cur = l.cur /\ a.flushed = l.flushed /\ a.lastfid = l.lastfid /\ a.uuid = l.uuid
  BY <1>4 DEF Logs
<1> QED BY <1>1, <1>3, <1>5

LEMMA SizeType ==
  ASSUME NEW fs \in Filings, NEW f
  PROVE  Size(fs, f) \in Nat /\ (f \in DOMAIN fs => Size(fs, f) = Len(fs[f]))
BY FilingIs DEF Size

LEMMA CheckSizeIs ==
  ASSUME NEW l \in Logs, l.cur \in DOMAIN l.files
  PROVE  \/ Len(l.files[l.cur]) < Limit /\ CheckSize(l) = l
         \/ /\ ~(Len(l.files[l.cur]) < Limit)
            /\ CheckSize(l) \in Logs
            /\ CheckSize(l).files = Opened(l, l.lastfid).files
            /\ CheckSize(l).cur = l.lastfid
            /\ CheckSize(l).flushed = Opened(l, l.lastfid).flushed
            /\ CheckSize(l).lastfid = l.lastfid + 1
            /\ CheckSize(l).uuid = l.uuid
<1>1. CASE Len(l.files[l.cur]) < Limit
  BY <1>1 DEF CheckSize
<1>2. CASE ~(Len(l.files[l.cur]) < Limit)
  <2> DEFINE o == Opened(l, l.lastfid)
             r == [o EXCEPT !.lastfid = o.lastfid + 1]
  <2>1. CheckSize(l) = r
    BY <1>2, Zenon DEF CheckSize
  <2>2. l.lastfid \in Nat
    BY DEF Logs
  <2>3. o \in Logs /\ o.cur = l.lastfid /\ o.lastfid = l.lastfid /\ o.uuid = l.uuid
    BY <2>2, OpenedIs
  <2> HIDE DEF o
  <2>4. /\ r \in Logs /\ r.files = o.files /\ r.cur = o.cur /\ r.flushed = o.flushed
        /\ r.lastfid = o.lastfid + 1 /\ r.uuid = o.uuid
    BY <2>2, <2>3 DEF Logs
  <2> QED BY <1>2, <2>1, <2>3, <2>4 DEF o
<1> QED BY <1>1, <1>2

\* One event more in the open file; when that fills it, the file lastfid is opened.
LEMMA WriteIs ==
  ASSUME NEW l, LogOK(l), NEW e \in Event
  PROVE  LET r == Write(l, e)
         IN /\ LogOK(r) /\ r.uuid = l.uuid
            /\ \A f \in Nat : Size(r.files, f) = Size(l.files, f) + (IF f = l.cur THEN 1 ELSE 0)
            /\ \/ r.cur = l.cur /\ r.lastfid = l.lastfid /\ Size(r.files, l.cur) < Limit
               \/ r.cur = l.lastfid /\ r.lastfid = l.lastfid + 1
<1> DEFINE a == [l EXCEPT !.files[l.cur] = Append(@, e)]
           r == Write(l, e)
<1>0. l \in Logs /\ l.cur \in DOMAIN l.files /\ l.files \in Filings /\ l.cur \in Nat /\ l.lastfid \in Nat
      /\ l.flushed \in Nat /\ l.flushed <= Len(l.files[l.cur])
  BY DEF LogOK, Logs
<1>1. r = CheckSize(a)
  BY DEF Write
<1>2. /\ a \in Logs /\ a.cur = l.cur /\ a.flushed = l.flushed /\ a.lastfid = l.lastfid /\ a.uuid = l.uuid
      /\ DOMAIN a.files = DOMAIN l.files
      /\ \A g \in DOMAIN l.files : g # l.cur => a.files[g] = l.files[g]
      /\ a.files[l.cur] = Append(l.files[l.cur], e)
  BY <1>0, AppendedIs
<1> HIDE DEF a, r
<1>3. l.files[l.cur] \in Seq(Event) /\ Len(a.files[l.cur]) = Len(l.files[l.cur]) + 1
  BY <1>0, <1>2, FilingIs
<1>4. a.files \in Filings /\ a.cur \in DOMAIN a.files /\ a.lastfid \in Nat
  BY <1>0, <1>2 DEF Logs
<1>5. \A f \in Nat : Size(a.files, f) = Size(l.files, f) + (IF f = l.cur THEN 1 ELSE 0)
  <2> SUFFICES ASSUME NEW f \in Nat
               PROVE  Size(a.files, f) = Size(l.files, f) + (IF f = l.cur THEN 1 ELSE 0)
    OBVIOUS
  <2>1. Size(l.files, f) \in Nat
    BY <1>0, SizeType
  <2>2. CASE f = l.cur
    BY <1>0, <1>2, <1>3, <2>1, <2>2 DEF Size
  <2>3. CASE f # l.cur
    BY <1>2, <2>1, <2>3 DEF Size
  <2> QED BY <2>2, <2>3
<1>6. CASE Len(a.files[a.cur]) < Limit
  <2>1. r = a
    BY <1>1, <1>2, <1>4, <1>6, CheckSizeIs
  <2>2. LogOK(a)
    <3>1. Len(l.files[l.cur]) \in Nat
      BY <1>3
    <3> QED BY <1>0, <1>2, <1>3, <1>4, <3>1 DEF LogOK
  <2>3. Size(a.files, l.cur) < Limit
    BY <1>2, <1>4, <1>6 DEF Size
  <2> QED BY <1>2, <1>5, <2>1, <2>2, <2>3 DEF r
<1>7. CASE ~(Len(a.files[a.cur]) < Limit)
  <2> DEFINE o == Opened(a, a.lastfid)
  <2>1. /\ r \in Logs /\ r.files = o.files /\ r.cur = a.lastfid /\ r.flushed = o.flushed
        /\ r.lastfid = a.lastfid + 1 /\ r.uuid = a.uuid
    BY <1>1, <1>2, <1>4, <1>7, CheckSizeIs
  <2>2. /\ o \in Logs /\ DOMAIN o.files = DOMAIN a.files \cup {a.lastfid}
        /\ \A g \in DOMAIN a.files : o.files[g] = a.files[g]
        /\ a.lastfid \notin DOMAIN a.files => o.files[a.lastfid] = <<>>
        /\ o.flushed = Len(o.files[a.lastfid])
    BY <1>2, <1>4, OpenedIs
  <2> HIDE DEF o
  <2>3. LogOK(r)
    <3>1. r.flushed \in Nat
      BY <2>1 DEF Logs
    <3> QED BY <2>1, <2>2, <3>1 DEF LogOK
  <2>4. \A f \in Nat : Size(r.files, f) = Size(a.files, f)
    <3> SUFFICES ASSUME NEW f \in Nat PROVE Size(o.files, f) = Size(a.files, f)
      BY <2>1
    <3>1. CASE f \in DOMAIN a.files
      BY <2>2, <3>1 DEF Size
    <3>2. CASE f \notin DOMAIN a.files /\ f = a.lastfid
      BY <2>2, <3>2 DEF Size
    <3>3. CASE f \notin DOMAIN a.files /\ f # a.lastfid
      BY <2>2, <3>3 DEF Size
    <3> QED BY <3>1, <3>2, <3>3
  <2> QED BY <1>2, <1>5, <2>1, <2>3, <2>4 DEF r
<1> QED BY <1>6, <1>7

\* Room is left, with c crashes before: the files not yet reached in this run of
\* numbers could hold as much again, and the open one is the next to be
\* opened or the one before it.
Roomy(l, c) ==
  /\ \A f \in Nat : Size(l.files, f) <= Limit + 1 + 2 * c
  /\ \A f \in Nat : l.lastfid <= f => Size(l.files, f) <= Limit - 1 + 2 * c
  /\ l.cur = l.lastfid \/ (l.cur + 1 = l.lastfid /\ Size(l.files, l.cur) <= Limit + 2 * c)

LEMMA WriteKeepsRoom ==
  ASSUME NEW c \in Nat, NEW l, LogOK(l), Roomy(l, c), NEW e \in Event
  PROVE  Roomy(Write(l, e), c)
<1> DEFINE r == Write(l, e)
<1>1. /\ \A f \in Nat : Size(r.files, f) = Size(l.files, f) + (IF f = l.cur THEN 1 ELSE 0)
      /\ \/ r.cur = l.cur /\ r.lastfid = l.lastfid /\ Size(r.files, l.cur) < Limit
         \/ r.cur = l.lastfid /\ r.lastfid = l.lastfid + 1
  BY WriteIs
<1>2. l.cur \in Nat /\ l.lastfid \in Nat /\ l.files \in Filings /\ Limit \in Nat
  BY LogAssumption DEF LogOK, Logs
<1>3. \A f \in Nat : Size(l.files, f) \in Nat
  BY <1>2, SizeType
<1> HIDE DEF r
<1>4. \A f \in Nat : Size(r.files, f) \in Nat
  BY <1>1, <1>3
<1>5. Size(l.files, l.cur) <= Limit + 2 * c
  BY <1>2, <1>3 DEF Roomy
<1>6. \A f \in Nat : Size(r.files, f) <= Limit + 1 + 2 * c
  <2> TAKE f \in Nat
  <2>1. CASE f = l.cur
    BY <1>1, <1>2, <1>3, <1>5, <2>1
  <2>2. CASE f # l.cur
    BY <1>1, <1>3, <2>2 DEF Roomy
  <2> QED BY <2>1, <2>2
<1>7. CASE r.cur = l.cur /\ r.lastfid = l.lastfid /\ Size(r.files, l.cur) < Limit
  <2>1. Size(r.files, l.cur) <= Limit - 1 + 2 * c /\ Size(r.files, l.cur) <= Limit + 2 * c
    BY <1>2, <1>4, <1>7
  <2>2. \A f \in Nat : f # l.cur /\ l.lastfid <= f => Size(r.files, f) <= Limit - 1 + 2 * c
    BY <1>1, <1>3 DEF Roomy
  <2>3. \A f \in Nat : r.lastfid <= f => Size(r.files, f) <= Limit - 1 + 2 * c
    BY <1>7, <2>1, <2>2
  <2>4. r.cur = r.lastfid \/ (r.cur + 1 = r.lastfid /\ Size(r.files, r.cur) <= Limit + 2 * c)
    BY <1>7, <2>1 DEF Roomy
  <2> QED BY <1>6, <2>3, <2>4 DEF Roomy, r
<1>8. CASE r.cur = l.lastfid /\ r.lastfid = l.lastfid + 1
  <2>1. \A f \in Nat : r.lastfid <= f => f # l.cur /\ l.lastfid <= f
    BY <1>2, <1>8 DEF Roomy
  <2>2. \A f \in Nat : r.lastfid <= f => Size(r.files, f) <= Limit - 1 + 2 * c
    BY <1>1, <1>3, <2>1 DEF Roomy
  <2>3. Size(r.files, r.cur) <= Limit + 2 * c
    <3>1. CASE l.cur = l.lastfid
      <4>1. Size(l.files, l.cur) <= Limit - 1 + 2 * c
        BY <1>2, <3>1 DEF Roomy
      <4>2. Size(r.files, l.cur) = Size(l.files, l.cur) + 1
        BY <1>1, <1>2
      <4> QED BY <1>2, <1>3, <1>8, <3>1, <4>1, <4>2
    <3>2. CASE l.cur # l.lastfid
      <4>1. Size(l.files, l.lastfid) <= Limit - 1 + 2 * c
        BY <1>2 DEF Roomy
      <4>2. Size(r.files, l.lastfid) = Size(l.files, l.lastfid)
        BY <1>1, <1>2, <1>3, <3>2
      <4> QED BY <1>2, <1>3, <1>8, <4>1, <4>2
    <3> QED BY <3>1, <3>2
  <2> QED BY <1>2, <1>6, <1>8, <2>2, <2>3 DEF Roomy, r
<1> QED BY <1>1, <1>7, <1>8

\* An open log with room in it.
GoodLog(l, c) == LogOK(l) /\ Roomy(l, c)

LEMMA EventsKeepLog ==
  ASSUME NEW c \in Nat, NEW l, GoodLog(l, c)
  PROVE  /\ \A v \in Volumes : GoodLog(EvUuid(l, v), c)
         /\ \A j \in Nat : GoodLog(EvJid(l, j), c)
         /\ \A m, n \in Nat : GoodLog(EvUsnRecords(l, m, n), c)
<1>1. ASSUME NEW e \in Event, NEW k, GoodLog(k, c) PROVE GoodLog(Write(k, e), c)
  BY <1>1, WriteIs, WriteKeepsRoom DEF GoodLog
<1>2. ASSUME NEW v \in Volumes PROVE GoodLog(EvUuid(l, v), c)
  <2>1. v \in 0..N /\ <<"SWITCH_VOLUME", v>> \in Event
    BY LogAssumption DEF Volumes, Event
  <2> DEFINE k == [l EXCEPT !.uuid = v]
  <2>2. /\ k \in Logs /\ k.files = l.files /\ k.cur = l.cur /\ k.flushed = l.flushed
        /\ k.lastfid = l.lastfid
    BY <2>1 DEF GoodLog, LogOK, Logs
  <2> HIDE DEF k
  <2>3. GoodLog(k, c)
    BY <2>2 DEF GoodLog, LogOK, Roomy
  <2>4. EvUuid(l, v) = l \/ EvUuid(l, v) = Write(k, <<"SWITCH_VOLUME", v>>)
    BY DEF EvUuid, k
  <2> QED BY <1>1, <2>1, <2>3, <2>4
<1>3. ASSUME NEW j \in Nat PROVE GoodLog(EvJid(l, j), c)
  <2>1. <<"JOURNALRUPT", j>> \in Event
    BY DEF Event
  <2> QED BY <1>1, <2>1 DEF EvJid
<1>4. ASSUME NEW m \in Nat, NEW n \in Nat PROVE GoodLog(EvUsnRecords(l, m, n), c)
  <2>1. <<"USN_AND_RECORD", m, n>> \in Event
    BY DEF Event
  <2> QED BY <1>1, <2>1 DEF EvUsnRecords
<1> QED BY <1>2, <1>3, <1>4
-----------------------------------------------------------------------------
Statuses == [Volumes -> {"undetected", "disabled", "enabled"}]
Jids == [Volumes -> 0..MaxJid]

\* Places, memory and journals; without a process, memory is blank.
Placed ==
  /\ main \in {"off", "running", "joining", "saving"}
  /\ tracer \in {"none", "starting", "opening", "waiting", "ended"}
  /\ todo \in 0..N + 1 /\ exit \in {"none", "clear", "set"}
  /\ io \in [Volumes -> {"idle", "reading", "done"}]
  /\ tracer = "opening" => todo > 0
  /\ main = "off" => tracer = "none" /\ io = All("idle")
  /\ sessions \in Nat /\ crashes \in Nat

Remembered ==
  /\ conf \in [lastfid : Nat, status : Statuses, seen : Jids]
  /\ status \in Statuses /\ seen \in Jids /\ raw \subseteq 0..N /\ misled \in BOOLEAN

Read ==
  /\ start \in [Volumes -> Nat] /\ stop \in [Volumes -> Nat] /\ journal \in [Volumes -> Nat]
  /\ jid \in [Volumes -> 1..MaxJid]
  /\ \A v \in Volumes : start[v] <= journal[v] /\ stop[v] <= journal[v]
  /\ main = "off" => \A v \in Volumes : start[v] = 0 /\ stop[v] = 0

\* The number the next file opened has: that of the process, or the stored one.
NextFile == IF main = "off" THEN conf.lastfid ELSE lastfid

Filed ==
  /\ files \in Filings /\ cur \in Nat /\ flushed \in Nat /\ lastfid \in Nat /\ uuid \in 0..N
  /\ \A f \in Nat : Size(files, f) <= Limit + 1 + 2 * crashes
  /\ \A f \in Nat : NextFile <= f => Size(files, f) <= Limit - 1 + 2 * crashes
  /\ tracer \in {"opening", "waiting"} => GoodLog(Log, crashes)

Inv == Placed /\ Remembered /\ Read /\ Filed

LEMMA BlankOK == Blank \in [lastfid : Nat, status : Statuses, seen : Jids] /\ Blank.lastfid = 0
BY LogAssumption DEF Blank, All, Statuses, Jids

\* What a handler writes to the open log is filed.
LEMMA LogWritten ==
  ASSUME NEW l, GoodLog(l, crashes), SetLog(l), UNCHANGED crashes, crashes \in Nat, main' # "off"
  PROVE  Filed'
<1>1. l \in Logs
  BY DEF GoodLog, LogOK
<1>2. /\ files' = l.files /\ cur' = l.cur /\ flushed' = l.flushed /\ lastfid' = l.lastfid /\ uuid' = l.uuid
  BY DEF SetLog
<1>3. files' \in Filings /\ cur' \in Nat /\ flushed' \in Nat /\ lastfid' \in Nat /\ uuid' \in 0..N
  BY <1>1, <1>2 DEF Logs
<1>4. Log' = l
  BY <1>1, <1>2 DEF Log, Logs
<1>5. NextFile' = l.lastfid
  BY <1>2 DEF NextFile
<1>6. /\ \A f \in Nat : Size(l.files, f) <= Limit + 1 + 2 * crashes
      /\ \A f \in Nat : l.lastfid <= f => Size(l.files, f) <= Limit - 1 + 2 * crashes
  BY DEF GoodLog, Roomy
<1> QED BY <1>2, <1>3, <1>4, <1>5, <1>6 DEF Filed, GoodLog

\* The log is left alone, or at most closed.
LEMMA LogKept ==
  ASSUME Filed, UNCHANGED <<files, cur, lastfid, uuid, crashes>>, flushed' \in Nat, NextFile' = NextFile,
         tracer' \in {"opening", "waiting"} => tracer \in {"opening", "waiting"} /\ flushed' = flushed
  PROVE  Filed'
<1>1. tracer' \in {"opening", "waiting"} => Log' = Log
  BY DEF Log
<1>2. /\ \A f \in Nat : Size(files', f) <= Limit + 1 + 2 * crashes'
      /\ \A f \in Nat : NextFile' <= f => Size(files', f) <= Limit - 1 + 2 * crashes'
  BY DEF Filed
<1>3. tracer' \in {"opening", "waiting"} => GoodLog(Log', crashes')
  BY <1>1 DEF Filed
<1> QED BY <1>2, <1>3 DEF Filed

\* Blank memory after the process, whether it came to its end or not.
LEMMA GoneKeeps ==
  ASSUME Placed, Remembered, Read, Gone, crashes' \in Nat,
         conf' \in [lastfid : Nat, status : Statuses, seen : Jids]
  PROVE  Placed' /\ Remembered' /\ Read'
<1>1. Placed'
  BY LogAssumption DEF Placed, Gone, All
<1>2. status' \in Statuses /\ seen' \in Jids /\ raw' \subseteq 0..N /\ misled' \in BOOLEAN
  BY LogAssumption DEF Gone, All, Statuses, Jids, Remembered, historyVars
<1>3. Read'
  BY DEF Read, Gone, All, diskVars
<1> QED BY <1>1, <1>2, <1>3 DEF Remembered

LEMMA InvInit == Init => Inv
<1> SUFFICES ASSUME Init PROVE Inv
  OBVIOUS
<1>1. Placed
  BY LogAssumption DEF Init, Placed, All
<1>2. Remembered
  <2>1. raw \subseteq 0..N /\ misled \in BOOLEAN
    BY DEF Init
  <2>2. status \in Statuses /\ seen \in Jids
    BY LogAssumption DEF Init, All, Statuses, Jids
  <2> QED BY <2>1, <2>2, BlankOK DEF Init, Remembered
<1>3. Read
  BY LogAssumption DEF Init, Read, All
<1>4. Filed
  <2>1. DOMAIN files = {}
    BY DEF Init
  <2>2. files = [f \in DOMAIN files |-> files[f]]
    BY DEF Init
  <2>3. files \in Filings
    BY <2>1, <2>2, FilingIs
  <2>4. \A f \in Nat : Size(files, f) = 0
    BY <2>1 DEF Size
  <2> QED BY <2>3, <2>4, LogAssumption DEF Init, Filed, NoVolume
<1> QED BY <1>1, <1>2, <1>3, <1>4 DEF Inv

\* daemon_init takes up the stored number.
LEMMA StartStep ==
  ASSUME Inv, DaemonInit
  PROVE  Inv'
<1> USE DEF Inv
<1>1. /\ main = "off" /\ main' = "running" /\ tracer' = "starting" /\ sessions' = sessions + 1
      /\ lastfid' = conf.lastfid /\ status' = conf.status
      /\ seen' \in [Volumes -> FreshSeen] \/ seen' = conf.seen
      /\ raw' \in {Volumes, {}}
      /\ UNCHANGED <<files, cur, flushed, uuid, conf, todo, exit, ioVars, diskVars, crashes, misled>>
  BY DEF DaemonInit
<1>2. Placed'
  BY <1>1 DEF Placed, ioVars
<1>3. Remembered'
  <2>1. seen' \in Jids
    BY <1>1, LogAssumption DEF Remembered, Jids
  <2>2. raw' \subseteq 0..N
    <3>1. Volumes \subseteq 0..N
      BY LogAssumption DEF Volumes
    <3> QED BY <1>1, <3>1
  <2> QED BY <1>1, <2>1, <2>2 DEF Remembered
<1>4. Read'
  BY <1>1 DEF Read, ioVars, diskVars
<1>5. Filed'
  <2>1. NextFile' = NextFile /\ conf.lastfid \in Nat
    BY <1>1 DEF NextFile, Remembered
  <2> QED BY <1>1, <2>1 DEF Filed
<1> QED BY <1>2, <1>3, <1>4, <1>5

\* The first file opened is the next in number, and has room.
LEMMA OpenStep ==
  ASSUME Inv, OpenHandles
  PROVE  Inv'
<1> USE DEF Inv
<1>1. /\ tracer = "starting" /\ tracer' = "opening" /\ exit' = "clear" /\ todo' = 1
      /\ raw' = raw \cup {0}
      /\ UNCHANGED <<conf, status, seen, misled, main, ioVars, diskVars, boundVars>>
  BY DEF OpenHandles, historyVars
<1>2. PICK g \in FreshUuid : SetLog([Opened(Log, lastfid) EXCEPT !.uuid = g])
  BY DEF OpenHandles
<1>3. main # "off" /\ g \in 0..N
  BY <1>1, LogAssumption DEF Placed
<1>4. Placed'
  BY <1>1, LogAssumption DEF Placed, ioVars, boundVars
<1>5. Remembered' /\ Read'
  BY <1>1, LogAssumption DEF Remembered, Read, ioVars, diskVars
<1>6. Log \in Logs /\ Log.files = files /\ Log.lastfid = lastfid /\ lastfid \in Nat
  BY DEF Log, Logs, Filed
<1> DEFINE o == Opened(Log, lastfid)
           l == [o EXCEPT !.uuid = g]
<1>7. /\ o \in Logs /\ o.cur = lastfid /\ o.lastfid = lastfid
      /\ DOMAIN o.files = DOMAIN files \cup {lastfid}
      /\ \A f \in DOMAIN files : o.files[f] = files[f]
      /\ lastfid \notin DOMAIN files => o.files[lastfid] = <<>>
      /\ o.flushed = Len(o.files[lastfid])
  BY <1>6, OpenedIs
<1> HIDE DEF o
<1>8. /\ l \in Logs /\ l.files = o.files /\ l.cur = o.cur /\ l.flushed = o.flushed /\ l.lastfid = o.lastfid
  BY <1>3, <1>7 DEF Logs
<1> HIDE DEF l
<1>9. \A f \in Nat : Size(l.files, f) = Size(files, f)
  <2> SUFFICES ASSUME NEW f \in Nat PROVE Size(o.files, f) = Size(files, f)
    BY <1>8
  <2>1. CASE f \in DOMAIN files
    BY <1>7, <2>1 DEF Size
  <2>2. CASE f \notin DOMAIN files /\ f = lastfid
    BY <1>7, <2>2 DEF Size
  <2>3. CASE f \notin DOMAIN files /\ f # lastfid
    BY <1>7, <2>3 DEF Size
  <2> QED BY <2>1, <2>2, <2>3
<1>10. GoodLog(l, crashes)
  <2>1. l.flushed \in Nat /\ LogOK(l)
    BY <1>7, <1>8 DEF LogOK, Logs
  <2>2. NextFile = lastfid
    BY <1>3 DEF NextFile
  <2>3. Roomy(l, crashes)
    BY <1>7, <1>8, <1>9, <2>2 DEF Roomy, Filed
  <2> QED BY <2>1, <2>3 DEF GoodLog
<1>11. Filed'
  BY <1>1, <1>2, <1>3, <1>10, LogWritten DEF Placed, boundVars, l, o
<1> QED BY <1>4, <1>5, <1>11

LEMMA InitOpenedStep ==
  ASSUME Inv, InitOpened
  PROVE  Inv'
<1> USE DEF Inv
<1>1. /\ tracer = "opening" /\ todo <= N /\ todo' = todo + 1
      /\ UNCHANGED <<conf, main, tracer, exit, ioVars, diskVars, boundVars>>
  BY DEF InitOpened
<1>2. main # "off" /\ todo \in Volumes /\ crashes \in Nat
  BY <1>1, LogAssumption DEF Placed, Volumes
<1>3. Placed'
  BY <1>1, LogAssumption DEF Placed, ioVars, boundVars
<1>4. Read'
  BY <1>1 DEF Read, ioVars, diskVars
<1>5. jid[todo] \in 0..MaxJid /\ jid[todo] \in Nat
  BY <1>2, LogAssumption DEF Read
<1>6. Remembered'
  <2>1. /\ status' = [status EXCEPT ![todo] = "disabled"] \/ status' = [status EXCEPT ![todo] = "enabled"]
        /\ seen' = seen \/ seen' = [seen EXCEPT ![todo] = jid[todo]]
        /\ raw' \subseteq raw
    BY DEF InitOpened, PassOver, Announce
  <2>4. misled' \in BOOLEAN
    BY DEF InitOpened, PassOver, Announce, Remembered
  <2>2. status' \in Statuses
    BY <1>2, <2>1 DEF Remembered, Statuses
  <2>3. seen' \in Jids
    BY <1>2, <1>5, <2>1 DEF Remembered, Jids
  <2> QED BY <1>1, <2>1, <2>2, <2>3, <2>4 DEF Remembered
<1>7. GoodLog(Log, crashes)
  BY <1>1 DEF Filed
<1>8. Filed'
  <2>1. CASE SetLog(EvJid(EvUuid(Log, todo), jid[todo]))
    <3>1. GoodLog(EvUuid(Log, todo), crashes)
      BY <1>2, <1>7, EventsKeepLog
    <3>2. GoodLog(EvJid(EvUuid(Log, todo), jid[todo]), crashes)
      BY <1>2, <1>5, <3>1, EventsKeepLog
    <3> QED BY <1>1, <1>2, <2>1, <3>2, LogWritten DEF boundVars
  <2>2. CASE UNCHANGED logVars
    <3>1. NextFile' = NextFile
      BY <1>1, <2>2 DEF NextFile, logVars
    <3> QED BY <1>1, <2>2, <3>1, LogKept DEF logVars, boundVars, Filed
  <2>3. SetLog(EvJid(EvUuid(Log, todo), jid[todo])) \/ UNCHANGED logVars
    BY DEF InitOpened, PassOver, Announce, logVars
  <2> QED BY <2>1, <2>2, <2>3
<1> QED BY <1>3, <1>4, <1>6, <1>8

LEMMA CollectStep ==
  ASSUME Inv, NEW v \in Volumes, Collect(v)
  PROVE  Inv'
<1> USE DEF Inv
<1>1. /\ tracer = "waiting" /\ io' = [io EXCEPT ![v] = "reading"] /\ start' = [start EXCEPT ![v] = stop[v]]
      /\ SetLog(EvUsnRecords(EvUuid(Log, v), start[v], stop[v]))
      /\ raw' = raw \ {0} /\ misled' \in BOOLEAN
      /\ UNCHANGED <<conf, status, seen, threadVars, stop, diskVars, boundVars>>
  BY DEF Collect, Signalled, LogBuffer, Remembered
<1>2. main # "off" /\ start[v] \in Nat /\ stop[v] \in Nat /\ crashes \in Nat
  BY <1>1 DEF Placed, Read
<1>3. Placed'
  BY <1>1 DEF Placed, threadVars, boundVars
<1>4. Remembered'
  BY <1>1 DEF Remembered
<1>5. Read'
  BY <1>1, <1>2 DEF Read, threadVars, diskVars
<1>6. GoodLog(EvUuid(Log, v), crashes)
  BY <1>1, <1>2, EventsKeepLog DEF Filed
<1>7. GoodLog(EvUsnRecords(EvUuid(Log, v), start[v], stop[v]), crashes)
  BY <1>2, <1>6, EventsKeepLog
<1>8. Filed'
  BY <1>1, <1>2, <1>7, LogWritten DEF threadVars, boundVars
<1> QED BY <1>3, <1>4, <1>5, <1>8

\* A crash cuts the file that is open; it counts, and so everything has room.
LEMMA CrashStep ==
  ASSUME Inv, NEW kept, Crash(kept)
  PROVE  Inv'
<1> USE DEF Inv
<1>1. /\ main # "off" /\ crashes' = crashes + 1 /\ Gone /\ UNCHANGED conf
      /\ \/ /\ tracer \in {"opening", "waiting"} /\ kept \in flushed..Len(files[cur])
            /\ files' = [files EXCEPT ![cur] = SubSeq(@, 1, kept)]
         \/ UNCHANGED files
  BY DEF Crash
<1>2. Placed' /\ Remembered' /\ Read'
  BY <1>1, GoneKeeps DEF Placed, Remembered
<1>3. files \in Filings /\ \A f \in Nat : Size(files, f) \in Nat
  BY SizeType DEF Filed
<1>4. files' \in Filings /\ \A f \in Nat : Size(files', f) <= Size(files, f)
  <2>1. CASE UNCHANGED files
    BY <1>3, <2>1
  <2>2. CASE /\ tracer \in {"opening", "waiting"} /\ kept \in flushed..Len(files[cur])
             /\ files' = [files EXCEPT ![cur] = SubSeq(@, 1, kept)]
    <3>1. cur \in DOMAIN files /\ flushed \in Nat
      BY <2>2 DEF Filed, GoodLog, LogOK, Log
    <3>2. files[cur] \in Seq(Event) /\ Len(files[cur]) \in Nat /\ kept \in 0..Len(files[cur])
      BY <1>3, <2>2, <3>1, FilingIs
    <3>3. SubSeq(files[cur], 1, kept) \in Seq(Event) /\ Len(SubSeq(files[cur], 1, kept)) = kept
      BY <3>2
    <3>4. /\ files' = [f \in DOMAIN files' |-> files'[f]] /\ DOMAIN files' = DOMAIN files
          /\ \A f \in DOMAIN files : f # cur => files'[f] = files[f]
          /\ files'[cur] = SubSeq(files[cur], 1, kept)
      BY <2>2, <3>1
    <3>5. \A f \in DOMAIN files' : files'[f] \in Seq(Event)
      BY <1>3, <3>3, <3>4, FilingIs
    <3>6. DOMAIN files' \subseteq Nat
      BY <1>3, <3>4, FilingIs
    <3>7. files' \in Filings
      BY <3>4, <3>5, <3>6, FilingIs
    <3>8. ASSUME NEW f \in Nat PROVE Size(files', f) <= Size(files, f)
      <4>1. CASE f = cur
        BY <3>1, <3>2, <3>3, <3>4, <4>1 DEF Size
      <4>2. CASE f # cur
        BY <1>3, <3>4, <4>2 DEF Size
      <4> QED BY <4>1, <4>2
    <3> QED BY <3>7, <3>8
  <2> QED BY <1>1, <2>1, <2>2
<1>5. \A f \in Nat : Size(files', f) \in Nat
  BY <1>4, SizeType
<1>6. Limit \in Nat /\ crashes \in Nat
  BY LogAssumption DEF Placed
<1>7. \A f \in Nat : Size(files', f) <= Limit + 1 + 2 * crashes
  <2> TAKE f \in Nat
  <2>1. Size(files, f) <= Limit + 1 + 2 * crashes
    BY DEF Filed
  <2>2. Size(files', f) <= Size(files, f)
    BY <1>4
  <2>3. Size(files', f) \in Nat /\ Size(files, f) \in Nat
    BY <1>3, <1>5
  <2> QED BY <1>6, <2>1, <2>2, <2>3
<1>8. \A f \in Nat : /\ Size(files', f) <= Limit + 1 + 2 * crashes'
                     /\ Size(files', f) <= Limit - 1 + 2 * crashes'
  BY <1>1, <1>5, <1>6, <1>7
<1>9. Filed'
  BY <1>1, <1>4, <1>8, LogAssumption DEF Filed, Gone, NoVolume
<1> QED BY <1>2, <1>9

\* Steps that leave the log as it is.
LEMMA OtherStep ==
  ASSUME Inv,
         \/ ReadAll \/ ToldToExit \/ TellExit \/ OpenConf \/ Save \/ UNCHANGED vars
         \/ \E v \in Volumes : \/ Record(v) \/ Recreate(v)
                               \/ \E to \in 0..MaxRecords : ReadCompletes(v, to)
  PROVE  Inv'
<1> USE DEF Inv
<1>1. CASE ReadAll
  <2>1. /\ tracer = "opening" /\ tracer' = "waiting"
        /\ io' = [v \in Volumes |-> IF status[v] = "enabled" THEN "reading" ELSE "idle"]
        /\ UNCHANGED <<logVars, conf, memVars, main, todo, exit, start, stop, diskVars, boundVars, misled>>
    BY <1>1 DEF ReadAll, historyVars
  <2>2. Placed' /\ Remembered' /\ Read'
    BY <2>1 DEF Placed, Remembered, Read, memVars, diskVars, boundVars
  <2>3. Filed'
    BY <2>1, LogKept DEF logVars, boundVars, NextFile, Filed
  <2> QED BY <2>2, <2>3
<1>2. CASE ToldToExit
  <2>1. /\ tracer = "waiting" /\ tracer' = "ended" /\ io' = All("idle") /\ flushed' = Len(files[cur])
        /\ UNCHANGED <<files, cur, lastfid, uuid, conf, memVars, main, todo, exit, start, stop, diskVars, boundVars, misled>>
    BY <1>2 DEF ToldToExit, historyVars
  <2>2. Placed' /\ Remembered' /\ Read'
    BY <2>1 DEF Placed, Remembered, Read, memVars, diskVars, boundVars, All
  <2>3. flushed' \in Nat
    <3>1. cur \in DOMAIN files /\ files \in Filings
      BY <2>1 DEF Filed, GoodLog, LogOK, Log
    <3>2. files[cur] \in Seq(Event)
      BY <3>1, FilingIs
    <3> QED BY <2>1, <3>2
  <2>4. Filed'
    BY <2>1, <2>3, LogKept DEF boundVars, NextFile
  <2> QED BY <2>2, <2>4
<1>3. CASE TellExit
  <2>1. /\ main = "running" /\ main' = "joining" /\ exit' \in {"none", "set"}
        /\ UNCHANGED <<logVars, conf, memVars, tracer, todo, ioVars, diskVars, boundVars, misled>>
    BY <1>3 DEF TellExit
  <2>2. Placed' /\ Remembered' /\ Read'
    BY <2>1 DEF Placed, Remembered, Read, memVars, ioVars, diskVars, boundVars
  <2>3. Filed'
    BY <2>1, LogKept DEF logVars, boundVars, NextFile, Filed
  <2> QED BY <2>2, <2>3
<1>4. CASE OpenConf
  <2>1. /\ main = "joining" /\ main' = "saving" /\ conf' = Blank
        /\ UNCHANGED <<logVars, memVars, tracer, todo, exit, ioVars, diskVars, boundVars, misled>>
    BY <1>4 DEF OpenConf, historyVars
  <2>2. Placed' /\ Remembered' /\ Read'
    BY <2>1, BlankOK DEF Placed, Remembered, Read, memVars, ioVars, diskVars, boundVars
  <2>3. Filed'
    BY <2>1, LogKept DEF logVars, boundVars, NextFile, Filed
  <2> QED BY <2>2, <2>3
<1>5. CASE Save
  <2>1. /\ main = "saving" /\ conf' = [lastfid |-> lastfid, status |-> status, seen |-> seen]
        /\ Gone /\ UNCHANGED <<files, crashes>>
    BY <1>5 DEF Save
  <2>2. conf' \in [lastfid : Nat, status : Statuses, seen : Jids] /\ conf'.lastfid = lastfid
    BY <2>1 DEF Filed, Remembered
  <2>3. crashes' \in Nat
    BY <2>1 DEF Placed
  <2>4. Placed' /\ Remembered' /\ Read'
    BY <2>1, <2>2, <2>3, GoneKeeps
  <2>5. /\ tracer' = "none" /\ cur' = 0 /\ flushed' = 0 /\ lastfid' = 0 /\ uuid' = 0 /\ main' = "off"
    BY <2>1 DEF Gone, NoVolume
  <2>6. NextFile' = NextFile
    BY <2>1, <2>2, <2>5 DEF NextFile
  <2>7. Filed'
    BY <2>1, <2>5, <2>6, LogAssumption DEF Filed
  <2> QED BY <2>4, <2>7
<1>6. ASSUME NEW v \in Volumes, Record(v) PROVE Inv'
  <2>1. /\ journal' = [journal EXCEPT ![v] = @ + 1]
        /\ UNCHANGED <<logVars, conf, memVars, threadVars, ioVars, jid, boundVars, misled>>
    BY <1>6 DEF Record, historyVars
  <2>2. Placed' /\ Remembered'
    BY <2>1 DEF Placed, Remembered, memVars, threadVars, ioVars, boundVars
  <2>3. Read'
    BY <2>1 DEF Read, threadVars, ioVars
  <2>4. Filed'
    BY <2>1, LogKept DEF logVars, boundVars, threadVars, NextFile, Filed
  <2> QED BY <2>2, <2>3, <2>4
<1>7. ASSUME NEW v \in Volumes, Recreate(v) PROVE Inv'
  <2>1. /\ main = "off" /\ \A u \in Volumes : jid[u] < MaxJid
        /\ jid' = [jid EXCEPT ![v] = @ + 1] /\ journal' = [journal EXCEPT ![v] = 0]
        /\ UNCHANGED <<logVars, conf, memVars, threadVars, ioVars, boundVars, misled>>
    BY <1>7 DEF Recreate, historyVars
  <2>2. Placed' /\ Remembered'
    BY <2>1 DEF Placed, Remembered, memVars, threadVars, ioVars, boundVars
  <2>3. Read'
    BY <2>1, LogAssumption DEF Read, threadVars, ioVars
  <2>4. Filed'
    BY <2>1, LogKept DEF logVars, boundVars, threadVars, NextFile, Filed
  <2> QED BY <2>2, <2>3, <2>4
<1>8. ASSUME NEW v \in Volumes, NEW to \in 0..MaxRecords, ReadCompletes(v, to) PROVE Inv'
  <2>1. /\ io[v] = "reading" /\ to \in start[v]..journal[v]
        /\ io' = [io EXCEPT ![v] = "done"] /\ stop' = [stop EXCEPT ![v] = to]
        /\ UNCHANGED <<logVars, conf, memVars, threadVars, start, diskVars, sessions, crashes, misled>>
    BY <1>8 DEF ReadCompletes, historyVars
  <2>0. main # "off" /\ main' = main
    BY <2>1 DEF Placed, All, threadVars
  <2>2. Placed' /\ Remembered'
    BY <2>0, <2>1 DEF Placed, Remembered, memVars, threadVars
  <2>3. Read'
    <3>2. to \in Nat /\ stop' \in [Volumes -> Nat] /\ to <= journal[v]
      BY <2>1 DEF Read
    <3>3. \A u \in Volumes : stop'[u] <= journal[u]
      BY <2>1, <3>2 DEF Read
    <3> QED BY <2>0, <2>1, <3>2, <3>3 DEF Read, diskVars
  <2>4. Filed'
    BY <2>1, LogKept DEF logVars, threadVars, NextFile, Filed
  <2> QED BY <2>2, <2>3, <2>4
<1>9. CASE UNCHANGED vars
  <2>1. UNCHANGED <<logVars, conf, memVars, threadVars, ioVars, diskVars, boundVars, misled>>
    BY <1>9 DEF vars, historyVars
  <2>2. Placed' /\ Remembered' /\ Read'
    BY <2>1 DEF Placed, Remembered, Read, memVars, threadVars, ioVars, diskVars, boundVars
  <2>3. Filed'
    BY <2>1, LogKept DEF logVars, boundVars, threadVars, NextFile, Filed
  <2> QED BY <2>2, <2>3
<1> QED BY <1>1, <1>2, <1>3, <1>4, <1>5, <1>6, <1>7, <1>8, <1>9

LEMMA InvStep == Inv /\ [Next]_vars => Inv'
<1> SUFFICES ASSUME Inv, [Next]_vars PROVE Inv'
  OBVIOUS
<1>1. ASSUME NEW kept, Crash(kept) PROVE Inv'
  BY <1>1, CrashStep
<1> QED BY <1>1, StartStep, OpenStep, InitOpenedStep, CollectStep, OtherStep DEF Next, Tracer

LEMMA InvHolds == Spec => []Inv
BY InvInit, InvStep, PTL DEF Spec

\* The type invariant, for any volumes, records, journals and crashes.
THEOREM TypeCorrect == Spec => []TypeOK
<1>1. Inv => TypeOK
  <2> SUFFICES ASSUME Inv PROVE TypeOK
    OBVIOUS
  <2>1. \A f \in DOMAIN files : f \in Nat
    BY FilingIs DEF Inv, Filed
  <2>2. conf.lastfid \in Nat
    BY DEF Inv, Remembered
  <2>3. tracer \in {"opening", "waiting"} => cur \in DOMAIN files /\ flushed <= Len(files[cur])
    BY DEF Inv, Filed, GoodLog, LogOK, Log
  <2>4. uuid \in Volumes \cup {NoVolume}
    BY LogAssumption DEF Inv, Filed, Volumes, NoVolume
  <2> QED BY <2>1, <2>2, <2>3, <2>4 DEF Inv, Placed, Remembered, Read, Filed, Statuses, Jids, TypeOK
<1> QED BY <1>1, InvHolds, PTL

\* A file that "is too big" (logusn.h:20) gets one more event, and two each time a
\* crash has brought back the number of a file that is full, for any limit.
THEOREM FilesStayNearLimit == Spec => []NearLimit
<1>1. Inv => NearLimit
  <2> SUFFICES ASSUME Inv, NEW f \in DOMAIN files PROVE Len(files[f]) <= Limit + 1 + 2 * crashes
    BY DEF NearLimit
  <2>1. f \in Nat
    BY FilingIs DEF Inv, Filed
  <2> QED BY <2>1 DEF Inv, Filed, Size
<1> QED BY <1>1, InvHolds, PTL
-----------------------------------------------------------------------------
Buffer == Volumes \X (1..MaxJid) \X Nat \X Nat \X Nat

\* The buffers of volume v in session s among the first k of c, and where the
\* last of them ends.
Earlier(c, k, v, s) == {j \in 1..k : c[j][1] = v /\ c[j][5] = s}
EndOf(c, E) == IF E = {} THEN 0 ELSE c[CHOOSE j \in E : \A i \in E : i <= j][4]

\* No buffer is from a session to come, and the next read of a journal begins
\* where the last buffer of this session ends.
Chained ==
  /\ collected \in Seq(Buffer)
  /\ \A k \in 1..Len(collected) : collected[k][5] <= sessions
  /\ main # "off" => \A v \in Volumes : start[v] = EndOf(collected, Earlier(collected, Len(collected), v, sessions))

Links(c) == \A k \in 1..Len(c) : c[k][3] = EndOf(c, Earlier(c, k - 1, c[k][1], c[k][5]))

LEMMA LinksIsNoGap == NoGap <=> Links(collected)
BY Zenon DEF NoGap, Links, EndOf, Earlier

\* A set of numbers that is not empty has a least one.
LEMMA Least ==
  ASSUME NEW S \in SUBSET Nat, S # {}
  PROVE  \E m \in S : \A k \in S : m <= k
<1>1. PICK m \in S : \A k \in S : <<k, m>> \notin OpToRel(<, Nat)
  BY NatLessThanWellFounded, WFMin
<1>2. \A k \in S : ~(k < m)
  BY <1>1 DEF OpToRel
<1> QED BY <1>2

\* A set of places that is not empty has a last one.
LEMMA Greatest ==
  ASSUME NEW n \in Nat, NEW E \in SUBSET (1..n), E # {}
  PROVE  \E j \in E : \A i \in E : i <= j
<1> DEFINE S == {n - j : j \in E}
<1>1. S \in SUBSET Nat /\ S # {}
  <2>1. \A j \in E : n - j \in Nat
    OBVIOUS
  <2> QED BY <2>1
<1>2. PICK m \in S : \A k \in S : m <= k
  <2> HIDE DEF S
  <2> QED BY <1>1, Least
<1>3. PICK j \in E : m = n - j
  OBVIOUS
<1>4. \A i \in E : n - j <= n - i
  BY <1>2, <1>3
<1> QED BY <1>4

\* The end of the last buffer, whatever else CHOOSE might have been told.
LEMMA EndOfIs ==
  ASSUME NEW n \in Nat, NEW E \in SUBSET (1..n), NEW m \in E, \A i \in E : i <= m, NEW c
  PROVE  EndOf(c, E) = c[m][4]
<1> DEFINE w == CHOOSE j \in E : \A i \in E : i <= j
<1>1. w \in E /\ \A i \in E : i <= w
  BY Zenon
<1>2. EndOf(c, E) = c[w][4]
  BY Zenon DEF EndOf
<1> HIDE DEF w
<1>3. w <= m /\ m <= w /\ w \in 1..n /\ m \in 1..n
  BY <1>1
<1>4. w = m
  BY <1>3
<1> QED BY <1>2, <1>4

\* Sequences that agree on a set of places agree on where the last of them ends.
LEMMA SameEnd ==
  ASSUME NEW n \in Nat, NEW E \in SUBSET (1..n), NEW a, NEW c, \A j \in 1..n : a[j] = c[j]
  PROVE  EndOf(a, E) = EndOf(c, E)
<1>1. CASE E = {}
  BY <1>1 DEF EndOf
<1>2. CASE E # {}
  <2>1. PICK m \in E : \A i \in E : i <= m
    BY <1>2, Greatest
  <2>2. EndOf(a, E) = a[m][4] /\ EndOf(c, E) = c[m][4]
    BY <2>1, EndOfIs
  <2> QED BY <2>2
<1> QED BY <1>1, <1>2

\* One buffer more: for its volume and session it is the last, for others
\* nothing has changed.
LEMMA EndOfAppended ==
  ASSUME NEW c \in Seq(Buffer), NEW b \in Buffer, NEW v \in Volumes, NEW s \in Nat,
         NEW a, a = Append(c, b)
  PROVE  EndOf(a, Earlier(a, Len(a), v, s)) = IF b[1] = v /\ b[5] = s THEN b[4]
                                              ELSE EndOf(c, Earlier(c, Len(c), v, s))
<1> DEFINE E == Earlier(c, Len(c), v, s)
           F == Earlier(a, Len(a), v, s)
<1>1. Len(a) = Len(c) + 1 /\ Len(c) \in Nat /\ a[Len(a)] = b /\ \A j \in 1..Len(c) : a[j] = c[j]
  OBVIOUS
<1>2. E \in SUBSET (1..Len(c)) /\ F \in SUBSET (1..Len(a)) /\ Len(a) \in Nat
  BY <1>1 DEF Earlier
<1>3. CASE b[1] = v /\ b[5] = s
  <2>1. Len(a) \in F
    BY <1>1, <1>3 DEF Earlier
  <2>2. \A i \in F : i <= Len(a)
    BY <1>1, <1>2
  <2> HIDE DEF E, F
  <2>3. EndOf(a, F) = a[Len(a)][4]
    BY <1>2, <2>1, <2>2, EndOfIs
  <2> QED BY <1>1, <1>3, <2>3 DEF F
<1>4. CASE ~(b[1] = v /\ b[5] = s)
  <2>1. F = E
    BY <1>1, <1>4 DEF Earlier
  <2> HIDE DEF E, F
  <2>2. EndOf(a, E) = EndOf(c, E)
    <3>1. CASE E = {}
      BY <3>1 DEF EndOf
    <3>2. CASE E # {}
      <4>1. PICK m \in E : \A i \in E : i <= m
        BY <1>1, <1>2, <3>2, Greatest
      <4>2. EndOf(a, E) = a[m][4]
        BY <1>1, <1>2, <4>1, EndOfIs
      <4>3. EndOf(c, E) = c[m][4]
        BY <1>1, <1>2, <4>1, EndOfIs
      <4>4. a[m] = c[m]
        BY <1>1, <1>2, <4>1
      <4> QED BY <4>2, <4>3, <4>4
    <3> QED BY <3>1, <3>2
  <2> QED BY <1>4, <2>1, <2>2 DEF E, F
<1> QED BY <1>3, <1>4

\* The places before k do not see what is appended after k.
LEMMA LinksAppended ==
  ASSUME NEW c \in Seq(Buffer), NEW b \in Buffer, Links(c),
         b[3] = EndOf(c, Earlier(c, Len(c), b[1], b[5]))
  PROVE  Links(Append(c, b))
<1> DEFINE a == Append(c, b)
<1>1. Len(a) = Len(c) + 1 /\ Len(c) \in Nat /\ a[Len(a)] = b /\ \A j \in 1..Len(c) : a[j] = c[j]
  OBVIOUS
<1> HIDE DEF a
<1>2. ASSUME NEW k \in 1..Len(c) + 1, NEW v, NEW s
      PROVE  /\ Earlier(a, k - 1, v, s) = Earlier(c, k - 1, v, s)
             /\ EndOf(a, Earlier(a, k - 1, v, s)) = EndOf(c, Earlier(c, k - 1, v, s))
  <2> DEFINE E == Earlier(c, k - 1, v, s)
  <2>1. Earlier(a, k - 1, v, s) = E
    BY <1>1 DEF Earlier
  <2>2. E \in SUBSET (1..Len(c))
    BY <1>1 DEF Earlier
  <2> HIDE DEF E
  <2>3. EndOf(a, E) = EndOf(c, E)
    <3>1. Len(c) \in Nat /\ E \in SUBSET (1..Len(c)) /\ \A j \in 1..Len(c) : a[j] = c[j]
      BY <1>1, <2>2
    <3> QED BY <3>1, SameEnd, ZenonT(30)
  <2> QED BY <2>1, <2>3 DEF E
<1>3. ASSUME NEW k \in 1..Len(a)
      PROVE  a[k][3] = EndOf(a, Earlier(a, k - 1, a[k][1], a[k][5]))
  <2>1. CASE k = Len(a)
    BY <1>1, <1>2, <2>1
  <2>2. CASE k # Len(a)
    <3>1. k \in 1..Len(c) /\ k \in 1..Len(c) + 1
      BY <1>1, <2>2
    <3>2. a[k] = c[k]
      BY <1>1, <3>1
    <3>3. c[k][3] = EndOf(c, Earlier(c, k - 1, c[k][1], c[k][5]))
      BY <3>1 DEF Links
    <3> QED BY <1>2, <3>1, <3>2, <3>3
  <2> QED BY <2>1, <2>2
<1> QED BY <1>3 DEF Links, a

LEMMA ChainedInit == Init => Chained /\ Links(collected)
<1> SUFFICES ASSUME Init PROVE Chained /\ Links(collected)
  OBVIOUS
<1>1. collected = <<>> /\ collected \in Seq(Buffer) /\ main = "off"
  BY DEF Init
<1> QED BY <1>1 DEF Chained, Links

\* A new session has no buffers yet, and its reads begin at 0.
LEMMA ChainedStart ==
  ASSUME Inv, Chained, DaemonInit
  PROVE  Chained'
<1>1. /\ main = "off" /\ sessions' = sessions + 1 /\ UNCHANGED <<ioVars, collected>>
  BY DEF DaemonInit
<1>2. sessions \in Nat /\ \A v \in Volumes : start[v] = 0
  BY <1>1 DEF Inv, Placed, Read
<1>3. \A k \in 1..Len(collected) : collected[k][5] \in Nat /\ collected[k][5] <= sessions
  <2> SUFFICES ASSUME NEW k \in 1..Len(collected) PROVE collected[k][5] \in Nat /\ collected[k][5] <= sessions
    OBVIOUS
  <2>1. collected[k] \in Buffer
    BY DEF Chained
  <2> QED BY <2>1 DEF Chained, Buffer
<1>4. \A v \in Volumes : Earlier(collected, Len(collected), v, sessions + 1) = {}
  BY <1>2, <1>3 DEF Earlier
<1>5. \A v \in Volumes : start[v] = EndOf(collected, Earlier(collected, Len(collected), v, sessions + 1))
  BY <1>2, <1>4 DEF EndOf
<1> QED BY <1>1, <1>2, <1>3, <1>5 DEF Chained, ioVars

LEMMA ChainedCollect ==
  ASSUME Inv, Chained, Links(collected), NEW v \in Volumes, Collect(v)
  PROVE  Chained' /\ Links(collected')
<1> DEFINE b == <<v, jid[v], start[v], stop[v], sessions>>
           c == collected
<1>1. /\ tracer = "waiting" /\ c' = Append(c, b) /\ start' = [start EXCEPT ![v] = stop[v]]
      /\ main' = main /\ sessions' = sessions
  BY DEF Collect, Signalled, LogBuffer, threadVars, boundVars
<1>2. main # "off" /\ b \in Buffer /\ sessions \in Nat
  BY <1>1 DEF Inv, Placed, Read, Buffer
<1>3. c \in Seq(Buffer) /\ \A u \in Volumes : start[u] = EndOf(c, Earlier(c, Len(c), u, sessions))
  BY <1>2 DEF Chained
<1>4. b[1] = v /\ b[3] = start[v] /\ b[4] = stop[v] /\ b[5] = sessions
  OBVIOUS
<1> HIDE DEF b, c
<1>5. Links(c')
  <2>1. Links(c)
    BY DEF c
  <2> QED BY <1>1, <1>2, <1>3, <1>4, <2>1, LinksAppended
<1>6. c' \in Seq(Buffer) /\ \A k \in 1..Len(c') : c'[k][5] <= sessions
  <2>1. \A k \in 1..Len(c) : c[k][5] <= sessions
    BY DEF Chained, c
  <2> QED BY <1>1, <1>2, <1>3, <1>4, <2>1
<1>7. \A u \in Volumes : start'[u] = EndOf(c', Earlier(c', Len(c'), u, sessions))
  <2> TAKE u \in Volumes
  <2>1. EndOf(c', Earlier(c', Len(c'), u, sessions)) = IF b[1] = u /\ b[5] = sessions THEN b[4]
                                                      ELSE EndOf(c, Earlier(c, Len(c), u, sessions))
    <3>1. \A x : x = Append(c, b) =>
            EndOf(x, Earlier(x, Len(x), u, sessions)) = IF b[1] = u /\ b[5] = sessions THEN b[4]
                                                        ELSE EndOf(c, Earlier(c, Len(c), u, sessions))
      <4>1. c \in Seq(Buffer) /\ b \in Buffer /\ u \in Volumes /\ sessions \in Nat
        BY <1>2, <1>3
      <4> QED BY <4>1, EndOfAppended
    <3> QED BY <1>1, <3>1
  <2>2. start'[u] = IF u = v THEN stop[v] ELSE start[u]
    BY <1>1 DEF Inv, Read
  <2> QED BY <1>3, <1>4, <2>1, <2>2
<1> QED BY <1>1, <1>5, <1>6, <1>7 DEF Chained, c

LEMMA ChainedStep == Inv /\ Chained /\ Links(collected) /\ [Next]_vars => Chained' /\ Links(collected')
<1> SUFFICES ASSUME Inv, Chained, Links(collected), [Next]_vars PROVE Chained' /\ Links(collected')
  OBVIOUS
<1>1. ASSUME UNCHANGED <<start, sessions, collected>>, main' # "off" => main # "off"
      PROVE  Chained' /\ Links(collected')
  BY <1>1 DEF Chained
<1>2. CASE DaemonInit
  <2>1. collected' = collected
    BY <1>2 DEF DaemonInit
  <2> QED BY <1>2, <2>1, ChainedStart
<1>3. CASE OpenHandles \/ ReadAll \/ ToldToExit \/ InitOpened
  BY <1>1, <1>3 DEF OpenHandles, ReadAll, ToldToExit, InitOpened, ioVars, boundVars, historyVars
<1>4. CASE TellExit \/ OpenConf
  BY <1>1, <1>4 DEF TellExit, OpenConf, ioVars, boundVars, historyVars
<1>5. CASE Gone
  BY <1>5 DEF Gone, historyVars, Chained
<1>6. CASE Save \/ \E kept \in 0..(IF cur \in DOMAIN files THEN Len(files[cur]) ELSE 0) : Crash(kept)
  BY <1>5, <1>6 DEF Save, Crash
<1>7. ASSUME NEW v \in Volumes, Record(v) \/ Recreate(v) \/ \E to \in 0..MaxRecords : ReadCompletes(v, to)
      PROVE  Chained' /\ Links(collected')
  BY <1>1, <1>7 DEF Record, Recreate, ReadCompletes, threadVars, ioVars, boundVars, historyVars
<1>8. CASE UNCHANGED vars
  BY <1>1, <1>8 DEF vars, threadVars, ioVars, boundVars, historyVars
<1> QED BY <1>2, <1>3, <1>4, <1>6, <1>7, <1>8, ChainedCollect DEF Next, Tracer

\* Within a session the buffers of a journal follow one another without a gap or an
\* overlap, from its beginning (tracing_win32.cc:241-245), for any journals, reads
\* and crashes.
THEOREM BuffersFollow == Spec => []NoGap
<1> DEFINE Follow == Chained /\ Links(collected)
<1>1. Init => Follow
  BY ChainedInit
<1>2. Inv /\ Follow /\ [Next]_vars => Follow'
  BY ChainedStep
<1> HIDE DEF Follow
<1>3. Spec => []Follow
  BY <1>1, <1>2, InvHolds, PTL DEF Spec
<1>4. Follow => NoGap
  BY LinksIsNoGap DEF Follow
<1> QED BY <1>3, <1>4, PTL

-----------------------------------------------------------------------------
\* The recursive function of FlattenSeq: what it computes for a position is what
\* it computes for the one before, and one sequence more.
Joins(f, s, n) == f = [i \in 1..n |-> IF i = 1 THEN s[i] ELSE f[i - 1] \o s[i]]

LEMMA JoinsAt ==
  ASSUME NEW f, NEW s, NEW n, Joins(f, s, n), NEW i \in 1..n
  PROVE  f[i] = IF i = 1 THEN s[i] ELSE f[i - 1] \o s[i]
<1> DEFINE j == [k \in 1..n |-> IF k = 1 THEN s[k] ELSE f[k - 1] \o s[k]]
<1>1. f = j
  BY DEF Joins
<1>2. j[i] = IF i = 1 THEN s[i] ELSE f[i - 1] \o s[i]
  OBVIOUS
<1> HIDE DEF j
<1> QED BY <1>1, <1>2

LEMMA JoinsExists ==
  ASSUME NEW s, NEW n \in Nat
  PROVE  \E f : Joins(f, s, n)
<1> DEFINE T == {c \in Nat : ~\E f : Joins(f, s, c)}
<1>1. SUFFICES ASSUME T # {} PROVE FALSE
  OBVIOUS
<1>2. PICK c \in T : \A d \in T : c <= d
  <2> HIDE DEF T
  <2>1. T \in SUBSET Nat BY DEF T
  <2> QED BY <1>1, <2>1, Least
<1>3. CASE c = 0
  <2>1. Joins([i \in 1..c |-> <<>>], s, c)
    BY <1>3 DEF Joins
  <2> QED BY <2>1
<1>4. CASE c # 0
  <2>1. c - 1 \in Nat /\ c - 1 \notin T
    BY <1>2, <1>4
  <2>2. PICK f : Joins(f, s, c - 1)
    BY <2>1
  <2> DEFINE g == [i \in 1..c |-> IF i < c THEN f[i] ELSE IF i = 1 THEN s[i] ELSE f[i - 1] \o s[i]]
  <2>3. \A i \in 1..c - 1 : f[i] = IF i = 1 THEN s[i] ELSE f[i - 1] \o s[i]
    BY <2>2 DEF Joins
  <2>4. \A i \in 1..c : g[i] = IF i = 1 THEN s[i] ELSE g[i - 1] \o s[i]
    <3> SUFFICES ASSUME NEW i \in 1..c PROVE g[i] = IF i = 1 THEN s[i] ELSE g[i - 1] \o s[i]
      OBVIOUS
    <3>1. i # 1 => g[i - 1] = f[i - 1]
      BY <1>2
    <3>2. g[i] = IF i = 1 THEN s[i] ELSE f[i - 1] \o s[i]
      BY <1>2, <2>3
    <3> QED BY <3>1, <3>2
  <2>5. Joins(g, s, c)
    BY <2>4 DEF Joins
  <2> QED BY <1>2, <2>5
<1> QED BY <1>3, <1>4

\* Sequences that are the same up to n.
Agree(s, t, n) == \A i \in 1..n : s[i] = t[i]

LEMMA JoinsAgree ==
  ASSUME NEW n \in Nat, NEW m \in Nat, n <= m, NEW s, NEW t, Agree(s, t, n),
         NEW f, NEW g, Joins(f, s, n), Joins(g, t, m)
  PROVE  Agree(f, g, n)
<1> USE DEF Agree
<1> DEFINE T == {i \in 1..n : f[i] # g[i]}
<1>1. SUFFICES ASSUME T # {} PROVE FALSE
  OBVIOUS
<1>2. PICK c \in T : \A d \in T : c <= d
  <2> HIDE DEF T
  <2>1. T \in SUBSET Nat BY DEF T
  <2> QED BY <1>1, <2>1, Least
<1>3. /\ f[c] = IF c = 1 THEN s[c] ELSE f[c - 1] \o s[c]
      /\ g[c] = IF c = 1 THEN t[c] ELSE g[c - 1] \o t[c]
  BY <1>2, JoinsAt
<1>4. s[c] = t[c] /\ c \in 1..n /\ f[c] # g[c]
  BY <1>2
<1>5. c # 1 => f[c - 1] = g[c - 1]
  <2>1. c # 1 => c - 1 \in 1..n /\ c - 1 \notin T
    BY <1>2, <1>4
  <2> QED BY <2>1
<1> QED BY <1>3, <1>4, <1>5

LEMMA JoinsType ==
  ASSUME NEW S, NEW n \in Nat, NEW s, \A i \in 1..n : s[i] \in Seq(S), NEW f, Joins(f, s, n)
  PROVE  \A i \in 1..n : f[i] \in Seq(S)
<1> DEFINE T == {i \in 1..n : f[i] \notin Seq(S)}
<1>1. SUFFICES ASSUME T # {} PROVE FALSE
  OBVIOUS
<1>2. PICK c \in T : \A d \in T : c <= d
  <2> HIDE DEF T
  <2>1. T \in SUBSET Nat BY DEF T
  <2> QED BY <1>1, <2>1, Least
<1>3. f[c] = IF c = 1 THEN s[c] ELSE f[c - 1] \o s[c]
  BY <1>2, JoinsAt
<1>4. s[c] \in Seq(S) /\ c \in 1..n /\ f[c] \notin Seq(S)
  BY <1>2
<1>5. c # 1 => f[c - 1] \in Seq(S)
  <2>1. c # 1 => c - 1 \in 1..n /\ c - 1 \notin T
    BY <1>2, <1>4
  <2> QED BY <2>1
<1> QED BY <1>3, <1>4, <1>5

LEMMA FlattenIs ==
  ASSUME NEW s, Len(s) \in Nat, Len(s) # 0
  PROVE  \E f : Joins(f, s, Len(s)) /\ FlattenSeq(s) = f[Len(s)]
<1> DEFINE g == CHOOSE f : Joins(f, s, Len(s))
<1>1. Joins(g, s, Len(s))
  BY JoinsExists
<1>2. FlattenSeq(s) = g[Len(s)]
  BY DEF FlattenSeq, Joins
<1> QED BY <1>1, <1>2

LEMMA FlattenAppended ==
  ASSUME NEW S, NEW s \in Seq(Seq(S)), NEW x \in Seq(S)
  PROVE  /\ FlattenSeq(s) \in Seq(S)
         /\ FlattenSeq(Append(s, x)) = FlattenSeq(s) \o x
<1> DEFINE t == Append(s, x)
           n == Len(s)
<1>1. n \in Nat /\ Len(t) = n + 1 /\ t[n + 1] = x /\ \A i \in 1..n : t[i] = s[i] /\ s[i] \in Seq(S)
  OBVIOUS
<1> HIDE DEF t, n
<1>2. PICK g : Joins(g, t, n + 1) /\ FlattenSeq(t) = g[n + 1]
  BY <1>1, FlattenIs
<1>3. g[n + 1] = IF n + 1 = 1 THEN t[n + 1] ELSE g[n] \o t[n + 1]
  <2>1. n + 1 \in 1..n + 1 /\ (n + 1) - 1 = n
    BY <1>1
  <2> QED BY <1>2, <2>1, JoinsAt
<1>4. CASE n = 0
  <2>1. s = <<>> /\ FlattenSeq(s) = <<>>
    BY <1>4 DEF n, FlattenSeq
  <2>2. FlattenSeq(t) = x
    BY <1>1, <1>2, <1>3, <1>4
  <2>3. x = <<>> \o x
    OBVIOUS
  <2>4. FlattenSeq(s) \in Seq(S)
    <3>1. <<>> \in Seq(S)
      OBVIOUS
    <3> QED BY <2>1, <3>1, Zenon
  <2>5. FlattenSeq(t) = FlattenSeq(s) \o x
    BY <2>1, <2>2, <2>3, Zenon
  <2> QED BY <2>4, <2>5, Zenon DEF t
<1>5. CASE n # 0
  <2>1. PICK f : Joins(f, s, n) /\ FlattenSeq(s) = f[n]
    BY <1>1, <1>5, FlattenIs DEF n
  <2>2. f[n] \in Seq(S)
    <3>1. \A i \in 1..n : f[i] \in Seq(S)
      BY <1>1, <2>1, JoinsType, Zenon
    <3> QED BY <1>1, <1>5, <3>1
  <2>3. f[n] = g[n]
    <3>1. n + 1 \in Nat /\ n <= n + 1 /\ Agree(s, t, n)
      BY <1>1 DEF Agree
    <3>2. Agree(f, g, n)
      BY <1>1, <1>2, <2>1, <3>1, JoinsAgree
    <3> QED BY <1>1, <1>5, <3>2 DEF Agree
  <2> QED BY <1>1, <1>2, <1>3, <1>5, <2>1, <2>2, <2>3 DEF t
<1> QED BY <1>4, <1>5

-----------------------------------------------------------------------------
\* Written, of any files.
Told(fs) ==
  LET top == Max(DOMAIN fs \cup {0})
  IN FlattenSeq([k \in 1..top + 1 |-> IF k - 1 \in DOMAIN fs THEN fs[k - 1] ELSE <<>>])

Pieces(fs, m) == [k \in 1..m |-> fs[k - 1]]

LEMMA WrittenIsTold == Written = Told(files)
BY Zenon DEF Written, Told

LEMMA TopIs ==
  ASSUME NEW m \in Nat, NEW D, D = 0..m
  PROVE  Max(D \cup {0}) = m
<1> DEFINE S == D \cup {0}
           x == CHOOSE x \in S : \A y \in S : x >= y
<1>1. m \in S /\ \A y \in S : m >= y
  OBVIOUS
<1>2. S \subseteq Nat
  OBVIOUS
<1> HIDE DEF S
<1>3. x \in S /\ \A y \in S : x >= y
  BY <1>1, Zenon
<1>4. Max(S) = x
  BY Zenon DEF Max
<1> HIDE DEF x
<1>5. x = m
  BY <1>1, <1>2, <1>3
<1> QED BY <1>4, <1>5 DEF S

\* The files up to the last one, and that one.
LEMMA ToldIs ==
  ASSUME NEW m \in Nat, NEW fs \in Filings, DOMAIN fs = 0..m
  PROVE  /\ Pieces(fs, m) \in Seq(Seq(Event)) /\ FlattenSeq(Pieces(fs, m)) \in Seq(Event)
         /\ Told(fs) = FlattenSeq(Pieces(fs, m)) \o fs[m]
         /\ Told(fs) \in Seq(Event)
         /\ Pieces(fs, m + 1) = Append(Pieces(fs, m), fs[m])
<1>1. \A f \in 0..m : fs[f] \in Seq(Event)
  BY FilingIs
<1>2. Pieces(fs, m) \in Seq(Seq(Event))
  <2>1. \A k \in 1..m : k - 1 \in 0..m
    OBVIOUS
  <2>2. \A k \in 1..m : fs[k - 1] \in Seq(Event)
    BY <1>1, <2>1
  <2> QED BY <2>2 DEF Pieces
<1>3. Told(fs) = FlattenSeq(Pieces(fs, m + 1))
  <2>1. Max(DOMAIN fs \cup {0}) = m
    BY TopIs
  <2>2. \A k \in 1..m + 1 : k - 1 \in DOMAIN fs
    OBVIOUS
  <2>3. [k \in 1..m + 1 |-> IF k - 1 \in DOMAIN fs THEN fs[k - 1] ELSE <<>>] = Pieces(fs, m + 1)
    BY <2>2 DEF Pieces
  <2> QED BY <2>1, <2>3 DEF Told
<1>4. Pieces(fs, m + 1) = Append(Pieces(fs, m), fs[m])
  <2>1. Len(Pieces(fs, m)) = m
    BY DEF Pieces
  <2>2. Append(Pieces(fs, m), fs[m]) = [k \in 1..m + 1 |-> IF k = m + 1 THEN fs[m] ELSE Pieces(fs, m)[k]]
    BY <1>1, <1>2, <2>1
  <2> QED BY <2>2 DEF Pieces
<1>5. fs[m] \in Seq(Event)
  BY <1>1
<1>6. /\ FlattenSeq(Pieces(fs, m)) \in Seq(Event)
      /\ FlattenSeq(Append(Pieces(fs, m), fs[m])) = FlattenSeq(Pieces(fs, m)) \o fs[m]
  BY <1>2, <1>5, FlattenAppended
<1>7. Told(fs) = FlattenSeq(Pieces(fs, m)) \o fs[m]
  BY <1>3, <1>4, <1>6
<1>8. Told(fs) \in Seq(Event)
  BY <1>5, <1>6, <1>7
<1> QED BY <1>2, <1>4, <1>6, <1>7, <1>8

LEMMA ToldNone ==
  ASSUME NEW fs, DOMAIN fs = {} \/ (DOMAIN fs = 0..0 /\ fs[0] = <<>>)
  PROVE  Told(fs) = <<>>
<1> DEFINE s == [k \in 1..1 |-> <<>>]
<1>1. Max(DOMAIN fs \cup {0}) = 0
  <2>1. DOMAIN fs \cup {0} = (0..0) \cup {0}
    OBVIOUS
  <2> QED BY <2>1, TopIs
<1>2. [k \in 1..0 + 1 |-> IF k - 1 \in DOMAIN fs THEN fs[k - 1] ELSE <<>>] = s
  OBVIOUS
<1>3. s = Append(<<>>, <<>>)
  OBVIOUS
<1> HIDE DEF s
<1>4. Told(fs) = FlattenSeq(s)
  BY <1>1, <1>2 DEF Told
<1>5. FlattenSeq(<<>>) = <<>>
  BY DEF FlattenSeq
<1>6. <<>> \in Seq(Seq({})) /\ <<>> \in Seq({})
  OBVIOUS
<1>7. FlattenSeq(s) = <<>> \o <<>>
  BY <1>3, <1>5, <1>6, FlattenAppended
<1>8. <<>> \o <<>> = <<>>
  OBVIOUS
<1> QED BY <1>4, <1>7, <1>8

LEMMA ToldGrows ==
  ASSUME NEW m \in Nat, NEW fs \in Filings, NEW gs \in Filings, DOMAIN fs = 0..m, DOMAIN gs = 0..m,
         \A f \in 0..m : f # m => gs[f] = fs[f], NEW e \in Event, gs[m] = Append(fs[m], e)
  PROVE  Told(gs) = Append(Told(fs), e)
<1>1. Pieces(gs, m) = Pieces(fs, m)
  <2>1. \A k \in 1..m : k - 1 \in 0..m /\ k - 1 # m
    OBVIOUS
  <2> QED BY <2>1 DEF Pieces
<1> DEFINE p == FlattenSeq(Pieces(fs, m))
<1>2. p \in Seq(Event) /\ Told(fs) = p \o fs[m] /\ Told(gs) = p \o gs[m] /\ fs[m] \in Seq(Event)
  <2>1. p \in Seq(Event) /\ Told(fs) = p \o fs[m]
    BY ToldIs
  <2>2. Told(gs) = FlattenSeq(Pieces(gs, m)) \o gs[m]
    BY ToldIs
  <2>3. fs[m] \in Seq(Event)
    BY FilingIs
  <2> QED BY <1>1, <2>1, <2>2, <2>3
<1> HIDE DEF p
<1>3. p \o Append(fs[m], e) = Append(p \o fs[m], e)
  BY <1>2
<1> QED BY <1>2, <1>3

LEMMA ToldOpens ==
  ASSUME NEW m \in Nat, NEW fs \in Filings, NEW gs \in Filings, DOMAIN fs = 0..m, DOMAIN gs = 0..m + 1,
         \A f \in 0..m : gs[f] = fs[f], gs[m + 1] = <<>>
  PROVE  Told(gs) = Told(fs)
<1>1. Pieces(gs, m + 1) = Pieces(fs, m + 1)
  <2>1. \A k \in 1..m + 1 : k - 1 \in 0..m
    OBVIOUS
  <2> QED BY <2>1 DEF Pieces
<1>2. Told(gs) = FlattenSeq(Pieces(fs, m + 1)) \o <<>>
  <2>1. m + 1 \in Nat
    OBVIOUS
  <2> QED BY <1>1, <2>1, ToldIs
<1>3. FlattenSeq(Pieces(fs, m + 1)) = Told(fs) /\ Told(fs) \in Seq(Event)
  <2>1. fs[m] \in Seq(Event)
    BY FilingIs
  <2>2. /\ Pieces(fs, m) \in Seq(Seq(Event)) /\ Pieces(fs, m + 1) = Append(Pieces(fs, m), fs[m])
        /\ Told(fs) = FlattenSeq(Pieces(fs, m)) \o fs[m] /\ Told(fs) \in Seq(Event)
    BY ToldIs
  <2>3. FlattenSeq(Append(Pieces(fs, m), fs[m])) = FlattenSeq(Pieces(fs, m)) \o fs[m]
    BY <2>1, <2>2, FlattenAppended
  <2> QED BY <2>2, <2>3
<1> QED BY <1>2, <1>3

-----------------------------------------------------------------------------
\* The file open for writing is the last one, and the next to be opened is this
\* one or the one after it.
OnTop(l) == DOMAIN l.files = 0..l.cur /\ (l.lastfid = l.cur \/ l.lastfid = l.cur + 1)

LEMMA OpenTells ==
  ASSUME NEW l \in Logs, OnTop(l)
  PROVE  LET o == Opened(l, l.lastfid)
         IN DOMAIN o.files = 0..l.lastfid /\ Told(o.files) = Told(l.files)
<1> DEFINE o == Opened(l, l.lastfid)
<1>1. l.lastfid \in Nat /\ l.cur \in Nat /\ l.files \in Filings
  BY DEF Logs
<1>2. /\ o \in Logs /\ DOMAIN o.files = DOMAIN l.files \cup {l.lastfid}
      /\ \A g \in DOMAIN l.files : o.files[g] = l.files[g]
      /\ l.lastfid \notin DOMAIN l.files => o.files[l.lastfid] = <<>>
  BY <1>1, OpenedIs
<1> HIDE DEF o
<1>3. o.files \in Filings
  BY <1>2 DEF Logs
<1>4. CASE l.lastfid = l.cur
  <2>1. DOMAIN o.files = DOMAIN l.files /\ DOMAIN l.files = 0..l.lastfid
    BY <1>1, <1>2, <1>4 DEF OnTop
  <2>2. o.files = l.files
    <3>1. /\ o.files = [f \in DOMAIN o.files |-> o.files[f]]
          /\ l.files = [f \in DOMAIN l.files |-> l.files[f]]
      BY <1>1, <1>3, FilingIs
    <3> QED BY <1>2, <2>1, <3>1
  <2> QED BY <2>1, <2>2 DEF o
<1>5. CASE l.lastfid = l.cur + 1
  <2>1. DOMAIN l.files = 0..l.cur /\ DOMAIN o.files = 0..l.cur + 1
    BY <1>1, <1>2, <1>5 DEF OnTop
  <2>2. o.files[l.cur + 1] = <<>> /\ \A f \in 0..l.cur : o.files[f] = l.files[f]
    BY <1>1, <1>2, <1>5, <2>1
  <2>3. Told(o.files) = Told(l.files)
    BY <1>1, <1>3, <2>1, <2>2, ToldOpens
  <2> QED BY <1>5, <2>1, <2>3 DEF o
<1> QED BY <1>4, <1>5 DEF OnTop

\* The first file there is, or those of earlier sessions and one more.
LEMMA OpenFirst ==
  ASSUME NEW l \in Logs, DOMAIN l.files = {}, l.lastfid = 0
  PROVE  LET o == Opened(l, l.lastfid)
         IN DOMAIN o.files = 0..l.lastfid /\ Told(o.files) = Told(l.files)
<1> DEFINE o == Opened(l, l.lastfid)
<1>1. DOMAIN o.files = {0} /\ o.files[0] = <<>>
  BY OpenedIs
<1> HIDE DEF o
<1>2. DOMAIN o.files = 0..0
  BY <1>1
<1>3. Told(o.files) = <<>> /\ Told(l.files) = <<>>
  BY <1>1, <1>2, ToldNone
<1> QED BY <1>2, <1>3 DEF o

\* What is written comes last in the files as they are read.
LEMMA WriteTells ==
  ASSUME NEW l, LogOK(l), OnTop(l), NEW e \in Event
  PROVE  OnTop(Write(l, e)) /\ Told(Write(l, e).files) = Append(Told(l.files), e)
<1> DEFINE a == [l EXCEPT !.files[l.cur] = Append(@, e)]
           r == Write(l, e)
<1>0. l \in Logs /\ l.cur \in DOMAIN l.files /\ l.files \in Filings /\ l.cur \in Nat /\ l.lastfid \in Nat
  BY DEF LogOK, Logs
<1>1. r = CheckSize(a)
  BY DEF Write
<1>2. /\ a \in Logs /\ a.cur = l.cur /\ a.lastfid = l.lastfid
      /\ DOMAIN a.files = DOMAIN l.files
      /\ \A g \in DOMAIN l.files : g # l.cur => a.files[g] = l.files[g]
      /\ a.files[l.cur] = Append(l.files[l.cur], e)
  BY <1>0, AppendedIs
<1> HIDE DEF a, r
<1>3. a.files \in Filings /\ a.cur \in DOMAIN a.files
  BY <1>0, <1>2 DEF Logs
<1>4. OnTop(a)
  BY <1>2 DEF OnTop
<1>5. Told(a.files) = Append(Told(l.files), e)
  <2>1. DOMAIN l.files = 0..l.cur /\ DOMAIN a.files = 0..l.cur
    BY <1>2 DEF OnTop
  <2>2. \A f \in 0..l.cur : f # l.cur => a.files[f] = l.files[f]
    BY <1>2, <2>1
  <2> QED BY <1>0, <1>2, <1>3, <2>1, <2>2, ToldGrows
<1>6. CASE r = a
  BY <1>4, <1>5, <1>6 DEF r
<1>7. CASE r # a
  <2>1. /\ r.files = Opened(a, a.lastfid).files /\ r.cur = a.lastfid /\ r.lastfid = a.lastfid + 1
    BY <1>1, <1>2, <1>3, <1>7, CheckSizeIs
  <2>2. /\ DOMAIN Opened(a, a.lastfid).files = 0..a.lastfid
        /\ Told(Opened(a, a.lastfid).files) = Told(a.files)
    BY <1>2, <1>4, OpenTells
  <2>3. OnTop(r)
    BY <2>1, <2>2 DEF OnTop
  <2> QED BY <1>5, <2>1, <2>2, <2>3 DEF r
<1> QED BY <1>6, <1>7
-----------------------------------------------------------------------------
\* The positions VolumeAt and JidOf look at.
Switches(w, k) == {i \in 1..k : w[i][1] = "SWITCH_VOLUME"}
Rupts(w, k, v) == {i \in 1..k : w[i][1] = "JOURNALRUPT" /\ VolumeAt(w, i) = v}

LEMMA LastOfIs ==
  ASSUME NEW n \in Nat, NEW E \in SUBSET (1..n)
  PROVE  /\ E = {} => LastOf(E) = 0
         /\ E # {} => LastOf(E) \in E /\ \A i \in E : i <= LastOf(E)
<1> DEFINE S == E \cup {0}
           x == CHOOSE x \in S : \A y \in S : x >= y
<1>1. \E j \in S : \A y \in S : j >= y
  <2>1. CASE E = {}
    BY <2>1
  <2>2. CASE E # {}
    <3>1. PICK j \in E : \A i \in E : i <= j
      BY <2>2, Greatest
    <3> QED BY <3>1
  <2> QED BY <2>1, <2>2
<1>2. LastOf(E) = x
  BY Zenon DEF LastOf, Max
<1>3. x \in S /\ \A y \in S : x >= y
  BY <1>1, Zenon
<1> HIDE DEF x
<1>4. CASE E = {}
  BY <1>2, <1>3, <1>4
<1>5. CASE E # {}
  <2>1. PICK y \in E : TRUE
    BY <1>5
  <2>2. y >= 1 /\ x >= y
    BY <1>3
  <2>3. x \in E
    BY <1>3, <2>2
  <2> QED BY <1>2, <1>3, <1>5, <2>3
<1> QED BY <1>4, <1>5

LEMMA VolumeAtIs ==
  ASSUME NEW w, NEW k
  PROVE  VolumeAt(w, k) = IF LastOf(Switches(w, k)) = 0 THEN NoVolume ELSE w[LastOf(Switches(w, k))][2]
BY Zenon DEF VolumeAt, Switches

LEMMA JidOfIs ==
  ASSUME NEW w, NEW k, NEW v
  PROVE  JidOf(w, k, v) = IF LastOf(Rupts(w, k, v)) = 0 THEN 0 ELSE w[LastOf(Rupts(w, k, v))][2]
BY Zenon DEF JidOf, Rupts

\* One event more is not seen from the positions before it.
LEMMA EarlierVolume ==
  ASSUME NEW n \in Nat, NEW a, NEW w, Agree(a, w, n), NEW k \in 0..n
  PROVE  VolumeAt(a, k) = VolumeAt(w, k)
<1>1. Switches(a, k) = Switches(w, k) /\ Switches(w, k) \in SUBSET (1..n) /\ k \in Nat
  BY DEF Switches, Agree
<1> DEFINE j == LastOf(Switches(w, k))
<1>2. j = 0 \/ j \in 1..n
  BY <1>1, LastOfIs
<1>3. j # 0 => a[j] = w[j]
  BY <1>2 DEF Agree
<1> QED BY <1>1, <1>3, VolumeAtIs, Zenon

LEMMA EarlierJid ==
  ASSUME NEW n \in Nat, NEW a, NEW w, Agree(a, w, n), NEW k \in 0..n, NEW v
  PROVE  JidOf(a, k, v) = JidOf(w, k, v)
<1>1. Rupts(a, k, v) = Rupts(w, k, v)
  <2>1. \A i \in 1..k : i \in 0..n /\ i \in 1..n /\ VolumeAt(a, i) = VolumeAt(w, i)
    BY EarlierVolume
  <2> QED BY <2>1 DEF Rupts, Agree
<1>2. Rupts(w, k, v) \in SUBSET (1..n)
  BY DEF Rupts
<1> DEFINE j == LastOf(Rupts(w, k, v))
<1>3. j = 0 \/ j \in 1..n
  BY <1>2, LastOfIs
<1>4. j # 0 => a[j] = w[j]
  BY <1>3 DEF Agree
<1> QED BY <1>1, <1>4, JidOfIs, Zenon

\* What an event at the end changes: the volume, or the journal of the volume.
LEMMA VolumeAppended ==
  ASSUME NEW n \in Nat, NEW a, NEW w, Agree(a, w, n)
  PROVE  VolumeAt(a, n + 1) = IF a[n + 1][1] = "SWITCH_VOLUME" THEN a[n + 1][2] ELSE VolumeAt(w, n)
<1>1. Switches(a, n + 1) \in SUBSET (1..n + 1) /\ n + 1 \in Nat
  BY DEF Switches
<1>2. CASE a[n + 1][1] = "SWITCH_VOLUME"
  <2>1. n + 1 \in Switches(a, n + 1)
    BY <1>2 DEF Switches
  <2>2. LastOf(Switches(a, n + 1)) = n + 1
    <3>1. LastOf(Switches(a, n + 1)) \in 1..n + 1 /\ n + 1 <= LastOf(Switches(a, n + 1))
      BY <1>1, <2>1, LastOfIs
    <3> QED BY <3>1
  <2>3. n + 1 # 0
    OBVIOUS
  <2> QED BY <1>2, <2>2, <2>3, VolumeAtIs, Zenon
<1>3. CASE a[n + 1][1] # "SWITCH_VOLUME"
  <2>1. Switches(a, n + 1) = Switches(a, n)
    BY <1>3 DEF Switches
  <2>2. VolumeAt(a, n + 1) = VolumeAt(a, n)
    BY <2>1, VolumeAtIs, Zenon
  <2>3. VolumeAt(a, n) = VolumeAt(w, n)
    BY EarlierVolume
  <2> QED BY <1>3, <2>2, <2>3
<1> QED BY <1>2, <1>3

\* The journal of v after one event more.
JidGoesOn(a, w, n, v) ==
  JidOf(a, n + 1, v) = IF a[n + 1][1] = "JOURNALRUPT" /\ VolumeAt(w, n) = v THEN a[n + 1][2]
                       ELSE JidOf(w, n, v)

LEMMA JidAppended ==
  ASSUME NEW n \in Nat, NEW a, NEW w, Agree(a, w, n), NEW v
  PROVE  JidGoesOn(a, w, n, v)
<1> USE DEF JidGoesOn
<1>0. a[n + 1][1] = "JOURNALRUPT" => VolumeAt(a, n + 1) = VolumeAt(w, n)
  BY VolumeAppended
<1>1. Rupts(a, n + 1, v) \in SUBSET (1..n + 1) /\ n + 1 \in Nat
  BY DEF Rupts
<1>2. CASE a[n + 1][1] = "JOURNALRUPT" /\ VolumeAt(w, n) = v
  <2>1. n + 1 \in Rupts(a, n + 1, v)
    BY <1>0, <1>2 DEF Rupts
  <2>2. LastOf(Rupts(a, n + 1, v)) = n + 1
    <3>1. LastOf(Rupts(a, n + 1, v)) \in 1..n + 1 /\ n + 1 <= LastOf(Rupts(a, n + 1, v))
      BY <1>1, <2>1, LastOfIs
    <3> QED BY <3>1
  <2>3. n + 1 # 0
    OBVIOUS
  <2> QED BY <1>2, <2>2, <2>3, JidOfIs, Zenon
<1>3. CASE ~(a[n + 1][1] = "JOURNALRUPT" /\ VolumeAt(w, n) = v)
  <2>1. Rupts(a, n + 1, v) = Rupts(a, n, v)
    BY <1>0, <1>3 DEF Rupts
  <2>2. JidOf(a, n + 1, v) = JidOf(a, n, v)
    BY <2>1, JidOfIs, Zenon
  <2>3. JidOf(a, n, v) = JidOf(w, n, v)
    BY EarlierJid
  <2> QED BY <1>3, <2>2, <2>3
<1> QED BY <1>2, <1>3

-----------------------------------------------------------------------------
\* What a reader makes of one event.
Entry(w, k) == <<VolumeAt(w, k), JidOf(w, k, VolumeAt(w, k)), w[k][2], w[k][3]>>
Entries(w, k) == IF w[k][1] = "USN_AND_RECORD" THEN <<Entry(w, k)>> ELSE <<>>

LEMMA ReadBackIs ==
  ASSUME NEW w
  PROVE  ReadBack(w) = FlattenSeq([k \in 1..Len(w) |-> Entries(w, k)])
BY Zenon DEF ReadBack, Entries, Entry

LEMMA ReadAppended ==
  ASSUME NEW w \in Seq(Event), NEW e \in Event
  PROVE  LET n == Len(w)
         IN ReadBack(Append(w, e)) =
              IF e[1] = "USN_AND_RECORD"
              THEN ReadBack(w) \o <<<<VolumeAt(w, n), JidOf(w, n, VolumeAt(w, n)), e[2], e[3]>>>>
              ELSE ReadBack(w)
<1> DEFINE n == Len(w)
           a == Append(w, e)
           s == [k \in 1..n |-> Entries(w, k)]
           t == [k \in 1..n + 1 |-> Entries(a, k)]
           S == {Entry(a, k) : k \in 1..n + 1}
<1>1. n \in Nat /\ Len(a) = n + 1 /\ a[n + 1] = e /\ Agree(a, w, n)
  BY DEF Agree
<1> HIDE DEF n, a
<1>2. ASSUME NEW k \in 1..n PROVE Entries(a, k) = Entries(w, k)
  <2>1. k \in 0..n /\ a[k] = w[k]
    BY <1>1 DEF Agree
  <2>2. VolumeAt(a, k) = VolumeAt(w, k)
    BY <1>1, <2>1, EarlierVolume
  <2>3. JidOf(a, k, VolumeAt(w, k)) = JidOf(w, k, VolumeAt(w, k))
    BY <1>1, <2>1, EarlierJid
  <2> QED BY <2>1, <2>2, <2>3 DEF Entries, Entry
<1>3. \A k \in 1..n + 1 : Entries(a, k) \in Seq(S)
  <2> TAKE k \in 1..n + 1
  <2>1. Entry(a, k) \in S
    OBVIOUS
  <2> HIDE DEF S
  <2>2. \A x \in S : <<x>> \in Seq(S)
    OBVIOUS
  <2>3. <<>> \in Seq(S)
    OBVIOUS
  <2> QED BY <2>1, <2>2, <2>3, Zenon DEF Entries
<1>4. s \in Seq(Seq(S))
  <2> HIDE DEF S
  <2>1. \A k \in 1..n : k \in 1..n + 1
    BY <1>1
  <2>2. \A k \in 1..n : Entries(w, k) \in Seq(S)
    BY <1>2, <1>3, <2>1
  <2> QED BY <1>1, <2>2
<1>5. t = Append(s, Entries(a, n + 1))
  <2>1. Len(s) = n /\ \A k \in 1..n : s[k] = Entries(a, k)
    BY <1>1, <1>2
  <2> QED BY <1>1, <1>4, <2>1
<1> HIDE DEF s, t, S
<1>6. n + 1 \in 1..n + 1
  BY <1>1
<1>7. FlattenSeq(s) \in Seq(S) /\ FlattenSeq(t) = FlattenSeq(s) \o Entries(a, n + 1)
  BY <1>3, <1>4, <1>5, <1>6, FlattenAppended
<1>8. ReadBack(w) = FlattenSeq(s) /\ ReadBack(a) = FlattenSeq(t)
  BY <1>1, ReadBackIs DEF s, t, n
<1>9. CASE e[1] = "USN_AND_RECORD"
  <2>1. e[1] # "SWITCH_VOLUME" /\ e[1] # "JOURNALRUPT"
    BY <1>9
  <2>2. VolumeAt(a, n + 1) = VolumeAt(w, n)
    BY <1>1, <2>1, VolumeAppended
  <2>3. JidOf(a, n + 1, VolumeAt(w, n)) = JidOf(w, n, VolumeAt(w, n))
    BY <1>1, <2>1, JidAppended DEF JidGoesOn
  <2>4. Entries(a, n + 1) = <<<<VolumeAt(w, n), JidOf(w, n, VolumeAt(w, n)), e[2], e[3]>>>>
    BY <1>1, <1>9, <2>2, <2>3 DEF Entries, Entry
  <2> QED BY <1>7, <1>8, <1>9, <2>4 DEF n, a
<1>10. CASE e[1] # "USN_AND_RECORD"
  <2>1. Entries(a, n + 1) = <<>>
    BY <1>1, <1>10 DEF Entries
  <2>2. FlattenSeq(s) \o <<>> = FlattenSeq(s)
    BY <1>7
  <2> QED BY <1>7, <1>8, <1>10, <2>1, <2>2 DEF n, a
<1> QED BY <1>9, <1>10

\* The collected buffers, as a reader is to find them.
Four(c) == [k \in 1..Len(c) |-> SubSeq(c[k], 1, 4)]

LEMMA FirstFour ==
  ASSUME NEW T, NEW b \in Seq(T), Len(b) = 5
  PROVE  SubSeq(b, 1, 4) = <<b[1], b[2], b[3], b[4]>>
<1>1. /\ Len(SubSeq(b, 1, 4)) = 4 /\ SubSeq(b, 1, 4) \in Seq(T)
      /\ \A i \in 1..4 : SubSeq(b, 1, 4)[i] = b[i]
  BY SubSeqProperties
<1>2. b[1] \in T /\ b[2] \in T /\ b[3] \in T /\ b[4] \in T
  BY ElementOfSeq
<1>3. <<b[1], b[2], b[3], b[4]>> \in Seq(T)
  BY <1>2
<1>4. /\ Len(<<b[1], b[2], b[3], b[4]>>) = 4
      /\ \A i \in 1..4 : <<b[1], b[2], b[3], b[4]>>[i] = b[i]
  OBVIOUS
<1> QED BY <1>1, <1>3, <1>4, SeqEqual, ZenonT(30)

LEMMA FourAppended ==
  ASSUME NEW c \in Seq(Buffer), NEW b \in Buffer
  PROVE  Four(Append(c, b)) = Four(c) \o <<<<b[1], b[2], b[3], b[4]>>>>
<1>1. SubSeq(b, 1, 4) = <<b[1], b[2], b[3], b[4]>>
  <2>1. PICK v, j, m, n, k : b = <<v, j, m, n, k>>
    <3>1. b = <<b[1], b[2], b[3], b[4], b[5]>>
      BY DEF Buffer
    <3> QED BY <3>1, Zenon
  <2>2. <<v, j, m, n, k>> \in Seq({v, j, m, n, k}) /\ Len(<<v, j, m, n, k>>) = 5
    OBVIOUS
  <2> QED BY <2>1, <2>2, FirstFour
<1> DEFINE q == <<b[1], b[2], b[3], b[4]>>
           a == Append(c, b)
           S == {SubSeq(a[k], 1, 4) : k \in 1..Len(c) + 1}
<1>2. Len(a) = Len(c) + 1 /\ Len(c) \in Nat /\ a[Len(c) + 1] = b /\ \A k \in 1..Len(c) : a[k] = c[k]
  OBVIOUS
<1> HIDE DEF a, q
<1>3. Four(a) = [k \in 1..Len(c) + 1 |-> IF k = Len(c) + 1 THEN q ELSE SubSeq(c[k], 1, 4)]
  BY <1>1, <1>2 DEF Four, q
<1>4. Four(c) \in Seq(S)
  BY <1>2 DEF Four
<1>5. Len(Four(c)) = Len(c) /\ \A k \in 1..Len(c) : Four(c)[k] = SubSeq(c[k], 1, 4)
  BY DEF Four
<1>6. Four(c) \o <<q>> = [k \in 1..Len(c) + 1 |-> IF k = Len(c) + 1 THEN q ELSE SubSeq(c[k], 1, 4)]
  <2>1. \A k \in 1..Len(c) + 1 : (IF k = Len(c) + 1 THEN q ELSE Four(c)[k])
                                  = (IF k = Len(c) + 1 THEN q ELSE SubSeq(c[k], 1, 4))
    <3> SUFFICES ASSUME NEW k \in 1..Len(c) + 1, k # Len(c) + 1
                 PROVE  Four(c)[k] = SubSeq(c[k], 1, 4)
      BY Zenon
    <3>1. k \in 1..Len(c)
      BY <1>2
    <3> QED BY <1>5, <3>1, Zenon
  <2>2. Four(c) \o <<q>> = [k \in 1..Len(c) + 1 |-> IF k = Len(c) + 1 THEN q ELSE Four(c)[k]]
    <3> HIDE DEF S
    <3>1. q \in {q} /\ <<q>> \in Seq({q}) /\ Len(<<q>>) = 1 /\ <<q>>[1] = q
      OBVIOUS
    <3> QED BY <1>2, <1>4, <1>5, <3>1
  <2> QED BY <2>1, <2>2
<1> QED BY <1>3, <1>6 DEF q, a

-----------------------------------------------------------------------------
\* The volume that comes next in the log, and the journal that v has so far.
VolumeOf(w) == VolumeAt(w, Len(w))
JidNow(w, v) == JidOf(w, Len(w), v)

\* How x is read, when it is w and one event more.
ReadsOn(x, w, e) ==
  /\ VolumeOf(x) = IF e[1] = "SWITCH_VOLUME" THEN e[2] ELSE VolumeOf(w)
  /\ \A v : JidNow(x, v) = IF e[1] = "JOURNALRUPT" /\ VolumeOf(w) = v THEN e[2] ELSE JidNow(w, v)
  /\ ReadBack(x) = IF e[1] = "USN_AND_RECORD"
                   THEN ReadBack(w) \o <<<<VolumeOf(w), JidNow(w, VolumeOf(w)), e[2], e[3]>>>>
                   ELSE ReadBack(w)

LEMMA EventRead ==
  ASSUME NEW w \in Seq(Event), NEW e \in Event, NEW x, x = Append(w, e)
  PROVE  ReadsOn(x, w, e)
<1> DEFINE n == Len(w)
<1>1. n \in Nat /\ Len(x) = n + 1 /\ x[n + 1] = e
  OBVIOUS
<1>2. Agree(x, w, n)
  BY DEF Agree
<1>3. /\ VolumeOf(x) = VolumeAt(x, n + 1) /\ VolumeOf(w) = VolumeAt(w, n)
      /\ \A v : JidNow(x, v) = JidOf(x, n + 1, v) /\ JidNow(w, v) = JidOf(w, n, v)
  BY <1>1, Zenon DEF VolumeOf, JidNow
<1>4. ReadBack(x) = IF e[1] = "USN_AND_RECORD"
                    THEN ReadBack(w) \o <<<<VolumeOf(w), JidNow(w, VolumeOf(w)), e[2], e[3]>>>>
                    ELSE ReadBack(w)
  BY ReadAppended DEF JidNow, VolumeOf
<1> HIDE DEF n
<1>5. VolumeOf(x) = IF e[1] = "SWITCH_VOLUME" THEN e[2] ELSE VolumeOf(w)
  BY <1>1, <1>2, <1>3, VolumeAppended
<1>6. ASSUME NEW v
      PROVE  JidNow(x, v) = IF e[1] = "JOURNALRUPT" /\ VolumeOf(w) = v THEN e[2] ELSE JidNow(w, v)
  <2>1. JidGoesOn(x, w, n, v)
    BY <1>1, <1>2, JidAppended, Zenon
  <2> QED BY <1>1, <1>3, <2>1 DEF JidGoesOn
<1> QED BY <1>4, <1>5, <1>6 DEF ReadsOn

\* A log that is open, last in order, and knows the volume it was switched to.
OpenLog(l) ==
  /\ LogOK(l) /\ OnTop(l)
  /\ l.uuid = NoVolume \/ l.uuid = VolumeOf(Told(l.files))

LEMMA OpenLogTold ==
  ASSUME NEW l, LogOK(l), OnTop(l)
  PROVE  Told(l.files) \in Seq(Event)
<1>1. l.cur \in Nat /\ l.files \in Filings /\ DOMAIN l.files = 0..l.cur
  BY DEF LogOK, Logs, OnTop
<1> QED BY <1>1, ToldIs

\* What is written is the last thing told, and the current volume stays.
LEMMA Writes ==
  ASSUME NEW l, LogOK(l), OnTop(l), NEW e \in Event
  PROVE  LET r == Write(l, e)
         IN LogOK(r) /\ OnTop(r) /\ r.uuid = l.uuid /\ Told(r.files) = Append(Told(l.files), e)
BY WriteIs, WriteTells

LEMMA UuidTold ==
  ASSUME NEW l, LogOK(l), OnTop(l), NEW v \in Volumes, v = l.uuid => OpenLog(l)
  PROVE  LET r == EvUuid(l, v)
         IN /\ OpenLog(r) /\ r.uuid = v /\ VolumeOf(Told(r.files)) = v
            /\ ReadBack(Told(r.files)) = ReadBack(Told(l.files))
            /\ \A u : JidNow(Told(r.files), u) = JidNow(Told(l.files), u)
<1> DEFINE r == EvUuid(l, v)
           w == Told(l.files)
           e == <<"SWITCH_VOLUME", v>>
           k == [l EXCEPT !.uuid = v]
<1>0. v # NoVolume /\ v \in 0..N
  BY LogAssumption DEF Volumes, NoVolume
<1>1. CASE v = l.uuid
  <2>1. r = l
    BY <1>1 DEF EvUuid
  <2> QED BY <1>0, <1>1, <2>1 DEF OpenLog
<1>2. CASE v # l.uuid
  <2>1. r = Write(k, e)
    BY <1>2 DEF EvUuid
  <2>2. e \in Event /\ e[1] = "SWITCH_VOLUME" /\ e[2] = v
    BY <1>0, LogAssumption DEF Event
  <2>3. /\ k \in Logs /\ k.files = l.files /\ k.cur = l.cur /\ k.flushed = l.flushed
        /\ k.lastfid = l.lastfid /\ k.uuid = v
    BY <1>0 DEF LogOK, Logs
  <2>4. w \in Seq(Event)
    BY OpenLogTold
  <2> HIDE DEF k, e, r
  <2>5. LogOK(k) /\ OnTop(k)
    BY <2>3 DEF LogOK, OnTop
  <2>6. LogOK(r) /\ OnTop(r) /\ r.uuid = v /\ Told(r.files) = Append(w, e)
    BY <2>1, <2>2, <2>3, <2>5, Writes
  <2> DEFINE x == Told(r.files)
  <2> HIDE DEF w, x
  <2>20. x = Append(w, e)
    BY <2>6 DEF x
  <2>21. ReadsOn(x, w, e)
    BY <2>2, <2>4, <2>20, EventRead, Zenon
  <2>7. /\ VolumeOf(x) = v /\ ReadBack(x) = ReadBack(w) /\ \A u : JidNow(x, u) = JidNow(w, u)
    BY <2>2, <2>21 DEF ReadsOn
  <2>8. OpenLog(r)
    BY <2>6, <2>7 DEF OpenLog, x
  <2> QED BY <2>6, <2>7, <2>8 DEF x, w, r
<1> QED BY <1>1, <1>2

LEMMA JidTold ==
  ASSUME NEW l, OpenLog(l), NEW v \in Volumes, l.uuid = v, VolumeOf(Told(l.files)) = v, NEW j \in Nat
  PROVE  LET r == EvJid(l, j)
         IN /\ OpenLog(r)
            /\ ReadBack(Told(r.files)) = ReadBack(Told(l.files))
            /\ \A u : JidNow(Told(r.files), u) = IF u = v THEN j ELSE JidNow(Told(l.files), u)
<1> DEFINE r == EvJid(l, j)
           w == Told(l.files)
           e == <<"JOURNALRUPT", j>>
           x == Told(r.files)
<1>1. r = Write(l, e)
  BY DEF EvJid
<1>2. e \in Event /\ e[1] = "JOURNALRUPT" /\ e[2] = j
  BY DEF Event
<1>3. w \in Seq(Event)
  BY OpenLogTold DEF OpenLog
<1> HIDE DEF e, r
<1>4. LogOK(r) /\ OnTop(r) /\ r.uuid = v /\ Told(r.files) = Append(w, e)
  BY <1>1, <1>2, Writes DEF OpenLog
<1> HIDE DEF w, x
<1>20. x = Append(w, e)
  BY <1>4 DEF x
<1>21. ReadsOn(x, w, e)
  BY <1>2, <1>3, <1>20, EventRead, Zenon
<1>5. /\ VolumeOf(x) = VolumeOf(w) /\ ReadBack(x) = ReadBack(w)
      /\ \A u : JidNow(x, u) = IF VolumeOf(w) = u THEN j ELSE JidNow(w, u)
  BY <1>2, <1>21 DEF ReadsOn
<1>6. VolumeOf(w) = v
  BY DEF w
<1>7. OpenLog(r)
  BY <1>4, <1>5, <1>6 DEF OpenLog, x
<1>8. \A u : JidNow(x, u) = IF u = v THEN j ELSE JidNow(w, u)
  BY <1>5, <1>6
<1> QED BY <1>5, <1>7, <1>8 DEF x, w, r

LEMMA RecordsTold ==
  ASSUME NEW l, OpenLog(l), NEW v \in Volumes, l.uuid = v, VolumeOf(Told(l.files)) = v,
         NEW m \in Nat, NEW n \in Nat
  PROVE  LET r == EvUsnRecords(l, m, n)
             w == Told(l.files)
         IN /\ OpenLog(r)
            /\ ReadBack(Told(r.files)) = ReadBack(w) \o <<<<v, JidNow(w, v), m, n>>>>
            /\ \A u : JidNow(Told(r.files), u) = JidNow(w, u)
<1> DEFINE r == EvUsnRecords(l, m, n)
           w == Told(l.files)
           e == <<"USN_AND_RECORD", m, n>>
           x == Told(r.files)
<1>1. r = Write(l, e)
  BY DEF EvUsnRecords
<1>2. e \in Event /\ e[1] = "USN_AND_RECORD" /\ e[2] = m /\ e[3] = n
  BY DEF Event
<1>3. w \in Seq(Event)
  BY OpenLogTold DEF OpenLog
<1> HIDE DEF e, r
<1>4. LogOK(r) /\ OnTop(r) /\ r.uuid = v /\ Told(r.files) = Append(w, e)
  BY <1>1, <1>2, Writes DEF OpenLog
<1>5. VolumeOf(w) = v
  OBVIOUS
<1> HIDE DEF w, x
<1>20. x = Append(w, e)
  BY <1>4 DEF x
<1>21. ReadsOn(x, w, e)
  BY <1>2, <1>3, <1>20, EventRead, Zenon
<1>6. /\ VolumeOf(x) = VolumeOf(w) /\ ReadBack(x) = ReadBack(w) \o <<<<VolumeOf(w), JidNow(w, VolumeOf(w)), m, n>>>>
      /\ \A u : JidNow(x, u) = JidNow(w, u)
  BY <1>2, <1>21 DEF ReadsOn
<1>7. OpenLog(r)
  BY <1>4, <1>5, <1>6 DEF OpenLog, x
<1> QED BY <1>5, <1>6, <1>7 DEF x, w, r

-----------------------------------------------------------------------------
Tracing == tracer \in {"opening", "waiting"}

\* Reads are under way only on enabled volumes, whose journals have been announced.
Announced ==
  /\ Tracing => \A v \in Volumes : v < todo /\ status[v] = "enabled" => seen[v] = jid[v]
  /\ tracer \in {"opening", "waiting", "ended"} =>
       \A v \in Volumes : v < todo /\ v \in raw => status[v] = "disabled"
  /\ tracer \in {"waiting", "ended"} => todo > N
  /\ main = "saving" => tracer = "ended"
  /\ \A v \in Volumes : io[v] # "idle" => status[v] = "enabled" /\ tracer = "waiting"

LEMMA AnnouncedInit == Init => Announced
BY DEF Init, Announced, Tracing, All

LEMMA AnnouncedStep == Inv /\ Announced /\ [Next]_vars => Announced'
<1> SUFFICES ASSUME Inv, Announced, [Next]_vars PROVE Announced'
  OBVIOUS
<1>0. /\ N \in Nat /\ todo \in 0..N + 1
      /\ main = "off" => tracer = "none" /\ \A v \in Volumes : io[v] = "idle"
  BY LogAssumption DEF Inv, Placed, All
<1>1. ASSUME UNCHANGED <<tracer, todo, status, seen, raw, jid, io>>, main' = "saving" => tracer = "ended"
      PROVE  Announced'
  BY <1>1 DEF Announced, Tracing
<1>2. CASE DaemonInit
  BY <1>0, <1>2 DEF DaemonInit, Announced, Tracing, ioVars, Inv, Placed, All
<1>3. CASE OpenHandles
  BY <1>3 DEF OpenHandles, Announced, Tracing, Volumes, ioVars
<1>4. CASE InitOpened
  <2>1. /\ tracer = "opening" /\ tracer' = "opening" /\ todo <= N /\ todo' = todo + 1
        /\ UNCHANGED <<io, jid, main>>
    BY <1>4 DEF InitOpened, ioVars, diskVars
  <2>2. todo \in Volumes
    BY <1>0, <2>1 DEF Volumes, Inv, Placed
  <2>3. \/ status' = [status EXCEPT ![todo] = "disabled"] /\ seen' = seen /\ raw' = raw
        \/ /\ status' = [status EXCEPT ![todo] = "enabled"] /\ seen' = [seen EXCEPT ![todo] = jid[todo]]
           /\ raw' \subseteq raw \ {todo}
    BY <1>4 DEF InitOpened, PassOver, Announce
  <2>4. \A v \in Volumes : v # todo => status'[v] = status[v] /\ seen'[v] = seen[v] /\ (v \in raw' => v \in raw)
    BY <2>3 DEF Inv, Remembered, Statuses, Jids
  <2>5. /\ status'[todo] = "enabled" => seen'[todo] = jid[todo]
        /\ todo \in raw' => status'[todo] = "disabled"
    BY <2>2, <2>3 DEF Inv, Remembered, Statuses, Jids
  <2>6. \A v \in Volumes : v < todo + 1 => v = todo \/ v < todo
    BY <1>0, <2>1 DEF Volumes
  <2>7. \A v \in Volumes : io[v] = "idle"
    BY <2>1 DEF Announced
  <2> QED BY <2>1, <2>4, <2>5, <2>6, <2>7 DEF Announced, Tracing
<1>5. CASE ReadAll
  <2>1. /\ tracer = "opening" /\ tracer' = "waiting" /\ todo > N /\ todo' = todo
        /\ io' = [v \in Volumes |-> IF status[v] = "enabled" THEN "reading" ELSE "idle"]
        /\ UNCHANGED <<status, seen, raw, jid, main>>
    BY <1>5 DEF ReadAll, memVars, diskVars
  <2> QED BY <2>1 DEF Announced, Tracing
<1>6. ASSUME NEW v \in Volumes, Collect(v) PROVE Announced'
  <2>1. /\ tracer = "waiting" /\ io[v] = "done" /\ io' = [io EXCEPT ![v] = "reading"]
        /\ raw' = raw \ {0} /\ UNCHANGED <<tracer, todo, status, seen, jid, main>>
    BY <1>6 DEF Collect, Signalled, LogBuffer, threadVars, diskVars
  <2> QED BY <2>1 DEF Announced, Tracing, Inv, Placed
<1>7. CASE ToldToExit
  BY <1>7 DEF ToldToExit, Announced, Tracing, memVars, diskVars, All
<1>8. CASE TellExit \/ OpenConf
  BY <1>1, <1>8 DEF TellExit, OpenConf, Announced, memVars, ioVars, diskVars
<1>9. CASE Gone
  BY <1>9 DEF Gone, Announced, Tracing, All
<1>10. CASE Save \/ \E kept \in 0..(IF cur \in DOMAIN files THEN Len(files[cur]) ELSE 0) : Crash(kept)
  BY <1>9, <1>10 DEF Save, Crash
<1>11. ASSUME NEW v \in Volumes, Record(v) PROVE Announced'
  BY <1>1, <1>11 DEF Record, Announced, memVars, threadVars, ioVars
<1>12. ASSUME NEW v \in Volumes, Recreate(v) PROVE Announced'
  <2>1. main = "off" /\ UNCHANGED <<main, tracer, todo, status, seen, raw, io>>
    BY <1>12 DEF Recreate, memVars, threadVars, ioVars
  <2> QED BY <1>0, <2>1 DEF Announced, Tracing, Inv, Placed
<1>13. ASSUME NEW v \in Volumes, NEW to \in 0..MaxRecords, ReadCompletes(v, to) PROVE Announced'
  <2>1. /\ io[v] = "reading" /\ io' = [io EXCEPT ![v] = "done"] /\ UNCHANGED <<main, tracer, todo, status, seen, raw, jid>>
    BY <1>13 DEF ReadCompletes, memVars, threadVars, diskVars
  <2> QED BY <2>1 DEF Announced, Tracing, Inv, Placed
<1>14. CASE UNCHANGED vars
  BY <1>1, <1>14 DEF vars, Announced, memVars, threadVars, ioVars, diskVars
<1> QED BY <1>2, <1>3, <1>4, <1>5, <1>6, <1>7, <1>8, <1>10, <1>11, <1>12, <1>13, <1>14 DEF Next, Tracer
-----------------------------------------------------------------------------
\* Without a crash the files are numbered without a gap and the next to be opened is
\* the last of them or the one after it; an open log is the last, and knows its
\* volume unless nothing has been written since it was opened.
InOrder ==
  /\ \/ DOMAIN files = {} /\ NextFile = 0
     \/ \E m \in Nat : DOMAIN files = 0..m /\ (NextFile = m \/ NextFile = m + 1)
  /\ Tracing => LogOK(Log) /\ OnTop(Log) /\ (0 \in raw \/ OpenLog(Log))

\* The journal that records.conf, or memory, has for v is the one announced: it is
\* one that was read in this session or an earlier one.
Certain(v) ==
  IF main = "off" THEN conf # Blank /\ conf.status[v] # "disabled"
  ELSE v \notin raw /\ status[v] # "disabled"

SeenOf(v) == IF main = "off" THEN conf.seen[v] ELSE seen[v]

\* The files tell what was collected, and of each volume the last journal seen.
Recorded ==
  /\ ReadBack(Told(files)) = Four(collected)
  /\ \A v \in Volumes : Certain(v) => JidNow(Told(files), v) = SeenOf(v)

Faithful == crashes = 0 /\ ~misled => InOrder /\ Recorded

LEMMA NothingRead ==
  /\ ReadBack(<<>>) = <<>>
  /\ \A v : JidNow(<<>>, v) = 0
<1>1. ReadBack(<<>>) = <<>>
  <2>1. [k \in 1..Len(<<>>) |-> Entries(<<>>, k)] = <<>>
    OBVIOUS
  <2>2. FlattenSeq(<<>>) = <<>>
    BY DEF FlattenSeq
  <2> QED BY <2>1, <2>2, ReadBackIs
<1>2. ASSUME NEW v PROVE JidNow(<<>>, v) = 0
  <2>1. Rupts(<<>>, 0, v) = {} /\ Len(<<>>) = 0
    BY DEF Rupts
  <2>2. LastOf({}) = 0
    BY LastOfIs
  <2> QED BY <2>1, <2>2, JidOfIs, Zenon DEF JidNow
<1> QED BY <1>1, <1>2

LEMMA FaithfulInit == Init => Faithful
<1> SUFFICES ASSUME Init PROVE Faithful
  OBVIOUS
<1>1. DOMAIN files = {} /\ conf = Blank /\ main = "off" /\ tracer = "none" /\ collected = <<>>
  BY DEF Init
<1>2. Told(files) = <<>>
  BY <1>1, ToldNone
<1>3. InOrder
  BY <1>1, BlankOK DEF InOrder, NextFile, Tracing
<1>4. Four(collected) = <<>>
  BY <1>1 DEF Four
<1>5. \A v \in Volumes : ~Certain(v)
  BY <1>1 DEF Certain
<1>6. Recorded
  BY <1>2, <1>4, <1>5, NothingRead DEF Recorded
<1> QED BY <1>3, <1>6 DEF Faithful

\* What a handler leaves in a log that stays open is in order, and told.
LEMMA LogTold ==
  ASSUME NEW l, LogOK(l), OnTop(l), 0 \in raw' \/ OpenLog(l), SetLog(l), main' # "off"
  PROVE  InOrder' /\ files' = l.files
<1>1. l \in Logs /\ l.cur \in Nat /\ OnTop(l)
  BY DEF LogOK, Logs
<1>2. /\ files' = l.files /\ cur' = l.cur /\ flushed' = l.flushed /\ lastfid' = l.lastfid /\ uuid' = l.uuid
  BY DEF SetLog
<1>3. Log' = l
  BY <1>1, <1>2 DEF Log, Logs
<1>4. NextFile' = l.lastfid
  BY <1>2 DEF NextFile
<1>5. \E m \in Nat : DOMAIN files' = 0..m /\ (NextFile' = m \/ NextFile' = m + 1)
  BY <1>1, <1>2, <1>4 DEF OnTop
<1> QED BY <1>2, <1>3, <1>5 DEF InOrder

\* The files are left as they are, and the log too while it is open.
LEMMA LogStays ==
  ASSUME InOrder, UNCHANGED files, NextFile' = NextFile,
         Tracing' => Tracing /\ Log' = Log /\ (0 \in raw => 0 \in raw')
  PROVE  InOrder'
BY DEF InOrder

LEMMA RecordedStays ==
  ASSUME Recorded, UNCHANGED <<files, collected>>,
         \A v \in Volumes : Certain(v)' => Certain(v) /\ SeenOf(v)' = SeenOf(v)
  PROVE  Recorded'
<1>1. \A v \in Volumes : Certain(v)' => JidNow(Told(files), v) = SeenOf(v)'
  BY DEF Recorded
<1>2. ReadBack(Told(files)) = Four(collected)
  BY DEF Recorded
<1> QED BY <1>1, <1>2 DEF Recorded

\* The first file of a process is the last one, or the one after it.
LEMMA OpenFaithful ==
  ASSUME Inv, InOrder, Recorded, OpenHandles
  PROVE  InOrder' /\ Recorded'
<1>1. tracer = "starting" /\ raw' = raw \cup {0} /\ UNCHANGED <<conf, status, seen, main, historyVars>>
  BY DEF OpenHandles
<1>2. main # "off" /\ main' # "off"
  BY <1>1 DEF Inv, Placed
<1>3. PICK g \in FreshUuid : SetLog([Opened(Log, lastfid) EXCEPT !.uuid = g])
  BY Zenon DEF OpenHandles
<1>4. Log \in Logs /\ Log.files = files /\ Log.lastfid = lastfid /\ lastfid \in Nat /\ files \in Filings
      /\ flushed \in Nat /\ uuid \in 0..N
  BY DEF Log, Logs, Inv, Filed
<1> DEFINE o == Opened(Log, lastfid)
           l == [o EXCEPT !.uuid = g]
<1>5. /\ o \in Logs /\ o.cur = lastfid /\ o.lastfid = lastfid /\ DOMAIN o.files = DOMAIN files \cup {lastfid}
      /\ \A f \in DOMAIN files : o.files[f] = files[f]
      /\ lastfid \notin DOMAIN files => o.files[lastfid] = <<>>
      /\ o.flushed = Len(o.files[lastfid])
  BY <1>4, OpenedIs
<1>6. DOMAIN o.files = 0..lastfid /\ Told(o.files) = Told(files)
  <2>1. CASE DOMAIN files = {} /\ lastfid = 0
    BY <1>4, <2>1, OpenFirst
  <2>2. CASE DOMAIN files # {} \/ lastfid # 0
    <3>1. PICK m \in Nat : DOMAIN files = 0..m /\ (lastfid = m \/ lastfid = m + 1)
      BY <1>2, <2>2 DEF InOrder, NextFile
    <3> DEFINE k == [files |-> files, cur |-> m, flushed |-> flushed, lastfid |-> lastfid, uuid |-> uuid]
               p == Opened(k, lastfid)
    <3>2. k \in Logs /\ k.files = files /\ k.lastfid = lastfid /\ k.cur = m
      BY <1>4 DEF Logs
    <3> HIDE DEF k
    <3>3. OnTop(k)
      BY <3>1, <3>2 DEF OnTop
    <3>4. DOMAIN p.files = 0..lastfid /\ Told(p.files) = Told(files)
      BY <3>2, <3>3, OpenTells
    <3>5. /\ p \in Logs /\ DOMAIN p.files = DOMAIN files \cup {lastfid}
          /\ \A f \in DOMAIN files : p.files[f] = files[f]
          /\ lastfid \notin DOMAIN files => p.files[lastfid] = <<>>
      BY <1>4, <3>2, OpenedIs
    <3> HIDE DEF p, o
    <3>6. /\ o.files = [f \in DOMAIN o.files |-> o.files[f]] /\ p.files = [f \in DOMAIN p.files |-> p.files[f]]
      <4>1. o.files \in Filings /\ p.files \in Filings
        BY <1>5, <3>5 DEF Logs
      <4> QED BY <4>1, FilingIs
    <3>7. DOMAIN o.files = DOMAIN p.files /\ \A f \in DOMAIN p.files : o.files[f] = p.files[f]
      BY <1>5, <3>5
    <3>8. o.files = p.files
      BY <3>6, <3>7, Zenon
    <3> QED BY <3>4, <3>8 DEF o
  <2> QED BY <2>1, <2>2
<1> HIDE DEF o
<1>7. /\ l \in Logs /\ l.files = o.files /\ l.cur = o.cur /\ l.flushed = o.flushed
      /\ l.lastfid = o.lastfid
  BY <1>3, <1>5, LogAssumption DEF Logs
<1> HIDE DEF l
<1>8. LogOK(l) /\ OnTop(l)
  <2>1. LogOK(l)
    <3>1. l.flushed \in Nat
      BY <1>7 DEF Logs
    <3> QED BY <1>5, <1>7, <3>1 DEF LogOK
  <2>2. OnTop(l)
    BY <1>5, <1>6, <1>7 DEF OnTop
  <2> QED BY <2>1, <2>2
<1>9. InOrder' /\ files' = o.files
  BY <1>1, <1>2, <1>3, <1>7, <1>8, LogTold DEF l, o
<1>10. ReadBack(Told(files')) = Four(collected')
  BY <1>1, <1>6, <1>9 DEF Recorded, historyVars
<1>11. \A v \in Volumes : Certain(v)' => JidNow(Told(files'), v) = SeenOf(v)'
  <2>1. \A v \in Volumes : Certain(v)' => Certain(v) /\ SeenOf(v)' = SeenOf(v)
    BY <1>1, <1>2 DEF Certain, SeenOf
  <2> QED BY <1>6, <1>9, <2>1 DEF Recorded
<1> QED BY <1>9, <1>10, <1>11 DEF Recorded

\* A volume whose journal is not the one last seen is announced in the log.
LEMMA AnnounceFaithful ==
  ASSUME Inv, InOrder, Recorded, InitOpened, ~misled'
  PROVE  InOrder' /\ Recorded'
<1>1. /\ tracer = "opening" /\ todo <= N /\ UNCHANGED <<conf, main, tracer, collected>>
  BY DEF InitOpened
<1>2. main # "off" /\ main' # "off" /\ todo \in Volumes
  BY <1>1, LogAssumption DEF Inv, Placed, Volumes
<1>3. LogOK(Log) /\ OnTop(Log) /\ (0 \in raw \/ OpenLog(Log)) /\ Log.files = files /\ Log.uuid = uuid
  BY <1>1 DEF InOrder, Tracing, Log
<1>4. \A v \in Volumes : v \notin raw /\ status[v] # "disabled" => JidNow(Told(files), v) = seen[v]
  BY <1>2 DEF Recorded, Certain, SeenOf
<1>5. ReadBack(Told(files)) = Four(collected)
  BY DEF Recorded
<1>6. CASE PassOver
  <2>1. InOrder'
    BY <1>1, <1>6, LogStays DEF PassOver, logVars, NextFile, Tracing, Log
  <2>2. \A v \in Volumes : Certain(v)' => Certain(v) /\ SeenOf(v)' = SeenOf(v)
    BY <1>1, <1>2, <1>6 DEF PassOver, Certain, SeenOf, Inv, Remembered, Statuses
  <2>3. Recorded'
    BY <1>1, <1>6, <2>2, RecordedStays DEF PassOver, logVars
  <2> QED BY <2>1, <2>3
<1>7. CASE /\ status[todo] # "disabled" /\ todo \notin raw /\ raw' = raw \ {todo}
           /\ status' = [status EXCEPT ![todo] = "enabled"]
           /\ UNCHANGED logVars /\ seen' = [seen EXCEPT ![todo] = jid[todo]] /\ seen[todo] = jid[todo]
  <2>1. InOrder'
    BY <1>1, <1>7, LogStays DEF logVars, NextFile, Tracing, Log
  <2>2. \A v \in Volumes : seen'[v] = seen[v] /\ (status'[v] # "disabled" => status[v] # "disabled")
    BY <1>7 DEF Inv, Remembered, Jids, Statuses
  <2>3. \A v \in Volumes : Certain(v)' => Certain(v) /\ SeenOf(v)' = SeenOf(v)
    BY <1>2, <1>7, <2>2 DEF Certain, SeenOf
  <2>4. Recorded'
    BY <1>1, <1>7, <2>3, RecordedStays DEF logVars
  <2> QED BY <2>1, <2>4
<1>8. CASE /\ SetLog(EvJid(EvUuid(Log, todo), jid[todo]))
           /\ seen' = [seen EXCEPT ![todo] = jid[todo]]
           /\ status' = [status EXCEPT ![todo] = "enabled"]
           /\ raw' = raw \ {0, todo} /\ ~(0 \in raw /\ uuid = todo)
  <2> DEFINE k == EvUuid(Log, todo)
             l == EvJid(k, jid[todo])
  <2>1. /\ OpenLog(k) /\ k.uuid = todo /\ VolumeOf(Told(k.files)) = todo
        /\ ReadBack(Told(k.files)) = ReadBack(Told(files))
        /\ \A u : JidNow(Told(k.files), u) = JidNow(Told(files), u)
    <3>1. todo = Log.uuid => OpenLog(Log)
      BY <1>3, <1>8
    <3> QED BY <1>2, <1>3, <3>1, UuidTold
  <2>2. jid[todo] \in Nat
    BY <1>2, LogAssumption DEF Inv, Read
  <2> HIDE DEF k
  <2>3. /\ OpenLog(l) /\ ReadBack(Told(l.files)) = ReadBack(Told(k.files))
        /\ \A u : JidNow(Told(l.files), u) = IF u = todo THEN jid[todo] ELSE JidNow(Told(k.files), u)
    BY <1>2, <2>1, <2>2, JidTold
  <2> HIDE DEF l
  <2>4. InOrder' /\ files' = l.files
    <3>1. LogOK(l) /\ OnTop(l)
      BY <2>3 DEF OpenLog
    <3> QED BY <1>2, <1>8, <2>3, <3>1, LogTold DEF k, l
  <2>5. ReadBack(Told(files')) = Four(collected')
    BY <1>1, <1>5, <2>1, <2>3, <2>4
  <2>6. ASSUME NEW v \in Volumes, Certain(v)' PROVE JidNow(Told(files'), v) = seen'[v]
    <3>0. v = todo \/ (v \notin raw /\ status[v] # "disabled")
      BY <1>2, <1>8, <2>6, LogAssumption DEF Certain, Inv, Remembered, Statuses, Volumes
    <3>1. seen'[v] = IF v = todo THEN jid[todo] ELSE seen[v]
      BY <1>8 DEF Inv, Remembered, Jids
    <3>2. JidNow(Told(l.files), v) = IF v = todo THEN jid[todo] ELSE seen[v]
      BY <1>4, <2>1, <2>3, <3>0
    <3> QED BY <2>4, <3>1, <3>2
  <2> QED BY <1>2, <2>4, <2>5, <2>6 DEF Recorded, SeenOf
<1>9. CASE Announce
  <2>1. \/ /\ seen[todo] = jid[todo] /\ raw' = raw \ {todo} /\ misled' = (misled \/ todo \in raw)
           /\ UNCHANGED logVars
        \/ /\ raw' = raw \ {0, todo} /\ misled' = (misled \/ (0 \in raw /\ uuid = todo))
           /\ SetLog(EvJid(EvUuid(Log, todo), jid[todo]))
    BY <1>9 DEF Announce
  <2>2. /\ status[todo] # "disabled" /\ status' = [status EXCEPT ![todo] = "enabled"]
        /\ seen' = [seen EXCEPT ![todo] = jid[todo]]
    BY <1>9 DEF Announce
  <2> QED BY <1>7, <1>8, <2>1, <2>2
<1> QED BY <1>6, <1>9 DEF InitOpened

\* A buffer is written after the events that say where it is from.
LEMMA CollectFaithful ==
  ASSUME Inv, Announced, Chained, InOrder, Recorded, NEW v \in Volumes, Collect(v), ~misled'
  PROVE  InOrder' /\ Recorded'
<1> DEFINE b == <<v, jid[v], start[v], stop[v], sessions>>
           k == EvUuid(Log, v)
           l == EvUsnRecords(k, start[v], stop[v])
<1>1. /\ tracer = "waiting" /\ io[v] = "done" /\ SetLog(l) /\ collected' = Append(collected, b)
      /\ raw' = raw \ {0} /\ ~(0 \in raw /\ uuid = v)
      /\ UNCHANGED <<conf, status, seen, threadVars>>
  BY DEF Collect, Signalled, LogBuffer
<1>2. /\ main # "off" /\ main' # "off" /\ start[v] \in Nat /\ stop[v] \in Nat /\ jid[v] \in 1..MaxJid
      /\ sessions \in Nat
  BY <1>1 DEF Inv, Placed, Read, threadVars
<1>3. LogOK(Log) /\ OnTop(Log) /\ (v = Log.uuid => OpenLog(Log)) /\ Log.files = files
  BY <1>1 DEF InOrder, Tracing, Log
<1>4. \A u \in Volumes : u \notin raw /\ status[u] # "disabled" => JidNow(Told(files), u) = seen[u]
  BY <1>2 DEF Recorded, Certain, SeenOf
<1>5. ReadBack(Told(files)) = Four(collected)
  BY DEF Recorded
<1>6. seen[v] = jid[v] /\ v \notin raw /\ status[v] = "enabled"
  <2>1. v < todo
    BY <1>1, LogAssumption DEF Announced, Volumes, Inv, Placed
  <2> QED BY <1>1, <2>1 DEF Announced, Tracing
<1>7. b \in Buffer /\ b[1] = v /\ b[2] = jid[v] /\ b[3] = start[v] /\ b[4] = stop[v]
  BY <1>2 DEF Buffer
<1> HIDE DEF b
<1>8. /\ OpenLog(k) /\ k.uuid = v /\ VolumeOf(Told(k.files)) = v
      /\ ReadBack(Told(k.files)) = ReadBack(Told(files))
      /\ \A u : JidNow(Told(k.files), u) = JidNow(Told(files), u)
  BY <1>3, UuidTold
<1> HIDE DEF k
<1>9. /\ OpenLog(l)
      /\ ReadBack(Told(l.files)) = ReadBack(Told(k.files)) \o <<<<v, JidNow(Told(k.files), v), start[v], stop[v]>>>>
      /\ \A u : JidNow(Told(l.files), u) = JidNow(Told(k.files), u)
  BY <1>2, <1>8, RecordsTold
<1> HIDE DEF l
<1>10. InOrder' /\ files' = l.files
  <2>1. LogOK(l) /\ OnTop(l)
    BY <1>9 DEF OpenLog
  <2> QED BY <1>1, <1>2, <1>9, <2>1, LogTold
<1>11. ReadBack(Told(files')) = Four(collected')
  <2>1. Four(Append(collected, b)) = Four(collected) \o <<<<b[1], b[2], b[3], b[4]>>>>
    BY <1>7, FourAppended DEF Chained
  <2>2. JidNow(Told(k.files), v) = jid[v]
    BY <1>4, <1>6, <1>8
  <2>3. ReadBack(Told(l.files)) = Four(collected) \o <<<<v, jid[v], start[v], stop[v]>>>>
    BY <1>5, <1>8, <1>9, <2>2, Zenon
  <2> QED BY <1>1, <1>7, <1>10, <2>1, <2>3, Zenon
<1>12. ASSUME NEW u \in Volumes, Certain(u)' PROVE JidNow(Told(files'), u) = seen'[u]
  <2>1. u \notin raw /\ status[u] # "disabled"
    BY <1>1, <1>2, <1>12, LogAssumption DEF Certain, Volumes
  <2> QED BY <1>1, <1>4, <1>8, <1>9, <1>10, <2>1
<1> QED BY <1>2, <1>10, <1>11, <1>12 DEF Recorded, SeenOf

\* Steps that write no event: the conf takes up what the memory had, or the
\* memory what the conf had.
LEMMA OthersFaithful ==
  ASSUME Inv, Announced, InOrder, Recorded, crashes' = 0,
         \/ DaemonInit \/ ReadAll \/ ToldToExit \/ TellExit \/ OpenConf \/ Save \/ UNCHANGED vars
         \/ \E v \in Volumes : \/ Record(v) \/ Recreate(v)
                               \/ \E to \in 0..MaxRecords : ReadCompletes(v, to)
  PROVE  InOrder' /\ Recorded'
<1>1. ASSUME UNCHANGED <<logVars, conf, memVars, main, collected>>, Tracing' => Tracing
      PROVE  InOrder' /\ Recorded'
  <2>1. NextFile' = NextFile /\ Log' = Log /\ UNCHANGED <<files, raw>>
    BY <1>1 DEF NextFile, Log, logVars, memVars
  <2>2. InOrder'
    BY <1>1, <2>1, LogStays
  <2>3. Recorded'
    BY <1>1, <2>1, RecordedStays DEF Certain, SeenOf, memVars
  <2> QED BY <2>2, <2>3
<1>2. CASE DaemonInit
  <2>1. /\ main = "off" /\ main' = "running" /\ tracer' = "starting" /\ lastfid' = conf.lastfid
        /\ status' = conf.status /\ UNCHANGED <<files, collected>>
        /\ raw' = Volumes \/ (conf # Blank /\ seen' = conf.seen)
    BY <1>2 DEF DaemonInit
  <2>2. InOrder'
    BY <2>1, LogStays DEF NextFile, Tracing
  <2>3. \A v \in Volumes : Certain(v)' => Certain(v) /\ SeenOf(v)' = SeenOf(v)
    BY <2>1 DEF Certain, SeenOf
  <2>4. Recorded'
    BY <2>1, <2>3, RecordedStays
  <2> QED BY <2>2, <2>4
<1>3. CASE ReadAll
  BY <1>1, <1>3 DEF ReadAll, Tracing, memVars, historyVars
<1>4. CASE ToldToExit
  <2>1. /\ tracer' = "ended" /\ UNCHANGED <<files, lastfid, conf, status, seen, raw, main, collected>>
    BY <1>4 DEF ToldToExit, memVars, historyVars
  <2>2. InOrder'
    BY <2>1, LogStays DEF NextFile, Tracing
  <2>3. Recorded'
    BY <2>1, RecordedStays DEF Certain, SeenOf
  <2> QED BY <2>2, <2>3
<1>5. CASE TellExit
  <2>1. /\ main = "running" /\ main' = "joining" /\ UNCHANGED <<logVars, status, seen, raw, tracer, collected>>
    BY <1>5 DEF TellExit, memVars
  <2>2. InOrder'
    BY <2>1, LogStays DEF logVars, NextFile, Tracing, Log
  <2>3. Recorded'
    BY <2>1, RecordedStays DEF logVars, Certain, SeenOf
  <2> QED BY <2>2, <2>3
<1>6. CASE OpenConf
  <2>1. /\ main = "joining" /\ main' = "saving" /\ UNCHANGED <<logVars, status, seen, raw, tracer, collected>>
    BY <1>6 DEF OpenConf, memVars, historyVars
  <2>2. InOrder'
    BY <2>1, LogStays DEF logVars, NextFile, Tracing, Log
  <2>3. Recorded'
    BY <2>1, RecordedStays DEF logVars, Certain, SeenOf
  <2> QED BY <2>2, <2>3
<1>7. CASE Save
  <2>1. /\ main = "saving" /\ main' = "off" /\ tracer' = "none"
        /\ conf' = [lastfid |-> lastfid, status |-> status, seen |-> seen] /\ UNCHANGED <<files, collected>>
    BY <1>7 DEF Save, Gone, historyVars
  <2>2. conf'.lastfid = lastfid /\ conf'.seen = seen /\ conf'.status = status
    BY <2>1
  <2>3. InOrder'
    BY <2>1, <2>2, LogStays DEF NextFile, Tracing
  <2>4. \A v \in Volumes : v \in raw => status[v] = "disabled"
    BY <2>1, LogAssumption DEF Announced, Volumes, Inv, Placed
  <2>5. \A v \in Volumes : Certain(v)' => Certain(v) /\ SeenOf(v)' = SeenOf(v)
    BY <2>1, <2>2, <2>4 DEF Certain, SeenOf
  <2>6. Recorded'
    BY <2>1, <2>5, RecordedStays
  <2> QED BY <2>3, <2>6
<1>8. ASSUME NEW v \in Volumes, Record(v) \/ Recreate(v) \/ \E to \in 0..MaxRecords : ReadCompletes(v, to)
      PROVE  InOrder' /\ Recorded'
  BY <1>1, <1>8 DEF Record, Recreate, ReadCompletes, Tracing, memVars, threadVars, historyVars
<1>9. CASE UNCHANGED vars
  BY <1>1, <1>9 DEF vars, Tracing, memVars, threadVars, historyVars
<1> QED BY <1>2, <1>3, <1>4, <1>5, <1>6, <1>7, <1>8, <1>9

LEMMA FaithfulStep ==
  ASSUME Inv, Announced, Chained, Faithful, [Next]_vars
  PROVE  Faithful'
<1> SUFFICES ASSUME crashes' = 0, ~misled' PROVE InOrder' /\ Recorded'
  BY DEF Faithful
<1>1. ~\E kept : Crash(kept)
  BY DEF Crash, Inv, Placed
<1>2. crashes = 0
  BY <1>1 DEF Next, Tracer, DaemonInit, OpenHandles, ReadAll, ToldToExit, InitOpened, Collect, TellExit,
              OpenConf, Save, Record, Recreate, ReadCompletes, boundVars, vars
<1>3. ~misled
  BY <1>1 DEF Next, Tracer, DaemonInit, OpenHandles, ReadAll, ToldToExit, InitOpened, PassOver, Announce,
              Collect, LogBuffer, TellExit, OpenConf, Save, Gone, Record, Recreate, ReadCompletes,
              historyVars, vars
<1>4. InOrder /\ Recorded
  BY <1>2, <1>3 DEF Faithful
<1>5. CASE OpenHandles
  BY <1>4, <1>5, OpenFaithful
<1>6. CASE InitOpened
  BY <1>4, <1>6, AnnounceFaithful
<1>7. ASSUME NEW v \in Volumes, Collect(v) PROVE InOrder' /\ Recorded'
  BY <1>4, <1>7, CollectFaithful
<1> QED BY <1>1, <1>4, <1>5, <1>6, <1>7, OthersFaithful DEF Next, Tracer

\* Over rotation, switches between volumes and orderly restarts the files, read in the
\* order of their numbers, tell of all that was collected where it is from
\* (logusn.h:21), for any volumes, limit, journals, sessions and memory contents:
\* unless an uninitialised value was taken for the uuid or journal looked for.
THEOREM FilesTellAll == Spec => []ReadsBack
<1> DEFINE Follow == Chained /\ Links(collected) /\ Announced /\ Faithful
<1>1. Init => Follow
  BY ChainedInit, AnnouncedInit, FaithfulInit
<1>2. Inv /\ Follow /\ [Next]_vars => Follow'
  BY ChainedStep, AnnouncedStep, FaithfulStep
<1>3. Follow => ReadsBack
  <2>1. ASSUME Recorded PROVE ReadBack(Written) = [k \in 1..Len(collected) |-> SubSeq(collected[k], 1, 4)]
    BY <2>1, WrittenIsTold, Zenon DEF Recorded, Four
  <2> QED BY <2>1, Zenon DEF Faithful, ReadsBack
<1> HIDE DEF Follow
<1>4. Spec => []Follow
  BY <1>1, <1>2, InvHolds, PTL DEF Spec
<1> QED BY <1>3, <1>4, PTL
=============================================================================
