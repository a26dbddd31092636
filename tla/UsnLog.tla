------------------------------- MODULE UsnLog -------------------------------
(***************************************************************************)
(* The tracing daemon and its log of change journals, as built for         *)
(* MILESTONE 3: the main thread starts and stops the tracing thread        *)
(* (moonstone/daemon.cc, tracing.cc), which reads the journals of all      *)
(* volumes (win32/tracing_win32.cc) and appends what it reads to numbered  *)
(* files (win32/logusn.cc); what is to survive goes to records.conf.       *)
(*                                                                         *)
(* A record of a journal is its number; the size of a file is its number   *)
(* of events.  No code calls tracing_commit_changes, and it is left out.   *)
(***************************************************************************)
EXTENDS Integers, Sequences, FiniteSets, SequencesExt

CONSTANTS N,              \* volumes of the system
          FreshUuid,      \* what an uninitialised cur_uuid_ may hold, 0 standing for no uuid
          FreshSeen,      \* what an uninitialised journal_id_last_seen may hold
          Limit,          \* LOGUSN_FILE_SIZE_LIMIT
          MaxRecords,     \* bound: records of one journal
          MaxJid,         \* bound: no volume has had more journals
          MaxReads,       \* bound: reads completed in one session
          MaxSessions, MaxCrashes  \* bounds

\* The two events and the volumes are waited for together, and no more than
\* MAXIMUM_WAIT_OBJECTS can be: with 63 volumes nothing is traced (KNOWNBUGS.txt:5).
ASSUME LogAssumption ==
  /\ N \in 0..62 /\ FreshUuid \subseteq 0..N /\ FreshSeen \subseteq 0..MaxJid
  /\ Limit \in Nat \ {0}
  /\ MaxJid \in Nat \ {0} /\ MaxRecords \in Nat

Volumes == 1..N      \* by their places in tracing_paths
NoVolume == 0        \* no volume's uuid

VARIABLES
  files,              \* events of each numbered file
  cur, flushed,       \* the file open for writing; how many of its events fclose made safe
  lastfid, uuid,      \* logusn's lastfid; cur_uuid_
  conf,               \* records.conf: lastfid, and per volume journal_status and
                      \* journal_id_last_seen
  status, seen,       \* the same in memory
  raw,                \* what is still as the memory was: v for the seen[v] of a volume not
                      \* yet looked at, 0 for cur_uuid_
  main,               \* "off", "running", "joining", "saving"
  tracer,             \* "none", "starting", "opening", "waiting", "ended"
  todo,               \* the volume init_opened is called for next
  exit,               \* ev_exit: "none", "clear", "set"
  io,                 \* per volume: "idle", "reading", "done"
  start, stop,        \* StartUsn; where the records in the buffer end
  jid, journal,       \* NTFS: the journal's id and its length
  reads, sessions, crashes,
  early,              \* history: the exit was told before there was an event
  misled,             \* history: a raw value was taken for the one looked for
  collected           \* history: <<volume, jid, from, to, session>> of each buffer

logVars == <<files, cur, flushed, lastfid, uuid>>
memVars == <<status, seen, raw>>
threadVars == <<main, tracer, todo, exit>>
ioVars == <<io, start, stop>>
diskVars == <<jid, journal>>
boundVars == <<reads, sessions, crashes>>
historyVars == <<early, misled, collected>>
vars == <<logVars, conf, memVars, threadVars, ioVars, diskVars, boundVars, historyVars>>

All(x) == [v \in Volumes |-> x]

\* An empty records.conf.
Blank == [lastfid |-> 0, status |-> All("undetected"), seen |-> All(0)]

Init ==
  /\ files = [f \in {} |-> <<>>] /\ cur = 0 /\ flushed = 0 /\ lastfid = 0 /\ uuid = NoVolume
  /\ conf = Blank /\ status = All("undetected") /\ seen = All(0) /\ raw = {}
  /\ main = "off" /\ tracer = "none" /\ todo = 0 /\ exit = "none"
  /\ io = All("idle") /\ start = All(0) /\ stop = All(0)
  /\ jid = All(1) /\ journal = All(0)
  /\ reads = 0 /\ sessions = 0 /\ crashes = 0 /\ early = FALSE /\ misled = FALSE
  /\ collected = <<>>

\* The process has ended, and its memory with it.
Gone ==
  /\ cur' = 0 /\ flushed' = 0 /\ lastfid' = 0 /\ uuid' = NoVolume
  /\ status' = All("undetected") /\ seen' = All(0) /\ raw' = {}
  /\ main' = "off" /\ tracer' = "none" /\ todo' = 0 /\ exit' = "none"
  /\ io' = All("idle") /\ start' = All(0) /\ stop' = All(0)
  /\ reads' = 0 /\ UNCHANGED <<diskVars, sessions, historyVars>>
-----------------------------------------------------------------------------
\* The log as a value, for handlers that write several events.
Log == [files |-> files, cur |-> cur, flushed |-> flushed, lastfid |-> lastfid, uuid |-> uuid]

SetLog(l) ==
  /\ files' = l.files /\ cur' = l.cur /\ flushed' = l.flushed
  /\ lastfid' = l.lastfid /\ uuid' = l.uuid

\* _wfopen(..., "ab"): a file that is not there is empty.
Opened(l, f) ==
  LET fs == [g \in DOMAIN l.files \cup {f} |-> IF g \in DOMAIN l.files THEN l.files[g] ELSE <<>>]
  IN [l EXCEPT !.files = fs, !.cur = f, !.flushed = Len(fs[f])]

\* Fault: opened with "wb".
CheckSizeTruncating(l) ==
  IF Len(l.files[l.cur]) < Limit THEN l
  ELSE [Opened(l, l.lastfid) EXCEPT !.lastfid = @ + 1, !.files[l.lastfid] = <<>>, !.flushed = 0]

\* Fault: a full file stays open.
CheckSizeNever(l) == l

\* checksize: lastfid++ names the file before it counts, so that the first full
\* file of a process is opened again and left after one more event.
CheckSize(l) ==
  IF Len(l.files[l.cur]) < Limit THEN l
  ELSE [Opened(l, l.lastfid) EXCEPT !.lastfid = @ + 1]

Write(l, e) == CheckSize([l EXCEPT !.files[l.cur] = Append(@, e)])

\* ev_uuid, ev_jid, ev_usn_records of the writing context
EvUuid(l, v) == IF v = l.uuid THEN l ELSE Write([l EXCEPT !.uuid = v], <<"SWITCH_VOLUME", v>>)
EvJid(l, j) == Write(l, <<"JOURNALRUPT", j>>)
EvUsnRecords(l, from, to) == Write(l, <<"USN_AND_RECORD", from, to>>)
-----------------------------------------------------------------------------
\* daemon_init: the configuration is loaded, the tracing thread started.  With an
\* empty one the volumes are listed anew, and nothing initialises the journal that
\* was last seen.  If records.conf cannot be opened the process ends as it began.
DaemonInit ==
  /\ main = "off" /\ sessions < MaxSessions
  /\ main' = "running" /\ tracer' = "starting" /\ sessions' = sessions + 1
  /\ lastfid' = conf.lastfid /\ status' = conf.status
  /\ \/ conf = Blank /\ seen' \in [Volumes -> FreshSeen] /\ raw' = Volumes
     \/ conf # Blank /\ seen' = conf.seen /\ raw' = {}
  /\ early' = FALSE
  /\ UNCHANGED <<files, cur, flushed, uuid, conf, todo, exit, ioVars, diskVars, reads, crashes,
                 misled, collected>>

\* open_handles up to its loop.  Nothing initialises cur_uuid_.
OpenHandles ==
  /\ tracer = "starting" /\ tracer' = "opening"
  /\ \E g \in FreshUuid : SetLog([Opened(Log, lastfid) EXCEPT !.uuid = g])
  /\ raw' = raw \cup {0}
  /\ exit' = "clear" /\ todo' = 1
  /\ UNCHANGED <<conf, status, seen, main, ioVars, diskVars, boundVars, historyVars>>

\* init_opened of a volume that cannot be opened, has no journal, or once had none.
PassOver ==
  /\ status' = [status EXCEPT ![todo] = "disabled"]
  /\ UNCHANGED <<logVars, seen, raw, misled>>

\* init_opened: the journal is announced unless it is the one last seen.  It is read
\* from its beginning, whatever last_recorded_usn says.
Announce ==
  /\ status[todo] # "disabled"
  /\ status' = [status EXCEPT ![todo] = "enabled"]
  /\ seen' = [seen EXCEPT ![todo] = jid[todo]]
  /\ \/ /\ seen[todo] = jid[todo]
        /\ raw' = raw \ {todo} /\ misled' = (misled \/ todo \in raw)
        /\ UNCHANGED logVars
     \/ /\ seen[todo] # jid[todo]
        /\ raw' = raw \ {0, todo} /\ misled' = (misled \/ (0 \in raw /\ uuid = todo))
        /\ SetLog(EvJid(EvUuid(Log, todo), jid[todo]))

InitOpened ==
  /\ tracer = "opening" /\ todo <= N /\ todo' = todo + 1
  /\ PassOver \/ Announce
  /\ UNCHANGED <<conf, main, tracer, exit, ioVars, diskVars, boundVars, early, collected>>

\* build_waitings, async_read_all
ReadAll ==
  /\ tracer = "opening" /\ todo > N
  /\ tracer' = "waiting"
  /\ io' = [v \in Volumes |-> IF status[v] = "enabled" THEN "reading" ELSE "idle"]
  /\ UNCHANGED <<logVars, conf, memVars, main, todo, exit, start, stop, diskVars, boundVars, historyVars>>

\* A read ends with what there is, which may be nothing: BytesToWaitFor is 0.
ReadCompletes(v, to) ==
  /\ io[v] = "reading" /\ reads < MaxReads
  /\ to \in start[v]..journal[v]
  /\ io' = [io EXCEPT ![v] = "done"] /\ stop' = [stop EXCEPT ![v] = to]
  /\ reads' = reads + 1
  /\ UNCHANGED <<logVars, conf, memVars, threadVars, start, diskVars, sessions, crashes, historyVars>>

\* The event of a volume is signalled, and that of the exit is not: being the first
\* of waiting_handles, it would win.
Signalled(v) == tracer = "waiting" /\ exit # "set" /\ io[v] = "done"

\* The uuid and the records are logged.
LogBuffer(v) ==
  /\ SetLog(EvUsnRecords(EvUuid(Log, v), start[v], stop[v]))
  /\ raw' = raw \ {0} /\ misled' = (misled \/ (0 \in raw /\ uuid = v))
  /\ collected' = Append(collected, <<v, jid[v], start[v], stop[v], sessions>>)

\* Fault: the next read begins where this one did.
CollectAgain(v) ==
  /\ Signalled(v) /\ LogBuffer(v)
  /\ io' = [io EXCEPT ![v] = "reading"]
  /\ UNCHANGED <<conf, status, seen, threadVars, start, stop, diskVars, boundVars, early>>

\* Fault: one record too far.
CollectSkips(v) ==
  /\ Signalled(v) /\ LogBuffer(v)
  /\ start' = [start EXCEPT ![v] = stop[v] + 1]
  /\ io' = [io EXCEPT ![v] = "reading"]
  /\ UNCHANGED <<conf, status, seen, threadVars, stop, diskVars, boundVars, early>>

\* collect_journal.  A read that failed is not told from one that succeeded: its
\* count, 0, wraps, what is logged runs out of the buffer, and the process ends by
\* that, as in Crash.
Collect(v) ==
  /\ Signalled(v) /\ LogBuffer(v)
  /\ start' = [start EXCEPT ![v] = stop[v]]
  /\ io' = [io EXCEPT ![v] = "reading"]
  /\ UNCHANGED <<conf, status, seen, threadVars, stop, diskVars, boundVars, early>>

\* release_all: reads are cancelled, the log is closed.
ToldToExit ==
  /\ tracer = "waiting" /\ exit = "set"
  /\ tracer' = "ended"
  /\ io' = All("idle") /\ flushed' = Len(files[cur])
  /\ UNCHANGED <<files, cur, lastfid, uuid, conf, memVars, main, todo, exit, start, stop,
                 diskVars, boundVars, historyVars>>
-----------------------------------------------------------------------------
\* Fault: the event is reset as soon as it was set.
PulseExit ==
  /\ main = "running" /\ main' = "joining" /\ early' = (exit = "none")
  /\ UNCHANGED <<logVars, conf, memVars, tracer, todo, exit, ioVars, diskVars, boundVars, misled, collected>>

\* tracing_stop: SetEvent on a handle not yet created does nothing.
TellExit ==
  /\ main = "running" /\ main' = "joining" /\ early' = (exit = "none")
  /\ exit' = IF exit = "none" THEN "none" ELSE "set"
  /\ UNCHANGED <<logVars, conf, memVars, tracer, todo, ioVars, diskVars, boundVars, misled, collected>>

\* daemon_release after the join: write_conf truncates the file ...
OpenConf ==
  /\ main = "joining" /\ tracer = "ended"
  /\ main' = "saving" /\ conf' = Blank
  /\ UNCHANGED <<logVars, memVars, tracer, todo, exit, ioVars, diskVars, boundVars, historyVars>>

\* ... and the archive fills it.
Save ==
  /\ main = "saving"
  /\ conf' = [lastfid |-> lastfid, status |-> status, seen |-> seen]
  /\ Gone /\ UNCHANGED <<files, crashes>>

\* The process ends.  Events still in the buffer of the open file are lost, the
\* youngest first.
Crash(kept) ==
  /\ main # "off" /\ crashes < MaxCrashes
  /\ crashes' = crashes + 1
  /\ IF tracer \in {"opening", "waiting"}
     THEN kept \in flushed..Len(files[cur]) /\ files' = [files EXCEPT ![cur] = SubSeq(@, 1, kept)]
     ELSE kept = 0 /\ UNCHANGED files
  /\ Gone /\ UNCHANGED conf

\* NTFS writes a record; somebody replaces the journal while no daemon runs.
Record(v) ==
  /\ journal[v] < MaxRecords
  /\ journal' = [journal EXCEPT ![v] = @ + 1]
  /\ UNCHANGED <<logVars, conf, memVars, threadVars, ioVars, jid, boundVars, historyVars>>

Recreate(v) ==
  /\ main = "off" /\ \A u \in Volumes : jid[u] < MaxJid
  /\ jid' = [jid EXCEPT ![v] = @ + 1] /\ journal' = [journal EXCEPT ![v] = 0]
  /\ UNCHANGED <<logVars, conf, memVars, threadVars, ioVars, boundVars, historyVars>>

Tracer ==
  \/ OpenHandles \/ InitOpened \/ ReadAll \/ ToldToExit
  \/ \E v \in Volumes : Collect(v)

Next ==
  \/ Tracer
  \/ DaemonInit \/ TellExit \/ OpenConf \/ Save
  \/ \E kept \in 0..(IF cur \in DOMAIN files THEN Len(files[cur]) ELSE 0) : Crash(kept)
  \/ \E v \in Volumes :
       \/ Record(v) \/ Recreate(v)
       \/ \E to \in 0..MaxRecords : ReadCompletes(v, to)

Spec == Init /\ [][Next]_vars /\ WF_vars(Tracer) /\ WF_vars(OpenConf \/ Save)
-----------------------------------------------------------------------------
\* All events, file by file in the order of their numbers.
Written ==
  LET top == Max(DOMAIN files \cup {0})
  IN FlattenSeq([k \in 1..top + 1 |-> IF k - 1 \in DOMAIN files THEN files[k - 1] ELSE <<>>])

\* The last of some positions; 0 if there is none.
LastOf(positions) == Max(positions \cup {0})

VolumeAt(w, k) ==
  LET j == LastOf({i \in 1..k : w[i][1] = "SWITCH_VOLUME"}) IN IF j = 0 THEN NoVolume ELSE w[j][2]

\* The journal that v has by the events up to position k.
JidOf(w, k, v) ==
  LET j == LastOf({i \in 1..k : w[i][1] = "JOURNALRUPT" /\ VolumeAt(w, i) = v})
  IN IF j = 0 THEN 0 ELSE w[j][2]

\* What a reader of the events makes of them.
ReadBack(w) ==
  FlattenSeq([k \in 1..Len(w) |->
    IF w[k][1] = "USN_AND_RECORD"
    THEN <<<<VolumeAt(w, k), JidOf(w, k, VolumeAt(w, k)), w[k][2], w[k][3]>>>> ELSE <<>>])

TypeOK ==
  /\ \A f \in DOMAIN files : f \in Nat
  /\ conf.lastfid \in Nat /\ lastfid \in Nat /\ uuid \in Volumes \cup {NoVolume}
  /\ status \in [Volumes -> {"undetected", "disabled", "enabled"}]
  /\ seen \in [Volumes -> 0..MaxJid] /\ raw \subseteq 0..N /\ misled \in BOOLEAN
  /\ main \in {"off", "running", "joining", "saving"}
  /\ tracer \in {"none", "starting", "opening", "waiting", "ended"}
  /\ todo \in 0..N + 1 /\ exit \in {"none", "clear", "set"}
  /\ io \in [Volumes -> {"idle", "reading", "done"}]
  /\ \A v \in Volumes : 0 <= start[v] /\ start[v] <= journal[v] /\ stop[v] <= journal[v]
  /\ tracer \in {"opening", "waiting"} => cur \in DOMAIN files /\ flushed <= Len(files[cur])

\* Over rotation, switches between volumes and orderly restarts, the files read in
\* the order of their numbers tell for all that was collected which journal of which
\* volume it is from: "Following events are related to this journal" (logusn.h:21).
\* What nothing initialises (logusn.cc:95, tracing.cc:29) does no harm, whatever it
\* holds, unless cur_uuid_ is the uuid of the very volume a process writes of first,
\* or journal_id_last_seen that volume's journal at the first start.
ReadsBack ==
  crashes = 0 /\ ~misled => ReadBack(Written) = [k \in 1..Len(collected) |-> SubSeq(collected[k], 1, 4)]

\* A file that "is too big" (logusn.h:20) gets one more event, and two each time a
\* crash has brought back the number of a file that is full.
NearLimit == \A f \in DOMAIN files : Len(files[f]) <= Limit + 1 + 2 * crashes

\* Within a session the buffers of a journal follow one another without a gap or an
\* overlap, from its beginning (tracing_win32.cc:241-245).
NoGap ==
  \A k \in 1..Len(collected) :
    LET earlier == {j \in 1..k - 1 : collected[j][1] = collected[k][1] /\ collected[j][5] = collected[k][5]}
    IN collected[k][3] = IF earlier = {} THEN 0
                         ELSE collected[CHOOSE j \in earlier : \A i \in earlier : i <= j][4]

\* tracing_stop returns, unless the thread had not yet made the event it is told
\* by, or the daemon crashes.
StopReturns == main = "joining" ~> main = "off" \/ early
=============================================================================
