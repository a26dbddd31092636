------------------------------ MODULE Watching -------------------------------
(***************************************************************************)
(* One NTFS volume followed through its USN journal: watching_win32        *)
(* (kernel/watching_win32.cc), created and deleted by volpreplet_win32,    *)
(* feeding the index through Database's transactions (kernel/Database.cc). *)
(*                                                                         *)
(* The file system and its journal are the environment.  A position in the *)
(* journal (a USN) is the number of records before it.  The tables exist   *)
(* twice: db is what the process sees through its connection, disk is what *)
(* a crash leaves behind.  Outside a transaction SQLite commits every      *)
(* statement; inside one, everything at COMMIT.                            *)
(*                                                                         *)
(* NTFS adds a reason to those of its file since it was opened, and writes *)
(* them all in every record until the last handle is closed; ReturnOnly-   *)
(* OnClose is FALSE (watching_win32.cc:62), so the program reads them all. *)
(***************************************************************************)
EXTENDS FileIndex

CONSTANTS MaxRecords,      \* bound: journal records in a behaviour
          MaxBatch,        \* bound: records that fit the 4096-byte buffer
          MaxBreaks,       \* bound: crashes (or exits) of the process and removals
          Found,           \* the files that may be there at first
          OldUsns          \* how far an earlier journal of the volume had been
                           \* read before it was deleted

ASSUME BoundsAssumption ==
  /\ {MaxRecords, MaxBatch, MaxBreaks} \subseteq Nat
  /\ MaxBatch > 0
  /\ Found \subseteq [Names -> Inodes \cup {NONE}]
  /\ OldUsns \subseteq Nat

VARIABLES
  live, used,              \* the truth: the inode of each name; inodes ever used
  acc,                     \* the reasons accumulated for each inode while open
  untold,                  \* history: names of which the records do not say all:
                           \* older than the journal, or removed by a record of
                           \* which a later reason undoes the removal
  journal,                 \* its USN journal
  db, disk,                \* the tables, as seen and as durable
  txn, nest,               \* SQLite is in a transaction; Database::nest_
  at,                      \* "off", "on" (no watch), "waiting", "busy"
  recheck, lastusn, start, \* members of watching_win32 (start: usn_param.StartUsn)
  usn_next,                \* end of the buffer being processed
  todo,                    \* statements process() has still to execute
  rechecked,               \* history: this watch has completed a re-check
  base,                    \* history: the level when this watch was added
  breaks

fsVars == <<live, used, acc, untold, journal>>
dbVars == <<db, disk, txn, nest>>
watchVars == <<at, recheck, lastusn, start, usn_next, todo, rechecked, base>>
vars == <<fsVars, dbVars, watchVars, breaks>>
-----------------------------------------------------------------------------
JournalId == 1             \* usn_meta.UsnJournalID
OldJournalId == 2

NamesOf(i) == {n \in Names : live[n] = i}

\* The tables after the files in live were indexed through another journal.
IndexedBefore(usn) ==
  [dentry |-> live, checked |-> {n \in Names : live[n] # NONE},
   known |-> used, refc |-> [i \in Inodes |-> IF i \in used THEN 1 ELSE 0],
   jid |-> OldJournalId, ptr |-> usn, next |-> usn]

\* The program finds a volume with files on it and a journal that begins now:
\* it has never traced the volume, or traced it through an earlier journal.
Init ==
  /\ live \in Found
  /\ used = {i \in Inodes : NamesOf(i) # {}}
  /\ acc = [i \in Inodes |-> {}]
  /\ untold = {n \in Names : live[n] # NONE}
  /\ journal = <<>>
  /\ disk \in {EmptyTables} \cup {IndexedBefore(usn) : usn \in OldUsns}
  /\ db = disk
  /\ txn = FALSE /\ nest = 0
  /\ at = "off"
  /\ recheck = FALSE /\ lastusn = 0 /\ start = 0 /\ usn_next = 0
  /\ todo = <<>> /\ rechecked = FALSE /\ base = 0
  /\ breaks = 0
-----------------------------------------------------------------------------
\* The volume.  Log(rs): the file system appends the records rs.
Log(rs) ==
  /\ Len(journal) + Len(rs) <= MaxRecords
  /\ journal' = journal \o rs
  /\ UNCHANGED <<dbVars, watchVars, breaks>>

Rec(why, n, i) == [reasons |-> why, name |-> n, inode |-> i]

\* The reasons of a file: w is added; a new name is not an old one any more.
Accumulate(i, w) == acc' = [acc EXCEPT ![i] = @ \cup {w}]

\* A removal that process() lets stand: no later reason of the record enters
\* the name again.
Stands(why) ==
  "rename_new" \notin why /\ ("rename_old" \in why \/ "link" \notin why)
Takes(n, why) ==
  untold' = IF Stands(why) THEN untold \ {n} ELSE untold \cup {n}

\* A file reference number carries a sequence number: it is not used again.
CreateFile(n, i) ==
  /\ live[n] = NONE /\ i \notin used
  /\ used' = used \cup {i}
  /\ live' = [live EXCEPT ![n] = i]
  /\ Log(<<Rec({}, n, i)>>)
  /\ UNCHANGED <<acc, untold>>

ChangeFile(n) ==
  /\ live[n] # NONE
  /\ Log(<<Rec(acc[live[n]], n, live[n])>>)
  /\ UNCHANGED <<live, used, acc, untold>>

\* The last handle is closed: the reasons are written once more, and forgotten.
CloseFile(n) ==
  /\ live[n] # NONE /\ acc[live[n]] # {}
  /\ acc' = [acc EXCEPT ![live[n]] = {}]
  /\ Log(<<Rec(acc[live[n]], n, live[n])>>)
  /\ UNCHANGED <<live, used, untold>>

DeleteFile(n) ==
  /\ live[n] # NONE /\ NamesOf(live[n]) = {n}
  /\ live' = [live EXCEPT ![n] = NONE]
  /\ LET why == acc[live[n]] \cup {"delete"}
     IN Log(<<Rec(why, n, live[n])>>) /\ Takes(n, why)
  /\ acc' = [acc EXCEPT ![live[n]] = {}]
  /\ UNCHANGED used

RenameFile(n, m) ==
  /\ live[n] # NONE /\ live[m] = NONE
  /\ live' = [live EXCEPT ![n] = NONE, ![m] = live[n]]
  /\ Accumulate(live[n], "rename_new")
  /\ LET why == acc[live[n]] \cup {"rename_old"}
     IN /\ Log(<<Rec(why, n, live[n]), Rec(acc'[live[n]], m, live[n])>>)
        /\ Takes(n, why)
  /\ UNCHANGED used

LinkFile(n, m) ==
  /\ live[n] # NONE /\ live[m] = NONE
  /\ live' = [live EXCEPT ![m] = live[n]]
  /\ Accumulate(live[n], "link")
  /\ Log(<<Rec(acc'[live[n]], m, live[n])>>)
  /\ UNCHANGED <<used, untold>>

\* One of several hard links is removed: the record is no removal to process().
UnlinkFile(n) ==
  /\ live[n] # NONE /\ NamesOf(live[n]) # {n}
  /\ live' = [live EXCEPT ![n] = NONE]
  /\ Accumulate(live[n], "link")
  /\ Log(<<Rec(acc'[live[n]], n, live[n])>>)
  /\ untold' = untold \cup {n}
  /\ UNCHANGED used

FileSystem ==
  \/ \E n \in Names, i \in Inodes : CreateFile(n, i)
  \/ \E n \in Names : ChangeFile(n) \/ CloseFile(n) \/ DeleteFile(n) \/ UnlinkFile(n)
  \/ \E n, m \in Names : RenameFile(n, m) \/ LinkFile(n, m)
-----------------------------------------------------------------------------
\* Fault: the level is counted, SQLite is not told.
BeginUncommunicated == nest' = nest + 1 /\ UNCHANGED txn

\* Database::begin_transaction: only the outermost level reaches SQLite.
Begin == nest' = nest + 1 /\ txn' = (txn \/ nest = 0)

\* The connection executes statements that turn db into new.
Execute(new) ==
  /\ db' = new
  /\ disk' = IF txn THEN disk ELSE new

\* Fault: the outermost level ends and nobody commits.
NeverCommit == nest' = nest - 1 /\ UNCHANGED <<db, disk, txn>>

\* Database::final_transaction (nobody ever aborts): COMMIT when the outermost
\* level ends.
Final ==
  /\ nest' = nest - 1
  /\ txn' = (txn /\ nest # 1)
  /\ disk' = IF txn' THEN disk ELSE db
  /\ UNCHANGED db

Launch ==
  /\ at = "off"
  /\ at' = "on"
  /\ db' = disk /\ txn' = FALSE /\ nest' = 0
  /\ UNCHANGED <<fsVars, disk, recheck, lastusn, start, usn_next, todo, rechecked,
                 base, breaks>>

\* The watching_win32 object is gone.
NoWatch ==
  /\ recheck' = FALSE /\ rechecked' = FALSE
  /\ lastusn' = 0 /\ start' = 0 /\ usn_next' = 0
  /\ todo' = <<>> /\ base' = 0

\* The process dies, or exits: what was not committed is gone.
Crash ==
  /\ at # "off"
  /\ breaks < MaxBreaks
  /\ breaks' = breaks + 1
  /\ at' = "off"
  /\ NoWatch
  /\ db' = disk /\ txn' = FALSE /\ nest' = 0
  /\ UNCHANGED <<fsVars, disk>>

\* VOLFDPREP_ADD: the constructor loads jid and usn, init() begins a re-check
\* when the journal is not the one last read, dispach_read() posts the read.
Add ==
  /\ at = "on"
  /\ at' = "waiting"
  /\ lastusn' = db.ptr
  /\ rechecked' = FALSE
  /\ base' = nest
  /\ IF db.jid # JournalId
     THEN /\ recheck' = TRUE
          /\ start' = 0
          /\ Begin
          /\ LET new == UpdateLastjid(CheckBegin(db), JournalId, Len(journal))
             IN db' = new /\ disk' = IF txn' THEN disk ELSE new
     ELSE /\ recheck' = FALSE
          /\ start' = db.ptr
          /\ UNCHANGED dbVars
  /\ UNCHANGED <<fsVars, usn_next, todo, breaks>>

\* VOLFDPREP_RMV while no buffer is being processed: ~watching_win32.  What the
\* watch has begun and not ended stays with the Database.
Remove ==
  /\ at = "waiting"
  /\ breaks < MaxBreaks
  /\ breaks' = breaks + 1
  /\ at' = "on"
  /\ NoWatch
  /\ UNCHANGED <<fsVars, dbVars>>

\* The statements for the records of the journal after position a up to b.
StatementsOf(a, b) ==
  LET upto[k \in a..b] == IF k = a THEN <<>> ELSE upto[k - 1] \o Statements(journal[k])
  IN upto[b]

\* The re-check has come as far as the journal was when it was last stored.
CheckDone == recheck /\ usn_next' >= lastusn

\* The read completes with a buffer of k records; the pointer stored after them
\* is the old lastusn.
Read(k) ==
  /\ at = "waiting"
  /\ start + k <= Len(journal)
  /\ usn_next' = start + k
  /\ todo' = StatementsOf(start, start + k) \o EndOfBuffer(JournalId, lastusn, CheckDone)
  /\ IF recheck THEN UNCHANGED <<txn, nest>> ELSE Begin
  /\ at' = "busy"
  /\ UNCHANGED <<fsVars, db, disk, recheck, lastusn, start, rechecked, base, breaks>>

\* Fault: only full buffers are delivered.
ReadFullBuffer == Read(MaxBatch)

BeginBuffer == \E k \in 1..MaxBatch : Read(k)

ExecuteNext ==
  /\ at = "busy"
  /\ todo # <<>>
  /\ Execute(Effect(db, Head(todo)))
  /\ todo' = Follow(db, Head(todo)) \o Tail(todo)
  /\ UNCHANGED <<fsVars, txn, nest, at, recheck, lastusn, start, usn_next, rechecked,
                 base, breaks>>

\* After the last statement the transaction ends, unless a re-check goes on.
\* recheck stays as it is.
FinishBuffer ==
  /\ at = "busy"
  /\ todo = <<>>
  /\ IF recheck /\ usn_next < lastusn
     THEN UNCHANGED <<dbVars, lastusn, rechecked>>
     ELSE Final /\ lastusn' = usn_next /\ rechecked' = recheck
  /\ start' = usn_next
  /\ at' = "waiting"
  /\ UNCHANGED <<fsVars, recheck, usn_next, todo, base, breaks>>

Indexer == BeginBuffer \/ ExecuteNext \/ FinishBuffer
Next == FileSystem \/ Launch \/ Crash \/ Add \/ Remove \/ Indexer

\* The completion-port thread works off what there is; nobody has to touch
\* files, start the program or trace the volume.
SafetySpec == Init /\ [][Next]_vars
Spec == SafetySpec /\ WF_vars(Indexer)
-----------------------------------------------------------------------------
\* Type invariant.
TypeOK ==
  /\ live \in [Names -> Inodes \cup {NONE}] /\ used \subseteq Inodes
  /\ journal \in Seq(Records)
  /\ acc \in [Inodes -> SUBSET {"link", "rename_new"}] /\ untold \subseteq Names
  /\ db \in Tables /\ disk \in Tables
  /\ txn \in BOOLEAN /\ nest \in Int
  /\ at \in {"off", "on", "waiting", "busy"}
  /\ recheck \in BOOLEAN /\ rechecked \in BOOLEAN
  /\ lastusn \in Nat /\ start \in Nat /\ usn_next \in Nat
  /\ todo \in Seq(Stmts) /\ base \in Int
  /\ breaks \in 0..MaxBreaks

\* All of process()'s work on one record.
Acked(t, r) ==
  LET entered == AddDentry(t, r)
  IN IF r.inode \in t.known THEN CountFile(entered, r) ELSE MarkDentry(InsertFile(entered, r), r)
Naked(t, r) == DropFile(UncountFile(RmDentry(t, r), r), r)

RecordEffect(t, r) ==
  LET naked   == IF "delete" \in r.reasons THEN Naked(t, r) ELSE t
      flipped == IF "link" \notin r.reasons THEN naked
                 ELSE IF HasInode(naked, r.inode) THEN Naked(naked, r) ELSE Acked(naked, r)
      left    == IF "rename_old" \in r.reasons THEN RmDentry(flipped, r) ELSE flipped
      entered == IF "rename_new" \in r.reasons THEN AddDentry(left, r) ELSE left
  IN IF IsRemoval(r) THEN entered ELSE Acked(entered, r)

\* The tables a restart arrives at: those on disk, and every record from the
\* stored pointer on, once more.
Recovered ==
  LET from == IF disk.jid = JournalId THEN disk.ptr ELSE 0
      after[k \in from..Len(journal)] ==
        IF k = from THEN disk ELSE RecordEffect(after[k - 1], journal[k])
  IN after[Len(journal)]

\* The tables name exactly the files there are, with the exception of the names
\* of which the journal does not tell.
Agrees(t) == \A n \in Names \ untold : t.dentry[n] = live[n]

\* A crash at any moment loses nothing: what is on disk, replayed from the
\* stored pointer, is the volume.  The pointer lags behind the entries (it is
\* the old lastusn, and statements outside a transaction are durable at once),
\* so records are replayed on top of their own effects and of later ones.
RecoveryExact == Agrees(Recovered)

\* Once it has read the whole journal, the index names exactly the files there
\* are (filemgr.h: ack, nak, existance_flip, rename_old, rename_new); a watch
\* added while a re-check of the same volume was left unfinished may have
\* begun beyond what that re-check had read.
CaughtUp == at = "waiting" /\ start = Len(journal)
CaughtUpExact == CaughtUp /\ base <= 0 => Agrees(db)

\* watching_win32.cc:113: when the watch does not re-check, a buffer becomes
\* durable as a whole or not at all.  The exception: a level below zero, left by
\* a re-check that went on after it was done and whose volume was removed, so
\* that begin_transaction begins nothing (README, section 8).
BufferAtomic == [][at = "busy" /\ at' = "busy" /\ ~recheck /\ base >= 0 => disk' = disk]_vars

\* Between two buffers nothing waits in an open transaction, except for a
\* re-check that has not been completed, by this watch or by one removed.
DurableAtRest == at = "waiting" /\ (recheck => rechecked) /\ base <= 0 => disk = db

\* A watch catches up with the volume, unless it is removed, the process ends, or
\* it began beyond the end of the journal: where an older journal had been read
\* to, when its re-check was removed unfinished.
CatchesUp ==
  at \in {"waiting", "busy"} ~> CaughtUp \/ at \in {"off", "on"} \/ start > Len(journal)
-----------------------------------------------------------------------------
\* filemgr.h:16-17: nak says that the dentry is removed, and a changed hard link
\* is flipped ("exits->removed"), so a name that was removed is not in the index.
\* Not so: a hard link is acknowledged back in, and so is a file that was renamed
\* and deleted before it was closed (README, section 8).
RemovedGone ==
  CaughtUp /\ rechecked => \A n \in Names : live[n] = NONE => db.dentry[n] = NONE

\* filemgr.h:21: a re-check removes the entries that have not been witnessed,
\* and so keeps those the journal it read bears witness of.  Not so for what was
\* known before the journal was recreated (README, section 8).
WitnessedKept ==
  CaughtUp /\ rechecked =>
    \A k \in DOMAIN journal :
      LET r == journal[k]
      IN live[r.name] = r.inode => db.dentry[r.name] = r.inode
=============================================================================
