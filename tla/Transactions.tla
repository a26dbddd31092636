---------------------------- MODULE Transactions -----------------------------
(***************************************************************************)
(* Database's transactions (kernel/Database.cc, dal/DatabaseInterface.cpp) *)
(* as all threads of the process share them: one nesting level, one flag,  *)
(* one SQLite connection.  Port threads write one buffer of a volume's     *)
(* journal per transaction, or a whole re-check; the GUI thread reads full *)
(* paths in transactions and updates known_vols without one.               *)
(*                                                                         *)
(* Of the tables only what a crash must not tear apart is kept: for each   *)
(* writer how many buffers are in (whole), how many statements of the next *)
(* one (part), and whether the journal id is the volume's (known).         *)
(***************************************************************************)
EXTENDS Integers, FiniteSets

CONSTANTS Watches,     \* volumes being watched
          Rechecking,  \* those whose journal is not the one the tables know
          Readers,     \* threads in generate_fullpath
          Writers,     \* threads that execute statements outside transactions
          MayAbort,    \* watches that may end a buffer with abort_transaction
          Statements,  \* statements for a buffer
          MaxBuffers,  \* bound: buffers read by one watch
          MaxCalls,    \* bound: calls of a reader or a writer
          MaxBreaks    \* bound: crashes

ASSUME TransactionsAssumption ==
  /\ {Statements, MaxBuffers, MaxCalls, MaxBreaks} \subseteq Nat
  /\ IsFiniteSet(Watches \cup Readers)
  /\ Rechecking \subseteq Watches /\ MayAbort \subseteq Watches
  /\ Watches \cap Readers = {} /\ Writers \cap (Watches \cup Readers) = {}

VARIABLES
  nest, breaked,     \* Database::nest_, breaked_
  txn,               \* between BEGIN and COMMIT or ROLLBACK; db_lock_ is held
  db, disk,          \* per owner of rows: as seen through the connection; as durable
  at,                \* "off" (no watch), "idle", "busy"
  done, read,        \* statements of this buffer executed; buffers read, calls made
  recheck, caught,   \* watching_win32::recheck; usn_next has reached lastusn once
  overdrawn,         \* history: a transaction was ended that its thread had not begun
  aborted,           \* history: somebody aborted since BEGIN
  breaks

threadVars == <<at, done, read, recheck, caught>>
vars == <<nest, breaked, txn, db, disk, threadVars, overdrawn, aborted, breaks>>

Owners == Watches \cup Writers
Users == Owners \cup Readers
-----------------------------------------------------------------------------
Init ==
  /\ nest = 0 /\ txn = FALSE
  /\ breaked \in BOOLEAN          \* the constructor does not initialise it
  /\ disk = [o \in Owners |-> [whole |-> 0, part |-> 0, known |-> o \notin Rechecking]]
  /\ db = disk
  /\ at = [u \in Users |-> IF u \in Watches THEN "off" ELSE "idle"]
  /\ done = [w \in Watches |-> 0] /\ read = [u \in Users |-> 0]
  /\ recheck = [w \in Watches |-> FALSE] /\ caught = [w \in Watches |-> FALSE]
  /\ overdrawn = FALSE /\ aborted = FALSE
  /\ breaks = 0

\* Statements that turn db into new, in whatever transaction is open.
Execute(new) ==
  /\ db' = new
  /\ disk' = IF txn THEN disk ELSE new
  /\ UNCHANGED <<nest, breaked, txn, aborted>>

\* Fault: BEGIN only if the level was raised to one, tested after another thread's begin.
BeginUnlocked(new) ==
  /\ nest' = nest + 1
  /\ txn' = (txn \/ nest = 1)
  /\ breaked' = (breaked /\ nest # 0)
  /\ aborted' = (aborted /\ nest # 0)
  /\ db' = new
  /\ disk' = IF txn' THEN disk ELSE new

\* begin_transaction, and the statements that follow at once.
BeginTransaction(new) ==
  /\ nest' = nest + 1
  /\ txn' = (txn \/ nest = 0)
  /\ breaked' = (breaked /\ nest # 0)
  /\ aborted' = (aborted /\ nest # 0)
  /\ db' = new
  /\ disk' = IF txn' THEN disk ELSE new

\* Fault: whoever ends a transaction commits.
EndsAnyLevel(new, abort) ==
  /\ nest' = nest - 1
  /\ txn' = (txn /\ nest # 1)
  /\ breaked' = (breaked \/ abort)
  /\ aborted' = (aborted \/ abort)
  /\ db' = new /\ disk' = new

\* Fault: the outermost level forgets what an inner one aborted.
EndsUnbroken(new, abort) ==
  /\ nest' = nest - 1
  /\ txn' = (txn /\ nest # 1)
  /\ breaked' = abort
  /\ aborted' = (aborted \/ abort)
  /\ db' = IF nest = 1 /\ abort THEN disk ELSE new
  /\ disk' = IF ~abort /\ (nest = 1 \/ ~txn) THEN new ELSE disk

\* Fault: the last to leave does not tell SQLite.
EndsSilently(new, abort) ==
  /\ nest' = nest - 1
  /\ breaked' = (breaked \/ abort)
  /\ aborted' = (aborted \/ abort)
  /\ db' = new
  /\ disk' = IF txn THEN disk ELSE new
  /\ UNCHANGED txn

\* The statements new, then abort_transaction or final_transaction: the outermost
\* level commits, or rolls back what all levels did if one of them aborted.
EndTransaction(new, abort) ==
  /\ nest' = nest - 1
  /\ txn' = (txn /\ nest # 1)
  /\ breaked' = (breaked \/ abort)
  /\ aborted' = (aborted \/ abort)
  /\ IF nest = 1
     THEN IF breaked' THEN db' = disk /\ UNCHANGED disk ELSE db' = new /\ disk' = new
     ELSE db' = new /\ disk' = IF txn THEN disk ELSE new
-----------------------------------------------------------------------------
\* Watches.  The constructor loads the journal id; init() begins the
\* transaction of a re-check and marks the volume.
Attach(w) ==
  /\ at[w] = "off"
  /\ at' = [at EXCEPT ![w] = "idle"]
  /\ recheck' = [recheck EXCEPT ![w] = ~db[w].known]
  /\ IF db[w].known THEN UNCHANGED <<nest, breaked, txn, aborted, db, disk>>
     ELSE BeginTransaction([db EXCEPT ![w].known = TRUE])
  /\ UNCHANGED <<done, read, caught, overdrawn, breaks>>

\* process(): a transaction per buffer, unless re-checking.
BeginBuffer(w) ==
  /\ at[w] = "idle"
  /\ read[w] < MaxBuffers
  /\ at' = [at EXCEPT ![w] = "busy"]
  /\ read' = [read EXCEPT ![w] = @ + 1]
  /\ done' = [done EXCEPT ![w] = 0]
  /\ IF recheck[w] THEN UNCHANGED <<nest, breaked, txn, aborted, db, disk>>
     ELSE BeginTransaction(db)
  /\ UNCHANGED <<recheck, caught, overdrawn, breaks>>

ExecuteStatement(w) ==
  /\ at[w] = "busy" /\ done[w] < Statements
  /\ done' = [done EXCEPT ![w] = @ + 1]
  /\ Execute([db EXCEPT ![w].part = done'[w]])
  /\ UNCHANGED <<at, read, recheck, caught, overdrawn, breaks>>

\* The pointer is stored.  A re-check that has caught up ends the transaction
\* init() began, and, since recheck stays set, ends one after every later buffer.
\* It need not catch up: the journal may hold nothing beyond lastusn.
EndBuffer(w) ==
  LET new == [db EXCEPT ![w].whole = @ + 1, ![w].part = 0]
  IN /\ at[w] = "busy" /\ done[w] = Statements
     /\ at' = [at EXCEPT ![w] = "idle"]
     /\ \/ /\ ~recheck[w]
           /\ \E abort \in {FALSE, (w \in MayAbort)} : EndTransaction(new, abort)
           /\ UNCHANGED <<caught, overdrawn>>
        \/ /\ recheck[w]
           /\ caught' = [caught EXCEPT ![w] = TRUE]
           /\ overdrawn' = (overdrawn \/ caught[w])
           /\ EndTransaction(new, FALSE)
        \/ /\ recheck[w] /\ ~caught[w]
           /\ Execute(new)
           /\ UNCHANGED <<caught, overdrawn>>
     /\ UNCHANGED <<done, read, recheck, breaks>>

\* generate_fullpath: SELECTs between begin and final.
BeginPath(r) ==
  /\ at[r] = "idle" /\ read[r] < MaxCalls
  /\ at' = [at EXCEPT ![r] = "busy"]
  /\ read' = [read EXCEPT ![r] = @ + 1]
  /\ BeginTransaction(db)
  /\ UNCHANGED <<done, recheck, caught, overdrawn, breaks>>

EndPath(r) ==
  /\ at[r] = "busy"
  /\ at' = [at EXCEPT ![r] = "idle"]
  /\ EndTransaction(db, FALSE)
  /\ UNCHANGED <<done, read, recheck, caught, overdrawn, breaks>>

\* volmgr_t::update from apply_changes: a statement outside any transaction of its own.
WriteAlone(v) ==
  /\ read[v] < MaxCalls
  /\ read' = [read EXCEPT ![v] = @ + 1]
  /\ Execute([db EXCEPT ![v].whole = @ + 1])
  /\ UNCHANGED <<at, done, recheck, caught, overdrawn, breaks>>

\* The process dies and is started again: Database::Database, watches to be attached.
Crash ==
  /\ breaks < MaxBreaks
  /\ breaks' = breaks + 1
  /\ nest' = 0 /\ txn' = FALSE /\ aborted' = FALSE
  /\ breaked' \in BOOLEAN
  /\ db' = disk
  /\ at' = [u \in Users |-> IF u \in Watches THEN "off" ELSE "idle"]
  /\ done' = [w \in Watches |-> 0] /\ read' = [u \in Users |-> 0]
  /\ recheck' = [w \in Watches |-> FALSE] /\ caught' = [w \in Watches |-> FALSE]
  /\ UNCHANGED <<disk, overdrawn>>

Next ==
  \/ \E w \in Watches : Attach(w) \/ BeginBuffer(w) \/ ExecuteStatement(w) \/ EndBuffer(w)
  \/ \E r \in Readers : BeginPath(r) \/ EndPath(r)
  \/ \E v \in Writers : WriteAlone(v)
  \/ Crash

Spec == Init /\ [][Next]_vars
-----------------------------------------------------------------------------
Rows == [whole : Nat, part : 0..Statements, known : BOOLEAN]

TypeOK ==
  /\ nest \in Int /\ breaked \in BOOLEAN /\ txn \in BOOLEAN
  /\ overdrawn \in BOOLEAN /\ aborted \in BOOLEAN
  /\ db \in [Owners -> Rows] /\ disk \in [Owners -> Rows]
  /\ at \in [Users -> {"off", "idle", "busy"}]
  /\ done \in [Watches -> 0..Statements] /\ read \in [Users -> Nat]
  /\ recheck \in [Watches -> BOOLEAN] /\ caught \in [Watches -> BOOLEAN]
  /\ breaks \in Nat

\* SQLite is in a transaction (and db_lock_ held) exactly while the level is
\* positive, in whatever order threads begin and end, and even after the
\* level has become negative: BEGIN is never sent into an open transaction
\* and begin_transaction never waits for db_lock_ with mutex_ held
\* (Database.cc:45, 68).
TxnWhileNested == txn <=> nest > 0

\* Whatever a crash leaves: no buffer of a volume half stored, and nothing of
\* a re-check before it has caught up, although other volumes' transactions
\* end meanwhile; as long as nobody has ended what it had not begun
\* (watching_win32.cc:113, 184-191).
WholeUnits ==
  ~overdrawn =>
    /\ \A w \in Watches \ Rechecking : disk[w].part = 0
    /\ \A w \in Rechecking : recheck[w] /\ ~caught[w] => ~disk[w].known

\* Each volume that is not being re-checked is stored buffer by buffer ("Per
\* buffer transaction if not re-checking", watching_win32.cc:113).
PerBuffer == \A w \in Watches \ Rechecking : disk[w].part = 0

\* Once somebody has aborted, nothing that is done up to the end of the
\* transaction, by any thread, becomes durable (Database.cc:58, 70).
BrokenNeverDurable == [][aborted /\ txn => disk' = disk]_vars

\* What was stored disappears from view only by a crash or an abort in the
\* same transaction, not by one that is long over (Database.cc:47).
FinalsKept ==
  [][(\E o \in Owners : db'[o].whole < db[o].whole) => aborted' \/ breaks' # breaks]_vars

\* Transactions of all threads overlap in any order, aborts, crashes and ends
\* that were never begun included: when nobody is inside one, everything that
\* is seen is durable (Database.cc:50, 57, 67).  A re-check that has not caught
\* up is inside one, however long it takes: it holds back what every other
\* volume has stored.
Inside ==
  {u \in Watches \cup Readers :
     IF u \in Watches /\ recheck[u] THEN ~caught[u] ELSE at[u] = "busy"}
QuietIsDurable == Inside = {} => db = disk
=============================================================================
