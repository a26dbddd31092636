------------------------- MODULE TransactionsProofs --------------------------
(***************************************************************************)
(* Proofs about Transactions: for any number of volumes and readers, any   *)
(* size of buffers and any interleaving, the level tells whether SQLite is *)
(* in a transaction, an abort dooms all that share it, and, until somebody *)
(* ends what it had not begun, a crash tears no buffer and no re-check.    *)
(***************************************************************************)
EXTENDS Transactions, FiniteSetTheorems, TLAPS

\* Outside transactions everything seen is durable.
Synced == ~txn => disk = db

\* In a transaction the flag says whether somebody has aborted it.
AbortSticks == txn => (aborted <=> breaked)

Base == TypeOK /\ TxnWhileNested /\ Synced /\ AbortSticks

\* The threads that may be inside a transaction they have begun.
Threads == Watches \cup Readers

Counted == nest = Cardinality(Inside)

\* Rows of plain volumes are in parts only while a buffer is being processed.
PartsInside == \A w \in Watches \ Rechecking : at[w] # "busy" => db[w].part = 0

\* Only volumes with a new journal are re-checked, and their mark comes first
\* into view, then to the disk.
PlainKnown == \A w \in Watches \ Rechecking : db[w].known /\ disk[w].known /\ ~recheck[w]
MarkSeen == \A w \in Watches : disk[w].known => db[w].known
Detached == \A w \in Watches : at[w] = "off" => ~recheck[w] /\ ~caught[w]

-----------------------------------------------------------------------------
\* What the four kinds of database access do to the tables' types, the level and
\* the flag.
LEMMA AccessKeepsBase ==
  ASSUME Base, NEW new \in [Owners -> Rows], NEW abort \in BOOLEAN,
         \/ Execute(new) \/ BeginTransaction(new) \/ EndTransaction(new, abort)
         \/ UNCHANGED <<nest, breaked, txn, aborted, db, disk>>
  PROVE  /\ nest' \in Int /\ breaked' \in BOOLEAN /\ txn' \in BOOLEAN /\ aborted' \in BOOLEAN
         /\ db' \in [Owners -> Rows] /\ disk' \in [Owners -> Rows]
         /\ TxnWhileNested' /\ Synced' /\ AbortSticks'
         /\ aborted /\ txn => disk' = disk
<1> USE DEF Base, TypeOK, TxnWhileNested, Synced, AbortSticks
<1>1. CASE Execute(new)
  BY <1>1 DEF Execute
<1>2. CASE BeginTransaction(new)
  <2>1. nest' = nest + 1 /\ txn' = (txn \/ nest = 0) /\ db' = new
        /\ breaked' = (breaked /\ nest # 0) /\ aborted' = (aborted /\ nest # 0)
        /\ disk' = IF txn' THEN disk ELSE new
    BY <1>2 DEF BeginTransaction
  <2>0. nest \in Int /\ (txn <=> nest > 0) /\ (txn' <=> txn \/ nest = 0)
    BY <2>1
  <2>2. nest' \in Int /\ (txn' <=> nest' > 0)
    <3>1. nest' = nest + 1
      BY <2>1
    <3>2. QED
      BY ONLY <2>0, <3>1
  <2>3. CASE txn
    BY <2>1, <2>2, <2>3
  <2>4. CASE ~txn
    BY <2>1, <2>2, <2>4
  <2>5. QED
    BY <2>3, <2>4
<1>3. CASE EndTransaction(new, abort)
  <2>0. nest' = nest - 1 /\ txn' = (txn /\ nest # 1)
        /\ breaked' = (breaked \/ abort) /\ aborted' = (aborted \/ abort)
    BY <1>3 DEF EndTransaction
  <2>1. /\ nest' \in Int /\ TxnWhileNested' /\ breaked' \in BOOLEAN /\ aborted' \in BOOLEAN
        /\ txn' \in BOOLEAN /\ AbortSticks'
    <3>1. nest \in Int /\ (txn <=> nest > 0) /\ (txn' <=> txn /\ nest # 1) /\ nest' = nest - 1
      BY <2>0
    <3>2. nest' \in Int /\ (txn' <=> nest' > 0)
      BY ONLY <3>1
    <3>3. breaked' \in BOOLEAN /\ aborted' \in BOOLEAN /\ txn' \in BOOLEAN
          /\ (txn' => (aborted' <=> breaked'))
      BY <2>0
    <3>4. QED
      BY <3>2, <3>3
  <2>2. CASE nest = 1
    <3>0. (txn <=> nest > 0) /\ (txn' <=> txn /\ nest # 1)
      BY <2>0
    <3>1. txn /\ ~txn'
      BY ONLY <3>0, <2>2
    <3>2. (db' = disk /\ disk' = disk) \/ (~breaked' /\ db' = new /\ disk' = new)
      BY <1>3, <2>2 DEF EndTransaction
    <3>3. QED
      BY <2>0, <2>1, <3>1, <3>2
  <2>3. CASE nest # 1
    <3>1. db' = new /\ disk' = IF txn THEN disk ELSE new
      BY <1>3, <2>3 DEF EndTransaction
    <3>2. txn' = txn
      BY <2>0, <2>3
    <3>3. QED
      BY <2>0, <2>1, <3>1, <3>2
  <2>4. QED
    BY <2>2, <2>3
<1>4. CASE UNCHANGED <<nest, breaked, txn, aborted, db, disk>>
  BY <1>4
<1>5. QED
  BY <1>1, <1>2, <1>3, <1>4

\* New rows of one owner are rows.
LEMMA RowsTyped ==
  ASSUME TypeOK, NEW o \in Owners
  PROVE  /\ [db EXCEPT ![o].known = TRUE] \in [Owners -> Rows]
         /\ [db EXCEPT ![o].whole = @ + 1] \in [Owners -> Rows]
         /\ [db EXCEPT ![o].whole = @ + 1, ![o].part = 0] \in [Owners -> Rows]
         /\ \A k \in 0..Statements : [db EXCEPT ![o].part = k] \in [Owners -> Rows]
<1>1. Statements \in Nat
  BY TransactionsAssumption
<1>2. db[o] \in Rows /\ 0 \in 0..Statements
  BY <1>1 DEF TypeOK
<1>3. /\ [db[o] EXCEPT !.known = TRUE] \in Rows
      /\ [db[o] EXCEPT !.whole = @ + 1] \in Rows
      /\ [db[o] EXCEPT !.whole = @ + 1, !.part = 0] \in Rows
      /\ \A k \in 0..Statements : [db[o] EXCEPT !.part = k] \in Rows
  <2>1. db[o].whole + 1 \in Nat
    BY <1>2 DEF Rows
  <2>2. QED
    BY <1>2, <2>1 DEF Rows
<1>4. QED
  BY <1>3 DEF TypeOK

LEMMA BaseInit == Init => Base
<1> SUFFICES ASSUME Init PROVE Base
  OBVIOUS
<1>1. 0 \in 0..Statements
  BY TransactionsAssumption
<1>2. db \in [Owners -> Rows] /\ disk = db
  BY <1>1 DEF Init, Rows
<1>3. at \in [Users -> {"off", "idle", "busy"}]
  BY DEF Init
<1>4. QED
  <2>1. nest = 0 /\ ~txn /\ txn \in BOOLEAN /\ ~aborted /\ aborted \in BOOLEAN
        /\ ~overdrawn /\ overdrawn \in BOOLEAN /\ breaked \in BOOLEAN
    BY DEF Init
  <2>2. done \in [Watches -> 0..Statements] /\ read \in [Users -> Nat] /\ breaks \in Nat
        /\ recheck \in [Watches -> BOOLEAN] /\ caught \in [Watches -> BOOLEAN]
    BY <1>1 DEF Init
  <2>3. TypeOK
    BY <1>2, <1>3, <2>1, <2>2 DEF TypeOK
  <2>4. TxnWhileNested
    BY <2>1 DEF TxnWhileNested
  <2>5. QED
    BY <1>2, <2>1, <2>3, <2>4 DEF Base, Synced, AbortSticks

\* Each action is one access to the database, and keeps its thread's variables typed.
LEMMA BaseStep ==
  ASSUME Base, [Next]_vars
  PROVE  Base' /\ (aborted /\ txn => disk' = disk)
<1> USE TransactionsAssumption
<1>0. TypeOK /\ Watches \subseteq Owners /\ Writers \subseteq Owners /\ Owners \subseteq Users
      /\ Readers \subseteq Users
  BY DEF Base, Owners, Users
<1>1. ASSUME NEW w \in Watches, Attach(w)
      PROVE  Base' /\ (aborted /\ txn => disk' = disk)
  <2>1. [db EXCEPT ![w].known = TRUE] \in [Owners -> Rows]
    BY <1>0, RowsTyped
  <2>2. db \in [Owners -> Rows] /\ db[w].known \in BOOLEAN
    BY <1>0 DEF TypeOK, Rows
  <2>3. /\ nest' \in Int /\ breaked' \in BOOLEAN /\ txn' \in BOOLEAN /\ aborted' \in BOOLEAN
        /\ db' \in [Owners -> Rows] /\ disk' \in [Owners -> Rows]
        /\ TxnWhileNested' /\ Synced' /\ AbortSticks'
        /\ aborted /\ txn => disk' = disk
    BY <1>1, <2>1, <2>2, AccessKeepsBase DEF Attach
  <2>4. QED
    BY <1>0, <1>1, <2>2, <2>3 DEF Attach, TypeOK, Base
<1>2. ASSUME NEW w \in Watches, BeginBuffer(w)
      PROVE  Base' /\ (aborted /\ txn => disk' = disk)
  <2>1. /\ nest' \in Int /\ breaked' \in BOOLEAN /\ txn' \in BOOLEAN /\ aborted' \in BOOLEAN
        /\ db' \in [Owners -> Rows] /\ disk' \in [Owners -> Rows]
        /\ TxnWhileNested' /\ Synced' /\ AbortSticks'
        /\ aborted /\ txn => disk' = disk
    BY <1>0, <1>2, AccessKeepsBase DEF BeginBuffer, TypeOK
  <2>2. QED
    BY <1>0, <1>2, <2>1 DEF BeginBuffer, TypeOK, Base
<1>3. ASSUME NEW w \in Watches, ExecuteStatement(w)
      PROVE  Base' /\ (aborted /\ txn => disk' = disk)
  <2>1. done'[w] \in 0..Statements
    BY <1>0, <1>3 DEF ExecuteStatement, TypeOK
  <2>2. [db EXCEPT ![w].part = done'[w]] \in [Owners -> Rows]
    BY <1>0, <2>1, RowsTyped
  <2>3. /\ nest' \in Int /\ breaked' \in BOOLEAN /\ txn' \in BOOLEAN /\ aborted' \in BOOLEAN
        /\ db' \in [Owners -> Rows] /\ disk' \in [Owners -> Rows]
        /\ TxnWhileNested' /\ Synced' /\ AbortSticks'
        /\ aborted /\ txn => disk' = disk
    BY <1>3, <2>2, AccessKeepsBase DEF ExecuteStatement
  <2>4. done' \in [Watches -> 0..Statements]
    BY <1>0, <1>3, <2>1 DEF ExecuteStatement, TypeOK
  <2>5. QED
    BY <1>0, <1>3, <2>3, <2>4 DEF ExecuteStatement, TypeOK, Base
<1>4. ASSUME NEW w \in Watches, EndBuffer(w)
      PROVE  Base' /\ (aborted /\ txn => disk' = disk)
  <2> DEFINE new == [db EXCEPT ![w].whole = @ + 1, ![w].part = 0]
  <2>1. new \in [Owners -> Rows]
    BY <1>0, RowsTyped
  <2>2. Execute(new) \/ \E abort \in BOOLEAN : EndTransaction(new, abort)
    <3>1. ASSUME \E abort \in {FALSE, (w \in MayAbort)} : EndTransaction(new, abort)
          PROVE  \E abort \in BOOLEAN : EndTransaction(new, abort)
      <4>1. {FALSE, (w \in MayAbort)} \subseteq BOOLEAN
        OBVIOUS
      <4>2. QED
        BY <3>1, <4>1
    <3>2. QED
      BY <1>4, <3>1 DEF EndBuffer
  <2> HIDE DEF new
  <2>3. /\ nest' \in Int /\ breaked' \in BOOLEAN /\ txn' \in BOOLEAN /\ aborted' \in BOOLEAN
        /\ db' \in [Owners -> Rows] /\ disk' \in [Owners -> Rows]
        /\ TxnWhileNested' /\ Synced' /\ AbortSticks'
        /\ aborted /\ txn => disk' = disk
    BY <2>1, <2>2, AccessKeepsBase
  <2>4. caught' \in [Watches -> BOOLEAN] /\ overdrawn' \in BOOLEAN
    BY <1>0, <1>4 DEF EndBuffer, TypeOK
  <2>5. QED
    BY <1>0, <1>4, <2>3, <2>4 DEF EndBuffer, TypeOK, Base
<1>5. ASSUME NEW r \in Readers, BeginPath(r)
      PROVE  Base' /\ (aborted /\ txn => disk' = disk)
  <2>1. /\ nest' \in Int /\ breaked' \in BOOLEAN /\ txn' \in BOOLEAN /\ aborted' \in BOOLEAN
        /\ db' \in [Owners -> Rows] /\ disk' \in [Owners -> Rows]
        /\ TxnWhileNested' /\ Synced' /\ AbortSticks'
        /\ aborted /\ txn => disk' = disk
    BY <1>0, <1>5, AccessKeepsBase DEF BeginPath, TypeOK
  <2>2. QED
    BY <1>0, <1>5, <2>1 DEF BeginPath, TypeOK, Base
<1>6. ASSUME NEW r \in Readers, EndPath(r)
      PROVE  Base' /\ (aborted /\ txn => disk' = disk)
  <2>1. /\ nest' \in Int /\ breaked' \in BOOLEAN /\ txn' \in BOOLEAN /\ aborted' \in BOOLEAN
        /\ db' \in [Owners -> Rows] /\ disk' \in [Owners -> Rows]
        /\ TxnWhileNested' /\ Synced' /\ AbortSticks'
        /\ aborted /\ txn => disk' = disk
    BY <1>0, <1>6, AccessKeepsBase DEF EndPath, TypeOK
  <2>2. QED
    BY <1>0, <1>6, <2>1 DEF EndPath, TypeOK, Base
<1>7. ASSUME NEW v \in Writers, WriteAlone(v)
      PROVE  Base' /\ (aborted /\ txn => disk' = disk)
  <2>1. [db EXCEPT ![v].whole = @ + 1] \in [Owners -> Rows]
    BY <1>0, RowsTyped
  <2>2. /\ nest' \in Int /\ breaked' \in BOOLEAN /\ txn' \in BOOLEAN /\ aborted' \in BOOLEAN
        /\ db' \in [Owners -> Rows] /\ disk' \in [Owners -> Rows]
        /\ TxnWhileNested' /\ Synced' /\ AbortSticks'
        /\ aborted /\ txn => disk' = disk
    BY <1>7, <2>1, AccessKeepsBase DEF WriteAlone
  <2>3. QED
    BY <1>0, <1>7, <2>2 DEF WriteAlone, TypeOK, Base
<1>8. CASE Crash
  <2>1. breaks' \in Nat /\ nest' = 0 /\ ~txn' /\ ~aborted' /\ breaked' \in BOOLEAN
        /\ db' = disk /\ disk' = disk /\ overdrawn' = overdrawn
    BY <1>0, <1>8 DEF Crash, TypeOK
  <2>2. at' \in [Users -> {"off", "idle", "busy"}]
    BY <1>8 DEF Crash
  <2>3. done' \in [Watches -> 0..Statements] /\ read' \in [Users -> Nat]
        /\ recheck' \in [Watches -> BOOLEAN] /\ caught' \in [Watches -> BOOLEAN]
    BY <1>8 DEF Crash
  <2>4. txn' \in BOOLEAN /\ aborted' \in BOOLEAN
    BY <1>8 DEF Crash
  <2>5. TypeOK'
    BY <1>0, <2>1, <2>2, <2>3, <2>4 DEF TypeOK
  <2>6. QED
    BY <2>1, <2>5 DEF Base, TxnWhileNested, Synced, AbortSticks
<1>9. CASE UNCHANGED vars
  BY <1>9 DEF vars, threadVars, TypeOK, Base, TxnWhileNested, Synced, AbortSticks
<1>10. QED
  BY <1>1, <1>2, <1>3, <1>4, <1>5, <1>6, <1>7, <1>8, <1>9 DEF Next
-----------------------------------------------------------------------------
\* What a crash may leave while nobody has overdrawn.
Units ==
  /\ \A w \in Watches \ Rechecking : disk[w].part = 0
  /\ \A w \in Rechecking : recheck[w] /\ ~caught[w] => ~disk[w].known

LEMMA InsideFinite == IsFiniteSet(Inside) /\ Cardinality(Inside) \in Nat
<1>1. IsFiniteSet(Threads) /\ Inside \subseteq Threads
  BY TransactionsAssumption DEF Threads, Inside
<1>2. QED
  BY <1>1, FS_Subset, FS_CardinalityType

\* At level one there is one thread inside, at level zero none.
LEMMA Alone ==
  ASSUME Counted, NEW u \in Inside, nest = 1
  PROVE  Inside = {u}
<1>1. PICK x : Inside = {x}
  BY InsideFinite, FS_Singleton DEF Counted
<1>2. QED
  BY <1>1

LEMMA Nobody == ASSUME Counted, ~(nest > 0) PROVE Inside = {} /\ nest = 0
<1>1. Cardinality(Inside) = 0 /\ nest = 0
  BY InsideFinite DEF Counted
<1>2. QED
  BY <1>1, InsideFinite, FS_EmptySet

\* The level follows a thread that goes in, comes out, or does neither.
LEMMA CountFollows ==
  ASSUME Counted, NEW u,
         \/ u \notin Inside /\ Inside' = Inside \cup {u} /\ nest' = nest + 1
         \/ u \in Inside /\ Inside' = Inside \ {u} /\ nest' = nest - 1
         \/ Inside' = Inside /\ nest' = nest
  PROVE  Counted'
BY InsideFinite, FS_AddElement, FS_RemoveElement DEF Counted

\* Where the rows seen and the durable rows come from.
LEMMA RowsFlow ==
  ASSUME NEW new, NEW abort,
         Execute(new) \/ BeginTransaction(new) \/ EndTransaction(new, abort)
  PROVE  \/ db' = new /\ (disk' = disk \/ disk' = new)
         \/ db' = disk /\ disk' = disk
<1>1. CASE Execute(new)
  BY <1>1 DEF Execute
<1>2. CASE BeginTransaction(new)
  BY <1>2 DEF BeginTransaction
<1>3. CASE EndTransaction(new, abort)
  <2>1. CASE nest = 1
    BY <1>3, <2>1 DEF EndTransaction
  <2>2. CASE nest # 1
    BY <1>3, <2>2 DEF EndTransaction
  <2>3. QED
    BY <2>1, <2>2
<1>4. QED
  BY <1>1, <1>2, <1>3

\* Marks are only added, so they keep their order.
LEMMA MarksKept ==
  ASSUME TypeOK, PlainKnown, MarkSeen, NEW new,
         \A x \in Watches : db[x].known => new[x].known,
         \/ db' = new /\ (disk' = disk \/ disk' = new)
         \/ db' = disk /\ disk' = disk,
         \A x \in Watches \ Rechecking : ~recheck'[x]
  PROVE  PlainKnown' /\ MarkSeen'
BY DEF PlainKnown, MarkSeen

\* Statements of a thread whose rows may be in parts leave nothing of it on the disk.
LEMMA ExecuteInside ==
  ASSUME Base, Counted, Units, NEW new, Execute(new), Inside # {}
  PROVE  disk' = disk
<1>1. nest > 0
  BY Nobody
<1>2. QED
  BY <1>1 DEF Execute, Base, TxnWhileNested

\* Leaving a transaction: at the last level nobody else is inside.
LEMMA EndInside ==
  ASSUME Base, Counted, PartsInside, Units, PlainKnown, NEW u \in Inside, NEW new, NEW abort,
         EndTransaction(new, abort)
  PROVE  \/ disk' = disk /\ (db' = new \/ (db' = disk /\ Inside = {u}))
         \/ disk' = new /\ db' = new /\ Inside = {u}
<1>1. CASE nest = 1
  <2>1. Inside = {u}
    BY <1>1, Alone
  <2>2. QED
    BY <1>1, <2>1 DEF EndTransaction
<1>2. CASE nest # 1
  <2>1. nest > 0
    BY Nobody
  <2>2. txn
    BY <2>1 DEF Base, TxnWhileNested
  <2>3. QED
    BY <1>2, <2>2 DEF EndTransaction
<1>3. QED
  BY <1>1, <1>2
-----------------------------------------------------------------------------
Rest == PlainKnown /\ MarkSeen /\ Detached

LEMMA RestStep == ASSUME Base, Rest, [Next]_vars PROVE Rest'
<1> USE DEF Rest, Detached
<1>0. TypeOK /\ Watches \subseteq Owners /\ Watches \subseteq Users
      /\ Rechecking \subseteq Watches /\ Writers \subseteq Owners
  BY TransactionsAssumption DEF Base, Owners, Users
<1>m. \A o \in Owners : db[o] \in Rows
  BY <1>0 DEF TypeOK
<1>1. ASSUME NEW w \in Watches, Attach(w) PROVE Rest'
  <2>1. Detached'
    BY <1>0, <1>1 DEF Attach, TypeOK
  <2>2. \A x \in Watches \ Rechecking : ~recheck'[x]
    BY <1>0, <1>1 DEF Attach, TypeOK, PlainKnown
  <2>3. CASE db[w].known
    BY <1>0, <1>1, <2>1, <2>2, <2>3 DEF Attach, PlainKnown, MarkSeen
  <2>4. CASE ~db[w].known
    <3> DEFINE new == [db EXCEPT ![w].known = TRUE]
    <3>1. \A x \in Watches : db[x].known => new[x].known
      BY <1>0, <1>m DEF TypeOK, Rows
    <3>2. BeginTransaction(new)
      BY <1>1, <2>4 DEF Attach
    <3> HIDE DEF new
    <3>3. PlainKnown' /\ MarkSeen'
      BY <1>0, <2>2, <3>1, <3>2, RowsFlow, MarksKept
    <3>4. QED
      BY <2>1, <3>3
  <2>5. QED
    BY <2>3, <2>4
<1>2. ASSUME NEW w \in Watches, BeginBuffer(w) PROVE Rest'
  <2>1. Detached' /\ recheck' = recheck
    BY <1>0, <1>2 DEF BeginBuffer, TypeOK
  <2>2. db' = db /\ (disk' = disk \/ disk' = db)
    BY <1>2 DEF BeginBuffer, BeginTransaction
  <2>3. PlainKnown' /\ MarkSeen'
    BY <1>0, <2>1, <2>2 DEF PlainKnown, MarkSeen
  <2>4. QED
    BY <2>1, <2>3
<1>3. ASSUME NEW w \in Watches, ExecuteStatement(w) PROVE Rest'
  <2> DEFINE new == [db EXCEPT ![w].part = done'[w]]
  <2>1. \A x \in Watches : db[x].known => new[x].known
    BY <1>0, <1>m DEF TypeOK, Rows
  <2>2. Execute(new) /\ UNCHANGED <<at, recheck, caught>>
    BY <1>3 DEF ExecuteStatement
  <2> HIDE DEF new
  <2>3. PlainKnown' /\ MarkSeen'
    BY <1>0, <2>1, <2>2, RowsFlow, MarksKept DEF PlainKnown
  <2>4. QED
    BY <2>2, <2>3
<1>4. ASSUME NEW w \in Watches, EndBuffer(w) PROVE Rest'
  <2> DEFINE new == [db EXCEPT ![w].whole = @ + 1, ![w].part = 0]
  <2>1. \A x \in Watches : db[x].known => new[x].known
    BY <1>0, <1>m DEF TypeOK, Rows
  <2>2. \E abort \in {FALSE, TRUE, (w \in MayAbort)} : Execute(new) \/ EndTransaction(new, abort)
    BY <1>4 DEF EndBuffer
  <2>3. recheck' = recheck /\ at' = [at EXCEPT ![w] = "idle"]
        /\ (caught' = caught \/ caught' = [caught EXCEPT ![w] = TRUE])
    BY <1>4 DEF EndBuffer
  <2> HIDE DEF new
  <2>4. PlainKnown' /\ MarkSeen'
    BY <1>0, <2>1, <2>2, <2>3, RowsFlow, MarksKept DEF PlainKnown
  <2>5. Detached'
    BY <1>0, <2>3 DEF TypeOK
  <2>6. QED
    BY <2>4, <2>5
<1>5. ASSUME NEW r \in Readers, BeginPath(r) \/ EndPath(r) PROVE Rest'
  <2>1. UNCHANGED <<recheck, caught>> /\ \A x \in Watches : at'[x] = at[x]
    BY <1>0, <1>5, TransactionsAssumption DEF BeginPath, EndPath, TypeOK
  <2>2. BeginTransaction(db) \/ EndTransaction(db, FALSE)
    BY <1>5 DEF BeginPath, EndPath
  <2>3. PlainKnown' /\ MarkSeen'
    BY <1>0, <2>1, <2>2, RowsFlow, MarksKept DEF PlainKnown
  <2>4. QED
    BY <2>1, <2>3
<1>6. ASSUME NEW v \in Writers, WriteAlone(v) PROVE Rest'
  <2> DEFINE new == [db EXCEPT ![v].whole = @ + 1]
  <2>1. \A x \in Watches : db[x].known => new[x].known
    BY <1>0, <1>m DEF TypeOK, Rows
  <2>2. Execute(new) /\ UNCHANGED <<at, recheck, caught>>
    BY <1>6 DEF WriteAlone
  <2> HIDE DEF new
  <2>3. PlainKnown' /\ MarkSeen'
    BY <1>0, <2>1, <2>2, RowsFlow, MarksKept DEF PlainKnown
  <2>4. QED
    BY <2>2, <2>3
<1>7. CASE Crash
  BY <1>0, <1>7 DEF Crash, PlainKnown, MarkSeen
<1>8. CASE UNCHANGED vars
  BY <1>8 DEF vars, threadVars, PlainKnown, MarkSeen
<1>9. QED
  BY <1>1, <1>2, <1>3, <1>4, <1>5, <1>6, <1>7, <1>8 DEF Next

Tied == Counted /\ PartsInside /\ Units

LEMMA TiedStep ==
  ASSUME Base, Rest, Tied, Base', [Next]_vars, ~overdrawn'
  PROVE  Tied'
<1> USE DEF Tied
<1>0. TypeOK /\ Watches \subseteq Owners /\ Watches \subseteq Users
      /\ Rechecking \subseteq Watches /\ Writers \cap Watches = {} /\ Readers \subseteq Users
      /\ Watches \cap Readers = {}
  BY TransactionsAssumption DEF Base, Owners, Users
<1>r. \A x \in Watches \ Rechecking : ~recheck[x]
  BY DEF Rest, PlainKnown
<1>m. \A o \in Owners : db[o] \in Rows
  BY <1>0 DEF TypeOK
<1>1. ASSUME NEW w \in Watches, Attach(w) PROVE Tied'
  <2>1. ~recheck[w] /\ ~caught[w] /\ at[w] = "off" /\ caught' = caught
    BY <1>1 DEF Attach, Rest, Detached
  <2>2. CASE db[w].known
    <3>1. recheck' = [recheck EXCEPT ![w] = FALSE] /\ at' = [at EXCEPT ![w] = "idle"]
          /\ UNCHANGED <<nest, db, disk>>
      BY <1>1, <2>2 DEF Attach
    <3>2. Inside' = Inside
      BY <1>0, <2>1, <3>1 DEF Inside, Threads, TypeOK
    <3>3. Counted'
      BY <3>1, <3>2, CountFollows
    <3>4. PartsInside' /\ Units'
      BY <1>0, <2>1, <3>1 DEF PartsInside, Units, TypeOK
    <3>5. QED
      BY <3>3, <3>4
  <2>3. CASE ~db[w].known
    <3> DEFINE new == [db EXCEPT ![w].known = TRUE]
    <3>1. recheck' = [recheck EXCEPT ![w] = TRUE] /\ at' = [at EXCEPT ![w] = "idle"]
          /\ BeginTransaction(new)
      BY <1>1, <2>3 DEF Attach
    <3>2. w \notin Inside /\ Inside' = Inside \cup {w}
      BY <1>0, <2>1, <3>1 DEF Inside, Threads, TypeOK
    <3>3. nest' = nest + 1 /\ db' = new /\ disk' = IF txn' THEN disk ELSE new
      BY <3>1 DEF BeginTransaction
    <3>4. Counted'
      BY <3>2, <3>3, CountFollows
    <3>5. disk' = disk
      <4>1. nest' > 0
        BY <3>3, InsideFinite DEF Counted
      <4>2. QED
        BY <3>3, <4>1 DEF Base, TxnWhileNested
    <3>6. w \in Rechecking /\ ~disk[w].known
      BY <2>3 DEF Rest, PlainKnown, MarkSeen
    <3>7. PartsInside' /\ Units'
      BY <1>0, <1>m, <2>1, <3>1, <3>3, <3>5, <3>6 DEF PartsInside, Units, TypeOK, Rows
    <3>8. QED
      BY <3>4, <3>7
  <2>4. QED
    BY <2>2, <2>3
<1>2. ASSUME NEW w \in Watches, BeginBuffer(w) PROVE Tied'
  <2>1. at[w] = "idle" /\ at' = [at EXCEPT ![w] = "busy"] /\ UNCHANGED <<recheck, caught>>
    BY <1>2 DEF BeginBuffer
  <2>2. db' = db /\ disk' = disk
    BY <1>2 DEF BeginBuffer, BeginTransaction, Base, Synced
  <2>3. Counted'
    <3>1. CASE recheck[w]
      <4>1. Inside' = Inside
        BY <1>0, <2>1, <3>1 DEF Inside, Threads, TypeOK
      <4>2. QED
        BY <1>2, <3>1, <4>1, CountFollows DEF BeginBuffer
    <3>2. CASE ~recheck[w]
      <4>1. w \notin Inside /\ Inside' = Inside \cup {w}
        BY <1>0, <2>1, <3>2 DEF Inside, Threads, TypeOK
      <4>2. QED
        BY <1>2, <3>2, <4>1, CountFollows DEF BeginBuffer, BeginTransaction
    <3>3. QED
      BY <3>1, <3>2
  <2>4. PartsInside' /\ Units'
    BY <1>0, <2>1, <2>2 DEF PartsInside, Units, TypeOK
  <2>5. QED
    BY <2>3, <2>4
<1>3. ASSUME NEW w \in Watches, ExecuteStatement(w) PROVE Tied'
  <2> DEFINE new == [db EXCEPT ![w].part = done'[w]]
  <2>1. at[w] = "busy" /\ Execute(new) /\ UNCHANGED <<at, recheck, caught>>
    BY <1>3 DEF ExecuteStatement
  <2>2. Inside' = Inside /\ nest' = nest
    BY <2>1 DEF Inside, Execute
  <2>3. Counted'
    BY <2>2, CountFollows
  <2>4. db' = new /\ (disk' = disk \/ disk' = new)
    BY <2>1 DEF Execute
  <2>5. PartsInside'
    BY <1>0, <2>1, <2>4 DEF PartsInside, TypeOK
  <2>6. Units'
    <3>1. CASE Inside # {}
      <4> HIDE DEF new
      <4>1. disk' = disk
        BY <2>1, <3>1, ExecuteInside
      <4>2. QED
        BY <2>1, <4>1 DEF Units
    <3>2. CASE Inside = {}
      <4>1. recheck[w] /\ caught[w] /\ w \in Rechecking
        BY <1>r, <2>1, <3>2 DEF Inside, Threads
      <4>2. \A x \in Rechecking : ~(recheck[x] /\ ~caught[x])
        BY <1>0, <3>2 DEF Inside, Threads
      <4>3. \A x \in Watches \ Rechecking : db[x].part = 0
        BY <1>0, <1>r, <3>2 DEF PartsInside, Inside, Threads
      <4>4. \A x \in Watches \ Rechecking : new[x].part = 0
        BY <1>0, <1>m, <4>1, <4>3 DEF TypeOK, Rows
      <4>5. QED
        BY <2>1, <2>4, <4>2, <4>4 DEF Units
    <3>3. QED
      BY <3>1, <3>2
  <2>7. QED
    BY <2>3, <2>5, <2>6
<1>4. ASSUME NEW w \in Watches, EndBuffer(w) PROVE Tied'
  <2> DEFINE new == [db EXCEPT ![w].whole = @ + 1, ![w].part = 0]
  <2>1. at[w] = "busy" /\ at' = [at EXCEPT ![w] = "idle"] /\ recheck' = recheck
    BY <1>4 DEF EndBuffer
  <2>2. new[w].part = 0 /\ \A x \in Watches \ {w} : new[x] = db[x]
    BY <1>0, <1>m DEF TypeOK, Rows
  <2>3. new[w].known = db[w].known
    BY <1>0, <1>m DEF TypeOK, Rows
  <2>4. CASE \E abort \in {FALSE, (w \in MayAbort)} :
               EndTransaction(new, abort) /\ w \in Inside /\ (recheck[w] => caught'[w])
               /\ \A x \in Watches \ {w} : caught'[x] = caught[x]
    <3>1. PICK abort \in {FALSE, (w \in MayAbort)} : EndTransaction(new, abort)
      BY <2>4
    <3>2. w \in Inside /\ (recheck[w] => caught'[w])
          /\ \A x \in Watches \ {w} : caught'[x] = caught[x]
      BY <2>4
    <3> HIDE DEF new
    <3>3. \/ disk' = disk /\ (db' = new \/ (db' = disk /\ Inside = {w}))
          \/ disk' = new /\ db' = new /\ Inside = {w}
      BY <3>1, <3>2, EndInside DEF Rest
    <3>4. Inside' = Inside \ {w} /\ nest' = nest - 1
      BY <1>0, <2>1, <3>1, <3>2 DEF Inside, Threads, TypeOK, EndTransaction
    <3>5. Counted'
      BY <3>2, <3>4, CountFollows
    <3>6. Inside = {w} => /\ \A x \in Watches \ Rechecking : new[x].part = 0
                          /\ \A x \in Rechecking : x # w => ~(recheck[x] /\ ~caught[x])
      BY <1>0, <1>r, <2>2 DEF Inside, Threads, PartsInside
    <3>7. PartsInside'
      BY <1>0, <2>1, <2>2, <3>3 DEF PartsInside, Units, TypeOK
    <3>8. Units'
      BY <1>0, <2>1, <3>2, <3>3, <3>6 DEF Units
    <3>9. QED
      BY <3>5, <3>7, <3>8
  <2>5. CASE recheck[w] /\ ~caught[w] /\ Execute(new) /\ caught' = caught
    <3>1. w \in Inside /\ Inside' = Inside /\ nest' = nest /\ w \in Rechecking
      BY <1>0, <1>r, <2>1, <2>5 DEF Inside, Threads, Execute, TypeOK
    <3>2. Counted'
      BY <3>1, CountFollows
    <3> HIDE DEF new
    <3>3. disk' = disk /\ db' = new
      BY <2>5, <3>1, ExecuteInside DEF Execute
    <3>4. PartsInside' /\ Units'
      BY <1>0, <2>1, <2>2, <2>5, <3>1, <3>3 DEF PartsInside, Units, TypeOK
    <3>5. QED
      BY <3>2, <3>4
  <2>6. QED
    <3>1. CASE ~recheck[w] /\ caught' = caught
               /\ \E abort \in {FALSE, (w \in MayAbort)} : EndTransaction(new, abort)
      <4>1. w \in Inside
        BY <2>1, <3>1 DEF Inside, Threads
      <4>2. QED
        BY <2>4, <3>1, <4>1
    <3>2. CASE recheck[w] /\ caught' = [caught EXCEPT ![w] = TRUE]
               /\ overdrawn' = (overdrawn \/ caught[w]) /\ EndTransaction(new, FALSE)
      <4>1. ~caught[w] /\ w \in Inside
        BY <1>0, <2>1, <3>2 DEF Inside, Threads, TypeOK
      <4>2. caught'[w] /\ \A x \in Watches \ {w} : caught'[x] = caught[x]
        BY <1>0, <3>2 DEF TypeOK
      <4>3. QED
        BY <2>4, <3>2, <4>1, <4>2
    <3>3. QED
      BY <1>4, <2>5, <3>1, <3>2 DEF EndBuffer
<1>5. ASSUME NEW r \in Readers, BeginPath(r) PROVE Tied'
  <2>1. at[r] = "idle" /\ at' = [at EXCEPT ![r] = "busy"] /\ UNCHANGED <<recheck, caught>>
    BY <1>5 DEF BeginPath
  <2>2. db' = db /\ disk' = disk /\ nest' = nest + 1
    BY <1>5 DEF BeginPath, BeginTransaction, Base, Synced
  <2>3. r \notin Inside /\ Inside' = Inside \cup {r}
    BY <1>0, <2>1 DEF Inside, Threads, TypeOK
  <2>4. Counted'
    BY <2>2, <2>3, CountFollows
  <2>5. PartsInside' /\ Units'
    BY <1>0, <2>1, <2>2 DEF PartsInside, Units, TypeOK
  <2>6. QED
    BY <2>4, <2>5
<1>6. ASSUME NEW r \in Readers, EndPath(r) PROVE Tied'
  <2>1. at[r] = "busy" /\ at' = [at EXCEPT ![r] = "idle"] /\ UNCHANGED <<recheck, caught>>
        /\ EndTransaction(db, FALSE)
    BY <1>6 DEF EndPath
  <2>2. r \in Inside /\ Inside' = Inside \ {r} /\ nest' = nest - 1
    BY <1>0, <2>1 DEF Inside, Threads, TypeOK, EndTransaction
  <2>3. Counted'
    BY <2>2, CountFollows
  <2>4. \/ disk' = disk /\ (db' = db \/ (db' = disk /\ Inside = {r}))
        \/ disk' = db /\ db' = db /\ Inside = {r}
    BY <2>1, <2>2, EndInside DEF Rest
  <2>5. Inside = {r} => /\ \A x \in Watches \ Rechecking : db[x].part = 0
                        /\ \A x \in Rechecking : ~(recheck[x] /\ ~caught[x])
    BY <1>0, <1>r DEF Inside, Threads, PartsInside
  <2>6. \A x \in Watches : at'[x] = at[x]
    BY <1>0, <2>1 DEF TypeOK
  <2>7. PartsInside' /\ Units'
    BY <1>0, <2>1, <2>4, <2>5, <2>6 DEF PartsInside, Units
  <2>8. QED
    BY <2>3, <2>7
<1>7. ASSUME NEW v \in Writers, WriteAlone(v) PROVE Tied'
  <2> DEFINE new == [db EXCEPT ![v].whole = @ + 1]
  <2>1. Execute(new) /\ UNCHANGED <<at, recheck, caught>>
    BY <1>7 DEF WriteAlone
  <2>2. \A x \in Watches : new[x] = db[x]
    BY <1>0 DEF TypeOK
  <2> HIDE DEF new
  <2>3. Inside' = Inside /\ nest' = nest /\ db' = new
    BY <2>1 DEF Inside, Execute
  <2>4. Counted'
    BY <2>3, CountFollows
  <2>5. Units'
    <3>1. CASE Inside # {}
      BY <2>1, <3>1, ExecuteInside DEF Units
    <3>2. CASE Inside = {}
      <4>1. /\ \A x \in Watches \ Rechecking : new[x].part = 0
            /\ \A x \in Rechecking : ~(recheck[x] /\ ~caught[x])
        BY <1>0, <1>r, <2>2, <3>2 DEF Inside, Threads, PartsInside
      <4>2. QED
        BY <2>1, <4>1 DEF Units, Execute
    <3>3. QED
      BY <3>1, <3>2
  <2>6. PartsInside'
    BY <2>1, <2>2, <2>3 DEF PartsInside
  <2>7. QED
    BY <2>4, <2>5, <2>6
<1>8. CASE Crash
  <2>1. nest' = 0 /\ db' = disk /\ disk' = disk
        /\ at' = [u \in Users |-> IF u \in Watches THEN "off" ELSE "idle"]
        /\ recheck' = [w \in Watches |-> FALSE]
    BY <1>8 DEF Crash
  <2>2. Inside' = {}
    BY <1>0, <2>1 DEF Inside, Threads
  <2>3. Counted'
    BY <2>1, <2>2, FS_EmptySet DEF Counted
  <2>4. PartsInside' /\ Units'
    BY <1>0, <2>1 DEF PartsInside, Units
  <2>5. QED
    BY <2>3, <2>4
<1>9. CASE UNCHANGED vars
  BY <1>9 DEF vars, threadVars, Counted, Inside, PartsInside, Units
<1>10. QED
  BY <1>1, <1>2, <1>3, <1>4, <1>5, <1>6, <1>7, <1>8, <1>9 DEF Next
-----------------------------------------------------------------------------
\* The inductive invariant.  That a crash tears nothing is not inductive by
\* itself: it needs that the level counts the threads inside, so that whoever
\* commits is the last one and nobody else's rows are in parts.
IInv == Base /\ Rest /\ (~overdrawn => Tied)

LEMMA IInvInit == Init => IInv
<1> SUFFICES ASSUME Init PROVE IInv
  OBVIOUS
<1>1. Base
  BY BaseInit
<1>2. Rest
  BY TransactionsAssumption DEF Init, Rest, PlainKnown, MarkSeen, Detached, Owners, Users
<1>3. Inside = {}
  <2>1. \A u \in Threads : at[u] # "busy"
    BY DEF Init, Threads, Users, Owners
  <2>2. \A w \in Watches : ~recheck[w]
    BY DEF Init
  <2>3. QED
    BY <2>1, <2>2 DEF Inside, Threads
<1>4. Counted
  BY <1>3, FS_EmptySet DEF Init, Counted
<1>5. PartsInside /\ Units
  BY TransactionsAssumption DEF Init, PartsInside, Units, Owners
<1>6. QED
  BY <1>1, <1>2, <1>4, <1>5 DEF IInv, Tied

LEMMA OverdrawnStays == ASSUME Base, [Next]_vars, ~overdrawn' PROVE ~overdrawn
BY DEF Base, TypeOK, Next, vars, Attach, BeginBuffer, ExecuteStatement, EndBuffer, BeginPath,
       EndPath, WriteAlone, Crash

LEMMA IInvStep == IInv /\ [Next]_vars => IInv'
<1> SUFFICES ASSUME IInv, [Next]_vars PROVE IInv'
  OBVIOUS
<1>1. Base' /\ Rest'
  BY BaseStep, RestStep DEF IInv
<1>2. ~overdrawn' => Tied'
  BY <1>1, OverdrawnStays, TiedStep DEF IInv
<1>3. QED
  BY <1>1, <1>2 DEF IInv

\* The inductive invariant holds of Database's transactions throughout.
THEOREM InvariantHolds == Spec => []IInv
BY IInvInit, IInvStep, PTL DEF Spec

\* The type invariant.
THEOREM TypeCorrect == Spec => []TypeOK
<1>1. IInv => TypeOK
  BY DEF IInv, Base
<1>2. QED
  BY <1>1, InvariantHolds, PTL

\* SQLite is in a transaction exactly while the level is positive, whatever
\* threads begin, end, abort or crash (Database.cc:42-76).
THEOREM LevelTellsTransaction == Spec => []TxnWhileNested
<1>1. IInv => TxnWhileNested
  BY DEF IInv, Base
<1>2. QED
  BY <1>1, InvariantHolds, PTL

\* A crash tears no buffer and no re-check, unless a transaction was ended by
\* one that had not begun it (watching_win32.cc:184-191).
THEOREM NothingTorn == Spec => []WholeUnits
<1>1. IInv => WholeUnits
  BY DEF IInv, Tied, Units, WholeUnits
<1>2. QED
  BY <1>1, InvariantHolds, PTL

\* Ends that were never begun only lower the level: it never exceeds the
\* number of those inside, overdrawn or not.
Bounded == nest <= Cardinality(Inside)

LEMMA BoundedFollows ==
  ASSUME Bounded, TypeOK, NEW u,
         \/ u \notin Inside /\ Inside' = Inside \cup {u} /\ nest' = nest + 1
         \/ Inside' = Inside \ {u} /\ nest' = nest - 1
         \/ Inside' = Inside /\ nest' = nest
  PROVE  Bounded'
<1>0. nest \in Int /\ Cardinality(Inside) \in Nat /\ IsFiniteSet(Inside)
  BY InsideFinite DEF TypeOK
<1>1. CASE u \notin Inside /\ Inside' = Inside \cup {u} /\ nest' = nest + 1
  BY <1>0, <1>1, FS_AddElement DEF Bounded
<1>2. CASE u \in Inside /\ Inside' = Inside \ {u} /\ nest' = nest - 1
  BY <1>0, <1>2, FS_RemoveElement DEF Bounded
<1>3. CASE u \notin Inside /\ Inside' = Inside \ {u} /\ nest' = nest - 1
  <2>1. Inside' = Inside
    BY <1>3
  <2>2. QED
    BY <1>0, <1>3, <2>1 DEF Bounded
<1>4. CASE Inside' = Inside /\ nest' = nest
  BY <1>4 DEF Bounded
<1>5. QED
  BY <1>1, <1>2, <1>3, <1>4

LEMMA BoundedStep == ASSUME Base, Rest, Bounded, [Next]_vars PROVE Bounded'
<1> USE DEF Rest, Detached
<1>0. TypeOK /\ Watches \subseteq Users /\ Readers \subseteq Users /\ Watches \cap Readers = {}
      /\ Writers \subseteq Owners
  BY TransactionsAssumption DEF Base, Owners, Users
<1>1. ASSUME NEW w \in Watches, Attach(w) PROVE Bounded'
  <2>1. ~recheck[w] /\ ~caught[w] /\ at[w] = "off" /\ caught' = caught
        /\ at' = [at EXCEPT ![w] = "idle"] /\ recheck' = [recheck EXCEPT ![w] = ~db[w].known]
    BY <1>1 DEF Attach
  <2>2. w \notin Inside
    BY <2>1 DEF Inside
  <2>3. CASE db[w].known
    <3>1. Inside' = Inside /\ nest' = nest
      BY <1>0, <1>1, <2>1, <2>3 DEF Attach, Inside, TypeOK
    <3>2. QED
      BY <1>0, <3>1, BoundedFollows
  <2>4. CASE ~db[w].known
    <3>1. nest' = nest + 1
      BY <1>1, <2>4 DEF Attach, BeginTransaction
    <3>2. Inside' = Inside \cup {w}
      BY <1>0, <2>1, <2>4 DEF Inside, TypeOK
    <3>3. QED
      BY <1>0, <2>2, <3>1, <3>2, BoundedFollows
  <2>5. QED
    BY <2>3, <2>4
<1>2. ASSUME NEW w \in Watches, BeginBuffer(w) PROVE Bounded'
  <2>1. at[w] = "idle" /\ at' = [at EXCEPT ![w] = "busy"] /\ UNCHANGED <<recheck, caught>>
    BY <1>2 DEF BeginBuffer
  <2>2. CASE recheck[w]
    <3>1. Inside' = Inside /\ nest' = nest
      BY <1>0, <1>2, <2>1, <2>2 DEF BeginBuffer, Inside, TypeOK
    <3>2. QED
      BY <1>0, <3>1, BoundedFollows
  <2>3. CASE ~recheck[w]
    <3>1. w \notin Inside /\ Inside' = Inside \cup {w}
      BY <1>0, <2>1, <2>3 DEF Inside, TypeOK
    <3>2. nest' = nest + 1
      BY <1>2, <2>3 DEF BeginBuffer, BeginTransaction
    <3>3. QED
      BY <1>0, <3>1, <3>2, BoundedFollows
  <2>4. QED
    BY <2>2, <2>3
<1>3. ASSUME NEW w \in Watches, ExecuteStatement(w) PROVE Bounded'
  <2>1. UNCHANGED <<at, recheck, caught, nest>>
    BY <1>3 DEF ExecuteStatement, Execute
  <2>2. QED
    BY <2>1 DEF Bounded, Inside
<1>4. ASSUME NEW w \in Watches, EndBuffer(w) PROVE Bounded'
  <2>1. at[w] = "busy" /\ at' = [at EXCEPT ![w] = "idle"] /\ recheck' = recheck
    BY <1>4 DEF EndBuffer
  <2>2. CASE ~recheck[w]
    <3>1. nest' = nest - 1 /\ caught' = caught
      BY <1>4, <2>2 DEF EndBuffer, EndTransaction
    <3>2. Inside' = Inside \ {w}
      BY <1>0, <2>1, <2>2, <3>1 DEF Inside, TypeOK
    <3>3. QED
      BY <1>0, <3>1, <3>2, BoundedFollows
  <2>3. CASE recheck[w] /\ nest' = nest - 1 /\ caught' = [caught EXCEPT ![w] = TRUE]
    <3>1. Inside' = Inside \ {w}
      BY <1>0, <2>1, <2>3 DEF Inside, TypeOK
    <3>2. QED
      BY <1>0, <2>3, <3>1, BoundedFollows
  <2>4. CASE recheck[w] /\ nest' = nest /\ caught' = caught
    <3>1. Inside' = Inside
      BY <1>0, <2>1, <2>4 DEF Inside, TypeOK
    <3>2. QED
      BY <1>0, <2>4, <3>1, BoundedFollows
  <2>5. QED
    BY <1>4, <2>2, <2>3, <2>4 DEF EndBuffer, EndTransaction, Execute
<1>5. ASSUME NEW r \in Readers, BeginPath(r) PROVE Bounded'
  <2>1. at[r] = "idle" /\ at' = [at EXCEPT ![r] = "busy"] /\ UNCHANGED <<recheck, caught>>
        /\ nest' = nest + 1
    BY <1>5 DEF BeginPath, BeginTransaction
  <2>2. r \notin Inside /\ Inside' = Inside \cup {r}
    BY <1>0, <2>1 DEF Inside, TypeOK
  <2>3. QED
    BY <1>0, <2>1, <2>2, BoundedFollows
<1>6. ASSUME NEW r \in Readers, EndPath(r) PROVE Bounded'
  <2>1. at' = [at EXCEPT ![r] = "idle"] /\ UNCHANGED <<recheck, caught>> /\ nest' = nest - 1
    BY <1>6 DEF EndPath, EndTransaction
  <2>2. Inside' = Inside \ {r}
    BY <1>0, <2>1 DEF Inside, TypeOK
  <2>3. QED
    BY <1>0, <2>1, <2>2, BoundedFollows
<1>7. ASSUME NEW v \in Writers, WriteAlone(v) PROVE Bounded'
  <2>1. UNCHANGED <<at, recheck, caught, nest>>
    BY <1>7 DEF WriteAlone, Execute
  <2>2. QED
    BY <2>1 DEF Bounded, Inside
<1>8. CASE Crash
  <2>1. nest' = 0 /\ \A u \in Users : at'[u] # "busy"
    BY <1>8 DEF Crash
  <2>2. \A w \in Watches : ~recheck'[w]
    BY <1>8 DEF Crash
  <2>3. Inside' = {}
    BY <1>0, <2>1, <2>2 DEF Inside
  <2>4. QED
    BY <2>1, <2>3, FS_EmptySet DEF Bounded
<1>9. CASE UNCHANGED vars
  BY <1>9 DEF vars, threadVars, Bounded, Inside
<1>10. QED
  BY <1>1, <1>2, <1>3, <1>4, <1>5, <1>6, <1>7, <1>8, <1>9 DEF Next

\* When nobody is inside a transaction everything seen is durable, although
\* finished re-checks end transactions they have not begun (Database.cc:42-76).
THEOREM QuietAlwaysDurable == Spec => []QuietIsDurable
<1>1. IInv /\ Bounded => QuietIsDurable
  <2> SUFFICES ASSUME Base, Bounded, Inside = {} PROVE db = disk
    BY DEF IInv, QuietIsDurable
  <2>1. nest <= 0 /\ nest \in Int
    BY FS_EmptySet DEF Bounded, Base, TypeOK
  <2>2. QED
    BY <2>1 DEF Base, TxnWhileNested, Synced
<1>2. Init => Bounded
  <2> SUFFICES ASSUME Init PROVE Bounded
    OBVIOUS
  <2>1. Inside = {} /\ nest = 0
    BY TransactionsAssumption DEF Init, Inside, Users, Owners
  <2>2. QED
    BY <2>1, FS_EmptySet DEF Bounded
<1>3. IInv /\ Bounded /\ [Next]_vars => Bounded'
  BY BoundedStep DEF IInv
<1>4. Spec => []Bounded
  BY <1>2, <1>3, InvariantHolds, PTL DEF Spec
<1>5. QED
  BY <1>1, <1>4, InvariantHolds, PTL

\* With an abort in force nothing of anybody becomes durable (Database.cc:58, 70).
THEOREM AbortDooms == Spec => BrokenNeverDurable
<1>1. IInv /\ [Next]_vars => [aborted /\ txn => disk' = disk]_vars
  BY BaseStep DEF IInv
<1>2. QED
  BY <1>1, InvariantHolds, PTL DEF Spec, BrokenNeverDurable
-----------------------------------------------------------------------------
\* An access to the database loses rows from view only in rolling back.
LEMMA AccessKeepsRows ==
  ASSUME Base, NEW new \in [Owners -> Rows], NEW abort \in BOOLEAN,
         \A o \in Owners : db[o].whole <= new[o].whole,
         \/ Execute(new) \/ BeginTransaction(new) \/ EndTransaction(new, abort)
         \/ UNCHANGED <<nest, breaked, txn, aborted, db, disk>>
  PROVE  aborted' \/ \A o \in Owners : db[o].whole <= db'[o].whole
<1>0. \A o \in Owners : db[o].whole \in Nat
  BY DEF Base, TypeOK, Rows
<1>1. CASE Execute(new) \/ BeginTransaction(new)
  BY <1>1 DEF Execute, BeginTransaction
<1>2. CASE EndTransaction(new, abort)
  <2>1. CASE nest = 1
    <3>1. db' = new \/ breaked'
      BY <1>2, <2>1 DEF EndTransaction
    <3>2. txn
      BY <2>1 DEF Base, TxnWhileNested
    <3>3. breaked' <=> aborted'
      BY <1>2, <3>2 DEF EndTransaction, Base, AbortSticks
    <3>4. QED
      BY <3>1, <3>3
  <2>2. CASE nest # 1
    BY <1>2, <2>2 DEF EndTransaction
  <2>3. QED
    BY <2>1, <2>2
<1>3. CASE UNCHANGED <<nest, breaked, txn, aborted, db, disk>>
  BY <1>0, <1>3
<1>4. QED
  BY <1>1, <1>2, <1>3

\* No statement of any thread takes a stored buffer back.
LEMMA RowsGrow ==
  ASSUME TypeOK, NEW o \in Owners
  PROVE  /\ \A x \in Owners : db[x].whole <= db[x].whole
         /\ \A x \in Owners : db[x].whole <= [db EXCEPT ![o].known = TRUE][x].whole
         /\ \A x \in Owners : db[x].whole <= [db EXCEPT ![o].whole = @ + 1][x].whole
         /\ \A x \in Owners : db[x].whole <= [db EXCEPT ![o].whole = @ + 1, ![o].part = 0][x].whole
         /\ \A k \in 0..Statements, x \in Owners : db[x].whole <= [db EXCEPT ![o].part = k][x].whole
BY DEF TypeOK, Rows

LEMMA RowsStep ==
  ASSUME Base, [Next]_vars
  PROVE  aborted' \/ breaks' # breaks \/ \A o \in Owners : db[o].whole <= db'[o].whole
<1> DEFINE Goal == aborted' \/ breaks' # breaks \/ \A o \in Owners : db[o].whole <= db'[o].whole
<1>0. TypeOK /\ Watches \subseteq Owners /\ Writers \subseteq Owners /\ db \in [Owners -> Rows]
  BY DEF Base, Owners, TypeOK
<1>g. \A x \in Owners : db[x].whole <= db[x].whole
  BY <1>0 DEF Rows
<1>1. ASSUME NEW w \in Watches, Attach(w) PROVE Goal
  <2>1. [db EXCEPT ![w].known = TRUE] \in [Owners -> Rows]
    BY <1>0, RowsTyped
  <2>2. \A x \in Owners : db[x].whole <= [db EXCEPT ![w].known = TRUE][x].whole
    BY <1>0, RowsGrow
  <2>3. BeginTransaction([db EXCEPT ![w].known = TRUE])
        \/ UNCHANGED <<nest, breaked, txn, aborted, db, disk>>
    BY <1>1 DEF Attach
  <2>4. QED
    BY <2>1, <2>2, <2>3, AccessKeepsRows
<1>2. ASSUME NEW w \in Watches, BeginBuffer(w) PROVE Goal
  <2>1. BeginTransaction(db) \/ UNCHANGED <<nest, breaked, txn, aborted, db, disk>>
    BY <1>2 DEF BeginBuffer
  <2>2. QED
    BY <1>0, <1>g, <2>1, AccessKeepsRows
<1>3. ASSUME NEW w \in Watches, ExecuteStatement(w) PROVE Goal
  <2>1. done'[w] \in 0..Statements
    BY <1>0, <1>3, TransactionsAssumption DEF ExecuteStatement, TypeOK
  <2> DEFINE new == [db EXCEPT ![w].part = done'[w]]
  <2>2. new \in [Owners -> Rows] /\ \A x \in Owners : db[x].whole <= new[x].whole
    BY <1>0, <2>1, RowsTyped, RowsGrow
  <2>3. Execute(new)
    BY <1>3 DEF ExecuteStatement
  <2> HIDE DEF new
  <2>4. QED
    BY <2>2, <2>3, AccessKeepsRows
<1>4. ASSUME NEW w \in Watches, EndBuffer(w) PROVE Goal
  <2> DEFINE new == [db EXCEPT ![w].whole = @ + 1, ![w].part = 0]
  <2>1. new \in [Owners -> Rows] /\ \A x \in Owners : db[x].whole <= new[x].whole
    BY <1>0, RowsTyped, RowsGrow
  <2>2. Execute(new) \/ \E abort \in BOOLEAN : EndTransaction(new, abort)
    <3>1. {FALSE, (w \in MayAbort)} \subseteq BOOLEAN
      OBVIOUS
    <3>2. QED
      BY <1>4, <3>1 DEF EndBuffer
  <2> HIDE DEF new
  <2>3. QED
    BY <2>1, <2>2, AccessKeepsRows
<1>5. ASSUME NEW r \in Readers, BeginPath(r) \/ EndPath(r) PROVE Goal
  <2>1. BeginTransaction(db) \/ EndTransaction(db, FALSE)
    BY <1>5 DEF BeginPath, EndPath
  <2>2. QED
    BY <1>0, <1>g, <2>1, AccessKeepsRows
<1>6. ASSUME NEW v \in Writers, WriteAlone(v) PROVE Goal
  <2> DEFINE new == [db EXCEPT ![v].whole = @ + 1]
  <2>1. new \in [Owners -> Rows] /\ \A x \in Owners : db[x].whole <= new[x].whole
    BY <1>0, RowsTyped, RowsGrow
  <2>2. Execute(new)
    BY <1>6 DEF WriteAlone
  <2> HIDE DEF new
  <2>3. QED
    BY <2>1, <2>2, AccessKeepsRows
<1>7. CASE Crash
  BY <1>0, <1>7 DEF Crash, TypeOK
<1>8. CASE UNCHANGED vars
  BY <1>g, <1>8 DEF vars
<1>9. QED
  BY <1>1, <1>2, <1>3, <1>4, <1>5, <1>6, <1>7, <1>8 DEF Next

\* What was stored is lost from view only to a crash or to an abort in the same
\* transaction: begin_transaction forgets older ones (Database.cc:47).
THEOREM OnlyAbortsUndo == Spec => FinalsKept
<1>1. IInv /\ [Next]_vars =>
        [(\E o \in Owners : db'[o].whole < db[o].whole) => aborted' \/ breaks' # breaks]_vars
  <2>1. ASSUME IInv, [Next]_vars, IInv', NEW o \in Owners, db'[o].whole < db[o].whole
        PROVE  aborted' \/ breaks' # breaks
    <3>1. db[o].whole \in Nat /\ db'[o].whole \in Nat
      BY <2>1 DEF IInv, Base, TypeOK, Rows
    <3>2. ~(db[o].whole <= db'[o].whole)
      BY <2>1, <3>1
    <3>3. QED
      BY <2>1, <3>2, RowsStep DEF IInv
  <2>2. QED
    BY <2>1, IInvStep
<1>2. QED
  BY <1>1, InvariantHolds, PTL DEF Spec, FinalsKept
=============================================================================
