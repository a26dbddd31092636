------------------------------ MODULE FileIndex ------------------------------
(***************************************************************************)
(* The tables of one volume (kernel/dal/db_sqlite_impl.cpp:93-96) and the  *)
(* SQL statements filemgr_t (kernel/filemgr.cc) and volmgr_t               *)
(* (kernel/volmgr.cc) execute on them, one operator per statement.         *)
(*                                                                         *)
(* A directory entry's key (volid, parent, name) is a member of Names.     *)
(***************************************************************************)
EXTENDS Integers, Sequences

CONSTANTS Names,           \* the (parent, name) pairs
          Inodes,          \* file reference numbers
          NONE             \* no such row

ASSUME NoneAssumption == NONE \notin Inodes

\* dentry, checked: known_dentry; known, refc: known_file; jid, ptr, next:
\* journal_id, usn_pointer and usn_next of the row in known_ntfs.
Tables == [dentry : [Names -> Inodes \cup {NONE}], checked : SUBSET Names,
           known : SUBSET Inodes, refc : [Inodes -> Int],
           jid : Nat, ptr : Nat, next : Nat]

EmptyTables == [dentry |-> [n \in Names |-> NONE], checked |-> {},
                known |-> {}, refc |-> [i \in Inodes |-> 0],
                jid |-> 0, ptr |-> 0, next |-> 0]

\* Why a USN record was written, as far as process() looks: a set of bits.
\* A file that is created or changed sets none of these.
Reasons == {"delete", "link", "rename_old", "rename_new"}
Records == [reasons : SUBSET Reasons, name : Names, inode : Inodes]
-----------------------------------------------------------------------------
\* INSERT OR IGNORE INTO known_dentry ... checked = 1
AddDentry(db, r) ==
  IF db.dentry[r.name] # NONE THEN db
  ELSE [db EXCEPT !.dentry[r.name] = r.inode, !.checked = @ \cup {r.name}]

\* Fault: every name of the inode is removed, not the one in the record.
RmByInode(db, r) ==
  [db EXCEPT !.dentry = [n \in Names |-> IF db.dentry[n] = r.inode THEN NONE ELSE db.dentry[n]]]

RmDentry(db, r) ==
  [db EXCEPT !.dentry[r.name] = NONE, !.checked = @ \ {r.name}]

\* INSERT INTO known_file VALUES(..., 1), which fails when there is the row.
InsertFile(db, r) ==
  IF r.inode \in db.known THEN db
  ELSE [db EXCEPT !.known = @ \cup {r.inode}, !.refc[r.inode] = 1]

\* UPDATE known_file SET refc = refc + 1
CountFile(db, r) == IF r.inode \in db.known THEN [db EXCEPT !.refc[r.inode] = @ + 1] ELSE db

\* UPDATE known_dentry SET checked = 1
MarkDentry(db, r) ==
  IF db.dentry[r.name] # NONE THEN [db EXCEPT !.checked = @ \cup {r.name}] ELSE db

\* UPDATE known_file SET refc = refc - 1
UncountFile(db, r) == IF r.inode \in db.known THEN [db EXCEPT !.refc[r.inode] = @ - 1] ELSE db

\* DELETE FROM known_file WHERE ... refc = 0
DropFile(db, r) == IF db.refc[r.inode] = 0 THEN [db EXCEPT !.known = @ \ {r.inode}] ELSE db

HasInode(db, i) == \E n \in Names : db.dentry[n] = i

CheckBegin(db) == [db EXCEPT !.checked = {}, !.refc = [i \in Inodes |-> 0]]

\* checkdone: DELETE FROM known_dentry WHERE checked = 0; DELETE FROM
\* known_file WHERE refc = 0
DropUnchecked(db) ==
  [db EXCEPT !.dentry = [n \in Names |-> IF n \in db.checked THEN db.dentry[n] ELSE NONE]]
DropUnreferenced(db) == [db EXCEPT !.known = {i \in @ : db.refc[i] # 0}]

UpdateLastjid(db, jid, usn_next) == [db EXCEPT !.jid = jid, !.next = usn_next]

\* Faults: the pointer stored is the end of the journal as it was when the watch
\* began; the pointer lies one record behind.
StoreAhead(db, jid, usn) == [db EXCEPT !.jid = jid, !.ptr = db.next]
StoreBehind(db, jid, usn) == [db EXCEPT !.jid = jid, !.ptr = usn - 1]

\* update_ntfsext: the pointer, then usn_next = MAX(usn_next, usn_pointer).
StorePointer(db, jid, usn) == [db EXCEPT !.jid = jid, !.ptr = usn]
StoreNext(db) == [db EXCEPT !.next = IF db.next < db.ptr THEN db.ptr ELSE db.next]
-----------------------------------------------------------------------------
\* A statement waiting to be executed: for a record, or at a buffer's end.
RecordOps == {"add_dentry", "rm_dentry", "insert_file", "count_file", "mark_dentry",
              "uncount_file", "drop_file", "flip"}
BufferOps == {"store_pointer", "store_next", "drop_unchecked", "drop_unreferenced"}

RecordStmts == [op : RecordOps, rec : Records]
BufferStmts == [op : BufferOps, jid : Nat, usn : Nat]
Stmts == RecordStmts \cup BufferStmts

Stmt(op, r) == [op |-> op, rec |-> r]
If(b, stmts) == IF b THEN stmts ELSE <<>>

\* What an execution of ack or nak begins with; "flip" stands for the SELECT of
\* existance_flip.  What follows an INSERT or a SELECT depends on its result.
Ack(r) == <<Stmt("add_dentry", r), Stmt("insert_file", r)>>
Nak(r) == <<Stmt("rm_dentry", r), Stmt("uncount_file", r), Stmt("drop_file", r)>>

Follow(db, s) ==
  CASE s.op = "flip" ->
         IF HasInode(db, s.rec.inode) THEN Nak(s.rec) ELSE Ack(s.rec)
    [] s.op = "insert_file" ->
         <<Stmt(IF s.rec.inode \in db.known THEN "count_file" ELSE "mark_dentry", s.rec)>>
    [] OTHER -> <<>>

\* The statements process() executes for one record, and after the last one.
IsRemoval(r) == "delete" \in r.reasons \/ "rename_old" \in r.reasons

Statements(r) ==
  If("delete" \in r.reasons, Nak(r))
    \o If("link" \in r.reasons, <<Stmt("flip", r)>>)
    \o If("rename_old" \in r.reasons, <<Stmt("rm_dentry", r)>>)
    \o If("rename_new" \in r.reasons, <<Stmt("add_dentry", r)>>)
    \o If(~IsRemoval(r), Ack(r))

EndOfBuffer(jid, usn, checkdone) ==
  LET stmt(op) == [op |-> op, jid |-> jid, usn |-> usn]
  IN <<stmt("store_pointer"), stmt("store_next")>>
       \o If(checkdone, <<stmt("drop_unchecked"), stmt("drop_unreferenced")>>)

\* The effect of one statement on the tables.
Effect(db, s) ==
  CASE s.op = "add_dentry"        -> AddDentry(db, s.rec)
    [] s.op = "rm_dentry"         -> RmDentry(db, s.rec)
    [] s.op = "insert_file"       -> InsertFile(db, s.rec)
    [] s.op = "count_file"        -> CountFile(db, s.rec)
    [] s.op = "mark_dentry"       -> MarkDentry(db, s.rec)
    [] s.op = "uncount_file"      -> UncountFile(db, s.rec)
    [] s.op = "drop_file"         -> DropFile(db, s.rec)
    [] s.op = "store_pointer"     -> StorePointer(db, s.jid, s.usn)
    [] s.op = "store_next"        -> StoreNext(db)
    [] s.op = "drop_unchecked"    -> DropUnchecked(db)
    [] s.op = "drop_unreferenced" -> DropUnreferenced(db)
    [] s.op = "flip"              -> db
=============================================================================
