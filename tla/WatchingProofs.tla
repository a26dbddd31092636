--------------------------- MODULE WatchingProofs ---------------------------
(***************************************************************************)
(* What Watching promises for any set of names and files, any number of    *)
(* records, any buffer size and any number of crashes and removals: the    *)
(* index is the volume.                                                    *)
(*                                                                         *)
(* Replaying records is a recursive computation, on which no induction can *)
(* be carried out here with an operator as the hypothesis.  So what a      *)
(* table and a list of statements will come to is described without        *)
(* replaying them: by the last removal of each name and the entries after  *)
(* it.  Replay is then taken record by record, by a least counterexample.  *)
(***************************************************************************)
EXTENDS Watching, TLAPS, SequenceTheorems, WellFoundedInduction

\* A record that removes its name for good.
Clears(r) == IsRemoval(r) /\ Stands(r.reasons)

\* The records of the journal beyond position p.
NamedAfter(n, p) == \E k \in p + 1..Len(journal) : journal[k].name = n
ClearedAfter(n, p) ==
  \E k \in p + 1..Len(journal) : journal[k].name = n /\ Clears(journal[k])

\* What the journal says of a name since the last record that cleared it is
\* what the volume has.
JournalTells ==
  \A n \in Names \ untold :
    /\ \A k \in 1..Len(journal) :
         journal[k].name = n =>
           \/ ~IsRemoval(journal[k]) /\ journal[k].inode = live[n]
           \/ ClearedAfter(n, k - 1)
    /\ live[n] # NONE =>
         \E k \in 1..Len(journal) : journal[k].name = n /\ ~ClearedAfter(n, k - 1)

\* The table t is the volume, for the records beyond p will make it so.
Seen(t, n) == t.dentry[n] # NONE => n \in t.checked
ReplaysAt(t, p, n) ==
  /\ t.dentry[n] \in {NONE, live[n]}
  /\ NamedAfter(n, p) \/ t.dentry[n] = live[n]
  /\ Seen(t, n)
Replays(t, p) == \A n \in Names \ untold : ClearedAfter(n, p) \/ ReplaysAt(t, p, n)

\* The same when the statements in s are executed before those records.
Enters(s, x, n) == s[x].op = "add_dentry" /\ s[x].rec.name = n
Removes(s, x, n) == s[x].op = "rm_dentry" /\ s[x].rec.name = n
Flips(s, x, n) == s[x].op = "flip" /\ s[x].rec.name = n
Removed(s, n) == \E x \in DOMAIN s : Removes(s, x, n)

ComesAt(t, s, p, n) ==
  /\ Removed(s, n) \/ (t.dentry[n] \in {NONE, live[n]} /\ Seen(t, n))
  /\ \A y \in DOMAIN s :
       Enters(s, y, n) =>
         s[y].rec.inode = live[n] \/ \E x \in DOMAIN s : y < x /\ Removes(s, x, n)
  /\ \A y \in DOMAIN s :
       Flips(s, y, n) =>
         \E x \in DOMAIN s :
           y < x /\ (Removes(s, x, n) \/ (Enters(s, x, n) /\ s[x].rec = s[y].rec))
  /\ \/ NamedAfter(n, p)
     \/ \E y \in DOMAIN s :
          Enters(s, y, n) /\ \A x \in DOMAIN s : Removes(s, x, n) => x < y
     \/ Removed(s, n) /\ live[n] = NONE
     \/ ~Removed(s, n) /\ t.dentry[n] = live[n]
Comes(t, s, p) == \A n \in Names \ untold : ClearedAfter(n, p) \/ ComesAt(t, s, p, n)

\* Every statement for a record stems from one between a and b.
Stem(s, a, b) ==
  \A x \in DOMAIN s : s[x].op \in RecordOps => \E k \in a + 1..b : s[x].rec = journal[k]

\* Where a restart begins to read.
Base(t) == IF t.jid = JournalId THEN t.ptr ELSE 0

\* The statements at the end of a buffer, and the pointer they store.
EndsAt(s, x) ==
  s[x].op \in BufferOps =>
    /\ s[x].jid = JournalId /\ s[x].usn = lastusn
    /\ s[x].op = "drop_unchecked" => recheck /\ usn_next >= lastusn
    /\ \A y \in DOMAIN s : x < y => s[y].op \in BufferOps
Shape ==
  /\ at # "busy" => todo = <<>>
  /\ \A x \in DOMAIN todo : EndsAt(todo, x)
  /\ at = "busy" => db.ptr = lastusn \/ \E x \in DOMAIN todo : todo[x].op = "store_pointer"

\* The levels of the transaction at each place, counted from the one the watch
\* was added at.
Levels ==
  /\ rechecked => recheck
  /\ at \in {"off", "on"} => ~recheck /\ base = 0
  /\ at = "on" => nest <= 1 /\ (txn <=> nest = 1) /\ (nest # 0 => db.jid = JournalId)
  /\ at \in {"waiting", "busy"} => base <= 1 /\ db.jid = JournalId
  /\ at \in {"waiting", "busy"} /\ recheck =>
       base = 0 /\ IF rechecked THEN ~txn /\ nest <= 0 ELSE txn /\ nest = 1
  /\ at = "waiting" /\ ~recheck => nest = base /\ (txn <=> base = 1)
  /\ at = "busy" /\ ~recheck => nest = base + 1 /\ (txn <=> base >= 0)
  /\ ~txn => disk = db

OnDisk ==
  /\ Base(disk) <= Len(journal)
  /\ Replays(disk, Base(disk))
  /\ disk.jid # JournalId =>
       \A n \in Names \ untold : disk.dentry[n] = NONE \/ ClearedAfter(n, 0)

\* What the watch has read is in the tables, or will be; a watch that was added
\* while a re-check was left unfinished never makes anything durable.
InProgress ==
  at \in {"waiting", "busy"} /\ base <= 0 =>
    /\ start <= Len(journal)
    /\ (recheck /\ ~rechecked) \/ (lastusn = start /\ db.ptr <= start)
    /\ at = "waiting" => Replays(db, start)
    /\ at = "busy" => /\ start <= usn_next /\ usn_next <= Len(journal)
                      /\ Stem(todo, start, usn_next)
                      /\ Comes(db, todo, usn_next)

IInv == JournalTells /\ OnDisk /\ InProgress
-----------------------------------------------------------------------------
\* A set of numbers that is not empty has a least member.
LEMMA Least ==
  ASSUME NEW S \in SUBSET Nat, S # {}
  PROVE  \E m \in S : \A k \in S : m <= k
<1>1. PICK m \in S : \A k \in S : <<k, m>> \notin OpToRel(<, Nat)
  BY NatLessThanWellFounded, WFMin
<1>2. \A k \in S : ~(k < m)
  BY <1>1 DEF OpToRel
<1> QED BY <1>2

\* The recursive functions of Watching exist: what they compute for a position is
\* what they compute for the one before, and one record more.
Upto(f, a, b) ==
  f = [k \in a..b |-> IF k = a THEN <<>> ELSE f[k - 1] \o Statements(journal[k])]
After(f, a, b) ==
  f = [k \in a..b |-> IF k = a THEN disk ELSE RecordEffect(f[k - 1], journal[k])]

LEMMA UptoExists ==
  ASSUME NEW a \in Nat, NEW b \in Nat, a <= b
  PROVE  /\ \E f : Upto(f, a, b)
         /\ \E f : Upto(f, a, b) /\ StatementsOf(a, b) = f[b]
<1> DEFINE T == {c \in Nat : a <= c /\ ~\E f : Upto(f, a, c)}
<1>1. SUFFICES T = {}
  <2>1. \E f : Upto(f, a, b)
    OBVIOUS
  <2> QED BY <2>1 DEF Upto, StatementsOf
<1>2. SUFFICES ASSUME T # {} PROVE FALSE
  OBVIOUS
<1>3. PICK c \in T : \A d \in T : c <= d
  <2> HIDE DEF T
  <2>1. T \in SUBSET Nat BY DEF T
  <2> QED BY <1>2, <2>1, Least
<1>4. CASE c = a
  <2>1. Upto([k \in a..c |-> <<>>], a, c)
    BY <1>4 DEF Upto
  <2> QED BY <2>1
<1>5. CASE c # a
  <2>1. c - 1 \in Nat /\ a <= c - 1 /\ c - 1 \notin T
    BY <1>3, <1>5
  <2>2. PICK f : Upto(f, a, c - 1)
    BY <2>1
  <2> DEFINE g == [k \in a..c |-> IF k = c THEN f[c - 1] \o Statements(journal[c]) ELSE f[k]]
  <2>3. \A k \in a..c - 1 :
          f[k] = IF k = a THEN <<>> ELSE f[k - 1] \o Statements(journal[k])
    BY <2>2 DEF Upto
  <2>4. \A k \in a..c :
          g[k] = IF k = a THEN <<>> ELSE g[k - 1] \o Statements(journal[k])
    BY <1>3, <1>5, <2>1, <2>3, SMTT(30)
  <2>5. Upto(g, a, c)
    BY <2>4 DEF Upto
  <2> QED BY <1>3, <2>5
<1> QED BY <1>4, <1>5

LEMMA AfterExists ==
  ASSUME NEW a \in Nat, NEW b \in Nat, a <= b
  PROVE  \E f : After(f, a, b)
<1> DEFINE T == {c \in Nat : a <= c /\ ~\E f : After(f, a, c)}
<1>1. SUFFICES ASSUME T # {} PROVE FALSE
  OBVIOUS
<1>2. PICK c \in T : \A d \in T : c <= d
  <2> HIDE DEF T
  <2>1. T \in SUBSET Nat BY DEF T
  <2> QED BY <1>1, <2>1, Least
<1>3. CASE c = a
  <2>1. After([k \in a..c |-> disk], a, c)
    BY <1>3 DEF After
  <2> QED BY <2>1
<1>4. CASE c # a
  <2>1. c - 1 \in Nat /\ a <= c - 1 /\ c - 1 \notin T
    BY <1>2, <1>4
  <2>2. PICK f : After(f, a, c - 1)
    BY <2>1
  <2> DEFINE g == [k \in a..c |-> IF k = c THEN RecordEffect(f[c - 1], journal[c]) ELSE f[k]]
  <2>3. \A k \in a..c - 1 :
          f[k] = IF k = a THEN disk ELSE RecordEffect(f[k - 1], journal[k])
    BY <2>2 DEF After
  <2>4. \A k \in a..c :
          g[k] = IF k = a THEN disk ELSE RecordEffect(g[k - 1], journal[k])
    <3> SUFFICES ASSUME NEW k \in a..c, k # a
                 PROVE  g[k] = RecordEffect(g[k - 1], journal[k])
      BY <1>2, <1>4, <2>1, <2>3
    <3>1. g[k - 1] = f[k - 1]
      BY <1>2, <2>1
    <3>2. g[k] = RecordEffect(f[k - 1], journal[k])
      BY <1>2, <2>1, <2>3
    <3> QED BY <3>1, <3>2
  <2>5. After(g, a, c)
    BY <2>4 DEF After
  <2> QED BY <1>2, <2>5
<1> QED BY <1>3, <1>4
-----------------------------------------------------------------------------
LEMMA StmtKinds ==
  /\ \A s \in Stmts : s.op \in RecordOps \cup BufferOps
  /\ \A s \in Stmts : s.op \in RecordOps => s \in RecordStmts /\ s.rec \in Records
  /\ \A s \in Stmts : s.op \in BufferOps => s \in BufferStmts /\ s.jid \in Nat /\ s.usn \in Nat
  /\ \A op \in RecordOps, r \in Records :
       Stmt(op, r) \in RecordStmts /\ Stmt(op, r).op = op /\ Stmt(op, r).rec = r
  /\ RecordOps \cap BufferOps = {}
BY DEF Stmts, RecordStmts, BufferStmts, RecordOps, BufferOps, Stmt

\* What a table holds for n after the statement s.
Entry(t, s, n) ==
  IF s.op = "rm_dentry" /\ s.rec.name = n THEN NONE
  ELSE IF s.op = "add_dentry" /\ s.rec.name = n /\ t.dentry[n] = NONE THEN s.rec.inode
  ELSE t.dentry[n]

\* u is t after s, as far as the entry of n and its mark go.
StepAt(t, u, s, n) == u.dentry[n] = Entry(t, s, n) /\ (Seen(t, n) => Seen(u, n))

\* u is t, as far as the entries go; a mark may be new.
SameBook(t, u) == u \in Tables /\ u.dentry = t.dentry /\ t.checked \subseteq u.checked

LEMMA SameBookStep ==
  ASSUME NEW t, NEW u, SameBook(t, u), NEW s, s.op \notin {"add_dentry", "rm_dentry"},
         NEW n \in Names
  PROVE  StepAt(t, u, s, n)
BY DEF SameBook, StepAt, Entry, Seen

LEMMA AddStep ==
  ASSUME NEW t \in Tables, NEW r \in Records
  PROVE  /\ AddDentry(t, r) \in Tables
         /\ \A n \in Names : StepAt(t, AddDentry(t, r), Stmt("add_dentry", r), n)
BY NoneAssumption DEF StepAt, Entry, Seen, AddDentry, Stmt, Tables, Records

LEMMA RmStep ==
  ASSUME NEW t \in Tables, NEW r \in Records
  PROVE  /\ RmDentry(t, r) \in Tables
         /\ \A n \in Names : StepAt(t, RmDentry(t, r), Stmt("rm_dentry", r), n)
BY DEF StepAt, Entry, Seen, RmDentry, Stmt, Tables, Records

LEMMA FileSteps ==
  ASSUME NEW t \in Tables, NEW r \in Records
  PROVE  /\ SameBook(t, InsertFile(t, r)) /\ SameBook(t, CountFile(t, r))
         /\ SameBook(t, MarkDentry(t, r)) /\ SameBook(t, UncountFile(t, r))
         /\ SameBook(t, DropFile(t, r))
<1>1. t.refc[r.inode] + 1 \in Int /\ t.refc[r.inode] - 1 \in Int
  BY DEF Tables, Records
<1>2. SameBook(t, InsertFile(t, r))
  <2>1. CASE r.inode \in t.known
    BY <2>1 DEF SameBook, InsertFile
  <2>2. CASE r.inode \notin t.known
    <3>1. /\ t.known \cup {r.inode} \subseteq Inodes
          /\ [t.refc EXCEPT ![r.inode] = 1] \in [Inodes -> Int]
      BY DEF Tables, Records
    <3>2. InsertFile(t, r) = [t EXCEPT !.known = @ \cup {r.inode}, !.refc[r.inode] = 1]
      BY <2>2 DEF InsertFile
    <3> QED BY <3>1, <3>2 DEF SameBook, Tables
  <2> QED BY <2>1, <2>2
<1>3. SameBook(t, CountFile(t, r))
  BY <1>1 DEF SameBook, CountFile, Tables, Records
<1>4. SameBook(t, MarkDentry(t, r))
  BY DEF SameBook, MarkDentry, Tables, Records
<1>5. SameBook(t, UncountFile(t, r))
  BY <1>1 DEF SameBook, UncountFile, Tables, Records
<1>6. SameBook(t, DropFile(t, r))
  BY DEF SameBook, DropFile, Tables, Records
<1> QED BY <1>2, <1>3, <1>4, <1>5, <1>6

\* The statements at a buffer's end.
LEMMA BookSteps ==
  ASSUME NEW t \in Tables, NEW j \in Nat, NEW p \in Nat
  PROVE  /\ SameBook(t, StorePointer(t, j, p))
         /\ StorePointer(t, j, p).jid = j /\ StorePointer(t, j, p).ptr = p
         /\ SameBook(t, StoreNext(t)) /\ SameBook(t, DropUnreferenced(t))
         /\ DropUnchecked(t) \in Tables /\ DropUnchecked(t).checked = t.checked
         /\ \A n \in Names : Seen(t, n) => DropUnchecked(t).dentry[n] = t.dentry[n]
<1>1. /\ SameBook(t, StorePointer(t, j, p))
      /\ StorePointer(t, j, p).jid = j /\ StorePointer(t, j, p).ptr = p
  BY DEF SameBook, StorePointer, Tables
<1>2. SameBook(t, StoreNext(t))
  BY DEF SameBook, StoreNext, Tables
<1>3. SameBook(t, DropUnreferenced(t))
  BY DEF SameBook, DropUnreferenced, Tables
<1>4. /\ DropUnchecked(t) \in Tables /\ DropUnchecked(t).checked = t.checked
      /\ \A n \in Names : Seen(t, n) => DropUnchecked(t).dentry[n] = t.dentry[n]
  BY DEF DropUnchecked, Seen, Tables
<1> QED BY <1>1, <1>2, <1>3, <1>4

\* What is dropped at the end of a re-check is what has no mark.
LEMMA EffectStep ==
  ASSUME NEW t \in Tables, NEW s \in Stmts
  PROVE  /\ Effect(t, s) \in Tables
         /\ \A n \in Names :
              (s.op = "drop_unchecked" => Seen(t, n)) => StepAt(t, Effect(t, s), s, n)
<1> DEFINE Good(u) == /\ u \in Tables
                      /\ \A n \in Names :
                           (s.op = "drop_unchecked" => Seen(t, n)) => StepAt(t, u, s, n)
<1>1. CASE s.op = "add_dentry"
  <2>1. s.rec \in Records /\ s = Stmt("add_dentry", s.rec)
    BY <1>1, StmtKinds DEF RecordOps, RecordStmts, Stmt
  <2>2. Effect(t, s) = AddDentry(t, s.rec)
    BY <1>1 DEF Effect
  <2> QED BY <2>1, <2>2, AddStep
<1>2. CASE s.op = "rm_dentry"
  <2>1. s.rec \in Records /\ s = Stmt("rm_dentry", s.rec)
    BY <1>2, StmtKinds DEF RecordOps, RecordStmts, Stmt
  <2>2. Effect(t, s) = RmDentry(t, s.rec)
    BY <1>2 DEF Effect
  <2> QED BY <2>1, <2>2, RmStep
<1>3. \A u : SameBook(t, u) /\ s.op \notin {"add_dentry", "rm_dentry"} => Good(u)
  BY SameBookStep DEF SameBook
<1> HIDE DEF Good
<1>4. CASE s.op \in {"insert_file", "count_file", "mark_dentry", "uncount_file", "drop_file"}
  <2>1. s.rec \in Records
    BY <1>4, StmtKinds DEF RecordOps
  <2>2. SameBook(t, Effect(t, s))
    BY <1>4, <2>1, FileSteps DEF Effect
  <2>3. s.op \notin {"add_dentry", "rm_dentry"}
    BY <1>4
  <2>4. Good(Effect(t, s))
    BY <1>3, <2>2, <2>3
  <2> QED BY <2>4 DEF Good
<1>5. CASE s.op \in {"store_pointer", "store_next", "drop_unreferenced"}
  <2>1. s.jid \in Nat /\ s.usn \in Nat
    BY <1>5, StmtKinds DEF BufferOps
  <2>2. SameBook(t, Effect(t, s))
    BY <1>5, <2>1, BookSteps DEF Effect
  <2>3. s.op \notin {"add_dentry", "rm_dentry"}
    BY <1>5
  <2>4. Good(Effect(t, s))
    BY <1>3, <2>2, <2>3
  <2> QED BY <2>4 DEF Good
<1>6. CASE s.op = "drop_unchecked"
  <2>1. Effect(t, s) = DropUnchecked(t)
    BY <1>6 DEF Effect
  <2>2. /\ Effect(t, s) \in Tables /\ Effect(t, s).checked = t.checked
        /\ \A n \in Names : Seen(t, n) => Effect(t, s).dentry[n] = t.dentry[n]
    BY <2>1, BookSteps
  <2> QED BY <1>6, <2>2 DEF StepAt, Entry, Seen
<1>7. CASE s.op = "flip"
  <2>1. Effect(t, s) = t
    BY <1>7 DEF Effect
  <2> QED BY <1>7, <2>1 DEF StepAt, Entry
<1> QED BY <1>1, <1>2, <1>4, <1>5, <1>6, <1>7, StmtKinds DEF RecordOps, BufferOps

\* The journal and the pointer change by one statement alone.
LEMMA EffectBook ==
  ASSUME NEW t \in Tables, NEW s \in Stmts
  PROVE  IF s.op = "store_pointer" THEN Effect(t, s).jid = s.jid /\ Effect(t, s).ptr = s.usn
         ELSE Effect(t, s).jid = t.jid /\ Effect(t, s).ptr = t.ptr
<1>1. CASE s.op = "store_pointer"
  <2>1. Effect(t, s) = StorePointer(t, s.jid, s.usn) /\ s.jid \in Nat /\ s.usn \in Nat
    BY <1>1, StmtKinds DEF Effect, BufferOps
  <2>2. StorePointer(t, s.jid, s.usn).jid = s.jid /\ StorePointer(t, s.jid, s.usn).ptr = s.usn
    BY <2>1, BookSteps
  <2> QED BY <1>1, <2>1, <2>2
<1>2. CASE s.op \in {"add_dentry", "rm_dentry", "insert_file", "count_file"}
  BY <1>2 DEF Effect, AddDentry, RmDentry, InsertFile, CountFile, Tables
<1>3. CASE s.op \in {"mark_dentry", "uncount_file", "drop_file", "flip"}
  BY <1>3 DEF Effect, MarkDentry, UncountFile, DropFile, Tables
<1>4. CASE s.op \in {"store_next", "drop_unchecked", "drop_unreferenced"}
  BY <1>4 DEF Effect, StoreNext, DropUnchecked, DropUnreferenced, Tables
<1> QED BY <1>1, <1>2, <1>3, <1>4, StmtKinds DEF RecordOps, BufferOps
-----------------------------------------------------------------------------
\* Lists of statements for one record.
Of(s, r) == s \in Seq(RecordStmts) /\ \A x \in DOMAIN s : s[x].rec = r
Has(s, op) == \E x \in DOMAIN s : s[x].op = op

\* After every flip there is a statement op.
FlipsThen(s, op) ==
  \A y \in DOMAIN s : s[y].op = "flip" => \E x \in DOMAIN s : y < x /\ s[x].op = op

LEMMA Joined ==
  ASSUME NEW r, NEW s, NEW q, Of(s, r), Of(q, r)
  PROVE  /\ Of(s \o q, r)
         /\ \A op : Has(s \o q, op) <=> Has(s, op) \/ Has(q, op)
         /\ \A op : Has(q, op) /\ ~Has(q, "flip") => FlipsThen(s \o q, op)
         /\ \A op : FlipsThen(s, op) /\ ~Has(q, "flip") => FlipsThen(s \o q, op)
<1> DEFINE w == s \o q
<1>1. /\ s \in Seq(RecordStmts) /\ q \in Seq(RecordStmts)
      /\ Len(s) \in Nat /\ Len(q) \in Nat /\ DOMAIN s = 1..Len(s) /\ DOMAIN q = 1..Len(q)
  BY DEF Of
<1>2. /\ w \in Seq(RecordStmts) /\ DOMAIN w = 1..Len(s) + Len(q)
      /\ \A x \in 1..Len(s) : w[x] = s[x]
      /\ \A x \in 1..Len(q) : w[Len(s) + x] = q[x]
  BY <1>1
<1> HIDE DEF w
<1>3. \A x \in DOMAIN w : x \in DOMAIN s \/ \E y \in DOMAIN q : x = Len(s) + y
  <2> SUFFICES ASSUME NEW x \in DOMAIN w, x \notin DOMAIN s
               PROVE  \E y \in DOMAIN q : x = Len(s) + y
    OBVIOUS
  <2>1. x - Len(s) \in DOMAIN q /\ x = Len(s) + (x - Len(s))
    BY <1>1, <1>2
  <2> QED BY <2>1
<1>4. /\ \A x \in DOMAIN s : x \in DOMAIN w /\ w[x] = s[x]
      /\ \A y \in DOMAIN q : /\ Len(s) + y \in DOMAIN w /\ w[Len(s) + y] = q[y]
                             /\ \A x \in DOMAIN s : x < Len(s) + y
  BY <1>1, <1>2
<1>5. Of(w, r)
  BY <1>2, <1>3, <1>4 DEF Of
<1>6. ASSUME NEW op PROVE Has(w, op) <=> Has(s, op) \/ Has(q, op)
  BY <1>3, <1>4 DEF Has
<1>7. ASSUME NEW op, Has(q, op), ~Has(q, "flip") PROVE FlipsThen(w, op)
  BY <1>3, <1>4, <1>7 DEF FlipsThen, Has
<1>8. ASSUME NEW op, FlipsThen(s, op), ~Has(q, "flip") PROVE FlipsThen(w, op)
  BY <1>3, <1>4, <1>8 DEF FlipsThen, Has
<1> QED BY <1>5, <1>6, <1>7, <1>8 DEF w

\* What the statements for a record do to its name.
LEMMA StatementsOfRecord ==
  ASSUME NEW r \in Records
  PROVE  /\ Of(Statements(r), r)
         /\ Clears(r) => /\ Has(Statements(r), "rm_dentry")
                         /\ ~Has(Statements(r), "add_dentry")
                         /\ FlipsThen(Statements(r), "rm_dentry")
         /\ ~IsRemoval(r) => /\ Has(Statements(r), "add_dentry")
                             /\ ~Has(Statements(r), "rm_dentry")
                             /\ FlipsThen(Statements(r), "add_dentry")
<1> DEFINE D == If("delete" \in r.reasons, Nak(r))
           L == If("link" \in r.reasons, <<Stmt("flip", r)>>)
           O == If("rename_old" \in r.reasons, <<Stmt("rm_dentry", r)>>)
           N == If("rename_new" \in r.reasons, <<Stmt("add_dentry", r)>>)
           A == If(~IsRemoval(r), Ack(r))
           w1 == D \o L
           w2 == w1 \o O
           w3 == w2 \o N
           w4 == w3 \o A
<1>0. /\ \A op \in RecordOps :
           Stmt(op, r) \in RecordStmts /\ Stmt(op, r).op = op /\ Stmt(op, r).rec = r
      /\ {"add_dentry", "rm_dentry", "insert_file", "uncount_file", "drop_file", "flip"}
           \subseteq RecordOps
  BY StmtKinds DEF RecordOps
<1>1. Of(<<>>, r) /\ (\A op : ~Has(<<>>, op) /\ FlipsThen(<<>>, op))
  BY DEF Of, Has, FlipsThen
<1>2. ASSUME NEW op \in RecordOps
      PROVE  Of(<<Stmt(op, r)>>, r) /\ \A o : Has(<<Stmt(op, r)>>, o) <=> o = op
  <2> DEFINE s == Stmt(op, r)
  <2>1. s \in RecordStmts /\ s.op = op /\ s.rec = r
    BY <1>0
  <2> HIDE DEF s
  <2>2. Of(<<s>>, r) /\ \A o : Has(<<s>>, o) <=> o = op
    BY <2>1 DEF Of, Has
  <2> QED BY <2>2 DEF s
<1>3. Of(Ack(r), r) /\ \A o : Has(Ack(r), o) <=> o \in {"add_dentry", "insert_file"}
  <2> DEFINE s == Stmt("add_dentry", r)
             q == Stmt("insert_file", r)
  <2>1. /\ s \in RecordStmts /\ s.op = "add_dentry" /\ s.rec = r
        /\ q \in RecordStmts /\ q.op = "insert_file" /\ q.rec = r
    BY <1>0
  <2>2. Ack(r) = <<s, q>>
    BY DEF Ack
  <2> HIDE DEF s, q
  <2>3. Of(<<s, q>>, r) /\ \A o : Has(<<s, q>>, o) <=> o \in {"add_dentry", "insert_file"}
    BY <2>1 DEF Of, Has
  <2> QED BY <2>2, <2>3
<1>4. Of(Nak(r), r) /\ \A o : Has(Nak(r), o) <=> o \in {"rm_dentry", "uncount_file", "drop_file"}
  <2> DEFINE s == Stmt("rm_dentry", r)
             q == Stmt("uncount_file", r)
             z == Stmt("drop_file", r)
  <2>1. /\ s \in RecordStmts /\ s.op = "rm_dentry" /\ s.rec = r
        /\ q \in RecordStmts /\ q.op = "uncount_file" /\ q.rec = r
        /\ z \in RecordStmts /\ z.op = "drop_file" /\ z.rec = r
    BY <1>0
  <2>2. Nak(r) = <<s, q, z>>
    BY DEF Nak
  <2> HIDE DEF s, q, z
  <2>3. Of(<<s, q, z>>, r)
        /\ \A o : Has(<<s, q, z>>, o) <=> o \in {"rm_dentry", "uncount_file", "drop_file"}
    BY <2>1 DEF Of, Has
  <2> QED BY <2>2, <2>3
<1>5. /\ Of(D, r)
      /\ \A o : Has(D, o) <=> "delete" \in r.reasons
                              /\ o \in {"rm_dentry", "uncount_file", "drop_file"}
  BY <1>1, <1>4 DEF If
<1>6. Of(L, r) /\ \A o : Has(L, o) <=> "link" \in r.reasons /\ o = "flip"
  BY <1>0, <1>1, <1>2 DEF If
<1>7. Of(O, r) /\ \A o : Has(O, o) <=> "rename_old" \in r.reasons /\ o = "rm_dentry"
  BY <1>0, <1>1, <1>2 DEF If
<1>8. Of(N, r) /\ \A o : Has(N, o) <=> "rename_new" \in r.reasons /\ o = "add_dentry"
  BY <1>0, <1>1, <1>2 DEF If
<1>9. /\ Of(A, r)
      /\ \A o : Has(A, o) <=> ~IsRemoval(r) /\ o \in {"add_dentry", "insert_file"}
  BY <1>1, <1>3 DEF If
<1> HIDE DEF D, L, O, N, A
<1>10. /\ Of(w1, r) /\ \A o : Has(w1, o) <=> Has(D, o) \/ Has(L, o)
  BY <1>5, <1>6, Joined
<1> HIDE DEF w1
<1>11. /\ Of(w2, r) /\ \A o : Has(w2, o) <=> Has(w1, o) \/ Has(O, o)
       /\ \A o : Has(O, o) /\ ~Has(O, "flip") => FlipsThen(w2, o)
  BY <1>7, <1>10, Joined
<1> HIDE DEF w2
<1>12. /\ Of(w3, r) /\ \A o : Has(w3, o) <=> Has(w2, o) \/ Has(N, o)
       /\ \A o : FlipsThen(w2, o) /\ ~Has(N, "flip") => FlipsThen(w3, o)
  BY <1>8, <1>11, Joined
<1> HIDE DEF w3
<1>13. /\ Of(w4, r) /\ \A o : Has(w4, o) <=> Has(w3, o) \/ Has(A, o)
       /\ \A o : Has(A, o) /\ ~Has(A, "flip") => FlipsThen(w4, o)
       /\ \A o : FlipsThen(w3, o) /\ ~Has(A, "flip") => FlipsThen(w4, o)
  BY <1>9, <1>12, Joined
<1>14. Statements(r) = w4
  BY DEF Statements, D, L, O, N, A, w1, w2, w3
<1> HIDE DEF w4
<1>15. ~Has(O, "flip") /\ ~Has(N, "flip") /\ ~Has(A, "flip")
  BY <1>7, <1>8, <1>9
<1>16. ASSUME Clears(r)
       PROVE  Has(w4, "rm_dentry") /\ ~Has(w4, "add_dentry") /\ FlipsThen(w4, "rm_dentry")
  <2>1. /\ IsRemoval(r) /\ "rename_new" \notin r.reasons
        /\ "rename_old" \in r.reasons \/ "link" \notin r.reasons
    BY <1>16 DEF Clears, Stands
  <2>2. ~Has(w4, "add_dentry")
    BY <1>5, <1>6, <1>7, <1>8, <1>9, <1>10, <1>11, <1>12, <1>13, <2>1
  <2>3. CASE "rename_old" \in r.reasons
    <3>1. Has(O, "rm_dentry")
      BY <1>7, <2>3
    <3> QED BY <1>11, <1>12, <1>13, <1>15, <2>2, <3>1
  <2>4. CASE "rename_old" \notin r.reasons
    <3>1. "delete" \in r.reasons /\ "link" \notin r.reasons
      BY <2>1, <2>4 DEF IsRemoval
    <3>2. Has(w4, "rm_dentry")
      BY <1>5, <1>10, <1>11, <1>12, <1>13, <3>1
    <3>3. ~Has(w4, "flip")
      BY <1>5, <1>6, <1>10, <1>11, <1>12, <1>13, <1>15, <3>1
    <3> QED BY <2>2, <3>2, <3>3 DEF Has, FlipsThen
  <2> QED BY <2>3, <2>4
<1>17. ASSUME ~IsRemoval(r)
       PROVE  Has(w4, "add_dentry") /\ ~Has(w4, "rm_dentry") /\ FlipsThen(w4, "add_dentry")
  <2>1. "delete" \notin r.reasons /\ "rename_old" \notin r.reasons
    BY <1>17 DEF IsRemoval
  <2>2. Has(A, "add_dentry")
    BY <1>9, <1>17
  <2>3. ~Has(w4, "rm_dentry")
    BY <1>5, <1>6, <1>7, <1>8, <1>9, <1>10, <1>11, <1>12, <1>13, <2>1
  <2> QED BY <1>13, <1>15, <2>2, <2>3
<1> QED BY <1>13, <1>14, <1>16, <1>17

\* At the end of a buffer.
Ends(e, j, p) ==
  /\ e \in Seq(BufferStmts) /\ 1 \in DOMAIN e /\ e[1].op = "store_pointer"
  /\ \A x \in DOMAIN e : e[x].jid = j /\ e[x].usn = p

LEMMA EndOfBufferParts ==
  ASSUME NEW j \in Nat, NEW p \in Nat
  PROVE  /\ Ends(EndOfBuffer(j, p, TRUE), j, p)
         /\ Ends(EndOfBuffer(j, p, FALSE), j, p)
         /\ \A x \in DOMAIN EndOfBuffer(j, p, FALSE) :
              EndOfBuffer(j, p, FALSE)[x].op # "drop_unchecked"
<1> DEFINE stmt(op) == [op |-> op, jid |-> j, usn |-> p]
           s == stmt("store_pointer")
           q == stmt("store_next")
           y == stmt("drop_unchecked")
           z == stmt("drop_unreferenced")
<1>1. /\ {s, q, y, z} \subseteq BufferStmts
      /\ \A x \in {s, q, y, z} : x.jid = j /\ x.usn = p
      /\ s.op = "store_pointer" /\ q.op = "store_next"
  BY DEF BufferStmts, BufferOps
<1>2. /\ EndOfBuffer(j, p, TRUE) = <<s, q>> \o <<y, z>>
      /\ EndOfBuffer(j, p, FALSE) = <<s, q>> \o <<>>
  BY DEF EndOfBuffer, If
<1> HIDE DEF s, q, y, z
<1>3. <<s, q>> \o <<>> = <<s, q>>
  <2>1. <<s, q>> \in Seq(BufferStmts)
    BY <1>1
  <2> QED BY <2>1, ConcatEmptySeq
<1>4. Ends(<<s, q>>, j, p) /\ \A x \in DOMAIN <<s, q>> : <<s, q>>[x].op # "drop_unchecked"
  BY <1>1 DEF Ends
<1>5. Ends(<<s, q>> \o <<y, z>>, j, p)
  <2> DEFINE a == <<s, q>>
             b == <<y, z>>
             e == a \o b
  <2>1. /\ a \in Seq(BufferStmts) /\ b \in Seq(BufferStmts) /\ Len(a) = 2 /\ Len(b) = 2
        /\ a[1] = s /\ a[2] = q /\ b[1] = y /\ b[2] = z
    BY <1>1
  <2> HIDE DEF a, b
  <2>2. /\ e \in Seq(BufferStmts) /\ DOMAIN e = 1..4
        /\ e[1] = s /\ e[2] = q /\ e[3] = y /\ e[4] = z
    <3>1. /\ e \in Seq(BufferStmts) /\ Len(e) = Len(a) + Len(b)
          /\ \A x \in 1..Len(a) + Len(b) : e[x] = IF x <= Len(a) THEN a[x] ELSE b[x - Len(a)]
      BY <2>1, ConcatProperties
    <3> HIDE DEF e
    <3> QED BY <2>1, <3>1
  <2> HIDE DEF e
  <2>3. \A x \in 1..4 : x = 1 \/ x = 2 \/ x = 3 \/ x = 4
    OBVIOUS
  <2>4. Ends(e, j, p)
    BY <1>1, <2>2, <2>3 DEF Ends
  <2> QED BY <2>4 DEF e, a, b
<1> QED BY <1>2, <1>3, <1>4, <1>5
\* What follows an INSERT or a SELECT.
LEMMA FollowParts ==
  ASSUME NEW t \in Tables, NEW s \in Stmts
  PROVE  /\ Follow(t, s) \in Seq(RecordStmts)
         /\ \A x \in DOMAIN Follow(t, s) :
              LET q == Follow(t, s)[x]
              IN /\ s.op \in RecordOps /\ q.op \in RecordOps /\ q.rec = s.rec /\ q.op # "flip"
                 /\ q.op \in {"add_dentry", "rm_dentry"} => x = 1 /\ s.op = "flip"
<1>0. \A op \in RecordOps, r \in Records :
        Stmt(op, r) \in RecordStmts /\ Stmt(op, r).op = op /\ Stmt(op, r).rec = r
  BY StmtKinds
<1>1. CASE s.op = "flip"
  <2>1. s.rec \in Records /\ s.op \in RecordOps
    BY <1>1, StmtKinds DEF RecordOps
  <2>2. CASE HasInode(t, s.rec.inode)
    <3> DEFINE a == Stmt("rm_dentry", s.rec)
               b == Stmt("uncount_file", s.rec)
               c == Stmt("drop_file", s.rec)
    <3>1. Follow(t, s) = <<a, b, c>>
      BY <1>1, <2>2 DEF Follow, Nak
    <3>2. /\ a \in RecordStmts /\ b \in RecordStmts /\ c \in RecordStmts
          /\ a.op = "rm_dentry" /\ b.op = "uncount_file" /\ c.op = "drop_file"
          /\ a.rec = s.rec /\ b.rec = s.rec /\ c.rec = s.rec
      BY <1>0, <2>1 DEF RecordOps
    <3> HIDE DEF a, b, c
    <3> QED BY <1>1, <2>1, <3>1, <3>2 DEF RecordOps
  <2>3. CASE ~HasInode(t, s.rec.inode)
    <3> DEFINE a == Stmt("add_dentry", s.rec)
               b == Stmt("insert_file", s.rec)
    <3>1. Follow(t, s) = <<a, b>>
      BY <1>1, <2>3 DEF Follow, Ack
    <3>2. /\ a \in RecordStmts /\ b \in RecordStmts
          /\ a.op = "add_dentry" /\ b.op = "insert_file"
          /\ a.rec = s.rec /\ b.rec = s.rec
      BY <1>0, <2>1 DEF RecordOps
    <3> HIDE DEF a, b
    <3> QED BY <1>1, <2>1, <3>1, <3>2 DEF RecordOps
  <2> QED BY <2>2, <2>3
<1>2. CASE s.op = "insert_file"
  <2>1. s.rec \in Records /\ s.op \in RecordOps
    BY <1>2, StmtKinds DEF RecordOps
  <2> DEFINE op == IF s.rec.inode \in t.known THEN "count_file" ELSE "mark_dentry"
             a == Stmt(op, s.rec)
  <2>2. Follow(t, s) = <<a>>
    BY <1>2 DEF Follow
  <2>3. a \in RecordStmts /\ a.op \in {"count_file", "mark_dentry"} /\ a.rec = s.rec
    BY <1>0, <2>1 DEF RecordOps
  <2> HIDE DEF a
  <2> QED BY <1>2, <2>1, <2>2, <2>3 DEF RecordOps
<1>3. CASE s.op \notin {"flip", "insert_file"}
  BY <1>3 DEF Follow
<1> QED BY <1>1, <1>2, <1>3
-----------------------------------------------------------------------------
\* Types: the flags, and the rest.
Flags == txn \in BOOLEAN /\ recheck \in BOOLEAN /\ rechecked \in BOOLEAN
Data ==
  /\ live \in [Names -> Inodes \cup {NONE}] /\ used \subseteq Inodes
  /\ journal \in Seq(Records)
  /\ acc \in [Inodes -> SUBSET {"link", "rename_new"}] /\ untold \subseteq Names
  /\ db \in Tables /\ disk \in Tables
  /\ nest \in Int
  /\ at \in {"off", "on", "waiting", "busy"}
  /\ lastusn \in Nat /\ start \in Nat /\ usn_next \in Nat
  /\ todo \in Seq(Stmts) /\ base \in Int
  /\ breaks \in 0..MaxBreaks

LEMMA TypeParts == (TypeOK <=> Flags /\ Data) /\ (TypeOK' <=> Flags' /\ Data')
BY DEF TypeOK, Flags, Data

LEMMA UptoTyped ==
  ASSUME journal \in Seq(Records), NEW a \in Nat, NEW b \in Nat, a <= b,
         b <= Len(journal), NEW f, Upto(f, a, b)
  PROVE  \A k \in a..b : f[k] \in Seq(RecordStmts)
<1> DEFINE T == {k \in a..b : f[k] \notin Seq(RecordStmts)}
<1>1. SUFFICES ASSUME T # {} PROVE FALSE
  OBVIOUS
<1>2. PICK c \in T : \A d \in T : c <= d
  <2> HIDE DEF T
  <2>1. T \in SUBSET Nat BY DEF T
  <2> QED BY <1>1, <2>1, Least
<1>3. \A k \in a..b :
        f[k] = IF k = a THEN <<>> ELSE f[k - 1] \o Statements(journal[k])
  BY DEF Upto
<1>4. c # a
  <2>1. f[a] = <<>>
    BY <1>3
  <2>2. <<>> \in Seq(RecordStmts)
    OBVIOUS
  <2> QED BY <1>2, <2>1, <2>2
<1>5. c - 1 \in a..b /\ f[c - 1] \in Seq(RecordStmts)
  BY <1>2, <1>4
<1>6. Statements(journal[c]) \in Seq(RecordStmts)
  <2>1. journal[c] \in Records
    BY <1>2, <1>5
  <2> QED BY <2>1, StatementsOfRecord DEF Of
<1>7. f[c] = f[c - 1] \o Statements(journal[c])
  BY <1>2, <1>3, <1>4
<1>8. f[c] \in Seq(RecordStmts)
  BY <1>5, <1>6, <1>7
<1> QED BY <1>2, <1>8

LEMMA StatementsTyped ==
  ASSUME journal \in Seq(Records), NEW a \in Nat, NEW b \in Nat, a <= b, b <= Len(journal)
  PROVE  StatementsOf(a, b) \in Seq(RecordStmts)
<1>1. PICK f : Upto(f, a, b) /\ StatementsOf(a, b) = f[b]
  BY UptoExists
<1> QED BY <1>1, UptoTyped

LEMMA Wider ==
  ASSUME NEW s
  PROVE  s \in Seq(RecordStmts) \/ s \in Seq(BufferStmts) => s \in Seq(Stmts)
BY DEF Stmts

LEMMA BookTyped ==
  ASSUME NEW t \in Tables, NEW j \in Nat, NEW p \in Nat
  PROVE  UpdateLastjid(CheckBegin(t), j, p) \in Tables
<1>1. CheckBegin(t) \in Tables
  <2>1. [i \in Inodes |-> 0] \in [Inodes -> Int] /\ {} \in SUBSET Names
    OBVIOUS
  <2> QED BY <2>1 DEF CheckBegin, Tables
<1> QED BY <1>1 DEF UpdateLastjid, Tables

LEMMA TypeInit == Init => TypeOK
<1> SUFFICES ASSUME Init PROVE TypeOK
  OBVIOUS
<1>1. live \in [Names -> Inodes \cup {NONE}] /\ used \subseteq Inodes
  BY BoundsAssumption DEF Init
<1>2. disk \in Tables
  <2>1. CASE disk = EmptyTables
    BY <2>1 DEF EmptyTables, Tables
  <2>2. CASE disk # EmptyTables
    <3>1. PICK usn \in OldUsns : disk = IndexedBefore(usn)
      BY <2>2 DEF Init
    <3>2. usn \in Nat /\ OldJournalId \in Nat
      BY BoundsAssumption DEF OldJournalId
    <3> QED BY <1>1, <3>1, <3>2 DEF IndexedBefore, Tables
  <2> QED BY <2>1, <2>2
<1>3. Flags
  BY DEF Init, Flags
<1>4. 0 \in 0..MaxBreaks
  BY BoundsAssumption
<1>5. <<>> \in Seq(Records) /\ <<>> \in Seq(Stmts)
  OBVIOUS
<1>6. acc \in [Inodes -> SUBSET {"link", "rename_new"}] /\ untold \subseteq Names
  BY DEF Init
<1>7. Data
  BY <1>1, <1>2, <1>4, <1>5, <1>6 DEF Init, Data
<1> QED BY <1>3, <1>7, TypeParts

\* What the file system does to the journal and to the rest.
LEMMA LogTyped ==
  ASSUME TypeOK, NEW rs \in Seq(Records), Log(rs), live' \in [Names -> Inodes \cup {NONE}],
         used' \subseteq Inodes, acc' \in [Inodes -> SUBSET {"link", "rename_new"}],
         untold' \subseteq Names
  PROVE  TypeOK'
<1>1. journal' \in Seq(Records)
  BY DEF TypeOK, Log
<1> QED BY <1>1 DEF TypeOK, Log, dbVars, watchVars

LEMMA RecTyped ==
  ASSUME NEW why \in SUBSET Reasons, NEW n \in Names, NEW i \in Inodes
  PROVE  /\ Rec(why, n, i) \in Records /\ Rec(why, n, i).name = n
         /\ Rec(why, n, i).inode = i /\ Rec(why, n, i).reasons = why
BY DEF Rec, Records

LEMMA AccTyped ==
  ASSUME acc \in [Inodes -> SUBSET {"link", "rename_new"}], NEW i \in Inodes
  PROVE  /\ \A w : acc[i] \in SUBSET Reasons /\ acc[i] \cup {"delete"} \in SUBSET Reasons
                   /\ acc[i] \cup {"rename_old"} \in SUBSET Reasons
         /\ \A w \in {"link", "rename_new"} :
              Accumulate(i, w) => /\ acc' \in [Inodes -> SUBSET {"link", "rename_new"}]
                                  /\ acc'[i] \in SUBSET Reasons
BY DEF Reasons, Accumulate

LEMMA TakesTyped ==
  ASSUME untold \subseteq Names, NEW n \in Names, NEW why, Takes(n, why)
  PROVE  untold' \subseteq Names
BY DEF Takes

LEMMA TypeFileSystem ==
  ASSUME TypeOK, FileSystem
  PROVE  TypeOK'
<1> USE NoneAssumption
<1>0. /\ live \in [Names -> Inodes \cup {NONE}] /\ used \subseteq Inodes /\ untold \subseteq Names
      /\ acc \in [Inodes -> SUBSET {"link", "rename_new"}]
  BY DEF TypeOK
<1>1. \A n \in Names : live[n] # NONE => live[n] \in Inodes
  BY <1>0
<1>2. ASSUME NEW n \in Names, NEW i \in Inodes, CreateFile(n, i) PROVE TypeOK'
  <2>1. <<Rec({}, n, i)>> \in Seq(Records)
    BY RecTyped
  <2>2. live' \in [Names -> Inodes \cup {NONE}] /\ used' \subseteq Inodes
    BY <1>0, <1>2 DEF CreateFile
  <2> QED BY <1>0, <1>2, <2>1, <2>2, LogTyped DEF CreateFile
<1>3. ASSUME NEW n \in Names, ChangeFile(n) PROVE TypeOK'
  <2>1. <<Rec(acc[live[n]], n, live[n])>> \in Seq(Records)
    BY <1>0, <1>1, <1>3, RecTyped, AccTyped DEF ChangeFile
  <2> QED BY <1>0, <1>3, <2>1, LogTyped DEF ChangeFile
<1>4. ASSUME NEW n \in Names, CloseFile(n) PROVE TypeOK'
  <2>1. <<Rec(acc[live[n]], n, live[n])>> \in Seq(Records)
    BY <1>0, <1>1, <1>4, RecTyped, AccTyped DEF CloseFile
  <2>2. acc' \in [Inodes -> SUBSET {"link", "rename_new"}]
    BY <1>0, <1>4 DEF CloseFile
  <2> QED BY <1>0, <1>4, <2>1, <2>2, LogTyped DEF CloseFile
<1>5. ASSUME NEW n \in Names, DeleteFile(n) PROVE TypeOK'
  <2> DEFINE why == acc[live[n]] \cup {"delete"}
  <2>1. <<Rec(why, n, live[n])>> \in Seq(Records)
    BY <1>0, <1>1, <1>5, RecTyped, AccTyped DEF DeleteFile
  <2>2. /\ live' \in [Names -> Inodes \cup {NONE}] /\ used' \subseteq Inodes
        /\ acc' \in [Inodes -> SUBSET {"link", "rename_new"}]
    BY <1>0, <1>5 DEF DeleteFile
  <2>3. Log(<<Rec(why, n, live[n])>>) /\ Takes(n, why)
    BY <1>5 DEF DeleteFile
  <2>4. untold' \subseteq Names
    BY <1>0, <2>3, TakesTyped
  <2> QED BY <2>1, <2>2, <2>3, <2>4, LogTyped
<1>6. ASSUME NEW n \in Names, UnlinkFile(n) PROVE TypeOK'
  <2>1. <<Rec(acc'[live[n]], n, live[n])>> \in Seq(Records)
    BY <1>0, <1>1, <1>6, RecTyped, AccTyped DEF UnlinkFile
  <2>2. acc' \in [Inodes -> SUBSET {"link", "rename_new"}]
    BY <1>0, <1>1, <1>6, AccTyped DEF UnlinkFile
  <2>3. live' \in [Names -> Inodes \cup {NONE}] /\ used' \subseteq Inodes /\ untold' \subseteq Names
    BY <1>0, <1>6 DEF UnlinkFile
  <2> QED BY <1>6, <2>1, <2>2, <2>3, LogTyped DEF UnlinkFile
<1>7. ASSUME NEW n \in Names, NEW m \in Names, RenameFile(n, m) PROVE TypeOK'
  <2> DEFINE why == acc[live[n]] \cup {"rename_old"}
             rs == <<Rec(why, n, live[n]), Rec(acc'[live[n]], m, live[n])>>
  <2>1. Rec(why, n, live[n]) \in Records /\ Rec(acc'[live[n]], m, live[n]) \in Records
    BY <1>0, <1>1, <1>7, RecTyped, AccTyped DEF RenameFile
  <2>2. acc' \in [Inodes -> SUBSET {"link", "rename_new"}]
    BY <1>0, <1>1, <1>7, AccTyped DEF RenameFile
  <2>3. live' \in [Names -> Inodes \cup {NONE}] /\ used' \subseteq Inodes
    BY <1>0, <1>7 DEF RenameFile
  <2>4. Log(rs) /\ Takes(n, why)
    BY <1>7 DEF RenameFile
  <2>5. untold' \subseteq Names
    BY <1>0, <2>4, TakesTyped
  <2>6. rs \in Seq(Records)
    BY <2>1
  <2> QED BY <2>2, <2>3, <2>4, <2>5, <2>6, LogTyped
<1>8. ASSUME NEW n \in Names, NEW m \in Names, LinkFile(n, m) PROVE TypeOK'
  <2>1. <<Rec(acc'[live[n]], m, live[n])>> \in Seq(Records)
    BY <1>0, <1>1, <1>8, RecTyped, AccTyped DEF LinkFile
  <2>2. acc' \in [Inodes -> SUBSET {"link", "rename_new"}]
    BY <1>0, <1>1, <1>8, AccTyped DEF LinkFile
  <2>3. live' \in [Names -> Inodes \cup {NONE}] /\ used' \subseteq Inodes /\ untold' \subseteq Names
    BY <1>0, <1>8 DEF LinkFile
  <2> QED BY <1>8, <2>1, <2>2, <2>3, LogTyped DEF LinkFile
<1> QED BY <1>2, <1>3, <1>4, <1>5, <1>6, <1>7, <1>8 DEF FileSystem

\* A buffer that is read: its statements, and those at its end.
LEMMA ReadTyped ==
  ASSUME TypeOK, NEW k \in 1..MaxBatch, Read(k)
  PROVE  /\ start + k \in Nat /\ start <= start + k /\ start + k <= Len(journal)
         /\ StatementsOf(start, start + k) \in Seq(RecordStmts)
         /\ CheckDone \in BOOLEAN
         /\ EndOfBuffer(JournalId, lastusn, CheckDone) \in Seq(BufferStmts)
         /\ todo' \in Seq(Stmts)
<1>1. start + k \in Nat /\ start <= start + k /\ start + k <= Len(journal) /\ start \in Nat
      /\ journal \in Seq(Records) /\ lastusn \in Nat /\ recheck \in BOOLEAN
  BY BoundsAssumption DEF Read, TypeOK
<1>2. StatementsOf(start, start + k) \in Seq(RecordStmts)
  BY <1>1, StatementsTyped
<1>3. CheckDone \in BOOLEAN
  BY <1>1 DEF CheckDone
<1>4. EndOfBuffer(JournalId, lastusn, CheckDone) \in Seq(BufferStmts)
  <2>1. JournalId \in Nat
    BY DEF JournalId
  <2>2. EndOfBuffer(JournalId, lastusn, CheckDone)
          \in {EndOfBuffer(JournalId, lastusn, TRUE), EndOfBuffer(JournalId, lastusn, FALSE)}
    BY DEF EndOfBuffer, If
  <2> QED BY <1>1, <2>1, <2>2, EndOfBufferParts DEF Ends
<1>5. todo' = StatementsOf(start, start + k) \o EndOfBuffer(JournalId, lastusn, CheckDone)
  BY DEF Read
<1>6. todo' \in Seq(Stmts)
  BY <1>2, <1>4, <1>5, Wider
<1> QED BY <1>1, <1>2, <1>3, <1>4, <1>6

LEMMA TypeNext == TypeOK /\ [Next]_vars => TypeOK'
<1> SUFFICES ASSUME TypeOK, [Next]_vars PROVE TypeOK'
  OBVIOUS
<1> USE DEF fsVars, dbVars, watchVars
<1>0. Flags /\ Data /\ MaxBreaks \in Nat
  BY TypeParts, BoundsAssumption
<1>1. CASE FileSystem
  BY <1>1, TypeFileSystem
<1>2. CASE Launch
  <2>1. Flags'
    BY <1>0, <1>2 DEF Launch, Flags
  <2>2. Data'
    BY <1>0, <1>2 DEF Launch, Data
  <2> QED BY <2>1, <2>2, TypeParts
<1>3. CASE Crash
  <2>1. Flags'
    BY <1>0, <1>3 DEF Crash, NoWatch, Flags
  <2>2. Data'
    BY <1>0, <1>3 DEF Crash, NoWatch, Data
  <2> QED BY <2>1, <2>2, TypeParts
<1>4. CASE Add
  <2>1. db.ptr \in Nat /\ Len(journal) \in Nat
    BY <1>0 DEF Data, Tables
  <2>2. lastusn' \in Nat /\ start' \in Nat /\ nest' \in Int
    BY <1>0, <1>4, <2>1 DEF Add, Begin, Data
  <2>3. db' \in Tables /\ disk' \in Tables
    <3> DEFINE new == UpdateLastjid(CheckBegin(db), JournalId, Len(journal))
    <3>1. new \in Tables
      BY <1>0, <2>1, BookTyped DEF Data, JournalId
    <3>2. db' \in {db, new} /\ disk' \in {disk, new}
      BY <1>4 DEF Add
    <3> HIDE DEF new
    <3> QED BY <1>0, <3>1, <3>2 DEF Data
  <2>4. Flags'
    BY <1>0, <1>4 DEF Add, Begin, Flags
  <2>5. Data'
    BY <1>0, <1>4, <2>2, <2>3 DEF Add, Data
  <2> QED BY <2>4, <2>5, TypeParts
<1>5. CASE Remove
  <2>1. Flags'
    BY <1>0, <1>5 DEF Remove, NoWatch, Flags
  <2>2. Data'
    BY <1>0, <1>5 DEF Remove, NoWatch, Data
  <2> QED BY <2>1, <2>2, TypeParts
<1>6. ASSUME NEW k \in 1..MaxBatch, Read(k) PROVE TypeOK'
  <2>1. start + k \in Nat /\ todo' \in Seq(Stmts)
    BY <1>6, ReadTyped
  <2>2. Flags'
    BY <1>0, <1>6 DEF Read, Begin, Flags
  <2>3. Data'
    BY <1>0, <1>6, <2>1 DEF Read, Begin, Data
  <2> QED BY <2>2, <2>3, TypeParts
<1>7. CASE ExecuteNext
  <2>1. Head(todo) \in Stmts /\ Tail(todo) \in Seq(Stmts)
    BY <1>0, <1>7 DEF ExecuteNext, Data
  <2>2. Effect(db, Head(todo)) \in Tables
    BY <1>0, <2>1, EffectStep DEF Data
  <2>3. todo' \in Seq(Stmts)
    <3>1. Follow(db, Head(todo)) \in Seq(Stmts)
      BY <1>0, <2>1, FollowParts, Wider DEF Data
    <3> QED BY <1>7, <2>1, <3>1 DEF ExecuteNext
  <2>4. Flags'
    BY <1>0, <1>7 DEF ExecuteNext, Flags
  <2>5. Data'
    BY <1>0, <1>7, <2>2, <2>3 DEF ExecuteNext, Execute, Data
  <2> QED BY <2>4, <2>5, TypeParts
<1>8. CASE FinishBuffer
  <2>1. /\ nest' \in {nest, nest - 1} /\ disk' \in {disk, db} /\ db' = db
        /\ lastusn' \in {lastusn, usn_next} /\ start' = usn_next
    BY <1>8 DEF FinishBuffer, Final
  <2>2. nest' \in Int /\ disk' \in Tables /\ db' \in Tables /\ lastusn' \in Nat /\ start' \in Nat
    BY <1>0, <2>1 DEF Data
  <2>3. Flags'
    BY <1>0, <1>8 DEF FinishBuffer, Final, Flags
  <2>4. Data'
    BY <1>0, <1>8, <2>2 DEF FinishBuffer, Data
  <2> QED BY <2>3, <2>4, TypeParts
<1>9. CASE UNCHANGED vars
  BY <1>9 DEF vars, TypeOK
<1> QED BY <1>1, <1>2, <1>3, <1>4, <1>5, <1>6, <1>7, <1>8, <1>9 DEF Next, Indexer, BeginBuffer

\* Every state is well formed: in particular the buffer being processed holds
\* statements for records the journal has.
THEOREM TypeCorrect == Spec => []TypeOK
BY TypeInit, TypeNext, PTL DEF Spec, SafetySpec
-----------------------------------------------------------------------------
\* Execution of the first statement of s leaves w: the c statements that follow
\* it, and the others.
Moved(s, w, c) ==
  /\ DOMAIN s = 1..Len(s) /\ Len(s) \in Nat /\ 1 \in DOMAIN s /\ c \in Nat
  /\ \A x \in DOMAIN s : x >= 2 => x + c - 1 \in DOMAIN w /\ w[x + c - 1] = s[x]
  /\ \A x \in DOMAIN w :
       /\ x \in Nat /\ x >= 1
       /\ x > c => x - c + 1 \in DOMAIN s /\ x - c + 1 >= 2 /\ w[x] = s[x - c + 1]
       /\ x <= c => /\ s[1].op \in RecordOps /\ w[x].op \in RecordOps /\ w[x].rec = s[1].rec
                    /\ w[x].op # "flip"
                    /\ w[x].op \in {"add_dentry", "rm_dentry"} => x = 1 /\ s[1].op = "flip"

LEMMA FollowMoved ==
  ASSUME NEW t \in Tables, NEW s \in Seq(Stmts), s # <<>>
  PROVE  \E c \in Nat : Moved(s, Follow(t, Head(s)) \o Tail(s), c)
<1> DEFINE h == Head(s)
           f == Follow(t, h)
           q == Tail(s)
           w == f \o q
           c == Len(f)
<1>1. /\ DOMAIN s = 1..Len(s) /\ Len(s) \in Nat /\ Len(s) >= 1 /\ h = s[1] /\ h \in Stmts
      /\ q \in Seq(Stmts) /\ Len(q) = Len(s) - 1
      /\ \A x \in 1..Len(s) - 1 : q[x] = s[x + 1]
  OBVIOUS
<1> HIDE DEF q, h
<1>2. /\ f \in Seq(RecordStmts)
      /\ \A x \in DOMAIN f :
           /\ h.op \in RecordOps /\ f[x].op \in RecordOps /\ f[x].rec = h.rec /\ f[x].op # "flip"
           /\ f[x].op \in {"add_dentry", "rm_dentry"} => x = 1 /\ h.op = "flip"
  BY <1>1, FollowParts
<1> HIDE DEF f
<1>3. f \in Seq(Stmts) /\ c \in Nat /\ DOMAIN f = 1..c
  BY <1>2, Wider
<1>4. /\ Len(w) = c + (Len(s) - 1) /\ w \in Seq(Stmts)
      /\ \A x \in 1..c + (Len(s) - 1) : w[x] = IF x <= c THEN f[x] ELSE q[x - c]
  <2>1. /\ w \in Seq(Stmts) /\ Len(w) = Len(f) + Len(q)
        /\ \A x \in 1..Len(f) + Len(q) : w[x] = IF x <= Len(f) THEN f[x] ELSE q[x - Len(f)]
    BY <1>1, <1>3, ConcatProperties
  <2> HIDE DEF w
  <2> QED BY <1>1, <2>1
<1> HIDE DEF w, c
<1>5. DOMAIN w = 1..c + (Len(s) - 1)
  BY <1>4
<1>6. ASSUME NEW x \in DOMAIN s, x >= 2 PROVE x + c - 1 \in DOMAIN w /\ w[x + c - 1] = s[x]
  <2>1. /\ x + c - 1 \in 1..c + (Len(s) - 1) /\ ~(x + c - 1 <= c) /\ (x + c - 1) - c = x - 1
        /\ x - 1 \in 1..Len(s) - 1 /\ (x - 1) + 1 = x
    BY <1>1, <1>3, <1>6
  <2> QED BY <1>1, <1>4, <1>5, <2>1
<1>7. ASSUME NEW x \in DOMAIN w, x > c
      PROVE  x - c + 1 \in DOMAIN s /\ x - c + 1 >= 2 /\ w[x] = s[x - c + 1]
  <2>1. x - c \in 1..Len(s) - 1 /\ ~(x <= c) /\ x - c + 1 >= 2 /\ x - c + 1 \in 1..Len(s)
    BY <1>1, <1>3, <1>5, <1>7
  <2> QED BY <1>1, <1>4, <1>5, <2>1
<1>8. ASSUME NEW x \in DOMAIN w, x <= c PROVE x \in DOMAIN f /\ w[x] = f[x]
  BY <1>1, <1>3, <1>4, <1>5, <1>8
<1>9. \A x \in DOMAIN w : x \in Nat /\ x >= 1
  BY <1>1, <1>3, <1>5
<1>10. Moved(s, w, c)
  BY <1>1, <1>2, <1>3, <1>6, <1>7, <1>8, <1>9 DEF Moved
<1> QED BY <1>3, <1>10 DEF w, f, q, h
-----------------------------------------------------------------------------
\* A buffer ends with its pointer.
LEMMA ReadShape ==
  ASSUME TypeOK, NEW k \in 1..MaxBatch, Read(k)
  PROVE  Shape'
<1> DEFINE f == StatementsOf(start, start + k)
           e == EndOfBuffer(JournalId, lastusn, CheckDone)
<1>1. /\ f \in Seq(RecordStmts) /\ e \in Seq(BufferStmts) /\ CheckDone \in BOOLEAN
      /\ todo' \in Seq(Stmts) /\ lastusn \in Nat
  BY ReadTyped DEF TypeOK
<1>2. /\ 1 \in DOMAIN e /\ e[1].op = "store_pointer"
      /\ \A x \in DOMAIN e : /\ e[x].jid = JournalId /\ e[x].usn = lastusn
                             /\ e[x].op = "drop_unchecked" => CheckDone
  <2>1. JournalId \in Nat /\ lastusn \in Nat
    BY <1>1 DEF JournalId
  <2>2. CASE CheckDone
    <3>1. e = EndOfBuffer(JournalId, lastusn, TRUE)
      BY <2>2 DEF EndOfBuffer, If
    <3> HIDE DEF e
    <3>2. Ends(e, JournalId, lastusn)
      BY <2>1, <3>1, EndOfBufferParts
    <3> QED BY <2>2, <3>2 DEF Ends
  <2>3. CASE ~CheckDone
    <3>1. e = EndOfBuffer(JournalId, lastusn, FALSE)
      BY <2>3 DEF EndOfBuffer, If
    <3> HIDE DEF e
    <3>2. Ends(e, JournalId, lastusn) /\ \A x \in DOMAIN e : e[x].op # "drop_unchecked"
      BY <2>1, <3>1, EndOfBufferParts
    <3> QED BY <3>2 DEF Ends
  <2> QED BY <2>2, <2>3
<1>3. todo' = f \o e /\ at' = "busy" /\ UNCHANGED <<recheck, lastusn>>
  BY DEF Read
<1> HIDE DEF f, e
<1>4. /\ DOMAIN todo' = 1..Len(f) + Len(e) /\ Len(f) \in Nat /\ Len(e) \in Nat
      /\ DOMAIN f = 1..Len(f) /\ DOMAIN e = 1..Len(e)
      /\ \A x \in 1..Len(f) : todo'[x] = f[x]
      /\ \A x \in 1..Len(e) : todo'[Len(f) + x] = e[x]
  BY <1>1, <1>3
<1>5. /\ \A x \in DOMAIN f : f[x].op \notin BufferOps
      /\ \A x \in DOMAIN e : e[x].op \in BufferOps
  <2>1. /\ \A s \in RecordStmts : s.op \notin BufferOps
        /\ \A s \in BufferStmts : s.op \in BufferOps
    BY DEF RecordStmts, BufferStmts, RecordOps, BufferOps
  <2>2. /\ \A x \in DOMAIN f : f[x] \in RecordStmts
        /\ \A x \in DOMAIN e : e[x] \in BufferStmts
    BY <1>1
  <2> QED BY <2>1, <2>2
<1>6. \A x \in DOMAIN todo' : x > Len(f) => x - Len(f) \in DOMAIN e /\ todo'[x] = e[x - Len(f)]
  <2> SUFFICES ASSUME NEW x \in DOMAIN todo', x > Len(f)
               PROVE  x - Len(f) \in DOMAIN e /\ todo'[x] = e[x - Len(f)]
    OBVIOUS
  <2>1. x - Len(f) \in 1..Len(e) /\ Len(f) + (x - Len(f)) = x
    BY <1>4
  <2> QED BY <1>4, <2>1
<1>7. ASSUME NEW x \in DOMAIN todo', todo'[x].op \in BufferOps
      PROVE  /\ todo'[x].jid = JournalId /\ todo'[x].usn = lastusn'
             /\ todo'[x].op = "drop_unchecked" => recheck' /\ usn_next' >= lastusn'
             /\ \A y \in DOMAIN todo' : x < y => todo'[y].op \in BufferOps
  <2>1. x > Len(f)
    BY <1>4, <1>5, <1>7
  <2>2. \A y \in DOMAIN todo' : x < y => todo'[y].op \in BufferOps
    BY <1>4, <1>5, <1>6, <2>1
  <2>3. CheckDone => recheck' /\ usn_next' >= lastusn'
    BY <1>3 DEF CheckDone
  <2> QED BY <1>2, <1>3, <1>6, <2>1, <2>2, <2>3
<1>8. \E x \in DOMAIN todo' : todo'[x].op = "store_pointer"
  BY <1>2, <1>4
<1> QED BY <1>3, <1>7, <1>8 DEF Shape, EndsAt

LEMMA ShapeExecute ==
  ASSUME TypeOK, Shape, ExecuteNext
  PROVE  Shape'
<1>1. /\ at = "busy" /\ todo \in Seq(Stmts) /\ todo # <<>> /\ db \in Tables
      /\ todo' = Follow(db, Head(todo)) \o Tail(todo) /\ db' = Effect(db, Head(todo))
      /\ Head(todo) = todo[1] /\ todo[1] \in Stmts
      /\ UNCHANGED <<at, recheck, lastusn, usn_next>>
  BY DEF TypeOK, ExecuteNext, Execute
<1>2. PICK c \in Nat : Moved(todo, todo', c)
  BY <1>1, FollowMoved
<1>3. ASSUME NEW x \in DOMAIN todo', todo'[x].op \in BufferOps
      PROVE  /\ todo'[x].jid = JournalId /\ todo'[x].usn = lastusn
             /\ todo'[x].op = "drop_unchecked" => recheck /\ usn_next >= lastusn
             /\ \A y \in DOMAIN todo' : x < y => todo'[y].op \in BufferOps
  <2>1. x > c
    BY <1>2, <1>3, StmtKinds DEF Moved
  <2>2. PICK z \in DOMAIN todo : z = x - c + 1 /\ todo'[x] = todo[z]
    BY <1>2, <2>1 DEF Moved
  <2>3. EndsAt(todo, z)
    BY DEF Shape
  <2>4. ASSUME NEW y \in DOMAIN todo', x < y PROVE todo'[y].op \in BufferOps
    <3>1. y > c
      BY <1>2, <2>1, <2>4 DEF Moved
    <3>2. PICK v \in DOMAIN todo : v = y - c + 1 /\ todo'[y] = todo[v]
      BY <1>2, <3>1 DEF Moved
    <3>3. z < v
      BY <1>2, <2>2, <2>4, <3>2 DEF Moved
    <3> QED BY <1>3, <2>2, <2>3, <3>2, <3>3 DEF EndsAt
  <2> QED BY <1>3, <2>2, <2>3, <2>4 DEF EndsAt
<1>4. db'.ptr = lastusn \/ \E x \in DOMAIN todo' : todo'[x].op = "store_pointer"
  <2>1. CASE todo[1].op = "store_pointer"
    <3>1. todo[1].usn = lastusn
      BY <1>2, <2>1 DEF Shape, EndsAt, Moved, BufferOps
    <3> QED BY <1>1, <2>1, <3>1, EffectBook
  <2>2. CASE todo[1].op # "store_pointer"
    <3>1. db'.ptr = db.ptr
      BY <1>1, <2>2, EffectBook
    <3>2. CASE db.ptr = lastusn
      BY <3>1, <3>2
    <3>3. CASE \E x \in DOMAIN todo : todo[x].op = "store_pointer"
      <4>1. PICK x \in DOMAIN todo : todo[x].op = "store_pointer"
        BY <3>3
      <4>2. x >= 2
        BY <1>2, <2>2, <4>1 DEF Moved
      <4> QED BY <1>2, <4>1, <4>2 DEF Moved
    <3> QED BY <1>1, <3>2, <3>3 DEF Shape
  <2> QED BY <2>1, <2>2
<1> QED BY <1>1, <1>3, <1>4 DEF Shape, EndsAt

LEMMA FileSystemOnly == FileSystem => UNCHANGED <<dbVars, watchVars>>
BY DEF FileSystem, CreateFile, ChangeFile, CloseFile, DeleteFile, RenameFile, LinkFile,
       UnlinkFile, Log

LEMMA NoStatements ==
  ASSUME todo' = <<>>, at' # "busy"
  PROVE  Shape'
BY DEF Shape

LEMMA ShapeNext == TypeOK /\ Shape /\ [Next]_vars => Shape'
<1> SUFFICES ASSUME TypeOK, Shape, [Next]_vars PROVE Shape'
  OBVIOUS
<1> USE DEF dbVars, watchVars
<1>1. CASE FileSystem
  BY <1>1, FileSystemOnly DEF Shape, EndsAt
<1>2. CASE Launch
  <2>1. todo' = <<>> /\ at' # "busy"
    BY <1>2 DEF Launch, Shape
  <2> QED BY <2>1, NoStatements
<1>3. CASE Crash
  <2>1. todo' = <<>> /\ at' # "busy"
    BY <1>3 DEF Crash, NoWatch
  <2> QED BY <2>1, NoStatements
<1>4. CASE Add
  <2>1. todo' = <<>> /\ at' # "busy"
    BY <1>4 DEF Add, Shape
  <2> QED BY <2>1, NoStatements
<1>5. CASE Remove
  <2>1. todo' = <<>> /\ at' # "busy"
    BY <1>5 DEF Remove, NoWatch
  <2> QED BY <2>1, NoStatements
<1>6. ASSUME NEW k \in 1..MaxBatch, Read(k) PROVE Shape'
  BY <1>6, ReadShape
<1>7. CASE ExecuteNext
  BY <1>7, ShapeExecute
<1>8. CASE FinishBuffer
  <2>1. todo' = <<>> /\ at' # "busy"
    BY <1>8 DEF FinishBuffer
  <2> QED BY <2>1, NoStatements
<1>9. CASE UNCHANGED vars
  BY <1>9 DEF vars, Shape, EndsAt
<1> QED BY <1>1, <1>2, <1>3, <1>4, <1>5, <1>6, <1>7, <1>8, <1>9 DEF Next, Indexer, BeginBuffer
-----------------------------------------------------------------------------
\* Transactions: what a watch finds is what the one before it left.
LEMMA LevelsInit == Init => Levels
BY DEF Init, Levels

\* The arithmetic of begin_transaction and final_transaction.
LEMMA BeginLevels ==
  ASSUME nest \in Int, Begin
  PROVE  nest' = nest + 1 /\ (txn' <=> txn \/ nest = 0)
BY DEF Begin

LEMMA FinalLevels ==
  ASSUME nest \in Int, Final
  PROVE  nest' = nest - 1 /\ (txn' <=> txn /\ nest # 1) /\ db' = db /\ (~txn' => disk' = db')
         /\ disk' \in {disk, db}
BY DEF Final

LEMMA LevelsNext == TypeOK /\ Shape /\ Levels /\ [Next]_vars => Levels'
<1> SUFFICES ASSUME TypeOK, Shape, Levels, [Next]_vars PROVE Levels'
  OBVIOUS
<1> USE DEF fsVars, dbVars, watchVars
<1>0. /\ nest \in Int /\ base \in Int /\ at \in {"off", "on", "waiting", "busy"} /\ Flags
      /\ db \in Tables /\ disk \in Tables /\ todo \in Seq(Stmts) /\ lastusn \in Nat /\ usn_next \in Nat
  BY DEF TypeOK, Flags
<1>1. CASE FileSystem
  BY <1>1, FileSystemOnly DEF Levels
<1>2. CASE Launch
  BY <1>2 DEF Launch, Levels
<1>3. CASE Crash
  BY <1>3 DEF Crash, NoWatch, Levels
<1>4. CASE Add
  <2>1. at = "on" /\ at' = "waiting" /\ base' = nest /\ rechecked' = FALSE
    BY <1>4 DEF Add
  <2>2. CASE db.jid # JournalId
    <3> DEFINE new == UpdateLastjid(CheckBegin(db), JournalId, Len(journal))
    <3>1. nest = 0 /\ ~txn /\ disk = db
      BY <2>1, <2>2 DEF Levels
    <3>2. Begin /\ recheck' = TRUE /\ db' = new
      BY <1>4, <2>2 DEF Add
    <3>3. nest' = 1 /\ txn'
      BY <3>1, <3>2, BeginLevels
    <3>4. db'.jid = JournalId
      BY <1>0, <3>2 DEF UpdateLastjid, CheckBegin, Tables
    <3> QED BY <2>1, <3>1, <3>2, <3>3, <3>4 DEF Levels
  <2>3. CASE db.jid = JournalId
    <3>1. UNCHANGED dbVars /\ recheck' = FALSE
      BY <1>4, <2>3 DEF Add
    <3> QED BY <2>1, <2>3, <3>1 DEF Levels, JournalId
  <2> QED BY <2>2, <2>3
<1>5. CASE Remove
  <2>1. at = "waiting" /\ at' = "on" /\ recheck' = FALSE /\ rechecked' = FALSE /\ base' = 0
        /\ UNCHANGED dbVars
    BY <1>5 DEF Remove, NoWatch
  <2>2. db.jid = JournalId /\ base <= 1
    BY <2>1 DEF Levels
  <2>3. nest <= 1 /\ (txn <=> nest = 1)
    <3>1. CASE recheck
      BY <1>0, <2>1, <3>1 DEF Levels
    <3>2. CASE ~recheck
      BY <1>0, <2>1, <2>2, <3>2 DEF Levels
    <3> QED BY <3>1, <3>2
  <2> QED BY <2>1, <2>2, <2>3 DEF Levels, JournalId
<1>6. ASSUME NEW k \in 1..MaxBatch, Read(k) PROVE Levels'
  <2>1. at = "waiting" /\ at' = "busy" /\ UNCHANGED <<db, disk, recheck, rechecked, base>>
    BY <1>6 DEF Read
  <2>2. CASE recheck
    <3>1. UNCHANGED <<txn, nest>>
      BY <1>6, <2>2 DEF Read
    <3> QED BY <2>1, <2>2, <3>1 DEF Levels, JournalId
  <2>3. CASE ~recheck
    <3>1. nest' = nest + 1 /\ (txn' <=> txn \/ nest = 0)
      BY <1>0, <1>6, <2>3, BeginLevels DEF Read
    <3>2. nest = base /\ (txn <=> base = 1) /\ base <= 1
      BY <2>1, <2>3 DEF Levels
    <3>3. nest' = base' + 1 /\ (txn' <=> base' >= 0)
      BY <1>0, <2>1, <3>1, <3>2
    <3> QED BY <1>0, <2>1, <2>3, <3>1, <3>3 DEF Levels, JournalId
  <2> QED BY <2>2, <2>3
<1>7. CASE ExecuteNext
  <2>1. /\ at = "busy" /\ at' = "busy" /\ todo # <<>> /\ db' = Effect(db, Head(todo))
        /\ disk' = IF txn THEN disk ELSE db'
        /\ UNCHANGED <<txn, nest, recheck, rechecked, base>>
    BY <1>7 DEF ExecuteNext, Execute
  <2>2. Head(todo) = todo[1] /\ todo[1] \in Stmts /\ 1 \in DOMAIN todo
    BY <1>0, <2>1
  <2>3. todo[1].op = "store_pointer" => todo[1].jid = JournalId
    BY <2>2 DEF Shape, EndsAt, BufferOps
  <2>4. db.jid = JournalId => db'.jid = JournalId
    BY <1>0, <2>1, <2>2, <2>3, EffectBook
  <2> QED BY <2>1, <2>4 DEF Levels, JournalId
<1>8. CASE FinishBuffer
  <2>1. at = "busy" /\ at' = "waiting" /\ UNCHANGED <<recheck, base>>
    BY <1>8 DEF FinishBuffer
  <2>2. CASE recheck /\ usn_next < lastusn
    <3>1. UNCHANGED <<dbVars, rechecked>>
      BY <1>8, <2>2 DEF FinishBuffer
    <3> QED BY <2>1, <2>2, <3>1 DEF Levels, JournalId
  <2>3. CASE ~(recheck /\ usn_next < lastusn)
    <3>1. rechecked' = recheck /\ nest' = nest - 1 /\ (txn' <=> txn /\ nest # 1)
          /\ db' = db /\ (~txn' => disk' = db')
      BY <1>0, <1>8, <2>3, FinalLevels DEF FinishBuffer
    <3>2. CASE recheck
      <4>1. ~txn' /\ nest' <= 0
        BY <1>0, <2>1, <3>1, <3>2 DEF Levels
      <4> QED BY <2>1, <3>1, <3>2, <4>1 DEF Levels, JournalId
    <3>3. CASE ~recheck
      <4>1. base <= 1 /\ nest = base + 1 /\ (txn <=> base >= 0)
        BY <2>1, <3>3 DEF Levels
      <4>2. nest' = base' /\ (txn' <=> base' = 1)
        BY <1>0, <2>1, <3>1, <4>1
      <4> QED BY <1>0, <2>1, <3>1, <3>3, <4>2 DEF Levels, JournalId
    <3> QED BY <3>2, <3>3
  <2> QED BY <2>2, <2>3
<1>9. CASE UNCHANGED vars
  BY <1>9 DEF vars, Levels, JournalId
<1> QED BY <1>1, <1>2, <1>3, <1>4, <1>5, <1>6, <1>7, <1>8, <1>9 DEF Next, Indexer, BeginBuffer

LEMMA Foundation == Spec => [](TypeOK /\ Shape /\ Levels)
<1>1. Init => TypeOK /\ Shape /\ Levels
  <2>1. Init => Shape
    <3>1. DOMAIN <<>> = {}
      OBVIOUS
    <3> QED BY <3>1 DEF Init, Shape
  <2> QED BY <2>1, TypeInit, LevelsInit
<1> QED BY <1>1, TypeNext, ShapeNext, LevelsNext, PTL DEF Spec, SafetySpec

\* Between two buffers nothing waits in an open transaction, except for a
\* re-check that has not been completed, by this watch or by one removed.
THEOREM NothingWaits == Spec => []DurableAtRest
<1>1. TypeOK /\ Shape /\ Levels => DurableAtRest
  BY DEF TypeOK, Levels, DurableAtRest
<1> QED BY <1>1, Foundation, PTL

\* watching_win32.cc:113: when the watch does not re-check, a buffer becomes
\* durable as a whole or not at all, unless the level was below zero when the
\* watch was added.
THEOREM BuffersAreAtomic == Spec => BufferAtomic
<1>1. TypeOK /\ Shape /\ Levels /\ [Next]_vars =>
        [at = "busy" /\ at' = "busy" /\ ~recheck /\ base >= 0 => disk' = disk]_vars
  <2> SUFFICES ASSUME Levels, Next, at = "busy", at' = "busy", ~recheck, base >= 0
               PROVE  disk' = disk
    BY DEF vars, dbVars
  <2>1. txn
    BY DEF Levels
  <2>2. CASE FileSystem
    BY <2>2, FileSystemOnly DEF dbVars
  <2>3. CASE ExecuteNext
    BY <2>1, <2>3 DEF ExecuteNext, Execute
  <2> QED BY <2>2, <2>3 DEF Next, Indexer, BeginBuffer, Launch, Crash, Add, Remove, Read, FinishBuffer
<1> QED BY <1>1, Foundation, PTL DEF BufferAtomic, Spec, SafetySpec
-----------------------------------------------------------------------------
\* Exactness.  u is x, except that the record's name has the entry e; marks stay.
Held(r, x, u, e) ==
  /\ u \in Tables
  /\ \A n \in Names \ {r.name} : u.dentry[n] = x.dentry[n]
  /\ u.dentry[r.name] = e
  /\ \A n \in Names : Seen(x, n) => Seen(u, n)

LEMMA HeldTwice ==
  ASSUME NEW r, NEW x, NEW y, NEW u, NEW e, NEW d, Held(r, x, y, e), Held(r, y, u, d)
  PROVE  Held(r, x, u, d)
BY DEF Held

LEMMA HeldBook ==
  ASSUME NEW r \in Records, NEW x, NEW u, SameBook(x, u)
  PROVE  Held(r, x, u, x.dentry[r.name])
BY DEF Held, SameBook, Seen

LEMMA AckedHeld ==
  ASSUME NEW r \in Records, NEW t \in Tables
  PROVE  /\ Held(r, t, AddDentry(t, r), IF t.dentry[r.name] = NONE THEN r.inode ELSE t.dentry[r.name])
         /\ Held(r, t, Acked(t, r), IF t.dentry[r.name] = NONE THEN r.inode ELSE t.dentry[r.name])
<1> DEFINE u == AddDentry(t, r)
           e == IF t.dentry[r.name] = NONE THEN r.inode ELSE t.dentry[r.name]
<1>1. Held(r, t, u, e) /\ u \in Tables /\ u.dentry[r.name] = e
  BY AddStep DEF Held, StepAt, Entry, Stmt, Records
<1> HIDE DEF u, e
<1>2. \A w : SameBook(u, w) => Held(r, t, w, e)
  BY <1>1, HeldBook, HeldTwice
<1>3. CASE r.inode \in t.known
  <2>1. Acked(t, r) = CountFile(u, r)
    BY <1>3 DEF Acked, u
  <2> QED BY <1>1, <1>2, <2>1, FileSteps DEF u, e
<1>4. CASE r.inode \notin t.known
  <2>1. Acked(t, r) = MarkDentry(InsertFile(u, r), r)
    BY <1>4 DEF Acked, u
  <2>2. SameBook(u, InsertFile(u, r)) /\ InsertFile(u, r) \in Tables
    BY <1>1, FileSteps DEF SameBook
  <2>3. SameBook(InsertFile(u, r), MarkDentry(InsertFile(u, r), r))
    BY <2>2, FileSteps
  <2>4. SameBook(u, Acked(t, r))
    BY <2>1, <2>2, <2>3 DEF SameBook
  <2> QED BY <1>1, <1>2, <2>4 DEF u, e
<1> QED BY <1>3, <1>4

LEMMA NakedHeld ==
  ASSUME NEW r \in Records, NEW t \in Tables
  PROVE  Held(r, t, RmDentry(t, r), NONE) /\ Held(r, t, Naked(t, r), NONE)
<1> DEFINE u == RmDentry(t, r)
           v == UncountFile(u, r)
           w == DropFile(v, r)
<1>1. Held(r, t, u, NONE) /\ u \in Tables /\ u.dentry[r.name] = NONE
  BY RmStep DEF Held, StepAt, Entry, Stmt, Records
<1> HIDE DEF u
<1>2. SameBook(u, v) /\ v \in Tables
  BY <1>1, FileSteps DEF SameBook
<1> HIDE DEF v
<1>3. SameBook(v, w)
  BY <1>2, FileSteps
<1> HIDE DEF w
<1>4. SameBook(u, w)
  BY <1>2, <1>3 DEF SameBook
<1>5. Held(r, t, w, NONE)
  BY <1>1, <1>4, HeldBook, HeldTwice
<1>6. Naked(t, r) = w
  BY DEF Naked, u, v, w
<1> QED BY <1>1, <1>5, <1>6 DEF u

\* What one record does to a table.
LEMMA RecordStep ==
  ASSUME NEW t \in Tables, NEW r \in Records
  PROVE  LET u == RecordEffect(t, r)
         IN /\ Held(r, t, u, u.dentry[r.name])
            /\ Clears(r) => u.dentry[r.name] = NONE
            /\ ~IsRemoval(r) => u.dentry[r.name] # NONE
                                /\ u.dentry[r.name] \in {r.inode, t.dentry[r.name]}
<1> DEFINE naked   == IF "delete" \in r.reasons THEN Naked(t, r) ELSE t
           flipped == IF "link" \notin r.reasons THEN naked
                      ELSE IF HasInode(naked, r.inode) THEN Naked(naked, r) ELSE Acked(naked, r)
           left    == IF "rename_old" \in r.reasons THEN RmDentry(flipped, r) ELSE flipped
           entered == IF "rename_new" \in r.reasons THEN AddDentry(left, r) ELSE left
           u       == IF IsRemoval(r) THEN entered ELSE Acked(entered, r)
           Same(x, y) == y = x
<1>0. /\ r.name \in Names /\ r.inode \in Inodes /\ r.inode # NONE
      /\ \A x \in Tables : Held(r, x, x, x.dentry[r.name])
  BY NoneAssumption DEF Records, Held
<1>1. RecordEffect(t, r) = u
  BY DEF RecordEffect
<1>2. /\ Held(r, t, naked, naked.dentry[r.name]) /\ naked \in Tables
      /\ "delete" \in r.reasons => naked.dentry[r.name] = NONE
      /\ "delete" \notin r.reasons => naked = t
  BY <1>0, NakedHeld DEF Held
<1> HIDE DEF naked
<1>3. /\ Held(r, naked, flipped, flipped.dentry[r.name]) /\ flipped \in Tables
      /\ "link" \notin r.reasons => flipped = naked
      /\ flipped.dentry[r.name] \in {NONE, r.inode, naked.dentry[r.name]}
  <2>1. CASE "link" \notin r.reasons
    BY <1>0, <1>2, <2>1
  <2>2. CASE "link" \in r.reasons /\ HasInode(naked, r.inode)
    <3>1. flipped = Naked(naked, r)
      BY <2>2
    <3> HIDE DEF flipped
    <3> QED BY <1>2, <2>2, <3>1, NakedHeld DEF Held
  <2>3. CASE "link" \in r.reasons /\ ~HasInode(naked, r.inode)
    <3>1. flipped = Acked(naked, r)
      BY <2>3
    <3> HIDE DEF flipped
    <3> QED BY <1>2, <2>3, <3>1, AckedHeld DEF Held
  <2> QED BY <2>1, <2>2, <2>3
<1> HIDE DEF flipped
<1>4. /\ Held(r, flipped, left, left.dentry[r.name]) /\ left \in Tables
      /\ "rename_old" \in r.reasons => left.dentry[r.name] = NONE
      /\ "rename_old" \notin r.reasons => left = flipped
  BY <1>0, <1>3, NakedHeld DEF Held
<1> HIDE DEF left
<1>5. /\ Held(r, left, entered, entered.dentry[r.name]) /\ entered \in Tables
      /\ "rename_new" \notin r.reasons => entered = left
      /\ entered.dentry[r.name] \in {r.inode, left.dentry[r.name]}
  BY <1>0, <1>4, AckedHeld DEF Held
<1> HIDE DEF entered
<1>6. /\ Held(r, entered, u, u.dentry[r.name])
      /\ IsRemoval(r) => u = entered
      /\ ~IsRemoval(r) => u.dentry[r.name] # NONE
                          /\ u.dentry[r.name] \in {r.inode, entered.dentry[r.name]}
  BY <1>0, <1>5, AckedHeld DEF Held
<1> HIDE DEF u
<1>7. Held(r, t, u, u.dentry[r.name])
  <2>1. Held(r, t, flipped, flipped.dentry[r.name])
    BY <1>2, <1>3, HeldTwice
  <2>2. Held(r, t, left, left.dentry[r.name])
    BY <1>4, <2>1, HeldTwice
  <2>3. Held(r, t, entered, entered.dentry[r.name])
    BY <1>5, <2>2, HeldTwice
  <2> QED BY <1>6, <2>3, HeldTwice
<1>8. ASSUME Clears(r) PROVE u.dentry[r.name] = NONE
  <2>1. /\ IsRemoval(r) /\ "rename_new" \notin r.reasons
        /\ "rename_old" \in r.reasons \/ "link" \notin r.reasons
    BY <1>8 DEF Clears, Stands
  <2>2. u = left
    BY <1>5, <1>6, <2>1
  <2>3. CASE "rename_old" \in r.reasons
    BY <1>4, <2>2, <2>3
  <2>4. CASE "rename_old" \notin r.reasons
    BY <1>2, <1>3, <1>4, <2>1, <2>2, <2>4 DEF IsRemoval
  <2> QED BY <2>3, <2>4
<1>9. ASSUME ~IsRemoval(r)
      PROVE  u.dentry[r.name] # NONE /\ u.dentry[r.name] \in {r.inode, t.dentry[r.name]}
  <2>1. naked = t /\ left = flipped
    BY <1>2, <1>4, <1>9 DEF IsRemoval
  <2> QED BY <1>3, <1>5, <1>6, <1>9, <2>1
<1> QED BY <1>1, <1>7, <1>8, <1>9

\* A table that lags behind less lags behind more, and one record of replay
\* takes it one record further.
LEMMA ReplaysBack ==
  ASSUME NEW t, NEW p \in Nat, NEW q \in Nat, q <= p, journal \in Seq(Records), Replays(t, p)
  PROVE  Replays(t, q)
<1>1. p + 1..Len(journal) \subseteq q + 1..Len(journal)
  OBVIOUS
<1>2. \A n : (ClearedAfter(n, p) => ClearedAfter(n, q)) /\ (NamedAfter(n, p) => NamedAfter(n, q))
  BY <1>1 DEF ClearedAfter, NamedAfter
<1> QED BY <1>2 DEF Replays, ReplaysAt

\* A name of which the records say no more is not there.
LEMMA NotThere ==
  ASSUME JournalTells, journal \in Seq(Records), NEW n \in Names \ untold, NEW p \in Nat,
         p + 1 \in 1..Len(journal), journal[p + 1].name = n, Clears(journal[p + 1])
  PROVE  NamedAfter(n, p + 1) \/ live[n] = NONE
<1> SUFFICES ASSUME live[n] # NONE PROVE NamedAfter(n, p + 1)
  OBVIOUS
<1>1. PICK k \in 1..Len(journal) : journal[k].name = n /\ ~ClearedAfter(n, k - 1)
  BY DEF JournalTells
<1>2. ~(k <= p + 1)
  BY <1>1 DEF ClearedAfter
<1> QED BY <1>1, <1>2 DEF NamedAfter

LEMMA ReplayRecord ==
  ASSUME JournalTells, journal \in Seq(Records), live \in [Names -> Inodes \cup {NONE}],
         NEW t \in Tables, NEW p \in Nat, p + 1 <= Len(journal), Replays(t, p)
  PROVE  /\ RecordEffect(t, journal[p + 1]) \in Tables
         /\ Replays(RecordEffect(t, journal[p + 1]), p + 1)
<1> DEFINE r == journal[p + 1]
           u == RecordEffect(t, r)
<1>1. r \in Records /\ r.name \in Names /\ p + 1 \in 1..Len(journal)
  <2>1. p + 1 \in 1..Len(journal)
    OBVIOUS
  <2>2. r \in Records
    BY <2>1
  <2> QED BY <2>1, <2>2 DEF Records
<1>2. /\ Held(r, t, u, u.dentry[r.name])
      /\ Clears(r) => u.dentry[r.name] = NONE
      /\ ~IsRemoval(r) => u.dentry[r.name] # NONE
                          /\ u.dentry[r.name] \in {r.inode, t.dentry[r.name]}
  BY <1>1, RecordStep
<1> HIDE DEF u
<1>3. ASSUME NEW n \in Names \ untold, ~ClearedAfter(n, p + 1) PROVE ReplaysAt(u, p + 1, n)
  <2>1. CASE n # r.name
    <3>1. ClearedAfter(n, p) <=> ClearedAfter(n, p + 1)
      BY <2>1 DEF ClearedAfter
    <3>2. NamedAfter(n, p) <=> NamedAfter(n, p + 1)
      BY <2>1 DEF NamedAfter
    <3>3. u.dentry[n] = t.dentry[n] /\ (Seen(t, n) => Seen(u, n))
      BY <1>2, <2>1 DEF Held
    <3> QED BY <1>3, <3>1, <3>2, <3>3 DEF Replays, ReplaysAt
  <2>2. CASE n = r.name /\ Clears(r)
    <3>1. NamedAfter(n, p + 1) \/ live[n] = NONE
      BY <1>1, <2>2, NotThere
    <3> QED BY <1>2, <2>2, <3>1 DEF ReplaysAt, Seen
  <2>3. CASE n = r.name /\ ~Clears(r)
    <3>1. ~ClearedAfter(n, p)
      BY <1>3, <2>3 DEF ClearedAfter
    <3>2. ~IsRemoval(r) /\ r.inode = live[n]
      BY <1>1, <2>3, <3>1 DEF JournalTells
    <3>3. t.dentry[n] \in {NONE, live[n]} /\ Seen(t, n)
      BY <3>1 DEF Replays, ReplaysAt
    <3>4. Seen(u, n)
      BY <1>2, <3>3 DEF Held
    <3> QED BY <1>2, <2>3, <3>2, <3>3, <3>4 DEF ReplaysAt
  <2> QED BY <2>1, <2>2, <2>3
<1>4. Replays(u, p + 1)
  BY <1>3 DEF Replays
<1> QED BY <1>2, <1>4 DEF u, Held

\* A statement for a record not yet replayed may be executed early.
LEMMA ReplaysStep ==
  ASSUME JournalTells, journal \in Seq(Records), NEW t, NEW u, NEW s,
         \A n \in Names : StepAt(t, u, s, n),
         NEW p \in Nat, NEW k \in p + 1..Len(journal), s.rec = journal[k], Replays(t, p)
  PROVE  Replays(u, p)
<1> SUFFICES ASSUME NEW n \in Names \ untold, ~ClearedAfter(n, p) PROVE ReplaysAt(u, p, n)
  BY DEF Replays
<1>1. ReplaysAt(t, p, n) /\ StepAt(t, u, s, n)
  BY DEF Replays
<1>2. CASE s.rec.name # n
  BY <1>1, <1>2 DEF ReplaysAt, StepAt, Entry
<1>3. CASE s.rec.name = n
  <2>1. NamedAfter(n, p)
    BY <1>3 DEF NamedAfter
  <2>2. s.rec.inode = live[n]
    <3>1. ~ClearedAfter(n, k - 1)
      BY DEF ClearedAfter
    <3> QED BY <1>3, <3>1 DEF JournalTells
  <2> QED BY <1>1, <1>3, <2>1, <2>2 DEF ReplaysAt, StepAt, Entry
<1> QED BY <1>2, <1>3
\* w is s and the statements of one record more.
Extends(s, w, r) ==
  /\ w \in Seq(Stmts)
  /\ \A x \in DOMAIN s : x \in DOMAIN w /\ w[x] = s[x]
  /\ \A x \in DOMAIN w :
       x \notin DOMAIN s =>
         /\ x > Len(s) /\ w[x].op \in RecordOps /\ w[x].rec = r
         /\ Clears(r) => w[x].op # "add_dentry"
         /\ ~IsRemoval(r) => w[x].op # "rm_dentry"
         /\ w[x].op = "flip" =>
              /\ Clears(r) => \E y \in DOMAIN w : x < y /\ y > Len(s) /\ w[y].op = "rm_dentry"
              /\ ~IsRemoval(r) =>
                   \E y \in DOMAIN w : x < y /\ y > Len(s) /\ w[y].op = "add_dentry"
  /\ Clears(r) => \E x \in DOMAIN w : x > Len(s) /\ w[x].op = "rm_dentry"
  /\ ~IsRemoval(r) => \E x \in DOMAIN w : x > Len(s) /\ w[x].op = "add_dentry"

\* Where the statements of a list joined from two are found.
LEMMA Places ==
  ASSUME NEW s \in Seq(Stmts), NEW q \in Seq(Stmts)
  PROVE  /\ s \o q \in Seq(Stmts)
         /\ \A x \in DOMAIN s : x \in DOMAIN (s \o q) /\ (s \o q)[x] = s[x]
         /\ \A y \in DOMAIN q : /\ Len(s) + y \in DOMAIN (s \o q) /\ Len(s) + y > Len(s)
                                /\ (s \o q)[Len(s) + y] = q[y]
         /\ \A x \in DOMAIN (s \o q) :
              x \notin DOMAIN s => x > Len(s) /\ \E y \in DOMAIN q : x = Len(s) + y
<1> DEFINE w == s \o q
<1>1. /\ DOMAIN s = 1..Len(s) /\ DOMAIN q = 1..Len(q) /\ Len(s) \in Nat /\ Len(q) \in Nat
      /\ w \in Seq(Stmts) /\ DOMAIN w = 1..Len(s) + Len(q)
      /\ \A x \in 1..Len(s) : w[x] = s[x]
      /\ \A x \in 1..Len(q) : w[Len(s) + x] = q[x]
  OBVIOUS
<1> HIDE DEF w
<1>2. ASSUME NEW x \in DOMAIN w, x \notin DOMAIN s
      PROVE  x > Len(s) /\ \E y \in DOMAIN q : x = Len(s) + y
  <2>1. x - Len(s) \in DOMAIN q /\ x = Len(s) + (x - Len(s)) /\ x > Len(s)
    BY <1>1, <1>2
  <2> QED BY <2>1
<1>3. \A x \in DOMAIN s : x \in DOMAIN w /\ w[x] = s[x]
  BY <1>1
<1>4. \A y \in DOMAIN q : /\ Len(s) + y \in DOMAIN w /\ Len(s) + y > Len(s)
                          /\ w[Len(s) + y] = q[y]
  BY <1>1
<1> QED BY <1>1, <1>2, <1>3, <1>4 DEF w

LEMMA Appended ==
  ASSUME NEW s \in Seq(Stmts), NEW r \in Records
  PROVE  Extends(s, s \o Statements(r), r)
<1> DEFINE st == Statements(r)
           w == s \o st
<1>1. /\ Of(st, r)
      /\ Clears(r) => Has(st, "rm_dentry") /\ ~Has(st, "add_dentry") /\ FlipsThen(st, "rm_dentry")
      /\ ~IsRemoval(r) => /\ Has(st, "add_dentry") /\ ~Has(st, "rm_dentry")
                          /\ FlipsThen(st, "add_dentry")
  BY StatementsOfRecord
<1> HIDE DEF st
<1>2. /\ st \in Seq(Stmts)
      /\ \A x \in DOMAIN st : st[x].op \in RecordOps /\ st[x].rec = r
      /\ DOMAIN st \subseteq Nat /\ Len(s) \in Nat
  <2>1. st \in Seq(RecordStmts)
    BY <1>1 DEF Of
  <2>2. st \in Seq(Stmts)
    BY <2>1, Wider
  <2>3. \A x \in DOMAIN st : st[x].op \in RecordOps
    <3>1. \A y \in RecordStmts : y.op \in RecordOps
      BY DEF RecordStmts
    <3>2. \A x \in DOMAIN st : st[x] \in RecordStmts
      BY <2>1
    <3> QED BY <3>1, <3>2
  <2>4. DOMAIN st \subseteq Nat
    BY <2>1
  <2> QED BY <1>1, <2>2, <2>3, <2>4 DEF Of
<1>3. /\ w \in Seq(Stmts)
      /\ \A x \in DOMAIN s : x \in DOMAIN w /\ w[x] = s[x]
      /\ \A y \in DOMAIN st : /\ Len(s) + y \in DOMAIN w /\ Len(s) + y > Len(s)
                              /\ w[Len(s) + y] = st[y]
      /\ \A x \in DOMAIN w :
           x \notin DOMAIN s => x > Len(s) /\ \E y \in DOMAIN st : x = Len(s) + y
  BY <1>2, Places
<1> HIDE DEF w
<1>4. ASSUME NEW op, Has(st, op) PROVE \E x \in DOMAIN w : x > Len(s) /\ w[x].op = op
  BY <1>3, <1>4 DEF Has
<1>5. ASSUME NEW op, FlipsThen(st, op), NEW x \in DOMAIN w, x \notin DOMAIN s, w[x].op = "flip"
      PROVE  \E y \in DOMAIN w : x < y /\ y > Len(s) /\ w[y].op = op
  <2>1. PICK z \in DOMAIN st : x = Len(s) + z /\ st[z].op = "flip"
    BY <1>3, <1>5
  <2>2. PICK v \in DOMAIN st : z < v /\ st[v].op = op
    BY <1>5, <2>1 DEF FlipsThen
  <2>3. /\ Len(s) + v \in DOMAIN w /\ x < Len(s) + v /\ Len(s) + v > Len(s)
        /\ w[Len(s) + v].op = op
    BY <1>2, <1>3, <2>1, <2>2
  <2> QED BY <2>3
<1>6. ASSUME NEW x \in DOMAIN w, x \notin DOMAIN s
      PROVE  /\ x > Len(s) /\ w[x].op \in RecordOps /\ w[x].rec = r
             /\ Clears(r) => w[x].op # "add_dentry"
             /\ ~IsRemoval(r) => w[x].op # "rm_dentry"
             /\ w[x].op = "flip" =>
                  /\ Clears(r) => \E y \in DOMAIN w : x < y /\ y > Len(s) /\ w[y].op = "rm_dentry"
                  /\ ~IsRemoval(r) =>
                       \E y \in DOMAIN w : x < y /\ y > Len(s) /\ w[y].op = "add_dentry"
  <2>1. PICK z \in DOMAIN st : x = Len(s) + z /\ w[x] = st[z] /\ x > Len(s)
    BY <1>3, <1>6
  <2>2. Clears(r) => w[x].op # "add_dentry"
    BY <1>1, <2>1 DEF Has
  <2>3. ~IsRemoval(r) => w[x].op # "rm_dentry"
    BY <1>1, <2>1 DEF Has
  <2>4. w[x].op = "flip" /\ Clears(r) =>
          \E y \in DOMAIN w : x < y /\ y > Len(s) /\ w[y].op = "rm_dentry"
    BY <1>1, <1>5, <1>6
  <2>5. w[x].op = "flip" /\ ~IsRemoval(r) =>
          \E y \in DOMAIN w : x < y /\ y > Len(s) /\ w[y].op = "add_dentry"
    BY <1>1, <1>5, <1>6
  <2> QED BY <1>2, <2>1, <2>2, <2>3, <2>4, <2>5
<1>7. Extends(s, w, r)
  BY <1>1, <1>3, <1>4, <1>6 DEF Extends
<1> QED BY <1>7 DEF w, st

\* Statements that do not concern a name change nothing for it.
LEMMA Unaffected ==
  ASSUME NEW t, NEW s, NEW w, NEW p, NEW q, NEW n,
         \A x \in DOMAIN s : x \in DOMAIN w /\ w[x] = s[x],
         \A x \in DOMAIN w :
           x \notin DOMAIN s => ~Enters(w, x, n) /\ ~Removes(w, x, n) /\ ~Flips(w, x, n),
         NamedAfter(n, p) => NamedAfter(n, q),
         ComesAt(t, s, p, n)
  PROVE  ComesAt(t, w, q, n)
<1>1. \A x \in DOMAIN s : /\ Enters(w, x, n) <=> Enters(s, x, n)
                          /\ Removes(w, x, n) <=> Removes(s, x, n)
                          /\ Flips(w, x, n) <=> Flips(s, x, n)
  BY DEF Enters, Removes, Flips
<1>2. Removed(w, n) <=> Removed(s, n)
  BY <1>1 DEF Removed
<1>3. \A y \in DOMAIN w :
        Enters(w, y, n) =>
          w[y].rec.inode = live[n] \/ \E x \in DOMAIN w : y < x /\ Removes(w, x, n)
  BY <1>1 DEF ComesAt
<1>4. ASSUME NEW y \in DOMAIN w, Flips(w, y, n)
      PROVE  \E x \in DOMAIN w :
               y < x /\ (Removes(w, x, n) \/ (Enters(w, x, n) /\ w[x].rec = w[y].rec))
  <2>1. y \in DOMAIN s /\ Flips(s, y, n)
    BY <1>1, <1>4
  <2>2. PICK x \in DOMAIN s :
          y < x /\ (Removes(s, x, n) \/ (Enters(s, x, n) /\ s[x].rec = s[y].rec))
    BY <2>1 DEF ComesAt
  <2> QED BY <1>1, <2>1, <2>2
<1>5. (\E y \in DOMAIN s : Enters(s, y, n) /\ \A x \in DOMAIN s : Removes(s, x, n) => x < y)
      => \E y \in DOMAIN w : Enters(w, y, n) /\ \A x \in DOMAIN w : Removes(w, x, n) => x < y
  BY <1>1
<1> QED BY <1>2, <1>3, <1>4, <1>5 DEF ComesAt

LEMMA ComesAppend ==
  ASSUME JournalTells, journal \in Seq(Records), live \in [Names -> Inodes \cup {NONE}],
         NEW t, NEW s \in Seq(Stmts), NEW p \in Nat, p + 1 <= Len(journal), Comes(t, s, p)
  PROVE  Comes(t, s \o Statements(journal[p + 1]), p + 1)
<1> DEFINE r == journal[p + 1]
           w == s \o Statements(r)
<1>1. p + 1 \in 1..Len(journal) /\ r \in Records
  OBVIOUS
<1>2. Extends(s, w, r)
  BY <1>1, Appended
<1> HIDE DEF w
<1>3. /\ DOMAIN s = 1..Len(s) /\ DOMAIN w = 1..Len(w) /\ Len(s) \in Nat /\ Len(w) \in Nat
      /\ \A x \in DOMAIN w : x > Len(s) => w[x].rec = r
  BY <1>2 DEF Extends
<1>4. ASSUME NEW n \in Names \ untold, ~ClearedAfter(n, p + 1) PROVE ComesAt(t, w, p + 1, n)
  <2>1. CASE n # r.name
    <3>1. (ClearedAfter(n, p) => ClearedAfter(n, p + 1)) /\ (NamedAfter(n, p) => NamedAfter(n, p + 1))
      BY <2>1 DEF ClearedAfter, NamedAfter
    <3>2. ComesAt(t, s, p, n)
      BY <1>4, <3>1 DEF Comes
    <3>3. \A x \in DOMAIN w :
            x \notin DOMAIN s => ~Enters(w, x, n) /\ ~Removes(w, x, n) /\ ~Flips(w, x, n)
      BY <1>2, <2>1 DEF Extends, Enters, Removes, Flips
    <3>4. \A x \in DOMAIN s : x \in DOMAIN w /\ w[x] = s[x]
      BY <1>2 DEF Extends
    <3> QED BY <3>1, <3>2, <3>3, <3>4, Unaffected
  <2>2. CASE n = r.name /\ Clears(r)
    <3>1. PICK z \in DOMAIN w : z > Len(s) /\ w[z].op = "rm_dentry"
      BY <1>2, <2>2 DEF Extends
    <3>2. Removes(w, z, n)
      BY <1>3, <2>2, <3>1 DEF Removes
    <3>3. \A y \in DOMAIN w : Enters(w, y, n) => y < z
      BY <1>2, <1>3, <2>2, <3>1 DEF Enters, Extends
    <3>4. ASSUME NEW y \in DOMAIN w, Flips(w, y, n)
          PROVE  \E x \in DOMAIN w : y < x /\ Removes(w, x, n)
      <4>1. CASE y \in DOMAIN s
        BY <1>3, <3>1, <3>2, <4>1
      <4>2. CASE y \notin DOMAIN s
        <5>1. PICK x \in DOMAIN w : y < x /\ x > Len(s) /\ w[x].op = "rm_dentry"
          BY <1>2, <2>2, <3>4, <4>2 DEF Extends, Flips
        <5> QED BY <1>3, <2>2, <5>1 DEF Removes
      <4> QED BY <4>1, <4>2
    <3>5. NamedAfter(n, p + 1) \/ live[n] = NONE
      BY <1>1, <2>2, NotThere
    <3> QED BY <3>2, <3>3, <3>4, <3>5 DEF ComesAt, Removed
  <2>3. CASE n = r.name /\ ~Clears(r)
    <3>1. ~ClearedAfter(n, p)
      BY <1>4, <2>3 DEF ClearedAfter
    <3>2. ~IsRemoval(r) /\ r.inode = live[n]
      BY <1>1, <2>3, <3>1 DEF JournalTells
    <3>3. ComesAt(t, s, p, n)
      BY <3>1 DEF Comes
    <3>4. PICK z \in DOMAIN w : z > Len(s) /\ w[z].op = "add_dentry"
      BY <1>2, <3>2 DEF Extends
    <3>5. Enters(w, z, n)
      BY <1>3, <2>3, <3>4 DEF Enters
    <3>6. \A x \in DOMAIN w : Removes(w, x, n) => x \in DOMAIN s /\ x < z /\ Removes(s, x, n)
      BY <1>2, <1>3, <3>2, <3>4 DEF Removes, Extends
    <3>7. \A x \in DOMAIN s : /\ x \in DOMAIN w /\ w[x] = s[x]
                              /\ Removes(s, x, n) => Removes(w, x, n)
                              /\ Enters(s, x, n) => Enters(w, x, n)
      BY <1>2 DEF Removes, Enters, Extends
    <3>8. Removed(w, n) <=> Removed(s, n)
      BY <3>6, <3>7 DEF Removed
    <3>9. ASSUME NEW y \in DOMAIN w, Enters(w, y, n)
          PROVE  w[y].rec.inode = live[n] \/ \E x \in DOMAIN w : y < x /\ Removes(w, x, n)
      <4>1. CASE y \in DOMAIN s
        <5>1. Enters(s, y, n) /\ w[y] = s[y]
          BY <3>7, <3>9, <4>1 DEF Enters
        <5> QED BY <3>3, <3>7, <4>1, <5>1 DEF ComesAt
      <4>2. CASE y \notin DOMAIN s
        BY <1>2, <3>2, <4>2 DEF Extends
      <4> QED BY <4>1, <4>2
    <3>10. ASSUME NEW y \in DOMAIN w, Flips(w, y, n)
           PROVE  \E x \in DOMAIN w :
                    y < x /\ (Removes(w, x, n) \/ (Enters(w, x, n) /\ w[x].rec = w[y].rec))
      <4>1. CASE y \in DOMAIN s
        <5>1. Flips(s, y, n) /\ w[y] = s[y]
          BY <3>7, <3>10, <4>1 DEF Flips
        <5>2. PICK x \in DOMAIN s :
                y < x /\ (Removes(s, x, n) \/ (Enters(s, x, n) /\ s[x].rec = s[y].rec))
          BY <3>3, <4>1, <5>1 DEF ComesAt
        <5> QED BY <3>7, <5>1, <5>2
      <4>2. CASE y \notin DOMAIN s
        <5>1. PICK x \in DOMAIN w : y < x /\ x > Len(s) /\ w[x].op = "add_dentry"
          BY <1>2, <3>2, <3>10, <4>2 DEF Extends, Flips
        <5>2. w[y].rec = r /\ w[x].rec = r
          BY <1>2, <1>3, <4>2, <5>1 DEF Extends
        <5> QED BY <2>3, <5>1, <5>2 DEF Enters
      <4> QED BY <4>1, <4>2
    <3> QED BY <3>3, <3>5, <3>6, <3>8, <3>9, <3>10 DEF ComesAt
  <2> QED BY <2>1, <2>2, <2>3
<1>5. Comes(t, w, p + 1)
  BY <1>4 DEF Comes
<1> QED BY <1>5 DEF w

LEMMA StemAppend ==
  ASSUME journal \in Seq(Records), NEW s \in Seq(Stmts), NEW a \in Nat, NEW p \in Nat, a <= p,
         p + 1 <= Len(journal), Stem(s, a, p)
  PROVE  Stem(s \o Statements(journal[p + 1]), a, p + 1)
<1> DEFINE r == journal[p + 1]
           w == s \o Statements(r)
<1>1. p + 1 \in 1..Len(journal) /\ r \in Records
  OBVIOUS
<1>2. Extends(s, w, r)
  BY <1>1, Appended
<1> HIDE DEF w
<1>3. \A x \in DOMAIN w : (x \in DOMAIN s => w[x] = s[x]) /\ (x \notin DOMAIN s => w[x].rec = r)
  BY <1>2 DEF Extends
<1>4. p + 1 \in a + 1..p + 1 /\ \A k \in a + 1..p : k \in a + 1..p + 1
  OBVIOUS
<1>5. Stem(w, a, p + 1)
  BY <1>3, <1>4 DEF Stem
<1> QED BY <1>5 DEF w

\* What is done at the end of a buffer concerns no name.
LEMMA EndAppend ==
  ASSUME NEW t, NEW s \in Seq(Stmts), NEW e \in Seq(BufferStmts), NEW p, Comes(t, s, p),
         NEW a, NEW b, Stem(s, a, b)
  PROVE  Comes(t, s \o e, p) /\ Stem(s \o e, a, b)
<1> DEFINE w == s \o e
<1>1. e \in Seq(Stmts) /\ \A y \in DOMAIN e : e[y].op \in BufferOps
  <2>1. e \in Seq(Stmts)
    BY Wider
  <2>2. \A y \in BufferStmts : y.op \in BufferOps
    BY DEF BufferStmts
  <2>3. \A y \in DOMAIN e : e[y] \in BufferStmts
    OBVIOUS
  <2> QED BY <2>1, <2>2, <2>3
<1>2. /\ \A x \in DOMAIN s : x \in DOMAIN w /\ w[x] = s[x]
      /\ \A x \in DOMAIN w : x \notin DOMAIN s => w[x].op \in BufferOps
  BY <1>1, Places
<1> HIDE DEF w
<1>3. Stem(w, a, b)
  BY <1>2, StmtKinds DEF Stem
<1>4. \A n, x : x \in DOMAIN w /\ x \notin DOMAIN s =>
                  ~Enters(w, x, n) /\ ~Removes(w, x, n) /\ ~Flips(w, x, n)
  BY <1>2 DEF Enters, Removes, Flips, BufferOps
<1>5. \A n \in Names \ untold : ComesAt(t, s, p, n) => ComesAt(t, w, p, n)
  BY <1>2, <1>4, Unaffected
<1>6. Comes(t, w, p)
  BY <1>5 DEF Comes
<1> QED BY <1>3, <1>6 DEF w

LEMMA OnlyBook ==
  ASSUME NEW t, NEW s, \A x \in DOMAIN s : s[x].op \in BufferOps, NEW p, Comes(t, s, p)
  PROVE  Replays(t, p)
<1>1. \A n, x : x \in DOMAIN s => ~Enters(s, x, n) /\ ~Removes(s, x, n)
  BY DEF Enters, Removes, BufferOps
<1> QED BY <1>1 DEF Comes, ComesAt, Replays, ReplaysAt, Removed

LEMMA EmptyComes ==
  ASSUME NEW t, NEW p \in Nat
  PROVE  Comes(t, <<>>, p) <=> Replays(t, p)
<1>1. DOMAIN <<>> = {}
  OBVIOUS
<1> QED BY <1>1 DEF Comes, ComesAt, Replays, ReplaysAt, Removed

\* A buffer holds what the table lacks.
LEMMA ReadComes ==
  ASSUME JournalTells, journal \in Seq(Records), live \in [Names -> Inodes \cup {NONE}],
         NEW t, NEW a \in Nat, NEW b \in Nat, a <= b, b <= Len(journal), Replays(t, a)
  PROVE  Comes(t, StatementsOf(a, b), b) /\ Stem(StatementsOf(a, b), a, b)
<1>1. PICK f : Upto(f, a, b) /\ StatementsOf(a, b) = f[b]
  BY UptoExists
<1>2. /\ \A k \in a..b : f[k] \in Seq(RecordStmts)
      /\ f[a] = <<>>
      /\ \A k \in a + 1..b : f[k] = f[k - 1] \o Statements(journal[k])
  <2>1. \A k \in a..b :
          f[k] = IF k = a THEN <<>> ELSE f[k - 1] \o Statements(journal[k])
    BY <1>1 DEF Upto
  <2>2. \A k \in a + 1..b : k \in a..b /\ k # a
    OBVIOUS
  <2>3. \A k \in a..b : f[k] \in Seq(RecordStmts)
    BY <1>1, UptoTyped
  <2>4. f[a] = <<>>
    <3>1. a \in a..b
      OBVIOUS
    <3> QED BY <2>1, <3>1
  <2>5. \A k \in a + 1..b : f[k] = f[k - 1] \o Statements(journal[k])
    <3> SUFFICES ASSUME NEW k \in a + 1..b PROVE f[k] = f[k - 1] \o Statements(journal[k])
      OBVIOUS
    <3>1. k \in a..b /\ k # a
      BY <2>2
    <3> QED BY <2>1, <3>1
  <2> QED BY <2>3, <2>4, <2>5
<1> DEFINE T == {k \in a..b : ~(Comes(t, f[k], k) /\ Stem(f[k], a, k))}
<1>3. SUFFICES ASSUME T # {} PROVE FALSE
  BY <1>1
<1>4. PICK c \in T : \A d \in T : c <= d
  <2> HIDE DEF T
  <2>1. T \in SUBSET Nat BY DEF T
  <2> QED BY <1>3, <2>1, Least
<1>5. c # a
  <2>1. DOMAIN f[a] = {}
    BY <1>2
  <2>2. Stem(f[a], a, a)
    BY <2>1 DEF Stem
  <2> QED BY <1>2, <1>4, <2>2, EmptyComes
<1>6. PICK p \in a..b : p + 1 = c
  <2>1. c - 1 \in a..b /\ (c - 1) + 1 = c
    BY <1>4, <1>5
  <2> QED BY <2>1
<1>7. /\ p \in Nat /\ a <= p /\ p + 1 <= Len(journal) /\ p + 1 \in a + 1..b /\ (p + 1) - 1 = p
      /\ Comes(t, f[p], p) /\ Stem(f[p], a, p) /\ f[p] \in Seq(Stmts)
  BY <1>2, <1>4, <1>6, Wider
<1>8. f[p + 1] = f[p] \o Statements(journal[p + 1])
  BY <1>2, <1>7
<1>9. Comes(t, f[p + 1], p + 1)
  BY <1>7, <1>8, ComesAppend
<1>10. Stem(f[p + 1], a, p + 1)
  BY <1>7, <1>8, StemAppend
<1> QED BY <1>4, <1>6, <1>9, <1>10
-----------------------------------------------------------------------------
\* Executing a statement keeps what the table and the statements come to.
LEMMA StemMoved ==
  ASSUME NEW s, NEW w, NEW c, Moved(s, w, c), NEW a, NEW b, Stem(s, a, b)
  PROVE  Stem(w, a, b)
<1> SUFFICES ASSUME NEW x \in DOMAIN w, w[x].op \in RecordOps
             PROVE  \E k \in a + 1..b : w[x].rec = journal[k]
  BY DEF Stem
<1>1. CASE x > c
  BY <1>1 DEF Moved, Stem
<1>2. CASE ~(x > c)
  <2>1. x <= c
    BY <1>2 DEF Moved
  <2> QED BY <2>1 DEF Moved, Stem
<1> QED BY <1>1, <1>2

LEMMA ComesMoved ==
  ASSUME NEW t, NEW u, NEW s, NEW w, NEW c \in Nat, Moved(s, w, c), NEW p, Comes(t, s, p),
         \A n \in Names \ untold : ClearedAfter(n, p) \/ StepAt(t, u, s[1], n)
  PROVE  Comes(u, w, p)
<1> SUFFICES ASSUME NEW n \in Names \ untold, ~ClearedAfter(n, p) PROVE ComesAt(u, w, p, n)
  BY DEF Comes
<1>1. ComesAt(t, s, p, n) /\ u.dentry[n] = Entry(t, s[1], n) /\ (Seen(t, n) => Seen(u, n))
  BY DEF Comes, StepAt
<1>2. /\ 1 \in DOMAIN s
      /\ \A x \in DOMAIN s : x \in Nat /\ (x = 1 \/ x >= 2)
      /\ \A x \in DOMAIN w : x \in Nat /\ x >= 1 /\ (x <= c \/ x > c)
  BY DEF Moved
\* What has moved, and what is new.
<1>3. \A x \in DOMAIN s :
        x >= 2 => /\ x + c - 1 \in DOMAIN w /\ w[x + c - 1] = s[x]
                  /\ Enters(s, x, n) => Enters(w, x + c - 1, n)
                  /\ Removes(s, x, n) => Removes(w, x + c - 1, n)
  BY DEF Moved, Enters, Removes
<1>4. ASSUME NEW x \in DOMAIN w, x > c
      PROVE  \E y \in DOMAIN s :
               /\ x = y + c - 1 /\ y >= 2 /\ w[x] = s[y]
               /\ Enters(w, x, n) => Enters(s, y, n)
               /\ Removes(w, x, n) => Removes(s, y, n)
               /\ Flips(w, x, n) => Flips(s, y, n)
  <2>1. x - c + 1 \in DOMAIN s /\ x - c + 1 >= 2 /\ w[x] = s[x - c + 1] /\ x = (x - c + 1) + c - 1
    BY <1>2, <1>4 DEF Moved
  <2> QED BY <2>1 DEF Enters, Removes, Flips
<1>5. ASSUME NEW x \in DOMAIN w, x <= c
      PROVE  /\ ~Flips(w, x, n) /\ w[x].rec = s[1].rec
             /\ Enters(w, x, n) \/ Removes(w, x, n) => x = 1 /\ Flips(s, 1, n)
  BY <1>5 DEF Moved, Enters, Removes, Flips
\* What follows a statement in s follows it in w.
<1>6. ASSUME NEW y \in DOMAIN s, NEW x, x <= y + c - 1, NEW z \in DOMAIN s, y < z
      PROVE  z >= 2 /\ z + c - 1 \in DOMAIN w /\ (x \in Nat => x < z + c - 1)
  BY <1>2, <1>3, <1>6
<1>7. ASSUME NEW y \in DOMAIN s, Enters(s, y, n), NEW x \in DOMAIN w, x <= y + c - 1
      PROVE  s[y].rec.inode = live[n] \/ \E z \in DOMAIN w : x < z /\ Removes(w, z, n)
  <2> SUFFICES ASSUME s[y].rec.inode # live[n]
               PROVE  \E z \in DOMAIN w : x < z /\ Removes(w, z, n)
    OBVIOUS
  <2>1. PICK z \in DOMAIN s : y < z /\ Removes(s, z, n)
    BY <1>1, <1>7 DEF ComesAt
  <2>2. z >= 2 /\ x < z + c - 1
    BY <1>2, <1>6, <1>7, <2>1
  <2> QED BY <1>3, <2>1, <2>2
<1>8. ASSUME NEW x \in DOMAIN w, Flips(w, x, n)
      PROVE  \E z \in DOMAIN w :
               x < z /\ (Removes(w, z, n) \/ (Enters(w, z, n) /\ w[z].rec = w[x].rec))
  <2>1. x > c
    BY <1>2, <1>5, <1>8
  <2>2. PICK y \in DOMAIN s : x = y + c - 1 /\ w[x] = s[y] /\ Flips(s, y, n)
    BY <1>4, <1>8, <2>1
  <2>3. PICK z \in DOMAIN s :
          y < z /\ (Removes(s, z, n) \/ (Enters(s, z, n) /\ s[z].rec = s[y].rec))
    BY <1>1, <2>2 DEF ComesAt
  <2>4. z >= 2 /\ x < z + c - 1
    BY <1>2, <2>2, <2>3
  <2> QED BY <1>3, <2>2, <2>3, <2>4
<1>9. ASSUME NEW y \in DOMAIN s, y >= 2, Enters(s, y, n),
             \A x \in DOMAIN s : Removes(s, x, n) => x < y
      PROVE  \E z \in DOMAIN w : Enters(w, z, n) /\ \A x \in DOMAIN w : Removes(w, x, n) => x < z
  <2>1. y + c - 1 \in DOMAIN w /\ Enters(w, y + c - 1, n)
    BY <1>3, <1>9
  <2>2. ASSUME NEW x \in DOMAIN w, Removes(w, x, n) PROVE x < y + c - 1
    <3>1. CASE x <= c
      BY <1>2, <1>9, <3>1
    <3>2. CASE x > c
      <4>1. PICK z \in DOMAIN s : x = z + c - 1 /\ Removes(s, z, n)
        BY <1>4, <2>2, <3>2
      <4> QED BY <1>2, <1>9, <4>1
    <3> QED BY <1>2, <3>1, <3>2
  <2> QED BY <2>1, <2>2
<1>10. CASE ~Flips(s, 1, n)
  <2>1. \A x \in DOMAIN w : Enters(w, x, n) \/ Removes(w, x, n) => x > c
    BY <1>2, <1>5, <1>10
  <2>2. ASSUME NEW x \in DOMAIN w, Enters(w, x, n)
        PROVE  w[x].rec.inode = live[n] \/ \E z \in DOMAIN w : x < z /\ Removes(w, z, n)
    <3>1. PICK y \in DOMAIN s : x = y + c - 1 /\ w[x] = s[y] /\ Enters(s, y, n)
      BY <1>4, <2>1, <2>2
    <3>2. x <= y + c - 1
      BY <1>2, <3>1
    <3> QED BY <1>7, <3>1, <3>2
  <2>3. Removed(w, n) => Removed(s, n)
    <3> SUFFICES ASSUME NEW x \in DOMAIN w, Removes(w, x, n) PROVE Removed(s, n)
      BY DEF Removed
    <3>1. PICK y \in DOMAIN s : Removes(s, y, n)
      BY <1>4, <2>1
    <3> QED BY <3>1 DEF Removed
  <2>4. CASE Removes(s, 1, n)
    <3>1. u.dentry[n] = NONE /\ ~Enters(s, 1, n) /\ Removed(s, n) /\ Seen(u, n)
      BY <1>1, <1>2, <2>4 DEF Entry, Enters, Removes, Removed, Seen
    <3>2. \A y \in DOMAIN s : Enters(s, y, n) => y >= 2
      BY <1>2, <3>1
    <3> QED BY <1>1, <1>8, <1>9, <2>2, <3>1, <3>2 DEF ComesAt
  <2>5. CASE ~Removes(s, 1, n)
    <3>1. Removed(w, n) <=> Removed(s, n)
      <4> SUFFICES ASSUME NEW x \in DOMAIN s, Removes(s, x, n) PROVE Removed(w, n)
        BY <2>3 DEF Removed
      <4>1. x >= 2
        BY <1>2, <2>5
      <4> QED BY <1>3, <4>1 DEF Removed
    <3>2. CASE ~Enters(s, 1, n)
      <4>1. u.dentry[n] = t.dentry[n]
        BY <1>1, <2>5, <3>2 DEF Entry, Enters, Removes
      <4>2. \A y \in DOMAIN s : Enters(s, y, n) => y >= 2
        BY <1>2, <3>2
      <4> QED BY <1>1, <1>8, <1>9, <2>2, <3>1, <4>1, <4>2 DEF ComesAt
    <3>3. CASE Enters(s, 1, n)
      <4>1. u.dentry[n] = IF t.dentry[n] = NONE THEN s[1].rec.inode ELSE t.dentry[n]
        BY <1>1, <3>3 DEF Entry, Enters
      <4>2. ~Removed(s, n) => u.dentry[n] = live[n] /\ Seen(u, n)
        <5> SUFFICES ASSUME ~Removed(s, n) PROVE u.dentry[n] = live[n] /\ Seen(u, n)
          OBVIOUS
        <5>1. s[1].rec.inode = live[n] /\ t.dentry[n] \in {NONE, live[n]} /\ Seen(u, n)
          BY <1>1, <1>2, <3>3 DEF ComesAt, Removed
        <5> QED BY <4>1, <5>1
      <4>3. ASSUME NEW y \in DOMAIN s, Enters(s, y, n),
                   \A x \in DOMAIN s : Removes(s, x, n) => x < y
            PROVE  \/ \E z \in DOMAIN w :
                        Enters(w, z, n) /\ \A x \in DOMAIN w : Removes(w, x, n) => x < z
                   \/ ~Removed(w, n) /\ u.dentry[n] = live[n]
        <5>1. CASE y >= 2
          BY <1>9, <4>3, <5>1
        <5>2. CASE y = 1
          <6>1. ~Removed(s, n)
            BY <1>2, <4>3, <5>2 DEF Removed
          <6> QED BY <3>1, <4>2, <6>1
        <5> QED BY <1>2, <5>1, <5>2
      <4>4. Removed(w, n) \/ (u.dentry[n] \in {NONE, live[n]} /\ Seen(u, n))
        BY <3>1, <4>2
      <4>5. \/ NamedAfter(n, p)
            \/ \E z \in DOMAIN w : Enters(w, z, n) /\ \A x \in DOMAIN w : Removes(w, x, n) => x < z
            \/ Removed(w, n) /\ live[n] = NONE
            \/ ~Removed(w, n) /\ u.dentry[n] = live[n]
        BY <1>1, <3>1, <4>2, <4>3 DEF ComesAt
      <4> QED BY <1>8, <2>2, <4>4, <4>5 DEF ComesAt
    <3> QED BY <3>2, <3>3
  <2> QED BY <2>4, <2>5
<1>11. CASE Flips(s, 1, n)
  <2>1. /\ u.dentry[n] = t.dentry[n]
        /\ ~Enters(s, 1, n) /\ ~Removes(s, 1, n) /\ s[1].rec.name = n
    BY <1>1, <1>11 DEF Entry, Enters, Removes, Flips
  <2>2. PICK v \in DOMAIN s :
          1 < v /\ (Removes(s, v, n) \/ (Enters(s, v, n) /\ s[v].rec = s[1].rec))
    BY <1>1, <1>2, <1>11 DEF ComesAt
  <2>3. \A y \in DOMAIN s : Enters(s, y, n) \/ Removes(s, y, n) => y >= 2
    BY <1>2, <2>1
  <2>4. Removed(s, n) => Removed(w, n)
    BY <1>3, <2>3 DEF Removed
  <2>5. ASSUME NEW x \in DOMAIN w, Enters(w, x, n)
        PROVE  w[x].rec.inode = live[n] \/ \E z \in DOMAIN w : x < z /\ Removes(w, z, n)
    <3>1. CASE x > c
      <4>1. PICK y \in DOMAIN s : x = y + c - 1 /\ w[x] = s[y] /\ Enters(s, y, n)
        BY <1>4, <2>5, <3>1
      <4>2. x <= y + c - 1
        BY <1>2, <4>1
      <4> QED BY <1>7, <4>1, <4>2
    <3>2. CASE x <= c
      <4>1. w[x].rec = s[1].rec /\ x <= v + c - 1 /\ x < v + c - 1 /\ v >= 2
        BY <1>2, <1>5, <2>2, <3>2
      <4>2. CASE Removes(s, v, n)
        BY <1>3, <4>1, <4>2
      <4>3. CASE Enters(s, v, n) /\ s[v].rec = s[1].rec
        BY <1>7, <4>1, <4>3
      <4> QED BY <2>2, <4>2, <4>3
    <3> QED BY <1>2, <3>1, <3>2
  <2>6. ASSUME Removed(w, n), ~Removed(s, n)
        PROVE  \E z \in DOMAIN w :
                 Enters(w, z, n) /\ \A x \in DOMAIN w : Removes(w, x, n) => x < z
    <3>1. Enters(s, v, n)
      BY <2>2, <2>6 DEF Removed
    <3>2. \A x \in DOMAIN s : Removes(s, x, n) => x < v
      BY <2>6 DEF Removed
    <3> QED BY <1>9, <2>3, <3>1, <3>2
  <2>7. \/ NamedAfter(n, p)
        \/ \E z \in DOMAIN w : Enters(w, z, n) /\ \A x \in DOMAIN w : Removes(w, x, n) => x < z
        \/ Removed(w, n) /\ live[n] = NONE
        \/ ~Removed(w, n) /\ u.dentry[n] = live[n]
    <3>1. CASE NamedAfter(n, p)
      BY <3>1
    <3>2. ASSUME NEW y \in DOMAIN s, Enters(s, y, n),
                 \A x \in DOMAIN s : Removes(s, x, n) => x < y
          PROVE  \E z \in DOMAIN w :
                   Enters(w, z, n) /\ \A x \in DOMAIN w : Removes(w, x, n) => x < z
      BY <1>9, <2>3, <3>2
    <3>3. CASE Removed(s, n) /\ live[n] = NONE
      BY <2>4, <3>3
    <3>4. CASE ~Removed(s, n) /\ t.dentry[n] = live[n]
      BY <2>1, <2>6, <3>4
    <3> QED BY <1>1, <3>1, <3>2, <3>3, <3>4 DEF ComesAt
  <2>8. Removed(w, n) \/ (u.dentry[n] \in {NONE, live[n]} /\ Seen(u, n))
    BY <1>1, <2>1, <2>4 DEF ComesAt
  <2> QED BY <1>8, <2>5, <2>7, <2>8 DEF ComesAt
<1> QED BY <1>10, <1>11
-----------------------------------------------------------------------------
\* What a step of the file system says of a name: nothing, that it is gone, or
\* which file it is.
Fresh == Len(journal) + 1..Len(journal')
Prefix == /\ journal' \in Seq(Records) /\ Len(journal) <= Len(journal')
          /\ \A k \in 1..Len(journal) : journal'[k] = journal[k]
Silent(n) ==
  n \notin untold /\ live'[n] = live[n] /\ \A k \in Fresh : journal'[k].name # n
Cleared(n) ==
  /\ live'[n] = NONE
  /\ \E k \in Fresh : /\ journal'[k].name = n /\ Clears(journal'[k])
                      /\ \A j \in Fresh : journal'[j].name = n => j <= k
Entered(n) ==
  /\ n \notin untold /\ live[n] \in {NONE, live'[n]} /\ live'[n] # NONE
  /\ \E k \in Fresh : journal'[k].name = n
  /\ \A k \in Fresh :
       journal'[k].name = n => ~IsRemoval(journal'[k]) /\ journal'[k].inode = live'[n]
Told == \A n \in Names \ untold' : Silent(n) \/ Cleared(n) \/ Entered(n)

LEMMA LogOne ==
  ASSUME journal \in Seq(Records), NEW r \in Records, Log(<<r>>)
  PROVE  Prefix /\ Fresh = {Len(journal) + 1} /\ journal'[Len(journal) + 1] = r
<1>1. journal' = journal \o <<r>> /\ <<r>> \in Seq(Records) /\ Len(<<r>>) = 1
  BY DEF Log
<1>2. /\ journal' \in Seq(Records) /\ Len(journal') = Len(journal) + 1
      /\ \A k \in 1..Len(journal) : journal'[k] = journal[k]
      /\ journal'[Len(journal) + 1] = r
  BY <1>1
<1> QED BY <1>2 DEF Prefix, Fresh

LEMMA LogTwo ==
  ASSUME journal \in Seq(Records), NEW r \in Records, NEW q \in Records, Log(<<r, q>>)
  PROVE  /\ Prefix /\ Fresh = {Len(journal) + 1, Len(journal) + 2}
         /\ journal'[Len(journal) + 1] = r /\ journal'[Len(journal) + 2] = q
<1>1. journal' = journal \o <<r, q>> /\ <<r, q>> \in Seq(Records) /\ Len(<<r, q>>) = 2
  BY DEF Log
<1>2. /\ journal' \in Seq(Records) /\ Len(journal') = Len(journal) + 2
      /\ \A k \in 1..Len(journal) : journal'[k] = journal[k]
      /\ journal'[Len(journal) + 1] = r /\ journal'[Len(journal) + 2] = q
  BY <1>1
<1> QED BY <1>2 DEF Prefix, Fresh

\* A name that is entered, or still there, and one that is removed.
LEMMA EntersName ==
  ASSUME journal \in Seq(Records), NEW why \in SUBSET Reasons, why \subseteq {"link", "rename_new"},
         NEW n \in Names, NEW i \in Inodes, Log(<<Rec(why, n, i)>>), untold' = untold,
         live[n] \in {NONE, i}, live'[n] = i,
         \A m \in Names : m # n => live'[m] = live[m]
  PROVE  Prefix /\ Told
<1> DEFINE r == Rec(why, n, i)
<1>1. r \in Records /\ r.name = n /\ r.inode = i /\ ~IsRemoval(r) /\ i # NONE
  <2>1. r \in Records /\ r.name = n /\ r.inode = i /\ r.reasons = why
    BY RecTyped
  <2> HIDE DEF r
  <2> QED BY <2>1, NoneAssumption DEF IsRemoval
<1> HIDE DEF r
<1>2. Prefix /\ Fresh = {Len(journal) + 1} /\ journal'[Len(journal) + 1] = r
  BY <1>1, LogOne DEF r
<1> QED BY <1>1, <1>2 DEF Told, Silent, Entered

LEMMA RemovesName ==
  ASSUME journal \in Seq(Records), NEW why \in SUBSET Reasons, "delete" \in why,
         NEW n \in Names, NEW i \in Inodes, Log(<<Rec(why, n, i)>>), Takes(n, why),
         live'[n] = NONE, \A m \in Names : m # n => live'[m] = live[m]
  PROVE  Prefix /\ Told
<1> DEFINE r == Rec(why, n, i)
<1>1. r \in Records /\ r.name = n /\ (Stands(why) => Clears(r)) /\ Len(journal) \in Nat
  BY RecTyped DEF Clears, IsRemoval
<1> HIDE DEF r
<1>2. Prefix /\ Fresh = {Len(journal) + 1} /\ journal'[Len(journal) + 1] = r
  BY <1>1, LogOne DEF r
<1>3. n \in untold' \/ Cleared(n)
  BY <1>1, <1>2 DEF Takes, Cleared
<1>4. \A m \in Names \ untold' : m # n => Silent(m)
  BY <1>1, <1>2 DEF Silent, Takes
<1> QED BY <1>2, <1>3, <1>4 DEF Told

LEMMA FileSystemTells ==
  ASSUME TypeOK, FileSystem
  PROVE  Prefix /\ Told
<1> USE NoneAssumption
<1>0. /\ journal \in Seq(Records) /\ live \in [Names -> Inodes \cup {NONE}] /\ Len(journal) \in Nat
      /\ \A n \in Names : live[n] # NONE => live[n] \in Inodes
      /\ acc \in [Inodes -> SUBSET {"link", "rename_new"}]
  BY DEF TypeOK
<1>1. ASSUME NEW n \in Names, live[n] # NONE
      PROVE  /\ acc[live[n]] \in SUBSET Reasons /\ acc[live[n]] \subseteq {"link", "rename_new"}
             /\ acc[live[n]] \cup {"delete"} \in SUBSET Reasons
             /\ acc[live[n]] \cup {"rename_old"} \in SUBSET Reasons
  BY <1>0, <1>1, AccTyped
<1>2. ASSUME NEW n \in Names, NEW m \in Names, live[n] # NONE, NEW w \in {"link", "rename_new"},
             Accumulate(live[n], w)
      PROVE  acc'[live[n]] \in SUBSET Reasons /\ acc'[live[n]] \subseteq {"link", "rename_new"}
  BY <1>0, <1>2, AccTyped
<1>3. ASSUME NEW n \in Names, NEW i \in Inodes, CreateFile(n, i) PROVE Prefix /\ Told
  <2>1. /\ live[n] = NONE /\ live'[n] = i /\ untold' = untold /\ Log(<<Rec({}, n, i)>>)
        /\ \A m \in Names : m # n => live'[m] = live[m]
    BY <1>0, <1>3 DEF CreateFile
  <2>2. {} \in SUBSET Reasons /\ {} \subseteq {"link", "rename_new"}
    OBVIOUS
  <2> QED BY <1>0, <2>1, <2>2, EntersName
<1>4. ASSUME NEW n \in Names, ChangeFile(n) \/ CloseFile(n) PROVE Prefix /\ Told
  <2>1. /\ live[n] # NONE /\ live' = live /\ untold' = untold
        /\ Log(<<Rec(acc[live[n]], n, live[n])>>)
    BY <1>4 DEF ChangeFile, CloseFile
  <2> QED BY <1>0, <1>1, <2>1, EntersName
<1>5. ASSUME NEW n \in Names, DeleteFile(n) PROVE Prefix /\ Told
  <2> DEFINE why == acc[live[n]] \cup {"delete"}
  <2>1. live[n] # NONE /\ live'[n] = NONE /\ \A m \in Names : m # n => live'[m] = live[m]
    BY <1>0, <1>5 DEF DeleteFile
  <2>2. Log(<<Rec(why, n, live[n])>>) /\ Takes(n, why)
    BY <1>5 DEF DeleteFile
  <2>3. why \in SUBSET Reasons /\ "delete" \in why /\ live[n] \in Inodes
    BY <1>0, <1>1, <2>1
  <2> HIDE DEF why
  <2> QED BY <1>0, <2>1, <2>2, <2>3, RemovesName
<1>6. ASSUME NEW n \in Names, UnlinkFile(n) PROVE Prefix /\ Told
  <2> DEFINE r == Rec(acc'[live[n]], n, live[n])
  <2>1. /\ live[n] # NONE /\ untold' = untold \cup {n} /\ Accumulate(live[n], "link")
        /\ \A m \in Names : m # n => live'[m] = live[m]
    BY <1>0, <1>6 DEF UnlinkFile
  <2>2. Log(<<r>>)
    BY <1>6 DEF UnlinkFile
  <2>3. r \in Records /\ r.name = n
    BY <1>0, <1>2, <2>1, RecTyped
  <2> HIDE DEF r
  <2>4. Prefix /\ Fresh = {Len(journal) + 1} /\ journal'[Len(journal) + 1] = r
    BY <1>0, <2>2, <2>3, LogOne
  <2> QED BY <2>1, <2>3, <2>4 DEF Told, Silent
<1>7. ASSUME NEW n \in Names, NEW m \in Names, RenameFile(n, m) PROVE Prefix /\ Told
  <2> DEFINE why == acc[live[n]] \cup {"rename_old"}
             r == Rec(why, n, live[n])
             q == Rec(acc'[live[n]], m, live[n])
  <2>1. /\ n # m /\ live[n] # NONE /\ live[n] \in Inodes /\ live[m] = NONE
        /\ live'[n] = NONE /\ live'[m] = live[n] /\ Accumulate(live[n], "rename_new")
        /\ \A x \in Names : x # n /\ x # m => live'[x] = live[x]
    BY <1>0, <1>7 DEF RenameFile
  <2>2. Log(<<r, q>>) /\ Takes(n, why)
    BY <1>7 DEF RenameFile
  <2>3. r \in Records /\ r.name = n /\ (Stands(why) => Clears(r))
    BY <1>1, <2>1, RecTyped DEF Clears, IsRemoval
  <2>4. q \in Records /\ q.name = m /\ q.inode = live[n] /\ ~IsRemoval(q)
    <3>1. acc'[live[n]] \in SUBSET Reasons /\ acc'[live[n]] \subseteq {"link", "rename_new"}
      BY <1>2, <2>1
    <3> QED BY <2>1, <3>1, RecTyped DEF IsRemoval
  <2> HIDE DEF r, q, why
  <2>5. /\ Prefix /\ Fresh = {Len(journal) + 1, Len(journal) + 2}
        /\ journal'[Len(journal) + 1] = r /\ journal'[Len(journal) + 2] = q
    BY <1>0, <2>2, <2>3, <2>4, LogTwo
  <2>6. n \in untold' \/ Cleared(n)
    BY <1>0, <2>1, <2>2, <2>3, <2>4, <2>5 DEF Takes, Cleared
  <2>7. \A x \in Names \ untold' : x # n => x \notin untold
    BY <2>2 DEF Takes
  <2>8. m \in Names \ untold' => Entered(m)
    BY <2>1, <2>3, <2>4, <2>5, <2>7 DEF Entered
  <2>9. \A x \in Names \ untold' : x # n /\ x # m => Silent(x)
    BY <2>1, <2>3, <2>4, <2>5, <2>7 DEF Silent
  <2> QED BY <2>5, <2>6, <2>8, <2>9 DEF Told
<1>8. ASSUME NEW n \in Names, NEW m \in Names, LinkFile(n, m) PROVE Prefix /\ Told
  <2>1. /\ live[n] # NONE /\ live[m] = NONE /\ live'[m] = live[n] /\ untold' = untold
        /\ Accumulate(live[n], "link") /\ Log(<<Rec(acc'[live[n]], m, live[n])>>)
        /\ \A x \in Names : x # m => live'[x] = live[x]
    BY <1>0, <1>8 DEF LinkFile
  <2>2. acc'[live[n]] \in SUBSET Reasons /\ acc'[live[n]] \subseteq {"link", "rename_new"}
    BY <1>2, <2>1
  <2> QED BY <1>0, <2>1, <2>2, EntersName
<1> QED BY <1>3, <1>4, <1>5, <1>6, <1>7, <1>8 DEF FileSystem

\* Records that are added change nothing that was said before them.
LEMMA ToldAfter ==
  ASSUME journal \in Seq(Records), Prefix, NEW n \in Names
  PROVE  \A p \in 0..Len(journal) :
           /\ ClearedAfter(n, p) => ClearedAfter(n, p)'
           /\ NamedAfter(n, p) => NamedAfter(n, p)'
           /\ (\E k \in Fresh : journal'[k].name = n) => NamedAfter(n, p)'
           /\ (\E k \in Fresh : journal'[k].name = n /\ Clears(journal'[k])) => ClearedAfter(n, p)'
           /\ (\A k \in Fresh : journal'[k].name = n => ~Clears(journal'[k])) =>
                (ClearedAfter(n, p)' => ClearedAfter(n, p))
BY SMTT(30) DEF Prefix, Fresh, ClearedAfter, NamedAfter

LEMMA JournalTellsStep ==
  ASSUME TypeOK, JournalTells, Prefix, Told
  PROVE  JournalTells'
<1> SUFFICES ASSUME NEW n \in Names, n \notin untold'
             PROVE  /\ \A k \in 1..Len(journal') :
                         journal'[k].name = n =>
                           \/ ~IsRemoval(journal'[k]) /\ journal'[k].inode = live'[n]
                           \/ ClearedAfter(n, k - 1)'
                    /\ live'[n] # NONE =>
                         \E k \in 1..Len(journal') :
                           journal'[k].name = n /\ ~ClearedAfter(n, k - 1)'
  BY DEF JournalTells
<1>0. /\ journal \in Seq(Records) /\ Len(journal) \in Nat
      /\ \A k \in 1..Len(journal) : journal[k].inode # NONE
  <2>1. journal \in Seq(Records) /\ Len(journal) \in Nat
    BY DEF TypeOK
  <2>2. \A r \in Records : r.inode # NONE
    BY NoneAssumption DEF Records
  <2> QED BY <2>1, <2>2
<1>1. /\ \A k \in 1..Len(journal') : k \in 1..Len(journal) \/ k \in Fresh
      /\ \A k \in 1..Len(journal) : k \in 1..Len(journal') /\ journal'[k] = journal[k]
      /\ \A k \in Fresh : k \in 1..Len(journal')
  BY <1>0 DEF Prefix, Fresh
<1>2. \A k \in 1..Len(journal) : ClearedAfter(n, k - 1) => ClearedAfter(n, k - 1)'
  BY <1>0 DEF ClearedAfter, Prefix
<1>3. (\A k \in Fresh : journal'[k].name = n => ~Clears(journal'[k])) =>
        \A k \in 1..Len(journal) : ClearedAfter(n, k - 1)' => ClearedAfter(n, k - 1)
  BY <1>0 DEF ClearedAfter, Prefix, Fresh
<1>4. CASE Silent(n)
  BY <1>1, <1>2, <1>3, <1>4 DEF Silent, JournalTells
<1>5. CASE Cleared(n)
  <2>1. PICK c \in Fresh : /\ journal'[c].name = n /\ Clears(journal'[c])
                           /\ \A j \in Fresh : journal'[j].name = n => j <= c
    BY <1>5 DEF Cleared
  <2>2. \A k \in 1..Len(journal') : journal'[k].name = n => k <= c /\ c \in (k - 1) + 1..Len(journal')
    BY <1>0, <2>1 DEF Fresh
  <2> QED BY <1>5, <2>1, <2>2 DEF Cleared, ClearedAfter
<1>6. CASE Entered(n)
  <2>1. ASSUME NEW k \in 1..Len(journal'), journal'[k].name = n
        PROVE  \/ ~IsRemoval(journal'[k]) /\ journal'[k].inode = live'[n]
               \/ ClearedAfter(n, k - 1)'
    <3>1. CASE k \in Fresh
      BY <1>6, <2>1, <3>1 DEF Entered
    <3>2. CASE k \in 1..Len(journal)
      BY <1>0, <1>1, <1>2, <1>6, <2>1, <3>2 DEF Entered, JournalTells
    <3> QED BY <1>1, <3>1, <3>2
  <2>2. PICK k \in Fresh : journal'[k].name = n
    BY <1>6 DEF Entered
  <2>3. ~ClearedAfter(n, k - 1)'
    <3>1. \A j \in (k - 1) + 1..Len(journal') : j \in Fresh
      BY <1>0 DEF Fresh
    <3> QED BY <1>6, <3>1 DEF Entered, ClearedAfter, Clears
  <2> QED BY <1>1, <2>1, <2>2, <2>3
<1> QED BY <1>4, <1>5, <1>6 DEF Told

\* What a table will come to, it comes to whatever the file system does next.
LEMMA ReplaysTold ==
  ASSUME TypeOK, Prefix, Told, NEW t, NEW p \in 0..Len(journal), Replays(t, p),
         NEW n \in Names \ untold'
  PROVE  \/ ClearedAfter(n, p)'
         \/ /\ t.dentry[n] \in {NONE, live'[n]}
            /\ NamedAfter(n, p)' \/ t.dentry[n] = live'[n]
            /\ Seen(t, n)
<1> SUFFICES ASSUME ~ClearedAfter(n, p)'
             PROVE  /\ t.dentry[n] \in {NONE, live'[n]}
                    /\ NamedAfter(n, p)' \/ t.dentry[n] = live'[n]
                    /\ Seen(t, n)
  OBVIOUS
<1>1. journal \in Seq(Records)
  BY DEF TypeOK
<1>2. /\ ClearedAfter(n, p) => ClearedAfter(n, p)'
      /\ NamedAfter(n, p) => NamedAfter(n, p)'
      /\ (\E k \in Fresh : journal'[k].name = n) => NamedAfter(n, p)'
      /\ (\E k \in Fresh : journal'[k].name = n /\ Clears(journal'[k])) => ClearedAfter(n, p)'
  BY <1>1, ToldAfter
<1>3. CASE Silent(n)
  BY <1>2, <1>3 DEF Silent, Replays, ReplaysAt
<1>4. CASE Cleared(n)
  BY <1>2, <1>4 DEF Cleared
<1>5. CASE Entered(n)
  BY <1>2, <1>5 DEF Entered, Replays, ReplaysAt
<1> QED BY <1>3, <1>4, <1>5 DEF Told

LEMMA OnDiskKept ==
  ASSUME TypeOK, Prefix, Told, disk' = disk, OnDisk
  PROVE  OnDisk'
<1>1. Base(disk)' = Base(disk) /\ Base(disk) \in 0..Len(journal)
  BY DEF Base, JournalId, OnDisk, TypeOK, Tables
<1>2. journal \in Seq(Records) /\ Len(journal) \in Nat /\ Len(journal') \in Nat
      /\ Len(journal) <= Len(journal')
  BY DEF TypeOK, Prefix
<1>3. Replays(disk, Base(disk))'
  BY <1>1, ReplaysTold DEF OnDisk, Replays, ReplaysAt, Seen, ClearedAfter, NamedAfter
<1>4. ASSUME disk.jid # JournalId, NEW n \in Names, n \notin untold'
      PROVE  disk.dentry[n] = NONE \/ ClearedAfter(n, 0)'
  <2>1. /\ ClearedAfter(n, 0) => ClearedAfter(n, 0)'
        /\ (\E k \in Fresh : journal'[k].name = n /\ Clears(journal'[k])) => ClearedAfter(n, 0)'
    BY <1>2, ToldAfter
  <2>2. n \notin untold => disk.dentry[n] = NONE \/ ClearedAfter(n, 0)
    BY <1>4 DEF OnDisk
  <2>3. CASE n \notin untold
    BY <2>1, <2>2, <2>3
  <2>4. CASE Cleared(n)
    BY <2>1, <2>4 DEF Cleared
  <2> QED BY <1>4, <2>3, <2>4 DEF Told, Silent, Entered
<1> QED BY <1>1, <1>2, <1>3, <1>4 DEF OnDisk, JournalId

LEMMA ComesKept ==
  ASSUME TypeOK, Prefix, Told, UNCHANGED <<db, todo, usn_next>>,
         usn_next \in 0..Len(journal), Comes(db, todo, usn_next)
  PROVE  Comes(db, todo, usn_next)'
<1> SUFFICES ASSUME NEW n \in Names, n \notin untold', ~ClearedAfter(n, usn_next)'
             PROVE  ComesAt(db, todo, usn_next, n)'
  BY DEF Comes
<1> DEFINE p == usn_next
<1>1. journal \in Seq(Records) /\ todo \in Seq(Stmts)
  BY DEF TypeOK
<1>2. /\ ClearedAfter(n, p) => ClearedAfter(n, p)'
      /\ NamedAfter(n, p) => NamedAfter(n, p)'
      /\ (\E k \in Fresh : journal'[k].name = n) => NamedAfter(n, p)'
      /\ (\E k \in Fresh : journal'[k].name = n /\ Clears(journal'[k])) => ClearedAfter(n, p)'
  BY SMTT(30) DEF ClearedAfter, NamedAfter, Prefix, Fresh
<1>3. CASE Silent(n)
  <2>1. ComesAt(db, todo, p, n) /\ live'[n] = live[n]
    BY <1>2, <1>3 DEF Silent, Comes
  <2> QED BY <1>2, <2>1 DEF ComesAt, Enters, Removes, Removed, Flips, Seen
<1>4. CASE Cleared(n)
  BY <1>2, <1>4 DEF Cleared
<1>5. CASE Entered(n)
  <2>1. ComesAt(db, todo, p, n) /\ live[n] \in {NONE, live'[n]} /\ NamedAfter(n, p)'
    BY <1>2, <1>5 DEF Entered, Comes
  <2>2. \A y \in DOMAIN todo : Enters(todo, y, n) => todo[y].rec.inode # NONE
    <3>1. \A s \in Stmts : s.op = "add_dentry" => s.rec.inode # NONE
      BY StmtKinds, NoneAssumption DEF RecordOps, Records
    <3>2. \A y \in DOMAIN todo : todo[y] \in Stmts
      BY <1>1
    <3> QED BY <3>1, <3>2 DEF Enters
  <2> QED BY <2>1, <2>2 DEF ComesAt, Enters, Removes, Removed, Flips, Seen
<1> QED BY <1>3, <1>4, <1>5 DEF Told

LEMMA InProgressKept ==
  ASSUME TypeOK, Prefix, Told, UNCHANGED <<dbVars, watchVars>>, InProgress
  PROVE  InProgress'
<1> SUFFICES ASSUME at \in {"waiting", "busy"}, base <= 0 PROVE InProgress'
  BY DEF watchVars, InProgress
<1>1. /\ start \in Nat /\ usn_next \in Nat /\ Len(journal) \in Nat /\ Len(journal') \in Nat
      /\ Len(journal) <= Len(journal')
      /\ start <= Len(journal) /\ UNCHANGED <<db, todo, start, usn_next, at, base>>
      /\ (recheck /\ ~rechecked) \/ (lastusn = start /\ db.ptr <= start)
  BY DEF TypeOK, Prefix, InProgress, dbVars, watchVars
<1>2. ASSUME at = "waiting" PROVE Replays(db, start)'
  <2>1. Replays(db, start) /\ start \in 0..Len(journal)
    BY <1>1, <1>2 DEF InProgress
  <2>2. \A n \in Names \ untold' :
          \/ ClearedAfter(n, start)'
          \/ /\ db.dentry[n] \in {NONE, live'[n]}
             /\ NamedAfter(n, start)' \/ db.dentry[n] = live'[n]
             /\ Seen(db, n)
    BY <1>1, <2>1, ReplaysTold DEF ClearedAfter, NamedAfter
  <2> QED BY <1>1, <2>2 DEF Replays, ReplaysAt, Seen
<1>3. ASSUME at = "busy" PROVE Comes(db, todo, usn_next)' /\ Stem(todo, start, usn_next)'
  <2>1. usn_next <= Len(journal) /\ Comes(db, todo, usn_next) /\ Stem(todo, start, usn_next)
    BY <1>3 DEF InProgress
  <2>2. Comes(db, todo, usn_next)'
    BY <1>1, <2>1, ComesKept
  <2>3. \A k \in start + 1..usn_next : journal'[k] = journal[k]
    BY <1>1, <2>1 DEF Prefix
  <2> QED BY <1>1, <2>1, <2>2, <2>3 DEF Stem
<1> QED BY <1>1, <1>2, <1>3 DEF InProgress, dbVars, watchVars
-----------------------------------------------------------------------------
\* The invariant.
LEMMA IInvInit == Init => IInv
<1> SUFFICES ASSUME Init PROVE IInv
  OBVIOUS
<1>1. /\ journal = <<>> /\ Len(journal) = 0 /\ at = "off"
      /\ \A n \in Names \ untold : live[n] = NONE
  BY DEF Init
<1>2. JournalTells
  <2>1. 1..Len(journal) = {}
    BY <1>1
  <2> QED BY <1>1, <2>1 DEF JournalTells
<1>3. disk.jid # JournalId /\ \A n \in Names \ untold : disk.dentry[n] = NONE
  <2>1. disk = EmptyTables \/ \E usn \in OldUsns : disk = IndexedBefore(usn)
    BY DEF Init
  <2> QED BY <1>1, <2>1 DEF EmptyTables, IndexedBefore, JournalId, OldJournalId
<1>4. OnDisk
  BY <1>1, <1>3 DEF OnDisk, Base, Replays, ReplaysAt, Seen
<1>5. InProgress
  BY <1>1 DEF InProgress
<1> QED BY <1>2, <1>4, <1>5 DEF IInv

\* What a step of the process has to see to: what holds of the new tables and
\* statements, of the volume as it is, holds in the new state.
DiskNext ==
  /\ Base(disk') <= Len(journal)
  /\ Replays(disk', Base(disk'))
  /\ disk'.jid # JournalId =>
       \A n \in Names \ untold : disk'.dentry[n] = NONE \/ ClearedAfter(n, 0)
ProgressNext ==
  at' \in {"waiting", "busy"} /\ base' <= 0 =>
    /\ start' <= Len(journal)
    /\ (recheck' /\ ~rechecked') \/ (lastusn' = start' /\ db'.ptr <= start')
    /\ at' = "waiting" => Replays(db', start')
    /\ at' = "busy" => /\ start' <= usn_next' /\ usn_next' <= Len(journal)
                       /\ Stem(todo', start', usn_next')
                       /\ Comes(db', todo', usn_next')

LEMMA ProcessStep ==
  ASSUME UNCHANGED fsVars, JournalTells, DiskNext, ProgressNext
  PROVE  IInv'
<1> USE DEF fsVars
<1>1. JournalTells'
  BY DEF JournalTells, ClearedAfter
<1>2. OnDisk'
  <2>1. Base(disk)' = Base(disk')
    BY DEF Base, JournalId
  <2>2. Replays(disk, Base(disk))'
    BY <2>1 DEF DiskNext, Replays, ReplaysAt, Seen, ClearedAfter, NamedAfter
  <2> QED BY <2>1, <2>2 DEF DiskNext, OnDisk, ClearedAfter, JournalId
<1>3. Replays(db', start') => Replays(db, start)'
  BY DEF Replays, ReplaysAt, Seen, ClearedAfter, NamedAfter
<1>4. Comes(db', todo', usn_next') => Comes(db, todo, usn_next)'
  BY DEF Comes, ComesAt, Enters, Removes, Removed, Flips, Seen, ClearedAfter, NamedAfter
<1>5. Stem(todo', start', usn_next') => Stem(todo, start, usn_next)'
  BY DEF Stem
<1>6. InProgress'
  BY <1>3, <1>4, <1>5 DEF ProgressNext, InProgress
<1> QED BY <1>1, <1>2, <1>6 DEF IInv

\* The invariant and what it is built on; the types that the steps need.
Ground == TypeOK /\ Shape /\ Levels /\ IInv
Typed ==
  /\ journal \in Seq(Records) /\ live \in [Names -> Inodes \cup {NONE}] /\ Len(journal) \in Nat
  /\ db \in Tables /\ disk \in Tables /\ db.ptr \in Nat /\ Base(disk) \in Nat
  /\ start \in Nat /\ usn_next \in Nat /\ lastusn \in Nat /\ todo \in Seq(Stmts)
  /\ nest \in Int /\ base \in Int

LEMMA GroundTyped == Ground => Typed
BY DEF Ground, TypeOK, Typed, Tables, Base

LEMMA DiskStays ==
  ASSUME Ground, disk' = disk
  PROVE  DiskNext
BY DEF Ground, IInv, OnDisk, DiskNext

LEMMA NotWatching ==
  ASSUME at' \notin {"waiting", "busy"}
  PROVE  ProgressNext
BY DEF ProgressNext

LEMMA IInvAdd ==
  ASSUME Ground, Add
  PROVE  DiskNext /\ ProgressNext
<1>1. /\ Typed /\ Levels /\ OnDisk /\ at = "on" /\ at' = "waiting" /\ lastusn' = db.ptr
      /\ rechecked' = FALSE /\ base' = nest
  BY GroundTyped DEF Ground, IInv, Add
<1>2. CASE db.jid # JournalId
  <2> DEFINE new == UpdateLastjid(CheckBegin(db), JournalId, Len(journal))
  <2>1. nest = 0 /\ ~txn /\ disk = db
    BY <1>1, <1>2 DEF Levels
  <2>2. Begin /\ recheck' = TRUE /\ start' = 0 /\ db' = new /\ (txn' => disk' = disk)
    BY <1>2 DEF Add
  <2>3. disk' = disk
    BY <2>1, <2>2 DEF Begin
  <2>4. new.dentry = disk.dentry
    BY <1>1, <2>1 DEF Typed, UpdateLastjid, CheckBegin, Tables
  <2> HIDE DEF new
  <2>5. Replays(new, 0)
    <3>1. Base(disk) = 0 /\ \A n \in Names \ untold : disk.dentry[n] = NONE \/ ClearedAfter(n, 0)
      BY <1>1, <1>2, <2>1 DEF Base, OnDisk
    <3>2. Replays(disk, 0)
      BY <1>1, <3>1 DEF OnDisk
    <3> QED BY <2>4, <3>1, <3>2 DEF Replays, ReplaysAt, Seen
  <2>6. ProgressNext
    BY <1>1, <2>2, <2>5 DEF ProgressNext, Typed
  <2> QED BY <2>3, <2>6, DiskStays
<1>3. CASE db.jid = JournalId
  <2>1. db' = db /\ disk' = disk /\ start' = db.ptr
    BY <1>3 DEF Add, dbVars
  <2>2. nest <= 0 => db = disk
    BY <1>1 DEF Levels, Typed
  <2>3. nest <= 0 => Base(disk) = db.ptr /\ Replays(db, db.ptr) /\ db.ptr <= Len(journal)
    BY <1>1, <1>3, <2>2 DEF Base, OnDisk
  <2>4. ProgressNext
    BY <1>1, <2>1, <2>3 DEF ProgressNext, Typed
  <2> QED BY <2>1, <2>4, DiskStays
<1> QED BY <1>2, <1>3

LEMMA IInvRead ==
  ASSUME Ground, NEW k \in 1..MaxBatch, Read(k)
  PROVE  DiskNext /\ ProgressNext
<1> DEFINE f == StatementsOf(start, start + k)
           e == EndOfBuffer(JournalId, lastusn, CheckDone)
<1>1. /\ Typed /\ TypeOK /\ JournalTells /\ InProgress /\ at = "waiting" /\ at' = "busy"
      /\ usn_next' = start + k /\ todo' = f \o e
      /\ UNCHANGED <<db, disk, recheck, lastusn, start, rechecked, base>>
  BY GroundTyped DEF Ground, IInv, Read
<1>2. /\ start + k \in Nat /\ start <= start + k /\ start + k <= Len(journal)
      /\ f \in Seq(Stmts) /\ e \in Seq(BufferStmts)
  BY <1>1, ReadTyped, Wider
<1>3. ASSUME base <= 0
      PROVE  Comes(db, todo', start + k) /\ Stem(todo', start, start + k)
  <2>1. Replays(db, start)
    BY <1>1, <1>3 DEF InProgress
  <2>2. Comes(db, f, start + k) /\ Stem(f, start, start + k)
    BY <1>1, <1>2, <2>1, ReadComes DEF Typed
  <2> HIDE DEF f, e
  <2> QED BY <1>1, <1>2, <2>2, EndAppend
<1>4. ProgressNext
  BY <1>1, <1>2, <1>3 DEF InProgress, ProgressNext
<1> QED BY <1>1, <1>4, DiskStays

\* A statement at the end of a buffer: all that remains are such statements.
LEMMA EndOnly ==
  ASSUME Ground, at = "busy", todo # <<>>, todo[1].op \in BufferOps, base <= 0,
         NEW w, NEW c \in Nat, Moved(todo, w, c)
  PROVE  /\ \A x \in DOMAIN w : w[x].op \in BufferOps
         /\ Replays(db, usn_next) /\ usn_next \in Nat
<1>1. /\ Typed /\ Shape /\ Comes(db, todo, usn_next) /\ usn_next \in Nat
  BY GroundTyped DEF Ground, IInv, InProgress, Typed
<1>2. 1 \in DOMAIN todo /\ \A x \in DOMAIN todo : x = 1 \/ 1 < x
  BY DEF Moved
<1>3. \A x \in DOMAIN todo : todo[x].op \in BufferOps
  BY <1>1, <1>2 DEF Shape, EndsAt
<1>4. todo[1].op \notin RecordOps
  BY StmtKinds
<1>5. \A x \in DOMAIN w : w[x].op \in BufferOps
  BY <1>3, <1>4 DEF Moved
<1> QED BY <1>1, <1>3, <1>5, OnlyBook

LEMMA IInvExecute ==
  ASSUME Ground, ExecuteNext
  PROVE  DiskNext /\ ProgressNext
<1>1. /\ Typed /\ Shape /\ Levels /\ JournalTells /\ OnDisk /\ InProgress
      /\ at = "busy" /\ at' = "busy" /\ todo # <<>>
      /\ UNCHANGED <<txn, recheck, rechecked, start, usn_next, lastusn, base>>
      /\ db' = Effect(db, Head(todo)) /\ disk' = IF txn THEN disk ELSE db'
      /\ todo' = Follow(db, Head(todo)) \o Tail(todo)
  BY GroundTyped DEF Ground, IInv, ExecuteNext, Execute
<1>2. Head(todo) = todo[1] /\ todo[1] \in Stmts /\ 1 \in DOMAIN todo
  BY <1>1 DEF Typed
<1> DEFINE s == todo[1]
<1>3. PICK c \in Nat : Moved(todo, todo', c)
  BY <1>1, FollowMoved DEF Typed
<1>4. /\ db.jid = JournalId
      /\ s.op \in RecordOps \/ (s.op \in BufferOps /\ s.jid = JournalId /\ s.usn = lastusn)
  BY <1>1, <1>2, StmtKinds DEF Levels, Shape, EndsAt
<1>5. /\ db'.jid = JournalId
      /\ db'.ptr = IF s.op = "store_pointer" THEN lastusn ELSE db.ptr
  <2>1. s.op = "store_pointer" => s.jid = JournalId /\ s.usn = lastusn
    BY <1>4 DEF RecordOps
  <2> QED BY <1>1, <1>2, <1>4, <2>1, EffectBook DEF Typed
<1>6. ASSUME base <= 0
      PROVE  /\ start <= usn_next /\ usn_next <= Len(journal) /\ start <= Len(journal)
             /\ (recheck /\ ~rechecked) \/ (lastusn = start /\ db.ptr <= start)
             /\ Stem(todo, start, usn_next) /\ Comes(db, todo, usn_next)
             /\ \A n \in Names \ untold : ClearedAfter(n, usn_next) \/ StepAt(db, db', s, n)
  <2>1. /\ start <= usn_next /\ usn_next <= Len(journal) /\ start <= Len(journal)
        /\ (recheck /\ ~rechecked) \/ (lastusn = start /\ db.ptr <= start)
        /\ Stem(todo, start, usn_next) /\ Comes(db, todo, usn_next)
    BY <1>1, <1>6 DEF InProgress
  <2>2. \A n \in Names : (s.op = "drop_unchecked" => Seen(db, n)) => StepAt(db, db', s, n)
    BY <1>1, <1>2, EffectStep DEF Typed
  <2>3. s.op \in BufferOps => Replays(db, usn_next)
    BY <1>1, <1>3, <1>6, EndOnly
  <2>4. s.op = "drop_unchecked" =>
          \A n \in Names \ untold : ClearedAfter(n, usn_next) \/ Seen(db, n)
    BY <2>3 DEF BufferOps, Replays, ReplaysAt
  <2> QED BY <2>1, <2>2, <2>4
<1>7. ASSUME base <= 0 PROVE Comes(db', todo', usn_next) /\ Stem(todo', start, usn_next)
  BY <1>3, <1>6, <1>7, ComesMoved, StemMoved
<1>8. ProgressNext
  <2>1. db'.ptr \in {lastusn, db.ptr}
    BY <1>5
  <2>2. lastusn = start /\ db.ptr <= start => db'.ptr <= start
    BY <1>1, <2>1 DEF Typed
  <2> HIDE DEF s
  <2> QED BY <1>1, <1>6, <1>7, <2>2 DEF ProgressNext
<1>9. DiskNext
  <2>1. CASE txn
    BY <1>1, <2>1, DiskStays
  <2>2. CASE ~txn
    <3>1. base <= 0 /\ disk' = db' /\ disk = db /\ (recheck => rechecked)
      BY <1>1, <2>2 DEF Levels, Typed
    <3>2. lastusn = start /\ db.ptr <= start /\ db'.ptr <= start /\ Base(db') = db'.ptr
      <4>1. lastusn = start /\ db.ptr <= start
        BY <1>6, <3>1
      <4>2. db'.ptr \in {lastusn, db.ptr} /\ Base(db') = db'.ptr
        BY <1>5 DEF Base
      <4> QED BY <1>1, <4>1, <4>2 DEF Typed
    <3>3. db.ptr \in Nat /\ db'.ptr \in Nat
      BY <1>1, <1>5 DEF Typed
    <3>4. CASE s.op \in RecordOps
      <4>1. PICK k \in start + 1..usn_next : s.rec = journal[k]
        BY <1>2, <1>6, <3>1, <3>4 DEF Stem
      <4>2. k \in db.ptr + 1..Len(journal)
        BY <1>1, <1>6, <3>1, <3>2 DEF Typed
      <4>3. Replays(db, db.ptr)
        BY <1>1, <1>4, <3>1 DEF OnDisk, Base
      <4>4. \A n \in Names : StepAt(db, db', s, n)
        BY <1>1, <1>2, <3>4, EffectStep DEF Typed, RecordOps
      <4>5. Replays(db', db.ptr)
        BY <1>1, <3>3, <4>1, <4>2, <4>3, <4>4, ReplaysStep DEF Typed
      <4>6. db'.ptr = db.ptr
        BY <1>5, <3>4 DEF RecordOps
      <4> QED BY <1>5, <1>6, <3>1, <3>2, <4>5, <4>6, <1>1 DEF DiskNext, Typed
    <3>5. CASE s.op \in BufferOps
      <4>1. \A x \in DOMAIN todo' : todo'[x].op \in BufferOps
        BY <1>1, <1>3, <3>1, <3>5, EndOnly
      <4>2. Replays(db', usn_next)
        BY <1>7, <3>1, <4>1, OnlyBook
      <4>3. db'.ptr <= usn_next
        BY <1>1, <1>6, <3>1, <3>2, <3>3 DEF Typed
      <4>4. Replays(db', db'.ptr)
        BY <1>1, <3>3, <4>2, <4>3, ReplaysBack DEF Typed
      <4> QED BY <1>1, <1>5, <1>6, <3>1, <3>2, <3>3, <4>4 DEF DiskNext, Typed
    <3> QED BY <1>4, <3>4, <3>5
  <2> QED BY <2>1, <2>2
<1> QED BY <1>8, <1>9

LEMMA IInvFinish ==
  ASSUME Ground, FinishBuffer
  PROVE  DiskNext /\ ProgressNext
<1>1. /\ Typed /\ Shape /\ Levels /\ InProgress
      /\ at = "busy" /\ at' = "waiting" /\ todo = <<>> /\ start' = usn_next
      /\ UNCHANGED <<recheck, base>>
  BY GroundTyped DEF Ground, IInv, FinishBuffer
<1>2. db.ptr = lastusn /\ db.jid = JournalId
  <2>1. DOMAIN <<>> = {}
    OBVIOUS
  <2> QED BY <1>1, <2>1 DEF Shape, Levels
<1>3. ASSUME base <= 0
      PROVE  /\ start <= usn_next /\ usn_next <= Len(journal)
             /\ (recheck /\ ~rechecked) \/ lastusn = start
             /\ Replays(db, usn_next)
  BY <1>1, <1>3, EmptyComes DEF InProgress, Typed
<1>4. CASE recheck /\ usn_next < lastusn
  <2>1. UNCHANGED <<db, disk, lastusn, rechecked>>
    BY <1>4 DEF FinishBuffer, dbVars
  <2>2. ProgressNext
    BY <1>1, <1>3, <1>4, <2>1 DEF ProgressNext, Typed
  <2> QED BY <2>1, <2>2, DiskStays
<1>5. CASE ~(recheck /\ usn_next < lastusn)
  <2>1. /\ nest' = nest - 1 /\ (txn' <=> txn /\ nest # 1) /\ db' = db /\ disk' \in {disk, db}
        /\ (txn' => disk' = disk) /\ lastusn' = usn_next
    <3>1. Final /\ lastusn' = usn_next
      BY <1>5 DEF FinishBuffer
    <3> QED BY <1>1, <3>1 DEF Final, Typed
  <2>2. base <= 0 => db.ptr <= usn_next
    BY <1>1, <1>2, <1>3, <1>5 DEF Typed
  <2>3. ProgressNext
    BY <1>1, <1>3, <2>1, <2>2 DEF ProgressNext
  <2>4. CASE base <= 0 /\ disk' = db
    <3>1. Replays(db, db.ptr) /\ Base(db) = db.ptr /\ db.ptr <= Len(journal)
      BY <1>1, <1>2, <1>3, <2>2, <2>4, ReplaysBack DEF Typed, Base
    <3>2. DiskNext
      BY <1>2, <2>4, <3>1 DEF DiskNext
    <3> QED BY <2>3, <3>2
  <2>5. CASE base > 0
    <3>1. ~recheck /\ base = 1 /\ nest = 2 /\ txn
      BY <1>1, <2>5 DEF Levels, Typed
    <3> QED BY <2>1, <2>3, <3>1, DiskStays
  <2> QED BY <1>1, <2>1, <2>3, <2>4, <2>5, DiskStays DEF Typed
<1> QED BY <1>4, <1>5

LEMMA IInvNext == Ground /\ [Next]_vars => IInv'
<1> SUFFICES ASSUME Ground, [Next]_vars PROVE IInv'
  OBVIOUS
<1>1. CASE FileSystem
  <2>1. TypeOK /\ IInv /\ Prefix /\ Told /\ UNCHANGED <<dbVars, watchVars>> /\ disk' = disk
    BY <1>1, FileSystemTells, FileSystemOnly DEF Ground, dbVars
  <2> QED BY <2>1, JournalTellsStep, OnDiskKept, InProgressKept DEF IInv
<1>2. SUFFICES ASSUME ~FileSystem PROVE UNCHANGED fsVars /\ DiskNext /\ ProgressNext
  BY <1>1, ProcessStep DEF Ground, IInv
<1>3. CASE Launch
  <2>1. at' = "on" /\ disk' = disk /\ UNCHANGED fsVars
    BY <1>3 DEF Launch
  <2> QED BY <2>1, DiskStays, NotWatching
<1>4. CASE Crash
  <2>1. at' = "off" /\ disk' = disk /\ UNCHANGED fsVars
    BY <1>4 DEF Crash
  <2> QED BY <2>1, DiskStays, NotWatching
<1>5. CASE Add
  <2>1. UNCHANGED fsVars
    BY <1>5 DEF Add
  <2> QED BY <1>5, <2>1, IInvAdd
<1>6. CASE Remove
  <2>1. at' = "on" /\ disk' = disk /\ UNCHANGED fsVars
    BY <1>6 DEF Remove, dbVars
  <2> QED BY <2>1, DiskStays, NotWatching
<1>7. ASSUME NEW k \in 1..MaxBatch, Read(k)
      PROVE  UNCHANGED fsVars /\ DiskNext /\ ProgressNext
  <2>1. UNCHANGED fsVars
    BY <1>7 DEF Read
  <2> QED BY <1>7, <2>1, IInvRead
<1>8. CASE ExecuteNext
  <2>1. UNCHANGED fsVars
    BY <1>8 DEF ExecuteNext
  <2> QED BY <1>8, <2>1, IInvExecute
<1>9. CASE FinishBuffer
  <2>1. UNCHANGED fsVars
    BY <1>9 DEF FinishBuffer
  <2> QED BY <1>9, <2>1, IInvFinish
<1>10. CASE UNCHANGED vars
  <2>1. UNCHANGED fsVars /\ disk' = disk
        /\ UNCHANGED <<db, at, recheck, rechecked, lastusn, start, usn_next, todo, base>>
    BY <1>10 DEF vars, dbVars, watchVars
  <2>2. ProgressNext
    BY <2>1 DEF Ground, IInv, InProgress, ProgressNext
  <2> QED BY <2>1, <2>2, DiskStays
<1> QED BY <1>2, <1>3, <1>4, <1>5, <1>6, <1>7, <1>8, <1>9, <1>10 DEF Next, Indexer, BeginBuffer

LEMMA GroundHolds == Spec => []Ground
<1>1. Spec => [](TypeOK /\ Shape /\ Levels)
  BY Foundation
<1>2. Init => IInv
  BY IInvInit
<1>3. TypeOK /\ Shape /\ Levels /\ IInv /\ [Next]_vars => IInv'
  BY IInvNext DEF Ground
<1> QED BY <1>1, <1>2, <1>3, PTL DEF Spec, SafetySpec, Ground

LEMMA NothingLeft ==
  ASSUME NEW t, journal \in Seq(Records), Replays(t, Len(journal))
  PROVE  Agrees(t)
<1>1. Len(journal) + 1..Len(journal) = {}
  OBVIOUS
<1>2. \A n : ~ClearedAfter(n, Len(journal)) /\ ~NamedAfter(n, Len(journal))
  BY <1>1 DEF ClearedAfter, NamedAfter
<1> QED BY <1>2 DEF Agrees, Replays, ReplaysAt

\* A crash at any moment loses nothing: what is on disk, replayed from the
\* stored pointer, is the volume.
THEOREM RecoveryIsExact == Spec => []RecoveryExact
<1>1. Ground => RecoveryExact
  <2> SUFFICES ASSUME Ground PROVE RecoveryExact
    OBVIOUS
  <2> DEFINE a == Base(disk)
             b == Len(journal)
  <2>1. /\ journal \in Seq(Records) /\ live \in [Names -> Inodes \cup {NONE}] /\ disk \in Tables
        /\ a \in Nat /\ b \in Nat /\ a <= b /\ JournalTells /\ Replays(disk, a)
    BY GroundTyped DEF Ground, Typed, IInv, OnDisk
  <2> HIDE DEF a, b
  <2>2. PICK f : After(f, a, b) /\ Recovered = f[b]
    <3>1. \E f : After(f, a, b)
      BY <2>1, AfterExists
    <3> QED BY <3>1 DEF Recovered, After, Base, a, b
  <2>3. /\ f[a] = disk
        /\ \A k \in a + 1..b : f[k] = RecordEffect(f[k - 1], journal[k])
    <3>1. \A k \in a..b :
            f[k] = IF k = a THEN disk ELSE RecordEffect(f[k - 1], journal[k])
      BY <2>2 DEF After
    <3>2. a \in a..b
      BY <2>1
    <3>3. ASSUME NEW k \in a + 1..b PROVE f[k] = RecordEffect(f[k - 1], journal[k])
      <4>1. k \in a..b /\ k # a
        BY <2>1
      <4> QED BY <3>1, <4>1
    <3> QED BY <3>1, <3>2, <3>3
  <2> DEFINE T == {k \in a..b : ~(f[k] \in Tables /\ Replays(f[k], k))}
  <2>4. T = {}
    <3> SUFFICES ASSUME T # {} PROVE FALSE
      OBVIOUS
    <3>1. PICK c \in T : \A d \in T : c <= d
      <4>1. T \in SUBSET Nat BY <2>1 DEF T
      <4> HIDE DEF T
      <4> QED BY <4>1, Least
    <3>2. c # a
      BY <2>1, <2>3, <3>1
    <3>3. PICK p \in a..b : p + 1 = c
      <4>1. c - 1 \in a..b /\ (c - 1) + 1 = c
        BY <2>1, <3>1, <3>2
      <4> QED BY <4>1
    <3>4. /\ p \in Nat /\ p + 1 <= Len(journal) /\ p + 1 \in a + 1..b /\ (p + 1) - 1 = p
          /\ f[p] \in Tables /\ Replays(f[p], p)
      BY <2>1, <3>1, <3>3 DEF b
    <3>5. f[p + 1] = RecordEffect(f[p], journal[p + 1])
      BY <2>3, <3>4
    <3>6. f[p + 1] \in Tables /\ Replays(f[p + 1], p + 1)
      BY <2>1, <3>4, <3>5, ReplayRecord
    <3> QED BY <3>1, <3>3, <3>6
  <2>5. Replays(Recovered, Len(journal))
    <3>1. b \in a..b
      BY <2>1
    <3> QED BY <2>2, <2>4, <3>1 DEF b
  <2> QED BY <2>1, <2>5, NothingLeft DEF RecoveryExact
<1> QED BY <1>1, GroundHolds, PTL

\* Once the watch has read the whole journal, the index names exactly the files
\* there are (filemgr.h: ack, nak, existance_flip, rename_old, rename_new),
\* unless the watch was added while a re-check was left unfinished.
THEOREM IndexIsExact == Spec => []CaughtUpExact
<1>1. Ground => CaughtUpExact
  <2> SUFFICES ASSUME Ground, CaughtUp, base <= 0 PROVE Agrees(db)
    BY DEF CaughtUpExact
  <2>1. Replays(db, Len(journal)) /\ journal \in Seq(Records)
    BY GroundTyped DEF Ground, IInv, InProgress, CaughtUp, Typed
  <2> QED BY <2>1, NothingLeft
<1> QED BY <1>1, GroundHolds, PTL
=============================================================================
