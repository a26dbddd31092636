----------------------------- MODULE ThreadPool -----------------------------
(***************************************************************************)
(* The thread pool (kernel/threadpool.cc, kernel/tp_thread.cc): an owner   *)
(* allocates a group of pool threads, each of which calls the owner's      *)
(* tp_working; destroying the group waits for every thread to come back    *)
(* and returns it to the pool.                                             *)
(*                                                                         *)
(* wake(), wait() and the pool's own bookkeeping are single critical       *)
(* sections.  The master's look at candidate_ and its falling asleep are   *)
(* two steps, because ~tp_thread_t writes quit without taking can_lock_.   *)
(***************************************************************************)
EXTENDS Naturals, FiniteSets

CONSTANTS Threads,          \* bound: the tp_thread_t objects that may be created,
                            \* numbered in the order of their creation
          Owners,           \* threadpool_worker_t objects, one allocation each
          Need,             \* how many threads an owner asks for
          NULL, GARBAGE,    \* no worker; a pointer nobody stored
          FreshDone,        \* what "done" may hold in a new tp_thread_t: the
          FreshCandidate    \* constructor sets neither it nor candidate_

ASSUME OwnerAssumption ==
  /\ Threads \subseteq Nat
  /\ NULL \notin Owners /\ GARBAGE \notin Owners /\ NULL # GARBAGE
  /\ Need \in [Owners -> Nat \ {0}]
  /\ FreshDone \subseteq BOOLEAN
  /\ FreshCandidate \subseteq {NULL, GARBAGE}

VARIABLES
  all, cans,                \* threadpool_t: every thread, the idle threads
  at,                       \* where each thread is in master()
  candidate, done, quit,    \* tp_thread_t members of the same names
  job,                      \* master()'s local "next"
  place,                    \* where each owner is in the life of its group
  group,                    \* runs_ of the owner's threadgroup_t
  pend,                     \* the threads its loop has still to wake or wait for
  blocked,                  \* the thread whose done_cond_ the owner sleeps on
  del,                      \* how far ~tp_thread_t of each thread has come
  begun,                    \* history: the threads that entered tp_working
  ready                     \* history: the threads wait() cannot mistake, see below

poolVars == <<all, cans>>
threadVars == <<at, candidate, done, quit, job>>
ownerVars == <<place, group, pend, blocked>>
history == <<begun, ready>>
vars == <<poolVars, threadVars, ownerVars, del, history>>

MasterPlace == {"unborn", "top", "dozing", "asleep", "holding", "running", "exited"}
OwnerPlace == {"new", "waking", "up", "waiting", "gone"}
-----------------------------------------------------------------------------
Init ==
  /\ all = {} /\ cans = {}
  /\ at = [t \in Threads |-> "unborn"]
  /\ candidate = [t \in Threads |-> NULL]
  /\ done = [t \in Threads |-> FALSE]
  /\ quit = [t \in Threads |-> FALSE]
  /\ job = [t \in Threads |-> NULL]
  /\ place = [w \in Owners |-> "new"]
  /\ group = [w \in Owners |-> {}]
  /\ pend = [w \in Owners |-> {}]
  /\ blocked = [w \in Owners |-> NULL]
  /\ del = [t \in Threads |-> "no"]
  /\ begun = [w \in Owners |-> {}]
  /\ ready = [w \in Owners |-> {}]

\* A thread of w's group counts as ready when it was handed out with nothing
\* to do and done cleared, or has entered w's tp_working before w lets go.
\* Nothing in the code makes a thread ready at its hand-out: the constructor
\* leaves done and candidate_ alone, and a recycled thread keeps done = true.
Idle(S) == {t \in S : ~done'[t] /\ candidate'[t] = NULL /\ job[t] = NULL}

\* Fault: what is handed out is not popped from cans_.
HandOutUnpopped(S, F) == all' = all \cup F /\ cans' = cans \cup F

\* inter_alloc and the pops: the fresh threads F enter all_, nobody that is
\* handed out stays in cans_.
HandOut(S, F) == all' = all \cup F /\ cans' = cans \ S

\* allocate_threads(n, worker) under manlock: idle threads first, new ones
\* only when they do not suffice (inter_alloc).  The code hands out the most
\* recently recycled thread; which one is left open here.
Allocate(w) ==
  /\ place[w] = "new"
  /\ \A t \in Threads : del[t] = "no"
  /\ \E S \in SUBSET cans, F \in SUBSET (Threads \ all) :
       /\ Cardinality(S) + Cardinality(F) = Need[w]
       /\ F # {} => S = cans
       /\ \A t \in F, s \in Threads \ all : s < t => s \in F
       /\ HandOut(S, F)
       /\ \E d \in [F -> FreshDone], c \in [F -> FreshCandidate] :
            /\ done' = [t \in Threads |-> IF t \in F THEN d[t] ELSE done[t]]
            /\ candidate' = [t \in Threads |-> IF t \in F THEN c[t] ELSE candidate[t]]
       /\ at' = [t \in Threads |-> IF t \in F THEN "top" ELSE at[t]]
       /\ group' = [group EXCEPT ![w] = S \cup F]
       /\ pend' = [pend EXCEPT ![w] = S \cup F]
       /\ ready' = [ready EXCEPT ![w] = Idle(S \cup F)]
  /\ place' = [place EXCEPT ![w] = "waking"]
  /\ UNCHANGED <<quit, job, blocked, del, begun>>

StoreCandidate(w, t) ==
  /\ place[w] = "waking"
  /\ t \in pend[w]
  /\ at[t] # "dozing"
  /\ candidate' = [candidate EXCEPT ![t] = w]
  /\ pend' = [pend EXCEPT ![w] = @ \ {t}]
  /\ place' = [place EXCEPT ![w] = IF pend[w] = {t} THEN "up" ELSE @]
  /\ UNCHANGED <<poolVars, done, quit, job, group, blocked, del, history>>

\* Fault: the sleeping thread is not notified.
WakeSilently(w, t) == StoreCandidate(w, t) /\ UNCHANGED at

\* One turn of threadgroup_t's loop: wake(worker) under can_lock_.
Wake(w, t) ==
  /\ StoreCandidate(w, t)
  /\ at' = IF at[t] = "asleep" THEN [at EXCEPT ![t] = "top"] ELSE at

\* The owner's destructor: it tells its worker to return (a NULL tasklet, a
\* TASKLET_QUIT event, an empty completion packet) and deletes the group.
Destroy(w) ==
  /\ place[w] = "up"
  /\ place' = [place EXCEPT ![w] = "waiting"]
  /\ pend' = [pend EXCEPT ![w] = group[w]]
  /\ UNCHANGED <<poolVars, threadVars, group, blocked, del, history>>

\* Fault: wait() does not look at done.
WaitForNothing(w, t) ==
  /\ place[w] = "waiting" /\ blocked[w] = NULL
  /\ t \in pend[w]
  /\ pend' = [pend EXCEPT ![w] = @ \ {t}]
  /\ UNCHANGED <<poolVars, threadVars, place, group, blocked, del, history>>

\* wait(), under done_lock_ (held by master() for as long as it is running).
WaitPasses(w, t) ==
  /\ place[w] = "waiting"
  /\ blocked[w] = NULL
  /\ t \in pend[w]
  /\ at[t] # "running"
  /\ done[t] \/ quit[t]
  /\ pend' = [pend EXCEPT ![w] = @ \ {t}]
  /\ UNCHANGED <<poolVars, threadVars, place, group, blocked, del, history>>

WaitSleeps(w, t) ==
  /\ place[w] = "waiting"
  /\ blocked[w] = NULL
  /\ t \in pend[w]
  /\ at[t] # "running"
  /\ ~done[t] /\ ~quit[t]
  /\ blocked' = [blocked EXCEPT ![w] = t]
  /\ UNCHANGED <<poolVars, threadVars, place, group, pend, del, history>>

WaitSpuriousWakeup(w) ==
  /\ blocked[w] # NULL
  /\ blocked' = [blocked EXCEPT ![w] = NULL]
  /\ UNCHANGED <<poolVars, threadVars, place, group, pend, del, history>>

\* Every thread waited for: recycle_threads, and the owner's memory is freed.
Recycle(w) ==
  /\ place[w] = "waiting"
  /\ pend[w] = {}
  /\ cans' = cans \cup group[w]
  /\ place' = [place EXCEPT ![w] = "gone"]
  /\ UNCHANGED <<all, threadVars, group, pend, blocked, del, history>>
-----------------------------------------------------------------------------
\* master(): the predicate of the wait loop, with can_lock_ held ...
LookEmpty(t) ==
  /\ at[t] = "top"
  /\ candidate[t] = NULL /\ ~quit[t]
  /\ at' = [at EXCEPT ![t] = "dozing"]
  /\ UNCHANGED <<poolVars, candidate, done, quit, job, ownerVars, del, history>>

\* ... and cond_.wait, which releases it.
Doze(t) ==
  /\ at[t] = "dozing"
  /\ at' = [at EXCEPT ![t] = "asleep"]
  /\ UNCHANGED <<poolVars, candidate, done, quit, job, ownerVars, del, history>>

SpuriousWakeup(t) ==
  /\ at[t] = "asleep"
  /\ at' = [at EXCEPT ![t] = "top"]
  /\ UNCHANGED <<poolVars, candidate, done, quit, job, ownerVars, del, history>>

Leave(t) ==
  /\ at[t] = "top"
  /\ quit[t]
  /\ at' = [at EXCEPT ![t] = "exited"]
  /\ UNCHANGED <<poolVars, candidate, done, quit, job, ownerVars, del, history>>

PickCandidate(t) ==
  /\ at[t] = "top"
  /\ candidate[t] # NULL /\ ~quit[t]
  /\ job' = [job EXCEPT ![t] = candidate[t]]
  /\ candidate' = [candidate EXCEPT ![t] = NULL]
  /\ at' = [at EXCEPT ![t] = "holding"]
  /\ UNCHANGED <<poolVars, done, quit, ownerVars, del, history>>

\* Between the two critical sections the thread holds no lock.  Then it takes
\* done_lock_, clears done and calls next->tp_working().
StartWorking(t) ==
  /\ at[t] = "holding"
  /\ done' = [done EXCEPT ![t] = FALSE]
  /\ at' = [at EXCEPT ![t] = "running"]
  /\ begun' = [w \in Owners |-> IF w = job[t] THEN begun[w] \cup {t} ELSE begun[w]]
  /\ ready' = [w \in Owners |-> IF w = job[t] /\ place[w] \in {"waking", "up"}
                                THEN ready[w] \cup {t} ELSE ready[w]]
  /\ UNCHANGED <<poolVars, candidate, quit, job, ownerVars, del>>

WorkDone(t) ==
  /\ at[t] = "running"
  /\ \E w \in Owners : w = job[t] /\ place[w] \in {"waiting", "gone"}
  /\ done' = [done EXCEPT ![t] = TRUE]
  /\ job' = [job EXCEPT ![t] = NULL]
  /\ at' = [at EXCEPT ![t] = "top"]
  /\ UNCHANGED <<poolVars, candidate, quit, place, group, pend, del, history>>

\* Fault: done_cond_ is not notified.
ReturnSilently(t) == WorkDone(t) /\ UNCHANGED blocked

\* tp_working returns once its owner has told it to.  A call through a
\* pointer nobody stored (GARBAGE) is not followed: it never comes back.
ReturnFromWork(t) ==
  /\ WorkDone(t)
  /\ blocked' = [w \in Owners |-> IF blocked[w] = t THEN NULL ELSE blocked[w]]
-----------------------------------------------------------------------------
\* ~threadpool_t (static destruction, when the owners are gone): the threads
\* are deleted one after the other, the oldest first.  ~tp_thread_t sets quit
\* without the lock.
SetQuit(t) ==
  /\ t \in all
  /\ del[t] = "no"
  /\ \A w \in Owners : place[w] \in {"new", "gone"}
  /\ \A s \in all : IF s < t THEN del[s] = "joined" ELSE del[s] = "no"
  /\ quit' = [quit EXCEPT ![t] = TRUE]
  /\ del' = [del EXCEPT ![t] = "quit_set"]
  /\ UNCHANGED <<poolVars, at, candidate, done, job, ownerVars, history>>

\* cond_.notify_one(); done = true; done_cond_.notify_one() (no owner is left
\* that could be waiting for it).
NotifyQuit(t) ==
  /\ del[t] = "quit_set"
  /\ at' = IF at[t] = "asleep" THEN [at EXCEPT ![t] = "top"] ELSE at
  /\ done' = [done EXCEPT ![t] = TRUE]
  /\ del' = [del EXCEPT ![t] = "joining"]
  /\ UNCHANGED <<poolVars, candidate, quit, job, ownerVars, history>>

Join(t) ==
  /\ del[t] = "joining"
  /\ at[t] = "exited"
  /\ del' = [del EXCEPT ![t] = "joined"]
  /\ UNCHANGED <<poolVars, threadVars, ownerVars, history>>

OwnerLoop(w) ==
  \/ \E t \in Threads : Wake(w, t) \/ WaitPasses(w, t) \/ WaitSleeps(w, t)
  \/ Recycle(w)

Master(t) ==
  LookEmpty(t) \/ Doze(t) \/ Leave(t) \/ PickCandidate(t) \/ StartWorking(t)
  \/ ReturnFromWork(t)

Delete(t) == SetQuit(t) \/ NotifyQuit(t) \/ Join(t)

Next ==
  \/ \E w \in Owners : Allocate(w) \/ OwnerLoop(w) \/ Destroy(w) \/ WaitSpuriousWakeup(w)
  \/ \E t \in Threads : Master(t) \/ SpuriousWakeup(t) \/ Delete(t)

\* Threads run; a constructor or destructor of a group that has begun goes on;
\* workers return when told.  Nobody has to allocate, to destroy or to exit.
Fairness ==
  /\ \A w \in Owners : WF_vars(OwnerLoop(w))
  /\ \A t \in Threads : WF_vars(Master(t))

SafetySpec == Init /\ [][Next]_vars
Spec == SafetySpec /\ Fairness
-----------------------------------------------------------------------------
\* Type invariant.
TypeOK ==
  /\ cans \subseteq all /\ all \subseteq Threads
  /\ at \in [Threads -> MasterPlace]
  /\ candidate \in [Threads -> Owners \cup {NULL, GARBAGE}]
  /\ done \in [Threads -> BOOLEAN]
  /\ quit \in [Threads -> BOOLEAN]
  /\ job \in [Threads -> Owners \cup {NULL, GARBAGE}]
  /\ place \in [Owners -> OwnerPlace]
  /\ group \in [Owners -> SUBSET all]
  /\ pend \in [Owners -> SUBSET Threads]
  /\ blocked \in [Owners -> Threads \cup {NULL}]
  /\ del \in [Threads -> {"no", "quit_set", "joining", "joined"}]
  /\ begun \in [Owners -> SUBSET Threads]
  /\ ready \in [Owners -> SUBSET Threads]

\* Destroying a group closes all its threads (tasklet_queue.h:19), those that
\* wait() cannot mistake: when the owner's memory is freed, every ready thread
\* of the group has been in its tp_working, and none is still in it or about
\* to enter it, whatever becomes of the threads the pool handed out before.
ClosesAllThreads ==
  \A w \in Owners : place[w] = "gone" =>
    \A t \in ready[w] : t \in begun[w] /\ job[t] # w /\ candidate[t] # w

\* No job is lost: while an owner lives, the worker it handed to wake() stays
\* in candidate_ until that thread, and no other, picks it up; neither a second
\* wake() nor a new owner of the thread overwrites it.
NoJobOverwritten ==
  [][\A w \in Owners, t \in Threads : candidate[t] = w /\ place[w] # "gone" =>
       candidate'[t] = w \/ (candidate'[t] = NULL /\ job'[t] = w)]_vars

\* A thread belongs to one live group at a time, and the idle threads to none.
Live(w) == place[w] \in {"waking", "up", "waiting"}
ThreadsNotShared ==
  \A w \in Owners : Live(w) =>
    /\ group[w] \cap cans = {}
    /\ \A v \in Owners \ {w} : Live(v) => group[v] \cap group[w] = {}

\* A thread that has called a pointer nobody stored.
Lost(t) == job[t] = GARBAGE

\* Every thread of a group gets to run its owner's tp_working, unless garbage in
\* candidate_ took it, or the group was closed before a thread that was not ready.
WorkersRun ==
  \A w \in Owners : place[w] = "up" ~>
    \A t \in group[w] : t \in begun[w] \/ Lost(t) \/ (place[w] # "up" /\ t \notin ready[w])

\* Destroying a group comes to an end, unless it waits for a lost thread.
DestroyReturns ==
  \A w \in Owners :
    place[w] = "waiting" ~> place[w] = "gone" \/ \E t \in group[w] : Lost(t)
=============================================================================
