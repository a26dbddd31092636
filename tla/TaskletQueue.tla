---------------------------- MODULE TaskletQueue ----------------------------
(***************************************************************************)
(* tasklet_queue_t (kernel/tasklet_queue.cc): a FIFO of tasklets behind a  *)
(* mutex and a condition variable, worked off by the threads of one        *)
(* thread group, closed by a NULL tasklet that its reader leaves in the    *)
(* queue.                                                                  *)
(*                                                                         *)
(* Every access to evid_queue_ is made under queue_lock_, and the reader's *)
(* "while (empty) wait" releases that lock atomically with falling asleep, *)
(* so one critical section is one action and the lock needs no variable.   *)
(* The notify of enqueue comes after the unlock: it is a step of its own.  *)
(***************************************************************************)
EXTENDS Naturals, Sequences

CONSTANTS Tasklets,        \* the tasklets the clients create, each enqueued once
          Clients,         \* the threads that call enqueue
          Owner,           \* the thread that runs ~tasklet_queue_t
          Workers,         \* the threads of tg_ (the code allocates one)
          QUIT             \* the NULL tasklet (or one whose evid is TASKLET_QUIT)

ASSUME SentinelAssumption == QUIT \notin Tasklets
ASSUME ThreadAssumption == Owner \notin Clients /\ Workers # {}

Callers == Clients \cup {Owner}
NONE == QUIT               \* "no tasklet in hand", in the variable let

VARIABLES evid_queue,      \* std::queue<tasklet_t*>
          at,              \* where each worker is in tp_working
          let,             \* the local variable of tp_working
          notifying,       \* the callers between queue_lock_.unlock() and notify_one()
          dtor,            \* how far ~tasklet_queue_t has come
          pushed,          \* history: everything pushed, in order
          taken,           \* history: tasklets popped, in order
          finished         \* history: tasklets whose doit() has returned

vars == <<evid_queue, at, let, notifying, dtor, pushed, taken, finished>>

Where == {"starting", "ready", "asleep", "running", "returned"}

RangeOf(s) == {s[i] : i \in DOMAIN s}
-----------------------------------------------------------------------------
Init ==
  /\ evid_queue = <<>>
  /\ at = [w \in Workers |-> "starting"]
  /\ let = [w \in Workers |-> NONE]
  /\ notifying = {}
  /\ dtor = "open"
  /\ pushed = <<>>
  /\ taken = <<>>
  /\ finished = {}

\* The critical section of enqueue(): push under queue_lock_.
Push(c, x) ==
  /\ evid_queue' = Append(evid_queue, x)
  /\ pushed' = Append(pushed, x)
  /\ notifying' = notifying \cup {c}
  /\ UNCHANGED <<at, let, taken, finished>>

\* A client enqueues a tasklet of its own; C++ lifetime rules let it do so
\* only while the destructor has not begun.
Enqueue(c) ==
  /\ dtor = "open"
  /\ c \notin notifying
  /\ \E x \in Tasklets \ RangeOf(pushed) : Push(c, x)
  /\ UNCHANGED dtor

\* Fault: the notify is forgotten.
NotifyNobody(c) ==
  /\ c \in notifying
  /\ notifying' = notifying \ {c}
  /\ UNCHANGED <<evid_queue, at, let, dtor, pushed, taken, finished>>

\* queue_cond_.notify_one(), after the unlock: wakes one sleeper if there is
\* one, and is lost otherwise.
Notify(c) ==
  /\ c \in notifying
  /\ notifying' = notifying \ {c}
  /\ IF \E w \in Workers : at[w] = "asleep"
     THEN \E w \in Workers : /\ at[w] = "asleep"
                             /\ at' = [at EXCEPT ![w] = "ready"]
     ELSE UNCHANGED at
  /\ UNCHANGED <<evid_queue, let, dtor, pushed, taken, finished>>

\* The thread pool has picked the worker up and calls tp_working.
Begin(w) ==
  /\ at[w] = "starting"
  /\ at' = [at EXCEPT ![w] = "ready"]
  /\ UNCHANGED <<evid_queue, let, notifying, dtor, pushed, taken, finished>>

Sleep(w) ==
  /\ at[w] = "ready"
  /\ evid_queue = <<>>
  /\ at' = [at EXCEPT ![w] = "asleep"]
  /\ UNCHANGED <<evid_queue, let, notifying, dtor, pushed, taken, finished>>

\* A condition variable may return from wait() on its own.
SpuriousWakeup(w) ==
  /\ at[w] = "asleep"
  /\ at' = [at EXCEPT ![w] = "ready"]
  /\ UNCHANGED <<evid_queue, let, notifying, dtor, pushed, taken, finished>>

\* Start(w, x, q): w leaves the critical section with x and q is what stays.
Start(w, x, q) ==
  /\ at[w] = "ready"
  /\ let' = [let EXCEPT ![w] = x]
  /\ taken' = Append(taken, x)
  /\ evid_queue' = q
  /\ at' = [at EXCEPT ![w] = "running"]
  /\ UNCHANGED <<notifying, dtor, pushed, finished>>

\* Faults: the front is not popped; the youngest tasklet is taken (a stack).
TakeNoPop(w) ==
  /\ evid_queue # <<>> /\ Head(evid_queue) # QUIT
  /\ Start(w, Head(evid_queue), evid_queue)
TakeYoungest(w) ==
  /\ evid_queue # <<>> /\ Head(evid_queue) # QUIT
  /\ LET n == CHOOSE i \in DOMAIN evid_queue :
                /\ evid_queue[i] # QUIT
                /\ \A j \in DOMAIN evid_queue : j > i => evid_queue[j] = QUIT
     IN Start(w, evid_queue[n], SubSeq(evid_queue, 1, n - 1)
                                \o SubSeq(evid_queue, n + 1, Len(evid_queue)))

\* The front is a tasklet: pop it, leave the critical section, call doit().
Take(w) ==
  /\ evid_queue # <<>>
  /\ Head(evid_queue) # QUIT
  /\ Start(w, Head(evid_queue), Tail(evid_queue))

\* doit() returns and the tasklet is deleted.
Finish(w) ==
  /\ at[w] = "running"
  /\ finished' = finished \cup {let[w]}
  /\ let' = [let EXCEPT ![w] = NONE]
  /\ at' = [at EXCEPT ![w] = "ready"]
  /\ UNCHANGED <<evid_queue, notifying, dtor, pushed, taken>>

\* Fault: a worker returns as soon as the queue is being closed.
QuitEarly(w) ==
  /\ at[w] = "ready"
  /\ QUIT \in RangeOf(evid_queue)
  /\ at' = [at EXCEPT ![w] = "returned"]
  /\ UNCHANGED <<evid_queue, let, notifying, dtor, pushed, taken, finished>>

\* The front is the NULL tasklet: return without popping it, so that every
\* other reader finds it too.
Quit(w) ==
  /\ at[w] = "ready"
  /\ evid_queue # <<>>
  /\ Head(evid_queue) = QUIT
  /\ at' = [at EXCEPT ![w] = "returned"]
  /\ UNCHANGED <<evid_queue, let, notifying, dtor, pushed, taken, finished>>

\* ~tasklet_queue_t: enqueue(NULL), then delete tg_, which waits for every
\* thread of the group to come back from tp_working.
DtorEnqueue ==
  /\ dtor = "open"
  /\ notifying = {}
  /\ Push(Owner, QUIT)
  /\ dtor' = "waiting"

DtorWait ==
  /\ dtor = "waiting"
  /\ Owner \notin notifying
  /\ \A w \in Workers : at[w] = "returned"
  /\ dtor' = "destroyed"
  /\ UNCHANGED <<evid_queue, at, let, notifying, pushed, taken, finished>>

WorkerStep(w) ==
  Begin(w) \/ Sleep(w) \/ SpuriousWakeup(w) \/ Take(w) \/ Finish(w) \/ Quit(w)

Next ==
  \/ \E c \in Clients : Enqueue(c)
  \/ \E c \in Callers : Notify(c)
  \/ \E w \in Workers : WorkerStep(w)
  \/ DtorEnqueue
  \/ DtorWait

\* Threads that can run do run, and doit() returns; nobody has to enqueue
\* anything and nobody has to destroy the queue.
Fairness ==
  /\ \A c \in Callers : WF_vars(Notify(c))
  /\ \A w \in Workers :
       WF_vars(Begin(w)) /\ WF_vars(Sleep(w) \/ Take(w) \/ Finish(w) \/ Quit(w))
  /\ WF_vars(DtorWait)

SafetySpec == Init /\ [][Next]_vars
Spec == SafetySpec /\ Fairness
-----------------------------------------------------------------------------
\* Type invariant: every variable has the shape the C++ declarations give it.
TypeOK ==
  /\ evid_queue \in Seq(Tasklets \cup {QUIT})
  /\ at \in [Workers -> Where]
  /\ let \in [Workers -> Tasklets \cup {NONE}]
  /\ notifying \subseteq Callers
  /\ dtor \in {"open", "waiting", "destroyed"}
  /\ pushed \in Seq(Tasklets \cup {QUIT})
  /\ taken \in Seq(Tasklets)
  /\ finished \subseteq Tasklets

\* No tasklet is lost, duplicated or overtaken: what was started, followed by
\* what is still queued, is what was enqueued (tp_working pops exactly the
\* element it runs; the NULL at the end is never popped).
Conservation == pushed = taken \o evid_queue

\* A tasklet is in the hands of at most one worker and is not used after it
\* was deleted: "let->doit(); delete let" happens once per tasklet.
SingleOwner ==
  /\ \A v, w \in Workers : let[v] = let[w] /\ let[v] # NONE => v = w
  /\ \A w \in Workers : let[w] # NONE => let[w] \notin finished

\* When ~tasklet_queue_t has returned, every tasklet ever enqueued has run to
\* its end and no worker is inside tp_working: destroying the queue drains it.
DrainedAtClose ==
  dtor = "destroyed" =>
    /\ finished = RangeOf(pushed) \ {QUIT}
    /\ \A w \in Workers : at[w] = "returned"

\* Every tasklet that is enqueued is eventually run to its end: no wakeup is
\* lost between a push and the reader falling asleep.
EventuallyRun == \A x \in Tasklets : x \in RangeOf(pushed) ~> x \in finished

\* The destructor returns.
CloseReturns == dtor = "waiting" ~> dtor = "destroyed"
-----------------------------------------------------------------------------
\* The queue implements TaskletService.  A tasklet counts as started when it
\* is popped; the NULL at the end of the queue is the closing of the service.
Service == INSTANCE TaskletService WITH
  pending <- IF dtor = "open" THEN evid_queue
             ELSE SubSeq(evid_queue, 1, Len(evid_queue) - 1),
  started <- taken,
  finished <- finished,
  phase <- CASE dtor = "open" -> "open"
             [] dtor = "waiting" -> "closing"
             [] OTHER -> "closed"

\* Refinement: the queue with its lock, condition variable, sentinel and
\* threads behaves like the service it offers.
ImplementsService == Service!SSpec
=============================================================================
