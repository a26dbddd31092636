--------------------------- MODULE SearchService ----------------------------
(***************************************************************************)
(* search_service (kernel/search_engine.cc) and the model that drives it   *)
(* from the GUI thread (everything/searchfiledbmodel.cc): the GUI posts    *)
(* the text of the search box, one worker thread runs the newest text and  *)
(* hands its result over through three buffers, and posts a "search done"  *)
(* event that makes the GUI flip the finished buffer into view.            *)
(*                                                                         *)
(* post_search works under serv->lock and is one action.  The destructor   *)
(* does NOT take serv->lock, so what the worker does under it is split at  *)
(* every access the destructor can come between: finding the queue empty   *)
(* and falling asleep, reading thread_exit, draining the queue.            *)
(***************************************************************************)
EXTENDS Naturals, Sequences

CONSTANT MaxPosts               \* bound: how often the search text changes

ASSUME BoundAssumption == MaxPosts \in Nat

Buffers == 1..3                 \* the three std::vector<line_data>
Texts == 1..MaxPosts            \* the n-th text typed is n
STOP == 0                       \* the empty text ~search_service pushes

\* What a buffer holds: the rows for a text (0: never filled), all of them or
\* only those the query has returned so far.
Result == [text : 0..MaxPosts, whole : BOOLEAN]

VARIABLES
  task_queue, thread_exit,              \* shared, meant to be under serv->lock
  front, read, reading,                 \* which buffer each pointer points to
  contents,                             \* what each buffer holds
  place, exiting, search_req,           \* worker: place in search(), its locals
  events,                               \* EVENT_SEARCHDONE posted, not handled
  gui,                                  \* what the GUI thread is doing
  posted                                \* how many texts were posted

workerVars == <<place, exiting, search_req>>
bufferVars == <<front, read, reading, contents>>
searchVars == <<task_queue, thread_exit, bufferVars, workerVars, events, gui, posted>>

Places == {"top", "dozing", "asleep", "draining", "searching", "filling",
           "swapped", "returned"}
GuiPlace == {"running", "exit_set", "pushed", "joining", "deleted"}
-----------------------------------------------------------------------------
SearchInit ==
  /\ task_queue = <<>>
  /\ thread_exit = FALSE
  /\ front = 1 /\ read = 2 /\ reading = 3
  /\ contents = [b \in Buffers |-> [text |-> 0, whole |-> TRUE]]
  /\ place = "top"
  /\ exiting = FALSE
  /\ search_req = STOP
  /\ events = 0
  /\ gui = "running"
  /\ posted = 0

\* serv->lock is held by the worker from its look at the queue to its sleep
\* or to the end of the drain.
LockFree == place \notin {"dozing", "draining"}

\* The user changes the text: push and notify under serv->lock.
PostSearch ==
  /\ gui = "running"
  /\ posted < MaxPosts
  /\ LockFree
  /\ posted' = posted + 1
  /\ task_queue' = Append(task_queue, posted + 1)
  /\ place' = IF place = "asleep" THEN "top" ELSE place
  /\ UNCHANGED <<thread_exit, bufferVars, exiting, search_req, events, gui>>

\* Show(f, r, x): the pointers become front = f, read = r, reading = x.
Show(f, r, x) == front' = f /\ read' = r /\ reading' = x

Delivered ==
  /\ gui = "running"
  /\ events' = events - 1
  /\ UNCHANGED <<task_queue, thread_exit, contents, workerVars, gui, posted>>

\* Fault: the wrong pair is swapped.
FlipWrongPair == events > 0 /\ Delivered /\ Show(reading, read, front)

\* Qt delivers one EVENT_SEARCHDONE: update_result flips under flip_lock.
Flip ==
  /\ events > 0
  /\ Delivered
  /\ Show(read, front, reading)

\* while (task_queue.empty()) wait: the predicate, evaluated under the lock.
LookEmpty ==
  /\ place = "top"
  /\ task_queue = <<>>
  /\ place' = "dozing"
  /\ UNCHANGED <<task_queue, thread_exit, bufferVars, exiting, search_req, events, gui, posted>>

\* cond.wait releases the lock and sleeps.
Doze ==
  /\ place = "dozing"
  /\ place' = "asleep"
  /\ UNCHANGED <<task_queue, thread_exit, bufferVars, exiting, search_req, events, gui, posted>>

SearchWakeup ==
  /\ place = "asleep"
  /\ place' = "top"
  /\ UNCHANGED <<task_queue, thread_exit, bufferVars, exiting, search_req, events, gui, posted>>

\* The queue is not empty: thread_exit = serv->thread_exit.
ReadExit ==
  /\ place = "top"
  /\ task_queue # <<>>
  /\ exiting' = thread_exit
  /\ place' = "draining"
  /\ UNCHANGED <<task_queue, thread_exit, bufferVars, search_req, events, gui, posted>>

\* Fault: the oldest text is searched for and the others are dropped.
DrainOldest ==
  /\ place = "draining"
  /\ search_req' = Head(task_queue)
  /\ task_queue' = <<>>
  /\ place' = IF exiting THEN "returned" ELSE "searching"
  /\ UNCHANGED <<thread_exit, bufferVars, exiting, events, gui, posted>>

\* search_req = task_queue.back(); task_queue.clear(): the newest text wins.
Drain ==
  /\ place = "draining"
  /\ search_req' = task_queue[Len(task_queue)]
  /\ task_queue' = <<>>
  /\ place' = IF exiting THEN "returned" ELSE "searching"
  /\ UNCHANGED <<thread_exit, bufferVars, exiting, events, gui, posted>>

\* reading->clear() and the first rows.
StartFilling ==
  /\ place = "searching"
  /\ contents' = [contents EXCEPT ![reading] = [text |-> search_req, whole |-> FALSE]]
  /\ place' = "filling"
  /\ UNCHANGED <<task_queue, thread_exit, front, read, reading, exiting, search_req,
                 events, gui, posted>>

Filled ==
  /\ place = "filling"
  /\ contents' = [contents EXCEPT ![reading].whole = TRUE]
  /\ place' = "swapped"
  /\ UNCHANGED <<task_queue, thread_exit, exiting, search_req, events, gui, posted>>

\* The last row, then swap(reading, read) under flip_lock.
FinishAndSwap ==
  /\ Filled
  /\ Show(front, reading, read)

\* broadcast(SE_JOB_DONE): EventCallback posts an event to the GUI thread.
Broadcast ==
  /\ place = "swapped"
  /\ events' = events + 1
  /\ place' = "top"
  /\ UNCHANGED <<task_queue, thread_exit, bufferVars, exiting, search_req, gui, posted>>

\* ~search_service, on the GUI thread, without serv->lock.
DtorSetExit ==
  /\ gui = "running"
  /\ thread_exit' = TRUE
  /\ gui' = "exit_set"
  /\ UNCHANGED <<task_queue, bufferVars, workerVars, events, posted>>

DtorPush ==
  /\ gui = "exit_set"
  /\ task_queue' = Append(task_queue, STOP)
  /\ gui' = "pushed"
  /\ UNCHANGED <<thread_exit, bufferVars, workerVars, events, posted>>

DtorNotify ==
  /\ gui = "pushed"
  /\ place' = IF place = "asleep" THEN "top" ELSE place
  /\ gui' = "joining"
  /\ UNCHANGED <<task_queue, thread_exit, bufferVars, exiting, search_req, events, posted>>

DtorJoin ==
  /\ gui = "joining"
  /\ place = "returned"
  /\ gui' = "deleted"
  /\ UNCHANGED <<task_queue, thread_exit, bufferVars, workerVars, events, posted>>

Worker ==
  \/ LookEmpty \/ Doze \/ ReadExit \/ Drain
  \/ StartFilling \/ FinishAndSwap \/ Broadcast

Dtor == DtorSetExit \/ DtorPush \/ DtorNotify \/ DtorJoin

SearchNext == PostSearch \/ Flip \/ Worker \/ SearchWakeup \/ Dtor

\* The worker thread runs, Qt delivers events, a destructor that has begun
\* goes on.  Nobody has to type, to quit, or to wake up for no reason.
SearchFairness ==
  /\ WF_searchVars(Worker)
  /\ WF_searchVars(Flip)
  /\ WF_searchVars(DtorPush \/ DtorNotify \/ DtorJoin)

SearchSafety == SearchInit /\ [][SearchNext]_searchVars
SearchSpec == SearchSafety /\ SearchFairness
-----------------------------------------------------------------------------
\* Type invariant.
SearchTypeOK ==
  /\ task_queue \in Seq(0..MaxPosts)
  /\ thread_exit \in BOOLEAN
  /\ front \in Buffers /\ read \in Buffers /\ reading \in Buffers
  /\ contents \in [Buffers -> Result]
  /\ place \in Places
  /\ exiting \in BOOLEAN
  /\ search_req \in 0..MaxPosts
  /\ events \in Nat
  /\ gui \in GuiPlace
  /\ posted \in 0..MaxPosts

\* What the GUI shows is the whole result of one search, never a buffer the
\* worker is filling: the three pointers are swapped, not copied, and the
\* worker only writes through "reading".
ViewWhole == contents[front].whole

\* The rows under the GUI's eyes change only when the GUI itself flips
\* buffers: line_count() and data() may index front without a lock.
ViewStable == [][front' = front => contents'[front] = contents[front]]_searchVars

\* The newest finished result is never the buffer the next search will clear:
\* it is in view, or one flip away.
NewestKept ==
  gui = "running" /\ place # "filling" =>
    \E b \in {front, read} : contents[reading].text <= contents[b].text

\* The last text typed is searched for: its result ends up in a buffer the
\* GUI can flip to (unless the service is being torn down).
LastTextSearched ==
  \A t \in Texts :
    posted = t ~> \/ \E b \in {front, read} : contents[b] = [text |-> t, whole |-> TRUE]
                  \/ posted > t
                  \/ gui # "running"
-----------------------------------------------------------------------------
\* kernel/TASKLIST:149-151 wants a fast typist to see the result of the last
\* text: when no text, search or event is outstanding, the view shows it.
Settled == gui = "running" /\ task_queue = <<>> /\ place = "asleep" /\ events = 0
LastTextShown == Settled /\ posted > 0 => contents[front].text = posted

\* search_engine.cc:43: the NULL task of the destructor stops the waiting, so
\* the destructor comes to an end.  Not so if that task is drained, or notified
\* before the worker sleeps (README, section 8).
DestructorReturns == gui = "exit_set" ~> gui = "deleted"
=============================================================================
