----------------------------- MODULE IndexEngine -----------------------------
(***************************************************************************)
(* index_engine_t (kernel/index_engine2.cc) with what it owns: the tasklet *)
(* queue whose one worker adds and removes volumes                         *)
(* (kernel/volpreplet_win32.cc), and the completion-port threads that call *)
(* process() of the watches (kernel/fdpool_win32.cc).                      *)
(*                                                                         *)
(* The tasklet queue appears through what TaskletQueue shows it to be: a   *)
(* FIFO with one reader, closed by a QUIT that is read last.  A watch is a *)
(* watching_win32 object; the same volume gets a new one each time it is   *)
(* added.                                                                  *)
(***************************************************************************)
EXTENDS Naturals, Sequences, FiniteSets

CONSTANTS Volumes,
          Cpus,            \* the threads of fdpool_win32 (cpu_number() of them)
          BadVolumes,      \* volumes whose check() fails: not NTFS, no journal
          MaxWatches,      \* bound: watching_win32 objects ever created
          NULL,            \* no watch; the empty packet that ends a thread
          ENDED            \* the job of a thread that has returned

ASSUME EngineAssumption ==
  /\ IsFiniteSet(Cpus)
  /\ BadVolumes \subseteq Volumes
  /\ MaxWatches \in Nat
  /\ NULL \notin Nat /\ ENDED \notin Nat /\ NULL # ENDED

Watches == Nat \ {0}       \* watching_win32 objects, in the order of creation

VARIABLES
  tracing,                 \* the GUI's view: volumes it asked to be watched
  gui,                     \* what the GUI thread is doing
  prep_queue,              \* commands <<"add" or "remove" or "quit", volume>>
  prep, cur,               \* the queue's worker: its place, its tasklet
  lock,                    \* wacthings_lock: "free", "held", or "leaked" by a
                           \* tasklet that returned without unlocking
  watchings,               \* vector of watches
  watching_volumes,        \* vector of volumes, meant to run parallel
  vol,                     \* the volume of each watch created
  alive,                   \* watches created and not deleted
  reading,                 \* watches whose journal read is pending
  packets,                 \* the completion port's queue
  job                      \* per thread: NULL, the watch in process(), ENDED

guiVars == <<tracing, gui>>
prepVars == <<prep_queue, prep, cur>>
listVars == <<lock, watchings, watching_volumes, vol, alive>>
ioVars == <<reading, packets, job>>
vars == <<guiVars, prepVars, listVars, ioVars>>

RangeOf(s) == {s[i] : i \in DOMAIN s}
Commands == ({"add", "remove"} \X Volumes) \cup {<<"quit">>}
GuiPlace == {"running", "listing", "closing", "posting", "joining", "closed"}
-----------------------------------------------------------------------------
Init ==
  /\ tracing = {} /\ gui = "running"
  /\ prep_queue = <<>> /\ prep = "idle" /\ cur = <<"quit">>
  /\ lock = "free"
  /\ watchings = <<>> /\ watching_volumes = <<>>
  /\ vol = <<>> /\ alive = {}
  /\ reading = {} /\ packets = <<>>
  /\ job = [t \in Cpus |-> NULL]

\* Watches there are, and those that commands not yet executed will add.
Adds == Len(vol) + Cardinality({i \in DOMAIN prep_queue : prep_queue[i][1] = "add"})
                 + (IF prep \in {"popped", "locked"} /\ cur[1] = "add" THEN 1 ELSE 0)

\* VolumeModel::apply_changes asks for what differs from the tracing bit, and
\* flips the bit: index_engine_t::queue_volume or remove_volume.
Change(v) ==
  /\ gui = "running"
  /\ \/ /\ v \in tracing
        /\ tracing' = tracing \ {v}
        /\ prep_queue' = Append(prep_queue, <<"remove", v>>)
     \/ /\ v \notin tracing
        /\ Adds < MaxWatches
        /\ tracing' = tracing \cup {v}
        /\ prep_queue' = Append(prep_queue, <<"add", v>>)
  /\ UNCHANGED <<gui, prep, cur, listVars, ioVars>>

\* volume_list() copies watching_volumes under the lock.
CallList ==
  /\ gui = "running"
  /\ gui' = "listing"
  /\ UNCHANGED <<tracing, prepVars, listVars, ioVars>>

ListReturns ==
  /\ gui = "listing"
  /\ lock = "free"
  /\ gui' = "running"
  /\ UNCHANGED <<tracing, prepVars, listVars, ioVars>>

\* ~index_engine_t deletes prep_queue_ (NULL tasklet, wait for the worker) ...
Destroy ==
  /\ gui = "running"
  /\ gui' = "closing"
  /\ prep_queue' = Append(prep_queue, <<"quit">>)
  /\ UNCHANGED <<tracing, prep, cur, listVars, ioVars>>

PrepJoined ==
  /\ gui = "closing"
  /\ prep = "returned"
  /\ gui' = "posting"
  /\ UNCHANGED <<tracing, prepVars, listVars, ioVars>>

\* Fault: one packet is posted, as if it stayed in the port like QUIT in a queue.
OneEmptyPacket == <<NULL>>

EmptyPackets == [i \in 1..Cardinality(Cpus) |-> NULL]

\* ... and fdpool_: one empty packet for every thread, wait for all of them.
PostEmpty ==
  /\ gui = "posting"
  /\ gui' = "joining"
  /\ packets' = packets \o EmptyPackets
  /\ UNCHANGED <<tracing, prepVars, listVars, reading, job>>

PoolJoined ==
  /\ gui = "joining"
  /\ \A t \in Cpus : job[t] = ENDED
  /\ gui' = "closed"
  /\ UNCHANGED <<tracing, prepVars, listVars, ioVars>>
-----------------------------------------------------------------------------
\* The worker of the tasklet queue.
Pop ==
  /\ prep = "idle"
  /\ prep_queue # <<>>
  /\ cur' = Head(prep_queue)
  /\ IF cur' = <<"quit">>
     THEN prep' = "returned" /\ UNCHANGED prep_queue
     ELSE prep' = "popped" /\ prep_queue' = Tail(prep_queue)
  /\ UNCHANGED <<guiVars, listVars, ioVars>>

Without(s, i) == SubSeq(s, 1, i - 1) \o SubSeq(s, i + 1, Len(s))

\* Fault: the one vector loses the position found, the other its last element.
EraseBack(i) ==
  /\ watchings' = Without(watchings, i)
  /\ watching_volumes' = Without(watching_volumes, Len(watching_volumes))

\* std::find: the first position whose watch is of volume v, if there is one.
Find(v) == {i \in DOMAIN watchings :
              /\ vol[watchings[i]] = v
              /\ \A k \in DOMAIN watchings : k < i => vol[watchings[k]] # v}

\* The position found in the one vector serves for both.
Erase(i) ==
  /\ watchings' = Without(watchings, i)
  /\ watching_volumes' = Without(watching_volumes, i)

\* The destructor closes the volume: a pending read completes as cancelled.
Delete(w) ==
  /\ alive' = alive \ {w}
  /\ reading' = reading \ {w}
  /\ packets' = IF w \in reading THEN Append(packets, w) ELSE packets

\* volpreplet_win32::doit takes the lock; what it does under the lock is one
\* action, for only the completion-port threads run beside it and they share
\* nothing but the watch itself.
Lock ==
  /\ prep = "popped"
  /\ lock = "free"
  /\ lock' = "held"
  /\ prep' = "locked"
  /\ UNCHANGED <<guiVars, prep_queue, cur, watchings, watching_volumes, vol, alive, ioVars>>

\* Fault: the tasklet ends and keeps the mutex.
StayLocked == prep' = "idle" /\ UNCHANGED lock

Unlock == prep' = "idle" /\ lock' = "free"

\* "return -1": the tasklet is over, the mutex is not unlocked.
ReturnLocked ==
  /\ prep = "locked"
  /\ IF cur[1] = "add"
     THEN Find(cur[2]) # {} \/ cur[2] \in BadVolumes
     ELSE Find(cur[2]) = {}
  /\ prep' = "idle" /\ lock' = "leaked"
  /\ UNCHANGED <<guiVars, prep_queue, cur, watchings, watching_volumes, vol, alive, ioVars>>

\* A new watch is listed, attached to the port, and its first read is posted.
AddWatch ==
  /\ prep = "locked" /\ cur[1] = "add"
  /\ Find(cur[2]) = {} /\ cur[2] \notin BadVolumes
  /\ LET w == Len(vol) + 1
     IN /\ vol' = Append(vol, cur[2])
        /\ alive' = alive \cup {w}
        /\ watchings' = Append(watchings, w)
        /\ reading' = reading \cup {w}
  /\ watching_volumes' = Append(watching_volumes, cur[2])
  /\ Unlock
  /\ UNCHANGED <<guiVars, prep_queue, cur, packets, job>>

RemoveWatch ==
  /\ prep = "locked" /\ cur[1] = "remove"
  /\ \E i \in Find(cur[2]) : Erase(i) /\ Delete(watchings[i])
  /\ Unlock
  /\ UNCHANGED <<guiVars, prep_queue, cur, vol, job>>
-----------------------------------------------------------------------------
\* The journal has something to read: the pending read completes.
ReadCompletes(w) ==
  /\ reading' = reading \ {w}
  /\ packets' = Append(packets, w)
  /\ UNCHANGED <<guiVars, prepVars, listVars, job>>

\* GetQueuedCompletionStatus: an empty packet ends the thread, any other key
\* is a watch and process() is called on it.
GetPacket(t) ==
  /\ job[t] = NULL
  /\ packets # <<>>
  /\ job' = [job EXCEPT ![t] = IF Head(packets) = NULL THEN ENDED ELSE Head(packets)]
  /\ packets' = Tail(packets)
  /\ UNCHANGED <<guiVars, prepVars, listVars, reading>>

\* Fault: process() posts no read.
NoRead(w) == UNCHANGED reading

DispatchRead(w) == reading' = reading \cup {w}

\* The end of process(): dispach_read posts the next read.
EndProcess(t) ==
  /\ job[t] \in alive
  /\ DispatchRead(job[t])
  /\ job' = [job EXCEPT ![t] = NULL]
  /\ UNCHANGED <<guiVars, prepVars, listVars, packets>>

\* process() of a watch that has been deleted meanwhile: undefined.  It may
\* return (its handle is closed, no read is pending), or it may never do so.
EndProcessDeleted(t) ==
  /\ job[t] \in Watches \ alive
  /\ job' = [job EXCEPT ![t] = NULL]
  /\ UNCHANGED <<guiVars, prepVars, listVars, reading, packets>>

Gui == ListReturns \/ PrepJoined \/ PostEmpty \/ PoolJoined
Prep == Pop \/ Lock \/ ReturnLocked \/ AddWatch \/ RemoveWatch
Pool(t) == GetPacket(t) \/ EndProcess(t)

Next ==
  \/ \E v \in Volumes : Change(v)
  \/ CallList \/ Destroy \/ Gui
  \/ Prep
  \/ \E w \in reading : ReadCompletes(w)
  \/ \E t \in Cpus : Pool(t) \/ EndProcessDeleted(t)

\* Threads run and locks are taken when they are free for good; nobody has to
\* change, list or close anything, and files need not change.
Fairness == WF_vars(Gui) /\ WF_vars(Prep) /\ \A t \in Cpus : WF_vars(Pool(t))

SafetySpec == Init /\ [][Next]_vars
Spec == SafetySpec /\ Fairness
-----------------------------------------------------------------------------
\* Type invariant.
TypeOK ==
  /\ tracing \subseteq Volumes /\ gui \in GuiPlace
  /\ prep_queue \in Seq(Commands) /\ cur \in Commands
  /\ prep \in {"idle", "popped", "locked", "returned"}
  /\ lock \in {"free", "held", "leaked"}
  /\ watchings \in Seq(Watches) /\ watching_volumes \in Seq(Volumes)
  /\ vol \in Seq(Volumes) /\ alive \subseteq Watches /\ reading \subseteq Watches
  /\ packets \in Seq(Watches \cup {NULL})
  /\ job \in [Cpus -> Watches \cup {NULL, ENDED}]
  /\ (prep = "locked") = (lock = "held")

\* The two vectors run parallel: the position of a watch in the one is the
\* position of its volume in the other (volpreplet_win32.cc:51 relies on it),
\* no volume is listed twice, and what is listed has not been deleted.
ListsAgree ==
  /\ watching_volumes = [i \in DOMAIN watchings |-> vol[watchings[i]]]
  /\ RangeOf(watchings) = alive
  /\ \A i, j \in DOMAIN watching_volumes :
       watching_volumes[i] = watching_volumes[j] => i = j

\* When the queue has been worked off, and no command failed, exactly the
\* volumes the GUI believes to be traced are watched.
WatchesMatchWish ==
  prep \in {"idle", "returned"} /\ lock = "free" /\ RangeOf(prep_queue) \subseteq {<<"quit">>}
    => RangeOf(watching_volumes) = tracing

\* Each watch has one buffer and one OVERLAPPED, and so exactly one of: a read
\* pending, a packet in the port, a thread in process().  None is lost and no
\* two threads process one volume.
HeldBy(w) == {<<"read", x>> : x \in reading \cap {w}}
             \cup {<<"packet", i>> : i \in {k \in DOMAIN packets : packets[k] = w}}
             \cup {<<"thread", t>> : t \in {c \in Cpus : job[c] = w}}
OneReadPerWatch == \A w \in alive : \E x \in HeldBy(w) : HeldBy(w) = {x}

\* The port's threads only ever process watches that exist.  (fdpool.h:13-15: a
\* descriptor is detached, by an event in the queue, before it is deleted.)
ProcessesLiveWatches == \A t \in Cpus : job[t] \in Watches => job[t] \in alive

\* Unless a tasklet failed, nobody waits for ever on the list's lock.
ListingReturns == [](lock # "leaked") => (gui = "listing" ~> gui # "listing")

\* Unless a tasklet failed or a deleted watch was processed, the destructor of
\* the engine returns: all tasklets are worked off, all threads of the port end.
DestructorReturns ==
  [](lock # "leaked" /\ ProcessesLiveWatches) => (gui = "closing" ~> gui = "closed")
-----------------------------------------------------------------------------
\* tasklet_queue.h:19: the destructor of the queue closes its thread, whatever
\* the tasklets returned.  Not so after a tasklet that fails (README, section 8).
QueueCloses == gui = "closing" ~> gui # "closing"
=============================================================================
