----------------------------- MODULE VolumeList -----------------------------
(***************************************************************************)
(* The volume list of the GUI (everything/volumemodel.cc) over sessions of *)
(* the program: the TRACING and STILL_TRACING bits, the commands they send *)
(* to the index engine, and known_vols, from which the next session starts *)
(* (kernel/volmgr.cc).  The index engine appears through its queue and the *)
(* set of watched volumes; IndexEngine is its model.                       *)
(*                                                                         *)
(* What the connection sees of known_vols may be in a transaction that a   *)
(* volume watch has opened; disk is what a restart finds.                  *)
(***************************************************************************)
EXTENDS Integers, Sequences

CONSTANTS Volumes,
          MaxToggles,     \* bound: clicks on a volume in one session
          MaxSessions     \* bound: starts of the program

ASSUME ListAssumption == MaxToggles \in Nat /\ MaxSessions \in Nat

VARIABLES
  disk, rows,       \* known_vols: durable, and as the connection sees it
  online,           \* volumes the system has while the session lasts
  known,            \* volumes in vol_list that have a kpi there
  traced, still,    \* the bits VOL_TRACING and VOL_UI_STILL_TRACING in vol_list
  gui, todo,        \* the GUI thread: "down", "loading", "idle", "applying", "closing";
                    \* the volumes its loop has still to visit
  commands,         \* prep_queue_: <<"add" or "remove", volume>>
  watched,          \* volumes with a watch
  failed,           \* commands whose doit returned -1, leaving wacthings_lock held
  toggles, sessions,
  asked             \* history: volumes the user ever applied tracing to

tableVars == <<disk, rows>>
listVars == <<online, known, traced, still>>
engineVars == <<commands, watched, failed>>
vars == <<tableVars, listVars, gui, todo, engineVars, toggles, sessions, asked>>

Init ==
  /\ disk = [v \in Volumes |-> "none"] /\ rows = disk
  /\ online = {} /\ known = {} /\ traced = {} /\ still = {}
  /\ gui = "down" /\ todo = {}
  /\ commands = <<>> /\ watched = {} /\ failed = {}
  /\ toggles = 0 /\ sessions = 0 /\ asked = {}
-----------------------------------------------------------------------------
\* A statement outside any transaction is durable, in one it is so later.
Store(table) == rows' = table /\ disk' \in {disk, table}

\* Fault: the status is stored without VOL_TRACING (a mask too narrow).
UpdateMasked(v) == Store([rows EXCEPT ![v] = IF v \in known THEN "off" ELSE @])

\* volmgr_t::update: by kpi, which is -1 in the list for a volume that was not
\* known when the program started.
Update(v) == Store([rows EXCEPT ![v] = IF v \in known THEN "tracing" ELSE @])

\* volmgr_t::witness: a volume never seen gets a row, with status 0.
Witness(v) == Store([rows EXCEPT ![v] = IF @ = "none" THEN "off" ELSE @])

\* A transaction of some watch ends.
Commit ==
  /\ disk # rows /\ disk' = rows
  /\ UNCHANGED <<rows, listVars, gui, todo, engineVars, toggles, sessions, asked>>
-----------------------------------------------------------------------------
\* volmgr_t loads known_vols and adds what is online; VolumeModel begins its loop.
Load(sys) ==
  /\ gui = "down" /\ sessions < MaxSessions
  /\ sessions' = sessions + 1 /\ toggles' = 0
  /\ online' = sys
  /\ known' = {v \in Volumes : disk[v] # "none"}
  /\ traced' = {v \in Volumes : disk[v] = "tracing"}
  /\ still' = traced' /\ todo' = traced' /\ gui' = "loading"
  /\ UNCHANGED <<tableVars, engineVars, asked>>

\* Fault: the traced volumes are ticked, and nobody watches them.
QueueNothing(v) ==
  /\ gui = "loading" /\ v \in todo
  /\ todo' = todo \ {v}
  /\ UNCHANGED <<tableVars, listVars, gui, engineVars, toggles, sessions, asked>>

\* The constructor of VolumeModel: what is traced is watched again.
QueueKnown(v) ==
  /\ gui = "loading" /\ v \in todo
  /\ todo' = todo \ {v}
  /\ commands' = Append(commands, <<"add", v>>)
  /\ UNCHANGED <<tableVars, listVars, gui, watched, failed, toggles, sessions, asked>>

\* setData: only volumes of the list have a row to click at.
Toggle(v) ==
  /\ gui = "idle" /\ toggles < MaxToggles
  /\ v \in known \cup online
  /\ toggles' = toggles + 1
  /\ still' = IF v \in still THEN still \ {v} ELSE still \cup {v}
  /\ UNCHANGED <<tableVars, online, known, traced, gui, todo, engineVars, sessions, asked>>

\* clear_changes
Reset ==
  /\ gui = "idle" /\ still' = traced
  /\ UNCHANGED <<tableVars, online, known, traced, gui, todo, engineVars, toggles, sessions, asked>>

Changed == (still \ traced) \cup (traced \ still)

\* Fault: everything ticked is queued again.
ApplyAll ==
  /\ gui = "idle" /\ gui' = "applying"
  /\ todo' = Changed \cup still
  /\ UNCHANGED <<tableVars, listVars, engineVars, toggles, sessions, asked>>

\* apply_changes begins its loop over the list.
Apply ==
  /\ gui = "idle" /\ gui' = "applying"
  /\ todo' = Changed
  /\ UNCHANGED <<tableVars, listVars, engineVars, toggles, sessions, asked>>

\* One turn of the loop.  A removal is not stored.
ApplyAdd(v) ==
  /\ gui = "applying" /\ v \in todo /\ v \in still
  /\ todo' = todo \ {v}
  /\ traced' = traced \cup {v}
  /\ commands' = Append(commands, <<"add", v>>)
  /\ Update(v)
  /\ asked' = asked \cup {v}
  /\ UNCHANGED <<online, known, still, gui, watched, failed, toggles, sessions>>

\* Fault: the bit stays set.
ApplyRemoveKeepsBit(v) ==
  /\ gui = "applying" /\ v \in todo /\ v \notin still
  /\ todo' = todo \ {v}
  /\ commands' = Append(commands, <<"remove", v>>)
  /\ UNCHANGED <<tableVars, listVars, gui, watched, failed, toggles, sessions, asked>>

ApplyRemove(v) ==
  /\ gui = "applying" /\ v \in todo /\ v \notin still
  /\ todo' = todo \ {v}
  /\ traced' = traced \ {v}
  /\ commands' = Append(commands, <<"remove", v>>)
  /\ UNCHANGED <<tableVars, online, known, still, gui, watched, failed, toggles, sessions, asked>>

EndLoop ==
  /\ gui \in {"loading", "applying"} /\ todo = {}
  /\ gui' = "idle"
  /\ UNCHANGED <<tableVars, listVars, todo, engineVars, toggles, sessions, asked>>
-----------------------------------------------------------------------------
\* volpreplet_win32::doit.  After a failure the lock is never free again.  The
\* constructor of the watch witnesses the volume, whether or not it can be read;
\* check() wants a volume that is there, NTFS, with a journal: what the system says
\* of that when the command comes is not known beforehand.
DoAdd(v) ==
  /\ failed = {} /\ commands # <<>> /\ Head(commands) = <<"add", v>>
  /\ commands' = Tail(commands)
  /\ \/ v \in watched /\ failed' = {<<"add", v>>} /\ UNCHANGED <<tableVars, watched>>
     \/ v \notin watched /\ Witness(v) /\ failed' = {<<"add", v>>} /\ UNCHANGED watched
     \/ /\ v \notin watched /\ Witness(v)
        /\ v \in online /\ watched' = watched \cup {v} /\ UNCHANGED failed
  /\ UNCHANGED <<listVars, gui, todo, toggles, sessions, asked>>

DoRemove(v) ==
  /\ failed = {} /\ commands # <<>> /\ Head(commands) = <<"remove", v>>
  /\ commands' = Tail(commands)
  /\ IF v \in watched THEN watched' = watched \ {v} /\ UNCHANGED failed
     ELSE failed' = {<<"remove", v>>} /\ UNCHANGED watched
  /\ UNCHANGED <<tableVars, listVars, gui, todo, toggles, sessions, asked>>

\* The window is closed: from now on the queue is drained.
Close ==
  /\ gui = "idle" /\ gui' = "closing"
  /\ UNCHANGED <<tableVars, listVars, todo, engineVars, toggles, sessions, asked>>

Down ==
  /\ gui' = "down" /\ rows' = disk
  /\ online' = {} /\ known' = {} /\ traced' = {} /\ still' = {} /\ todo' = {}
  /\ commands' = <<>> /\ watched' = {} /\ failed' = {} /\ toggles' = 0
  /\ UNCHANGED <<disk, sessions, asked>>

\* ~Preferences returns; the connection is closed and rolls back what is open.
Exit == gui = "closing" /\ commands = <<>> /\ Down

Crash == gui # "down" /\ Down

\* Disks come and go only between sessions.
Next ==
  \/ \E sys \in SUBSET Volumes : Load(sys)
  \/ \E v \in Volumes :
       \/ QueueKnown(v) \/ Toggle(v) \/ ApplyAdd(v) \/ ApplyRemove(v)
       \/ DoAdd(v) \/ DoRemove(v)
  \/ Reset \/ Apply \/ EndLoop \/ Close \/ Exit \/ Crash \/ Commit

Doit == \E v \in Volumes : DoAdd(v) \/ DoRemove(v)
Loop == EndLoop \/ \E v \in Volumes : QueueKnown(v) \/ ApplyAdd(v) \/ ApplyRemove(v)

\* The GUI thread ends its loops and the worker of the queue takes its commands.
Spec == Init /\ [][Next]_vars /\ WF_vars(Doit) /\ WF_vars(Loop)
-----------------------------------------------------------------------------
Status == {"none", "off", "tracing"}

TypeOK ==
  /\ disk \in [Volumes -> Status] /\ rows \in [Volumes -> Status]
  /\ online \subseteq Volumes /\ known \subseteq Volumes
  /\ traced \subseteq Volumes /\ still \subseteq Volumes /\ todo \subseteq Volumes
  /\ gui \in {"down", "loading", "idle", "applying", "closing"}
  /\ commands \in Seq({"add", "remove"} \X Volumes)
  /\ failed \subseteq ({"add", "remove"} \X Volumes)
  /\ watched \subseteq online /\ asked \subseteq Volumes
  /\ toggles \in 0..MaxToggles /\ sessions \in 0..MaxSessions

\* The bits never ask the engine for what its list of watches refuses: an "add" of
\* a watched volume or a "remove" of an unwatched one, through any order of clicks
\* and commands.  wacthings_lock is lost only to a volume that check() does not
\* pass (volumemodel.cc:141-149, volpreplet_win32.cc:33-38, 48).
NoneRefused == \A c \in failed : c[1] = "add" /\ c[2] \notin watched

\* Position k is the last command for v.
LastFor(v, k) == commands[k][2] = v /\ \A j \in k + 1..Len(commands) : commands[j][2] # v

\* The list shows v as traced, and the GUI's loop has queued what that asks for.
Wanted(v) == v \in traced /\ ~(gui = "loading" /\ v \in todo)

\* When the commands still queued have been done, the engine watches what the
\* list shows as traced, but for what the GUI's loop has still to queue.
EngineFollows ==
  failed = {} =>
    \A v \in Volumes :
      IF \E k \in 1..Len(commands) : commands[k][2] = v
      THEN \A k \in 1..Len(commands) : LastFor(v, k) => (commands[k][1] = "add" <=> Wanted(v))
      ELSE v \in watched <=> Wanted(v)

\* "Continue tracing after exited" (TASKLIST:74-75), for the volumes that were
\* known when the session began: their rows say so as soon as they are traced.
TracedContinues == \A v \in traced \cap known : rows[v] = "tracing"

\* No session watches a volume the user never applied tracing to in any session.
OnlyAsked == watched \cup traced \cup {v \in Volumes : disk[v] = "tracing"} \subseteq asked

\* A volume the list shows as traced is watched in the end, or the user changes
\* that, or the session ends or loses the lock.
TracedGetsWatched ==
  \A v \in Volumes :
    v \in traced ~> v \in watched \/ v \notin traced \/ failed # {} \/ gui \in {"down", "closing"}
=============================================================================
