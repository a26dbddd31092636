--------------------------- MODULE TaskletService ---------------------------
(***************************************************************************)
(* What a tasklet queue promises to the code that uses it, with no lock,   *)
(* no condition variable and no thread in sight: tasklets are started in   *)
(* the order in which they were handed over, each exactly once, and the    *)
(* service closes only when every tasklet handed over has been started and *)
(* has returned.                                                           *)
(***************************************************************************)
EXTENDS Sequences

CONSTANT Tasklets          \* the tasklet objects a client may ever create

VARIABLES pending,         \* handed over, not started (FIFO)
          started,         \* started, in the order of their start
          finished,        \* doit() has returned
          phase            \* "open", "closing" or "closed"

svars == <<pending, started, finished, phase>>

Known == {pending[i] : i \in DOMAIN pending}
         \cup {started[i] : i \in DOMAIN started}

SInit ==
  /\ pending = <<>>
  /\ started = <<>>
  /\ finished = {}
  /\ phase = "open"

\* A client hands over a new tasklet; nobody does so once the service closes.
Submit ==
  /\ phase = "open"
  /\ \E x \in Tasklets \ Known : pending' = Append(pending, x)
  /\ UNCHANGED <<started, finished, phase>>

Start ==
  /\ pending # <<>>
  /\ started' = Append(started, Head(pending))
  /\ pending' = Tail(pending)
  /\ UNCHANGED <<finished, phase>>

Finish ==
  /\ \E i \in DOMAIN started :
       /\ started[i] \notin finished
       /\ finished' = finished \cup {started[i]}
  /\ UNCHANGED <<pending, started, phase>>

BeginClose ==
  /\ phase = "open"
  /\ phase' = "closing"
  /\ UNCHANGED <<pending, started, finished>>

EndClose ==
  /\ phase = "closing"
  /\ pending = <<>>
  /\ finished = Known
  /\ phase' = "closed"
  /\ UNCHANGED <<pending, started, finished>>

SNext == Submit \/ Start \/ Finish \/ BeginClose \/ EndClose

\* Whatever was handed over is worked off, and closing comes to an end.
SFairness == WF_svars(Start) /\ WF_svars(Finish) /\ WF_svars(EndClose)

SSpec == SInit /\ [][SNext]_svars /\ SFairness
=============================================================================
