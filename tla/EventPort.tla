------------------------------ MODULE EventPort ------------------------------
(***************************************************************************)
(* A feedback_port and the eventd that serves it (kernel/feedback.cc,      *)
(* eventd.cc), with logd's file (logd.cc): threads post events into a ring *)
(* that drops its oldest; receivers register through the ring itself; the  *)
(* worker hands every event to every receiver; QUIT stays in the ring.     *)
(*                                                                         *)
(* An event is the number of its printf, sent[n] what it says.  There is   *)
(* one worker, which alone waits for the ring, so next() is one action.    *)
(***************************************************************************)
EXTENDS Integers, Sequences

CONSTANTS Receivers,  \* callbacks with their cookies
          Dump,       \* the one among them that is logd_dump
          Limit,      \* ARRAYLIMIT
          MaxEvents   \* bound: events posted

QUIT == "quit"        \* TASKLET_QUIT
NOTE == "note"        \* any other event id but EVENTD_REG, which is its receiver

ASSUME PortAssumption ==
  /\ Dump \in Receivers /\ {QUIT, NOTE} \cap Receivers = {}
  /\ Limit \in Nat \ {0} /\ MaxEvents \in Nat

VARIABLES
  ring,              \* feedback_port::queue_
  at, cur, left,     \* the worker: "taking", "calling", "dumping", "gone"; its event;
                     \* the callbacks it has still to call
  callbacks,         \* eventd::callbacks_
  asked,             \* receivers that have called register_receiver
  journal, open,     \* logd: the pointer is set; the file is open
  dtor,              \* the destructors: "live", "nulled", "closed", "quitting", "gone"
  sent, taken,       \* history: all events posted; numbers of those taken
  got, written,      \* history: numbers given to each receiver; numbers in the file
  late               \* history: writes to a closed file

workerVars == <<at, cur, left, callbacks, taken, got, written, late>>
logVars == <<journal, open, dtor>>
vars == <<ring, workerVars, asked, logVars, sent>>

Init ==
  /\ ring = <<>> /\ sent = <<>> /\ taken = <<>> /\ written = <<>>
  /\ at = "taking" /\ cur = 0 /\ left = <<>> /\ callbacks = <<>>
  /\ asked = {} /\ got = [r \in Receivers |-> <<>>]
  /\ journal = TRUE /\ open = TRUE /\ dtor = "live" /\ late = 0
-----------------------------------------------------------------------------
\* Fault: one place less.
PutShort(e) ==
  LET full == Append(ring, Len(sent) + 1)
  IN /\ sent' = Append(sent, e)
     /\ ring' = IF Len(full) >= Limit THEN Tail(full) ELSE full

\* printf: push, and pop the oldest if that was one too many.  It returns before that
\* if the text does not fit its buffer (charc < 0): nothing happens then, and the
\* short texts of a registration and of QUIT are not concerned.
Put(e) ==
  LET full == Append(ring, Len(sent) + 1)
  IN /\ sent' = Append(sent, e)
     /\ ring' = IF Len(full) > Limit THEN Tail(full) ELSE full

\* Any thread reports something, before, during or after the destruction.
Printf ==
  /\ Len(sent) < MaxEvents
  /\ Put(NOTE)
  /\ UNCHANGED <<workerVars, asked, logVars>>

Register(r) ==
  /\ dtor = "live" /\ r \notin asked
  /\ Len(sent) < MaxEvents
  /\ asked' = asked \cup {r}
  /\ Put(r)
  /\ UNCHANGED <<workerVars, logVars>>

\* Fault: the callbacks are those of before the registration.
TakeThenRegister ==
  /\ at = "taking" /\ ring # <<>> /\ sent[Head(ring)] # QUIT
  /\ cur' = Head(ring) /\ ring' = Tail(ring)
  /\ taken' = Append(taken, cur')
  /\ callbacks' = IF sent[cur'] \in Receivers THEN Append(callbacks, sent[cur']) ELSE callbacks
  /\ left' = callbacks /\ at' = "calling"
  /\ UNCHANGED <<asked, logVars, sent, got, written, late>>

\* next(), and a registration takes effect before its own event is handed on.
Take ==
  /\ at = "taking" /\ ring # <<>> /\ sent[Head(ring)] # QUIT
  /\ cur' = Head(ring) /\ ring' = Tail(ring)
  /\ taken' = Append(taken, cur')
  /\ callbacks' = IF sent[cur'] \in Receivers THEN Append(callbacks, sent[cur']) ELSE callbacks
  /\ left' = callbacks' /\ at' = "calling"
  /\ UNCHANGED <<asked, logVars, sent, got, written, late>>

\* QUIT is left in the ring, for the next thread that looks.
TakeQuit ==
  /\ at = "taking" /\ ring # <<>> /\ sent[Head(ring)] = QUIT
  /\ at' = "gone"
  /\ UNCHANGED <<ring, cur, left, callbacks, asked, logVars, sent, taken, got, written, late>>

\* Fault: dump does not look at journal.
CallUnchecked ==
  /\ at = "calling" /\ left # <<>>
  /\ got' = [got EXCEPT ![Head(left)] = Append(@, cur)]
  /\ left' = Tail(left)
  /\ at' = IF Head(left) = Dump /\ sent[cur] = NOTE THEN "dumping" ELSE at
  /\ UNCHANGED <<ring, cur, callbacks, asked, logVars, sent, taken, written, late>>

\* A callback.  dump looks at journal; whether it writes is decided here.
Call ==
  /\ at = "calling" /\ left # <<>>
  /\ got' = [got EXCEPT ![Head(left)] = Append(@, cur)]
  /\ left' = Tail(left)
  /\ at' = IF Head(left) = Dump /\ sent[cur] = NOTE /\ journal THEN "dumping" ELSE at
  /\ UNCHANGED <<ring, cur, callbacks, asked, logVars, sent, taken, written, late>>

\* xfprintf, which reads journal again: once the pointer or the file is gone
\* this is undefined; a process that survives it goes on.
Write ==
  /\ at = "dumping"
  /\ at' = "calling"
  /\ IF journal /\ open THEN written' = Append(written, cur) /\ UNCHANGED late
     ELSE late' = late + 1 /\ UNCHANGED written
  /\ UNCHANGED <<ring, cur, left, callbacks, asked, logVars, sent, taken, got>>

NextEvent ==
  /\ at = "calling" /\ left = <<>>
  /\ at' = "taking"
  /\ UNCHANGED <<ring, cur, left, callbacks, asked, logVars, sent, taken, got, written, late>>

Worker == Take \/ TakeQuit \/ Call \/ Write \/ NextEvent

\* Fault: nobody is told.
CloseOnly ==
  /\ dtor = "nulled"
  /\ dtor' = "quitting" /\ open' = FALSE
  /\ UNCHANGED <<ring, workerVars, asked, journal, sent>>

\* ~logd: journal = NULL; fclose.  Then ~eventd: printf(TASKLET_QUIT); join.
SetNull ==
  /\ dtor = "live"
  /\ dtor' = "nulled" /\ journal' = FALSE
  /\ UNCHANGED <<ring, workerVars, asked, open, sent>>

CloseFile ==
  /\ dtor = "nulled"
  /\ dtor' = "closed" /\ open' = FALSE
  /\ UNCHANGED <<ring, workerVars, asked, journal, sent>>

PostQuit ==
  /\ dtor = "closed"
  /\ dtor' = "quitting"
  /\ Put(QUIT)
  /\ UNCHANGED <<workerVars, asked, journal, open>>

Join ==
  /\ dtor = "quitting" /\ at = "gone"
  /\ dtor' = "gone"
  /\ UNCHANGED <<ring, workerVars, asked, journal, open, sent>>

Next ==
  \/ Printf \/ (\E r \in Receivers : Register(r))
  \/ Worker
  \/ SetNull \/ CloseFile \/ PostQuit \/ Join

Fairness == WF_vars(Worker) /\ WF_vars(CloseFile \/ PostQuit \/ Join)

Spec == Init /\ [][Next]_vars /\ Fairness
-----------------------------------------------------------------------------
Numbers == 1..Len(sent)

\* What is neither in the ring nor was taken has been dropped.
Dropped == {n \in 1..(Len(sent) - Len(ring)) : \A k \in 1..Len(taken) : taken[k] # n}

TypeOK ==
  /\ sent \in Seq({QUIT, NOTE} \cup Receivers)
  /\ ring \in Seq(Numbers) /\ Len(ring) <= Limit
  /\ taken \in Seq(Numbers) /\ written \in Seq(Numbers) /\ got \in [Receivers -> Seq(Numbers)]
  /\ at \in {"taking", "calling", "dumping", "gone"} /\ cur \in Numbers \cup {0}
  /\ callbacks \in Seq(Receivers) /\ left \in Seq(Receivers)
  /\ asked \subseteq Receivers /\ journal \in BOOLEAN /\ open \in BOOLEAN
  /\ dtor \in {"live", "nulled", "closed", "quitting", "gone"} /\ late \in Nat

\* The ring is an unbroken run of the youngest events, in the order they were
\* posted, and what was taken before is older (feedback.cc:28-30, 42-46).
InOrder ==
  /\ \A k \in 1..Len(ring) : ring[k] = Len(sent) - Len(ring) + k
  /\ \A j, k \in 1..Len(taken) : j < k => taken[j] < taken[k]
  /\ \A k \in 1..Len(taken) : taken[k] <= Len(sent) - Len(ring)

\* No event is lost before Limit younger ones have been posted (feedback.cc:29).
LostAfterLimit == \A n \in Dropped : n + Limit <= Len(sent)

\* Whoever is registered gets every event that is taken, its own registration
\* first, in order and once: what it got ends where the worker is (eventd.cc:25-37).
Heard ==
  \A r \in Receivers :
    LET due == Len(taken) - (IF \E k \in 1..Len(left) : left[k] = r THEN 1 ELSE 0)
        n == Len(got[r])
    IN /\ got[r] = SubSeq(taken, due - n + 1, due)
       /\ n > 0 => sent[got[r][1]] = r
       /\ r \in {callbacks[k] : k \in 1..Len(callbacks)} =>
            n > 0 \/ \E k \in 1..Len(left) : left[k] = r

\* The look at journal protects the file but for the one message that is in
\* dump when ~logd begins (logd.cc:27-29, 36-37).
OneLateWrite == late + (IF at = "dumping" /\ ~journal THEN 1 ELSE 0) <= 1

\* One QUIT ends the worker ("makes one TASKLET_QUIT event exits all the
\* threads", feedback.cc:43) unless it was itself dropped from a full ring.
DestructorReturns ==
  dtor = "quitting" ~> dtor = "gone" \/ \E n \in Dropped : sent[n] = QUIT

\* A receiver that asked will be called, or its registration was dropped, or
\* QUIT came first (eventd.cc:41).
GetsRegistered ==
  \A r \in Receivers :
    r \in asked ~> \/ got[r] # <<>> \/ at = "gone"
                   \/ \E n \in Dropped : sent[n] = r
=============================================================================
