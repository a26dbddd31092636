---------------------------- MODULE QueueProofs -----------------------------
(***************************************************************************)
(* Proofs about the two queues that hand work from one thread to another:  *)
(* TaskletQueue, for any set of tasklets, of enqueuing threads and of      *)
(* workers, and SearchService, whose three-buffer hand-over is safe        *)
(* however many texts are typed and however threads and events interleave. *)
(***************************************************************************)
EXTENDS TaskletQueue, SearchService, SequenceTheorems, TLAPS

\* The NULL tasklet is in the queue from the moment the destructor runs, and
\* it is the last element.
QuitLast ==
  /\ dtor # "open" => evid_queue # <<>>
  /\ \A i \in 1..Len(evid_queue) :
        evid_queue[i] = QUIT <=> (dtor # "open" /\ i = Len(evid_queue))

\* Nothing is enqueued twice.
PushedOnce == \A i, j \in 1..Len(pushed) : pushed[i] = pushed[j] => i = j

\* A worker has a tasklet in hand exactly while it is inside doit(), the
\* tasklet was taken from the queue and nobody has deleted it yet.
InHand ==
  \A w \in Workers :
    /\ let[w] # NONE <=> at[w] = "running"
    /\ let[w] # NONE => let[w] \in RangeOf(taken) \ finished

\* A tasklet that was taken is being run or has been run.
Accounted ==
  /\ finished \subseteq RangeOf(taken)
  /\ \A x \in RangeOf(taken) : x \in finished \/ \E w \in Workers : let[w] = x

\* A worker returns only when the NULL tasklet is all that is left.
ReturnedLast ==
  \A w \in Workers : at[w] = "returned" => dtor # "open" /\ Len(evid_queue) = 1

\* The destructor returns only after every worker has.
DestroyedLast == dtor = "destroyed" => \A w \in Workers : at[w] = "returned"

IInv ==
  /\ TypeOK
  /\ Conservation
  /\ QuitLast
  /\ PushedOnce
  /\ InHand
  /\ SingleOwner
  /\ Accounted
  /\ ReturnedLast
  /\ DestroyedLast
-----------------------------------------------------------------------------
\* A tasklet in hand: what makes the type invariant inductive.
Handed == \A w \in Workers : at[w] = "running" => let[w] # NONE

LEMMA TypeInit == Init => TypeOK /\ Handed
BY DEF Init, TypeOK, Where, Handed

LEMMA TypeStep == TypeOK /\ Handed /\ [Next]_vars => TypeOK' /\ Handed'
<1> SUFFICES ASSUME TypeOK, Handed, [Next]_vars PROVE TypeOK' /\ Handed'
  OBVIOUS
<1> USE DEF TypeOK, Where, Callers, NONE, Handed
<1>1. ASSUME NEW c \in Clients, Enqueue(c) PROVE TypeOK' /\ Handed'
  BY <1>1 DEF Enqueue, Push
<1>2. ASSUME NEW c \in Callers, Notify(c) PROVE TypeOK' /\ Handed'
  BY <1>2 DEF Notify
<1>3. ASSUME NEW w \in Workers, WorkerStep(w) PROVE TypeOK' /\ Handed'
  <2>1. CASE Begin(w) \/ Sleep(w) \/ SpuriousWakeup(w) \/ Quit(w)
    BY <2>1 DEF Begin, Sleep, SpuriousWakeup, Quit
  <2>2. CASE Take(w)
    <3>1. /\ Head(evid_queue) \in Tasklets
          /\ Tail(evid_queue) \in Seq(Tasklets \cup {QUIT})
      BY <2>2 DEF Take, Start
    <3>2. QED
      BY <2>2, <3>1, SentinelAssumption DEF Take, Start
  <2>3. CASE Finish(w)
    BY <2>3 DEF Finish
  <2>4. QED
    BY <1>3, <2>1, <2>2, <2>3 DEF WorkerStep
<1>4. CASE DtorEnqueue
  BY <1>4 DEF DtorEnqueue, Push
<1>5. CASE DtorWait
  BY <1>5 DEF DtorWait
<1>6. CASE UNCHANGED vars
  BY <1>6 DEF vars
<1>7. QED
  BY <1>1, <1>2, <1>3, <1>4, <1>5, <1>6 DEF Next

\* The variables of the model keep the types the code declares: in particular
\* a worker never calls doit() through the NULL tasklet.
THEOREM TypeCorrect == SafetySpec => []TypeOK
BY TypeInit, TypeStep, PTL DEF SafetySpec
-----------------------------------------------------------------------------
\* What popping does to the queue and its history.
LEMMA MoveHead ==
  ASSUME NEW S, NEW t \in Seq(S), NEW q \in Seq(S), q # <<>>
  PROVE  t \o q = Append(t, Head(q)) \o Tail(q)
OBVIOUS

LEMMA RangeAppend ==
  ASSUME NEW S, NEW s \in Seq(S), NEW x \in S
  PROVE  RangeOf(Append(s, x)) = RangeOf(s) \cup {x}
<1>1. DOMAIN Append(s, x) = DOMAIN s \cup {Len(s) + 1}
  OBVIOUS
<1>2. \A i \in DOMAIN s : Append(s, x)[i] = s[i]
  OBVIOUS
<1>3. Append(s, x)[Len(s) + 1] = x
  OBVIOUS
<1>4. Len(s) + 1 \notin DOMAIN s
  OBVIOUS
<1>5. QED
  BY <1>1, <1>2, <1>3, <1>4 DEF RangeOf

\* Pushing keeps the history, the place of the NULL tasklet and uniqueness.
LEMMA PushStep ==
  ASSUME TypeOK, Conservation, QuitLast, PushedOnce, dtor = "open",
         NEW c \in Callers, NEW x \in Tasklets \cup {QUIT}, Push(c, x),
         x \notin RangeOf(pushed),
         dtor' = "open" <=> x # QUIT
  PROVE  Conservation' /\ QuitLast' /\ PushedOnce'
<1>1. Conservation'
  <2> DEFINE S == Tasklets \cup {QUIT}
  <2>1. taken \in Seq(S) /\ evid_queue \in Seq(S) /\ x \in S
    BY DEF TypeOK
  <2> HIDE DEF S
  <2>2. Append(taken \o evid_queue, x) = taken \o Append(evid_queue, x)
    BY <2>1
  <2>3. QED
    BY <2>2 DEF Push, Conservation
<1>2. QuitLast'
  BY DEF Push, QuitLast, TypeOK
<1>3. PushedOnce'
  BY DEF Push, PushedOnce, RangeOf, TypeOK
<1>4. QED
  BY <1>1, <1>2, <1>3

\* While the queue is open the NULL tasklet has not been pushed.
LEMMA NoQuitYet ==
  ASSUME TypeOK, Conservation, QuitLast, dtor = "open"
  PROVE  QUIT \notin RangeOf(pushed)
<1> SUFFICES ASSUME NEW i \in 1..Len(pushed), pushed[i] = QUIT PROVE FALSE
  BY DEF TypeOK, RangeOf
<1>1. CASE i <= Len(taken)
  BY <1>1, SentinelAssumption DEF TypeOK, Conservation
<1>2. CASE i > Len(taken)
  <2>1. i - Len(taken) \in 1..Len(evid_queue) /\ evid_queue[i - Len(taken)] = pushed[i]
    BY <1>2 DEF TypeOK, Conservation
  <2>2. QED
    BY <2>1 DEF QuitLast
<1>3. QED
  BY <1>1, <1>2 DEF TypeOK

\* A queued tasklet has not been taken: it sits at another place of pushed.
LEMMA QueuedNotTaken ==
  ASSUME TypeOK, Conservation, PushedOnce, evid_queue # <<>>
  PROVE  Head(evid_queue) \notin RangeOf(taken)
<1> SUFFICES ASSUME NEW i \in 1..Len(taken), taken[i] = Head(evid_queue) PROVE FALSE
  BY DEF TypeOK, RangeOf
<1>1. pushed[i] = taken[i] /\ i \in 1..Len(pushed)
  BY DEF TypeOK, Conservation
<1>2. /\ pushed[Len(taken) + 1] = Head(evid_queue)
      /\ Len(taken) + 1 \in 1..Len(pushed)
  BY DEF TypeOK, Conservation
<1>3. i # Len(taken) + 1
  BY DEF TypeOK
<1>4. QED
  BY <1>1, <1>2, <1>3 DEF PushedOnce

\* A worker that takes the front of the queue.
LEMMA TakeStep ==
  ASSUME IInv, NEW w \in Workers, Take(w)
  PROVE  Conservation' /\ QuitLast' /\ PushedOnce' /\ InHand' /\ SingleOwner'
         /\ Accounted' /\ ReturnedLast' /\ DestroyedLast'
<1> DEFINE x == Head(evid_queue)
<1>a. /\ TypeOK /\ Conservation /\ QuitLast /\ PushedOnce /\ InHand
      /\ SingleOwner /\ Accounted /\ ReturnedLast /\ DestroyedLast
  BY DEF IInv
<1>b. /\ evid_queue # <<>> /\ x # QUIT /\ x \in Tasklets
      /\ at[w] = "ready"
      /\ evid_queue' = Tail(evid_queue)
      /\ taken' = Append(taken, x)
      /\ let' = [let EXCEPT ![w] = x]
      /\ at' = [at EXCEPT ![w] = "running"]
      /\ UNCHANGED <<notifying, dtor, pushed, finished>>
  BY <1>a DEF Take, Start, TypeOK
<1>c. x \notin RangeOf(taken)
  BY <1>a, <1>b, QueuedNotTaken
<1>d. RangeOf(taken') = RangeOf(taken) \cup {x}
  <2>1. taken \in Seq(Tasklets) /\ x \in Tasklets
    BY <1>a, <1>b DEF TypeOK
  <2>2. RangeOf(Append(taken, x)) = RangeOf(taken) \cup {x}
    BY <2>1, RangeAppend
  <2>3. QED
    BY <1>b, <2>2
<1>1. Conservation'
  <2>1. /\ taken \in Seq(Tasklets \cup {QUIT})
        /\ evid_queue \in Seq(Tasklets \cup {QUIT})
    BY <1>a DEF TypeOK
  <2>2. taken \o evid_queue = Append(taken, x) \o Tail(evid_queue)
    BY <1>b, <2>1, MoveHead
  <2>3. QED
    BY <1>a, <1>b, <2>2 DEF Conservation
<1>2. QuitLast'
  BY <1>a, <1>b DEF QuitLast, TypeOK
<1>3. PushedOnce'
  BY <1>a, <1>b DEF PushedOnce
<1>4. InHand'
  BY <1>a, <1>b, <1>c, <1>d DEF InHand, TypeOK, NONE, Accounted
<1>5. SingleOwner'
  BY <1>a, <1>b, <1>c DEF InHand, SingleOwner, TypeOK, NONE, Accounted
<1>6. Accounted'
  <2>1. finished' \subseteq RangeOf(taken')
    BY <1>a, <1>b, <1>d DEF Accounted
  <2>2. ASSUME NEW y \in RangeOf(taken')
        PROVE  y \in finished' \/ \E v \in Workers : let'[v] = y
    <3>1. CASE y = x
      BY <1>a, <1>b, <3>1 DEF TypeOK
    <3>2. CASE y \in RangeOf(taken) /\ y \notin finished
      <4>1. PICK v \in Workers : let[v] = y
        BY <1>a, <3>2 DEF Accounted
      <4>2. y # QUIT
        BY <1>a, <3>2, SentinelAssumption DEF TypeOK, RangeOf
      <4>3. v # w
        BY <1>a, <1>b, <4>1, <4>2 DEF InHand, NONE
      <4>4. QED
        BY <1>a, <1>b, <4>1, <4>3 DEF TypeOK
    <3>3. QED
      BY <1>b, <1>d, <2>2, <3>1, <3>2
  <2>3. QED
    BY <2>1, <2>2 DEF Accounted
<1>7. ReturnedLast'
  <2>1. \A v \in Workers : at[v] # "returned"
    BY <1>a, <1>b DEF ReturnedLast, QuitLast, TypeOK
  <2>2. QED
    BY <1>a, <1>b, <2>1 DEF ReturnedLast, TypeOK
<1>8. DestroyedLast'
  BY <1>a, <1>b DEF DestroyedLast, TypeOK
<1>9. QED
  BY <1>1, <1>2, <1>3, <1>4, <1>5, <1>6, <1>7, <1>8

LEMMA IInvInit == Init => IInv
BY DEF Init, IInv, TypeOK, Where, Conservation, QuitLast, PushedOnce, InHand, SingleOwner,
   Accounted, ReturnedLast, DestroyedLast, RangeOf, NONE

LEMMA IInvStep == IInv /\ [Next]_vars => IInv'
<1> SUFFICES ASSUME IInv, [Next]_vars PROVE IInv'
  OBVIOUS
<1>t. TypeOK'
  <2>1. Handed
    BY DEF IInv, InHand, Handed
  <2>2. QED
    BY <2>1, TypeStep DEF IInv
<1>a. /\ TypeOK /\ Conservation /\ QuitLast /\ PushedOnce /\ InHand
      /\ SingleOwner /\ Accounted /\ ReturnedLast /\ DestroyedLast
  BY DEF IInv
<1>1. ASSUME NEW c \in Clients, Enqueue(c) PROVE IInv'
  <2>1. PICK x \in Tasklets \ RangeOf(pushed) : Push(c, x)
    BY <1>1 DEF Enqueue
  <2>2. Conservation' /\ QuitLast' /\ PushedOnce'
    BY <1>1, <1>a, <2>1, PushStep, SentinelAssumption DEF Enqueue, Callers
  <2>3. InHand' /\ SingleOwner' /\ Accounted'
    BY <1>a, <2>1 DEF Push, InHand, SingleOwner, Accounted, RangeOf, NONE
  <2>4. ReturnedLast' /\ DestroyedLast'
    BY <1>1, <1>a, <2>1 DEF Enqueue, Push, ReturnedLast, DestroyedLast
  <2>5. QED
    BY <1>t, <2>2, <2>3, <2>4 DEF IInv
<1>2. CASE DtorEnqueue
  <2>1. QUIT \notin RangeOf(pushed)
    BY <1>2, <1>a, NoQuitYet DEF DtorEnqueue
  <2>2. Conservation' /\ QuitLast' /\ PushedOnce'
    BY <1>2, <1>a, <2>1, PushStep DEF DtorEnqueue, Callers
  <2>3. InHand' /\ SingleOwner' /\ Accounted'
    BY <1>2, <1>a DEF DtorEnqueue, Push, InHand, SingleOwner, Accounted, RangeOf, NONE
  <2>4. ReturnedLast' /\ DestroyedLast'
    BY <1>2, <1>a DEF DtorEnqueue, Push, ReturnedLast, DestroyedLast
  <2>5. QED
    BY <1>t, <2>2, <2>3, <2>4 DEF IInv
<1>3. ASSUME NEW w \in Workers, Take(w) PROVE IInv'
  BY <1>t, <1>3, TakeStep DEF IInv
<1>4. ASSUME NEW w \in Workers, Finish(w) PROVE IInv'
  <2>1. Conservation' /\ QuitLast' /\ PushedOnce'
    BY <1>4, <1>a DEF Finish, Conservation, QuitLast, PushedOnce
  <2>2. InHand' /\ SingleOwner' /\ Accounted'
    <3>1. let[w] # NONE /\ let[w] \in RangeOf(taken) \ finished
      BY <1>4, <1>a DEF Finish, InHand
    <3>2. \A v \in Workers \ {w} : let[v] # let[w]
      BY <3>1, <1>a DEF SingleOwner
    <3>3. /\ finished' = finished \cup {let[w]} /\ UNCHANGED taken
          /\ let' = [let EXCEPT ![w] = NONE] /\ at' = [at EXCEPT ![w] = "ready"]
      BY <1>4 DEF Finish
    <3>4. UNCHANGED RangeOf(taken)
      BY <3>3 DEF RangeOf
    <3>5. InHand' /\ SingleOwner'
      BY <1>a, <3>1, <3>2, <3>3, <3>4 DEF InHand, SingleOwner, TypeOK
    <3>6. \A y \in RangeOf(taken) \ finished' : \E v \in Workers : let'[v] = y
      BY <1>a, <3>1, <3>2, <3>3 DEF Accounted, TypeOK
    <3>7. Accounted'
      BY <1>a, <3>1, <3>3, <3>4, <3>6 DEF Accounted
    <3>8. QED
      BY <3>5, <3>7
  <2>3. ReturnedLast' /\ DestroyedLast'
    BY <1>4, <1>a DEF Finish, ReturnedLast, DestroyedLast, TypeOK
  <2>4. QED
    BY <1>t, <2>1, <2>2, <2>3 DEF IInv
<1>5. ASSUME NEW w \in Workers, Quit(w) PROVE IInv'
  <2>1. Conservation' /\ QuitLast' /\ PushedOnce'
    BY <1>5, <1>a DEF Quit, Conservation, QuitLast, PushedOnce
  <2>2. InHand' /\ SingleOwner' /\ Accounted'
    BY <1>5, <1>a DEF Quit, InHand, SingleOwner, Accounted, TypeOK, NONE, RangeOf
  <2>3. dtor # "open" /\ Len(evid_queue) = 1
    <3>1. evid_queue # <<>> /\ Head(evid_queue) = QUIT
      BY <1>5 DEF Quit
    <3>2. 1 \in 1..Len(evid_queue) /\ evid_queue[1] = QUIT
      BY <1>a, <3>1 DEF TypeOK
    <3>3. QED
      BY <1>a, <3>2 DEF QuitLast
  <2>4. ReturnedLast' /\ DestroyedLast'
    BY <1>5, <1>a, <2>3 DEF Quit, ReturnedLast, DestroyedLast, TypeOK
  <2>5. QED
    BY <1>t, <2>1, <2>2, <2>4 DEF IInv
<1>6. ASSUME NEW w \in Workers, Begin(w) \/ Sleep(w) \/ SpuriousWakeup(w) PROVE IInv'
  <2>1. UNCHANGED <<evid_queue, let, dtor, pushed, taken, finished>>
    BY <1>6 DEF Begin, Sleep, SpuriousWakeup
  <2>2. \E p \in {"ready", "asleep"} : at' = [at EXCEPT ![w] = p]
    BY <1>6 DEF Begin, Sleep, SpuriousWakeup
  <2>3. at[w] \notin {"running", "returned"}
    BY <1>6 DEF Begin, Sleep, SpuriousWakeup
  <2>4. QED
    BY <1>t, <1>a, <2>1, <2>2, <2>3 DEF IInv, TypeOK, Conservation, QuitLast, PushedOnce,
       InHand, SingleOwner, Accounted, ReturnedLast, DestroyedLast, RangeOf, NONE
<1>7. ASSUME NEW c \in Callers, Notify(c) PROVE IInv'
  <2>1. UNCHANGED <<evid_queue, let, dtor, pushed, taken, finished>>
    BY <1>7 DEF Notify
  <2>2. \/ at' = at
        \/ \E w \in Workers : at[w] = "asleep" /\ at' = [at EXCEPT ![w] = "ready"]
    BY <1>7 DEF Notify
  <2>3. QED
    BY <1>t, <1>a, <2>1, <2>2 DEF IInv, TypeOK, Conservation, QuitLast, PushedOnce, InHand,
       SingleOwner, Accounted, ReturnedLast, DestroyedLast, RangeOf, NONE
<1>8. CASE DtorWait
  BY <1>t, <1>a, <1>8 DEF DtorWait, IInv, Conservation, QuitLast, PushedOnce, InHand,
     SingleOwner, Accounted, ReturnedLast, DestroyedLast, RangeOf, NONE
<1>9. CASE UNCHANGED vars
  BY <1>t, <1>a, <1>9 DEF vars, IInv, Conservation, QuitLast, PushedOnce, InHand, SingleOwner,
     Accounted, ReturnedLast, DestroyedLast, RangeOf, NONE
<1>10. QED
  BY <1>1, <1>2, <1>3, <1>4, <1>5, <1>6, <1>7, <1>8, <1>9 DEF Next, WorkerStep

LEMMA Invariance == SafetySpec => []IInv
BY IInvInit, IInvStep, PTL DEF SafetySpec

\* No tasklet is lost, duplicated or overtaken, whatever the threads do.
THEOREM ConservationHolds == SafetySpec => []Conservation
<1>1. IInv => Conservation
  BY DEF IInv
<1>2. QED
  BY <1>1, Invariance, PTL

\* A tasklet is never run by two workers and never used after its deletion.
THEOREM SingleOwnerHolds == SafetySpec => []SingleOwner
<1>1. IInv => SingleOwner
  BY DEF IInv
<1>2. QED
  BY <1>1, Invariance, PTL

\* Destroying the queue drains it: every tasklet has run, every worker is out.
THEOREM DestructionDrains == SafetySpec => []DrainedAtClose
<1>1. IInv => DrainedAtClose
  <2> SUFFICES ASSUME IInv, dtor = "destroyed"
               PROVE  /\ finished = RangeOf(pushed) \ {QUIT}
                      /\ \A w \in Workers : at[w] = "returned"
    BY DEF DrainedAtClose
  <2> USE DEF TypeOK
  <2>1. \A w \in Workers : at[w] = "returned" /\ let[w] = NONE
    BY DEF IInv, DestroyedLast, InHand
  <2>2. Len(evid_queue) = 1 /\ Head(evid_queue) = QUIT
    BY <2>1, ThreadAssumption DEF IInv, ReturnedLast, QuitLast
  <2>3. pushed = Append(taken, QUIT)
    <3>1. evid_queue = <<QUIT>>
      BY <2>2 DEF IInv
    <3>2. QED
      BY <3>1 DEF IInv, Conservation
  <2>4. RangeOf(pushed) = RangeOf(taken) \cup {QUIT}
    <3>1. taken \in Seq(Tasklets \cup {QUIT})
      BY DEF IInv
    <3>2. QED
      BY <2>3, <3>1, RangeAppend
  <2>5. QUIT \notin RangeOf(taken)
    BY SentinelAssumption DEF IInv, RangeOf
  <2>6. RangeOf(taken) = finished
    BY <2>1, SentinelAssumption DEF IInv, Accounted, NONE, RangeOf
  <2>7. QED
    BY <2>1, <2>4, <2>5, <2>6
<1>2. QED
  BY <1>1, Invariance, PTL
-----------------------------------------------------------------------------
\* Refinement.  Pending is what the service has for "pending".
Pending == IF dtor = "open" THEN evid_queue
           ELSE SubSeq(evid_queue, 1, Len(evid_queue) - 1)

LEMMA TailOfFront ==
  ASSUME NEW S, NEW q \in Seq(S), Len(q) > 1
  PROVE  LET ahead == SubSeq(q, 1, Len(q) - 1)
         IN /\ ahead # <<>> /\ Head(ahead) = Head(q)
            /\ SubSeq(Tail(q), 1, Len(Tail(q)) - 1) = Tail(ahead)
<1> DEFINE ahead == SubSeq(q, 1, Len(q) - 1)
           rest == SubSeq(Tail(q), 1, Len(Tail(q)) - 1)
<1>1. ahead \in Seq(S) /\ Len(ahead) = Len(q) - 1 /\ \A i \in 1..Len(ahead) : ahead[i] = q[i]
  OBVIOUS
<1>2. Tail(q) \in Seq(S) /\ Len(Tail(q)) = Len(q) - 1
      /\ \A i \in 1..Len(q) - 1 : Tail(q)[i] = q[i + 1]
  OBVIOUS
<1>3. rest \in Seq(S) /\ Len(rest) = Len(q) - 2 /\ \A i \in 1..Len(q) - 2 : rest[i] = q[i + 1]
  BY <1>2
<1>4. Tail(ahead) \in Seq(S) /\ Len(Tail(ahead)) = Len(q) - 2
      /\ \A i \in 1..Len(q) - 2 : Tail(ahead)[i] = q[i + 1]
  <2> HIDE DEF ahead
  <2>1. ahead # <<>> /\ Len(ahead) > 0
    BY <1>1
  <2>2. Tail(ahead) \in Seq(S) /\ Len(Tail(ahead)) = Len(ahead) - 1
        /\ \A i \in 1..Len(ahead) - 1 : Tail(ahead)[i] = ahead[i + 1]
    BY <1>1, <2>1
  <2>3. QED
    BY <1>1, <2>2
<1>5. rest = Tail(ahead)
  <2> HIDE DEF rest, ahead
  <2>1. Len(rest) = Len(Tail(ahead)) /\ \A i \in 1..Len(rest) : rest[i] = Tail(ahead)[i]
    BY <1>3, <1>4
  <2>2. QED
    BY <1>3, <1>4, <2>1, SeqEqual
<1>6. ahead # <<>> /\ Head(ahead) = Head(q)
  <2> HIDE DEF ahead
  <2>1. QED
    BY <1>1
<1>7. QED
  BY <1>5, <1>6

LEMMA FrontOfAppend ==
  ASSUME NEW S, NEW q \in Seq(S), NEW x \in S
  PROVE  SubSeq(Append(q, x), 1, Len(Append(q, x)) - 1) = q
OBVIOUS

\* What is pending has been pushed; so has what was taken.
LEMMA KnownPushed ==
  ASSUME TypeOK, Conservation
  PROVE  Service!Known \subseteq RangeOf(pushed)
<1>1. \A i \in DOMAIN Pending : i \in DOMAIN evid_queue /\ Pending[i] = evid_queue[i]
  BY DEF Pending, TypeOK
<1>2. \A i \in DOMAIN evid_queue :
        Len(taken) + i \in DOMAIN pushed /\ pushed[Len(taken) + i] = evid_queue[i]
  BY DEF TypeOK, Conservation
<1>3. \A i \in DOMAIN taken : i \in DOMAIN pushed /\ pushed[i] = taken[i]
  BY DEF TypeOK, Conservation
<1>4. QED
  BY <1>1, <1>2, <1>3 DEF Service!Known, Pending, RangeOf

LEMMA RefinementStep ==
  ASSUME IInv, [Next]_vars
  PROVE  [Service!SNext]_(Service!svars)
<1>a. /\ TypeOK /\ Conservation /\ QuitLast /\ InHand /\ Accounted /\ ReturnedLast
  BY DEF IInv
<1> USE DEF Service!SNext, Service!svars
<1>1. ASSUME NEW c \in Clients, Enqueue(c) PROVE Service!Submit
  <2>1. PICK x \in Tasklets \ RangeOf(pushed) : Push(c, x)
    BY <1>1 DEF Enqueue
  <2>2. x \in Tasklets \ Service!Known
    BY <1>a, <2>1, KnownPushed
  <2>3. QED
    BY <1>1, <2>1, <2>2 DEF Enqueue, Push, Service!Submit
<1>2. CASE DtorEnqueue
  <2>1. /\ dtor = "open" /\ dtor' = "waiting" /\ evid_queue' = Append(evid_queue, QUIT)
        /\ UNCHANGED <<taken, finished>>
    BY <1>2 DEF DtorEnqueue, Push
  <2>2. SubSeq(evid_queue', 1, Len(evid_queue') - 1) = evid_queue
    <3>1. evid_queue \in Seq(Tasklets \cup {QUIT})
      BY <1>a DEF TypeOK
    <3>2. QED
      BY <2>1, <3>1, FrontOfAppend
  <2>3. Service!BeginClose
    BY <2>1, <2>2 DEF Service!BeginClose
  <2>4. QED
    BY <2>3
<1>3. ASSUME NEW w \in Workers, Take(w) PROVE Service!Start
  <2>1. /\ evid_queue # <<>> /\ Head(evid_queue) # QUIT
        /\ evid_queue' = Tail(evid_queue)
        /\ taken' = Append(taken, Head(evid_queue))
        /\ UNCHANGED <<dtor, finished>>
    BY <1>3 DEF Take, Start
  <2>2. CASE dtor = "open"
    BY <2>1, <2>2 DEF Service!Start
  <2>3. CASE dtor # "open"
    <3>1. evid_queue \in Seq(Tasklets \cup {QUIT}) /\ Len(evid_queue) > 1
      BY <1>a, <2>1, <2>3 DEF TypeOK, QuitLast
    <3>2. LET ahead == SubSeq(evid_queue, 1, Len(evid_queue) - 1)
          IN /\ ahead # <<>> /\ Head(ahead) = Head(evid_queue)
             /\ SubSeq(evid_queue', 1, Len(evid_queue') - 1) = Tail(ahead)
      BY <2>1, <3>1, TailOfFront
    <3>3. QED
      BY <2>1, <2>3, <3>2 DEF Service!Start
  <2>4. QED
    BY <2>2, <2>3
<1>4. ASSUME NEW w \in Workers, Finish(w) PROVE Service!Finish
  <2>1. let[w] \in RangeOf(taken) /\ let[w] \notin finished
    BY <1>a, <1>4 DEF Finish, InHand
  <2>2. QED
    BY <1>4, <2>1 DEF Finish, RangeOf, Service!Finish
<1>5. CASE DtorWait
  <2>1. /\ dtor = "waiting" /\ dtor' = "destroyed"
        /\ \A w \in Workers : at[w] = "returned"
        /\ UNCHANGED <<evid_queue, taken, finished>>
    BY <1>5 DEF DtorWait
  <2>2. Len(evid_queue) = 1
    BY <1>a, <2>1, ThreadAssumption DEF ReturnedLast
  <2>3. SubSeq(evid_queue, 1, Len(evid_queue) - 1) = <<>>
    BY <1>a, <2>2 DEF TypeOK
  <2>4. finished = RangeOf(taken)
    BY <1>a, <2>1, SentinelAssumption DEF Accounted, InHand, TypeOK, RangeOf, NONE
  <2>5. Service!Known = RangeOf(taken)
    BY <2>1, <2>3 DEF Service!Known, RangeOf
  <2>6. Service!EndClose
    BY <2>1, <2>3, <2>4, <2>5 DEF Service!EndClose
  <2>7. QED
    BY <2>6
<1>6. ASSUME \/ \E c \in Callers : Notify(c)
             \/ \E w \in Workers : Begin(w) \/ Sleep(w) \/ SpuriousWakeup(w) \/ Quit(w)
             \/ UNCHANGED vars
      PROVE  UNCHANGED Service!svars
  <2>1. UNCHANGED <<evid_queue, dtor, taken, finished>>
    BY <1>6 DEF Notify, Begin, Sleep, SpuriousWakeup, Quit, vars
  <2>2. QED
    BY <2>1
<1>7. QED
  BY <1>1, <1>2, <1>3, <1>4, <1>5, <1>6 DEF Next, WorkerStep

\* The queue implements the service it offers, as far as safety goes: what
\* clients see of locks, wakeups, threads and the NULL tasklet is a FIFO that
\* closes when it is empty.
THEOREM QueueRefinesService == SafetySpec => Service!SInit /\ [][Service!SNext]_(Service!svars)
<1>1. Init => Service!SInit
  BY DEF Init, Service!SInit
<1>2. QED
  BY <1>1, RefinementStep, Invariance, PTL DEF SafetySpec
-----------------------------------------------------------------------------
(***************************************************************************)
(* SearchService.                                                          *)
(***************************************************************************)
\* The three pointers always point to three buffers, and only the worker's
\* own one may be half full.
Apart == front # read /\ front # reading /\ read # reading
WholeApart == \A b \in Buffers : b # reading \/ place # "filling" => contents[b].whole

\* While the service is up: the newest text is the last one queued, and no
\* buffer is newer than the text being searched for.
Fresh ==
  gui = "running" =>
    /\ task_queue # <<>> => task_queue[Len(task_queue)] = posted
    /\ place = "draining" => task_queue # <<>>
    /\ search_req <= posted
    /\ \A b \in Buffers : contents[b].text <= search_req
    /\ place = "filling" => contents[reading].text = search_req

\* A queue about to be drained is not empty.
Drainable == place = "draining" => task_queue # <<>>

SearchIInv == SearchTypeOK /\ Apart /\ WholeApart /\ Fresh /\ Drainable /\ NewestKept
-----------------------------------------------------------------------------
LEMMA SearchIInvInit ==
  ASSUME SearchInit
  PROVE  SearchIInv
<1>1. SearchTypeOK
  <2>1. 0 \in 0..MaxPosts
    BY BoundAssumption
  <2>2. contents \in [Buffers -> Result]
    BY <2>1 DEF SearchInit, Result
  <2>3. task_queue \in Seq(0..MaxPosts)
    BY DEF SearchInit
  <2>4. front \in Buffers /\ read \in Buffers /\ reading \in Buffers
    BY DEF SearchInit, Buffers
  <2>5. QED
    BY <2>1, <2>2, <2>3, <2>4 DEF SearchInit, SearchTypeOK, Places, GuiPlace,
       STOP
<1>2. Apart /\ WholeApart /\ Drainable
  BY DEF SearchInit, Apart, WholeApart, Drainable, Buffers
<1>3. \A b \in Buffers : contents[b].text = 0
  BY DEF SearchInit
<1>4. Fresh
  BY <1>3 DEF SearchInit, Fresh, STOP
<1>5. NewestKept
  BY <1>1, <1>3 DEF NewestKept, SearchTypeOK
<1>6. QED
  BY <1>1, <1>2, <1>4, <1>5 DEF SearchIInv

LEMMA SearchTypeStep ==
  ASSUME SearchTypeOK, Drainable, [SearchNext]_searchVars
  PROVE  SearchTypeOK' /\ Drainable'
<1> USE BoundAssumption DEF SearchTypeOK, Drainable, Places, GuiPlace, STOP, bufferVars, workerVars
<1>1. CASE PostSearch
  <2>1. posted + 1 \in 0..MaxPosts
    BY <1>1 DEF PostSearch
  <2>2. QED
    BY <1>1, <2>1 DEF PostSearch
<1>2. CASE Flip
  BY <1>2 DEF Flip, Delivered, Show
<1>3. CASE \/ LookEmpty \/ Doze \/ SearchWakeup
           \/ ReadExit \/ Broadcast
  BY <1>3 DEF LookEmpty, Doze, SearchWakeup, ReadExit,
     Broadcast
<1>4. CASE Drain
  <2>1. task_queue[Len(task_queue)] \in 0..MaxPosts
    BY <1>4 DEF Drain
  <2>2. QED
    BY <1>4, <2>1 DEF Drain
<1>5. CASE StartFilling
  BY <1>5 DEF StartFilling, Result
<1>6. CASE FinishAndSwap
  <2>1. contents' \in [Buffers -> Result]
    BY <1>6 DEF FinishAndSwap, Filled, Show, Result
  <2>2. QED
    BY <1>6, <2>1 DEF FinishAndSwap, Filled, Show
<1>7. CASE DtorSetExit \/ DtorNotify \/ DtorJoin
  BY <1>7 DEF DtorSetExit, DtorNotify, DtorJoin
<1>8. CASE DtorPush
  BY <1>8 DEF DtorPush
<1>9. CASE UNCHANGED searchVars
  BY <1>9 DEF searchVars
<1>10. QED
  BY <1>1, <1>2, <1>3, <1>4, <1>5, <1>6, <1>7, <1>8, <1>9 DEF SearchNext, Worker,
     Dtor

LEMMA BufferStep ==
  ASSUME SearchTypeOK, Apart, WholeApart, [SearchNext]_searchVars
  PROVE  Apart' /\ WholeApart'
<1> USE DEF Apart, WholeApart, bufferVars, workerVars
<1>1. CASE PostSearch \/ Flip
  BY <1>1 DEF PostSearch, Flip, Delivered, Show
<1>2. CASE \/ LookEmpty \/ Doze \/ SearchWakeup
           \/ ReadExit \/ Broadcast \/ Drain
  BY <1>2 DEF LookEmpty, Doze, SearchWakeup, ReadExit,
     Broadcast, Drain
<1>3. CASE StartFilling
  BY <1>3 DEF StartFilling, SearchTypeOK
<1>4. CASE FinishAndSwap
  <2>1. \A b \in Buffers : contents'[b].whole
    BY <1>4 DEF FinishAndSwap, Filled, Show, SearchTypeOK, Result
  <2>2. QED
    BY <1>4, <2>1 DEF FinishAndSwap, Filled, Show
<1>5. CASE Dtor
  BY <1>5 DEF Dtor, DtorSetExit, DtorNotify, DtorJoin,
     DtorPush
<1>6. CASE UNCHANGED searchVars
  BY <1>6 DEF searchVars
<1>7. QED
  BY <1>1, <1>2, <1>3, <1>4, <1>5, <1>6 DEF SearchNext, Worker

LEMMA FreshStep ==
  ASSUME SearchIInv, [SearchNext]_searchVars, SearchTypeOK'
  PROVE  Fresh' /\ NewestKept'
<1> USE DEF bufferVars, workerVars
<1>a. SearchTypeOK /\ Apart /\ WholeApart /\ Fresh /\ Drainable /\ NewestKept
  BY DEF SearchIInv
<1>1. CASE PostSearch
  <2>1. /\ Len(task_queue') = Len(task_queue) + 1
        /\ task_queue'[Len(task_queue) + 1] = posted'
        /\ posted' = posted + 1
    BY <1>a, <1>1 DEF PostSearch, SearchTypeOK
  <2>2. /\ gui = "running" /\ place # "draining" /\ place' # "draining"
        /\ place' = place \/ (place = "asleep" /\ place' = "top")
        /\ UNCHANGED <<contents, reading, front, read, search_req>>
    BY <1>1 DEF PostSearch, LockFree
  <2>3. task_queue'[Len(task_queue')] = posted'
    BY <2>1
  <2>4. search_req' <= posted'
    BY <1>a, <2>1, <2>2 DEF Fresh, SearchTypeOK
  <2>5. Fresh'
    BY <1>a, <2>2, <2>3, <2>4 DEF Fresh
  <2>6. NewestKept'
    BY <1>a, <2>2 DEF NewestKept
  <2>7. QED
    BY <2>5, <2>6
<1>2. CASE Flip
  BY <1>a, <1>2 DEF Flip, Delivered, Show, Fresh, NewestKept,
     SearchTypeOK
<1>3. CASE \/ LookEmpty \/ Doze \/ SearchWakeup
           \/ ReadExit \/ Broadcast
  BY <1>a, <1>3 DEF LookEmpty, Doze, SearchWakeup, ReadExit,
     Broadcast, Fresh, NewestKept
<1>4. CASE Drain
  BY <1>a, <1>4 DEF Drain, Fresh, NewestKept, SearchTypeOK, Result,
     Drainable
<1>5. CASE StartFilling
  BY <1>a, <1>5 DEF StartFilling, Fresh, NewestKept, SearchTypeOK, Result
<1>6. CASE FinishAndSwap
  <2>1. \A b \in Buffers : contents'[b].text = contents[b].text
    BY <1>a, <1>6 DEF FinishAndSwap, Filled, Show, SearchTypeOK,
       Result
  <2>2. QED
    BY <1>a, <1>6, <2>1 DEF FinishAndSwap, Filled, Show, Fresh,
       NewestKept, SearchTypeOK, Apart, Result
<1>7. CASE Dtor
  BY <1>7 DEF Dtor, DtorSetExit, DtorNotify, DtorJoin,
     DtorPush, Fresh, NewestKept
<1>8. CASE UNCHANGED searchVars
  BY <1>a, <1>8 DEF searchVars, Fresh, NewestKept
<1>9. QED
  BY <1>1, <1>2, <1>3, <1>4, <1>5, <1>6, <1>7, <1>8 DEF SearchNext, Worker

LEMMA SearchIInvStep ==
  ASSUME SearchIInv, [SearchNext]_searchVars
  PROVE  SearchIInv'
BY SearchTypeStep, BufferStep, FreshStep DEF SearchIInv

\* The variables of the model keep the types the code declares.
THEOREM SearchTypeCorrect == SearchSafety => []SearchTypeOK
<1>1. SearchInit => SearchTypeOK /\ Drainable
  BY SearchIInvInit DEF SearchIInv
<1>2. SearchTypeOK /\ Drainable /\ [SearchNext]_searchVars => SearchTypeOK' /\ Drainable'
  BY SearchTypeStep
<1> QED BY <1>1, <1>2, PTL DEF SearchSafety

LEMMA SearchInvariance == SearchSafety => []SearchIInv
<1>1. SearchInit => SearchIInv
  BY SearchIInvInit
<1>2. SearchIInv /\ [SearchNext]_searchVars => SearchIInv'
  BY SearchIInvStep
<1> QED BY <1>1, <1>2, PTL DEF SearchSafety

\* The GUI never shows a half-filled buffer.
THEOREM ViewAlwaysWhole == SearchSafety => []ViewWhole
<1>1. SearchIInv => ViewWhole
  BY DEF SearchIInv, Apart, WholeApart, ViewWhole, SearchTypeOK
<1> QED BY <1>1, SearchInvariance, PTL

\* The newest finished result is never about to be overwritten.
THEOREM NewestAlwaysKept == SearchSafety => []NewestKept
<1>1. SearchIInv => NewestKept
  BY DEF SearchIInv
<1> QED BY <1>1, SearchInvariance, PTL

\* Only a flip changes what the GUI sees.
THEOREM ViewNeverRewritten == SearchSafety => ViewStable
<1>1. SearchIInv /\ [SearchNext]_searchVars
      => [front' = front => contents'[front] = contents[front]]_searchVars
  <2> SUFFICES ASSUME SearchIInv, SearchNext PROVE contents'[front] = contents[front]
    OBVIOUS
  <2>1. SearchTypeOK /\ front # reading
    BY DEF SearchIInv, Apart
  <2>2. CASE StartFilling \/ FinishAndSwap
    BY <2>1, <2>2 DEF StartFilling, FinishAndSwap, Filled, Show,
       SearchTypeOK
  <2>3. CASE UNCHANGED contents
    BY <2>3
  <2>4. QED
    BY <2>2, <2>3 DEF SearchNext, Worker, Dtor, PostSearch, Flip,
       Delivered, Show, LookEmpty, Doze, ReadExit,
       Drain, Broadcast, SearchWakeup, DtorSetExit,
       DtorPush, DtorNotify, DtorJoin, bufferVars
<1> QED BY <1>1, SearchInvariance, PTL DEF SearchSafety, ViewStable
=============================================================================
