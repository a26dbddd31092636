--------------------------- MODULE EventPortProofs ---------------------------
(***************************************************************************)
(* What EventPort promises for any ring size, receivers and number of      *)
(* events.  The invariant is that the ring holds the youngest events       *)
(* without a hole: what is missing before it was taken or is Limit old.    *)
(***************************************************************************)
EXTENDS EventPort, SequenceTheorems, TLAPS

\* The order in which the destructors take the file away from the worker.
FileInv ==
  /\ journal <=> dtor = "live"
  /\ dtor \in {"live", "nulled"} => open
  /\ journal => late = 0
  /\ OneLateWrite

\* While the worker is busy, it has an event.
HasEvent == at \in {"calling", "dumping"} => cur \in Numbers

Inv == TypeOK /\ HasEvent /\ InOrder /\ LostAfterLimit

\* What is common to all steps that post an event.
LEMMA PutFacts ==
  ASSUME Inv, NEW e \in {QUIT, NOTE} \cup Receivers, Put(e)
  PROVE  /\ sent' \in Seq({QUIT, NOTE} \cup Receivers)
         /\ Len(sent') = Len(sent) + 1
         /\ \A n \in 1..Len(sent) : sent'[n] = sent[n]
         /\ ring' \in Seq(1..Len(sent'))
         /\ Len(ring') <= Limit
         /\ \A k \in 1..Len(ring') : ring'[k] = Len(sent') - Len(ring') + k
         /\ \/ Len(sent') - Len(ring') = Len(sent) - Len(ring)
            \/ Len(ring') = Limit /\ Len(sent') - Len(ring') = Len(sent) - Len(ring) + 1
<1> DEFINE full == Append(ring, Len(sent) + 1)
<1>1. /\ sent \in Seq({QUIT, NOTE} \cup Receivers) /\ ring \in Seq(1..Len(sent)) /\ Len(ring) <= Limit
      /\ \A k \in 1..Len(ring) : ring[k] = Len(sent) - Len(ring) + k
      /\ Limit \in Nat \ {0} /\ Len(sent) \in Nat /\ Len(ring) \in Nat
  BY PortAssumption DEF Inv, TypeOK, InOrder, Numbers
<1>2. /\ sent' = Append(sent, e) /\ ring' = IF Len(full) > Limit THEN Tail(full) ELSE full
  BY DEF Put
<1>3. /\ sent' \in Seq({QUIT, NOTE} \cup Receivers) /\ Len(sent') = Len(sent) + 1
      /\ \A n \in 1..Len(sent) : sent'[n] = sent[n]
  BY <1>1, <1>2
<1>4. /\ full \in Seq(1..Len(sent) + 1) /\ Len(full) = Len(ring) + 1
      /\ \A k \in 1..Len(full) : full[k] = Len(sent) + 1 - Len(full) + k
  <2>1. 1..Len(sent) \subseteq 1..Len(sent) + 1 /\ Len(sent) + 1 \in 1..Len(sent) + 1
    BY <1>1
  <2>2. ring \in Seq(1..Len(sent) + 1)
    BY <1>1, <2>1
  <2>3. full \in Seq(1..Len(sent) + 1) /\ Len(full) = Len(ring) + 1
    BY <2>1, <2>2
  <2>4. ASSUME NEW k \in 1..Len(full) PROVE full[k] = Len(sent) + 1 - Len(full) + k
    <3>1. CASE k = Len(ring) + 1
      BY <1>1, <2>3, <3>1
    <3>2. CASE k \in 1..Len(ring)
      BY <1>1, <2>3, <3>2
    <3> QED BY <1>1, <2>3, <2>4, <3>1, <3>2, SMTT(30)
  <2> QED BY <2>3, <2>4
<1> HIDE DEF full
<1>5. CASE Len(full) > Limit
  <2>1. /\ ring' = Tail(full) /\ Len(full) = Limit + 1
    BY <1>1, <1>2, <1>4, <1>5
  <2>2. /\ ring' \in Seq(1..Len(sent')) /\ Len(ring') = Limit
        /\ \A k \in 1..Len(ring') : ring'[k] = full[k + 1]
    BY <1>1, <1>3, <1>4, <2>1
  <2>3. \A k \in 1..Len(ring') : ring'[k] = Len(sent') - Len(ring') + k
    <3> SUFFICES ASSUME NEW k \in 1..Len(ring') PROVE ring'[k] = Len(sent') - Len(ring') + k
      OBVIOUS
    <3>1. k + 1 \in 1..Len(full) /\ ring'[k] = full[k + 1]
      BY <1>1, <2>1, <2>2
    <3>2. full[k + 1] = Len(sent) + 1 - Len(full) + (k + 1)
      BY <1>4, <3>1
    <3>3. Len(full) = Limit + 1 /\ Len(ring') = Limit /\ Len(sent') = Len(sent) + 1
      BY <1>3, <2>1, <2>2
    <3>4. ring'[k] = Len(sent) + 1 - (Limit + 1) + (k + 1)
      BY <3>1, <3>2, <3>3
    <3>5. k \in Int /\ Len(sent) \in Int /\ Limit \in Int
      BY <1>1
    <3> QED BY <3>3, <3>4, <3>5
  <2>4. Len(sent') - Len(ring') = Len(sent) - Len(ring) + 1
    <3>1. Len(full) = Len(ring) + 1
      BY <1>4
    <3>2. Len(ring) = Limit
      BY <1>1, <2>1, <3>1
    <3>3. Len(ring') = Limit /\ Len(sent') = Len(sent) + 1
      BY <1>3, <2>2
    <3> QED BY <1>1, <3>2, <3>3
  <2> QED BY <1>3, <2>2, <2>3, <2>4, <1>1
<1>6. CASE ~(Len(full) > Limit)
  <2>1. ring' = full /\ Len(ring') = Len(ring) + 1
    BY <1>2, <1>4, <1>6
  <2>2. Len(ring') <= Limit
    BY <1>1, <1>4, <1>6, <2>1
  <2>3. Len(sent') - Len(ring') = Len(sent) - Len(ring)
    BY <1>1, <1>3, <2>1
  <2>4. \A k \in 1..Len(ring') : ring'[k] = Len(sent') - Len(ring') + k
    BY <1>3, <1>4, <2>1
  <2>5. ring' \in Seq(1..Len(sent'))
    BY <1>3, <1>4, <2>1
  <2> QED BY <1>3, <2>2, <2>3, <2>4, <2>5
<1> QED BY <1>5, <1>6

\* A sequence of event numbers stays one when there are more events.
LEMMA MoreNumbers ==
  ASSUME NEW n \in Nat, NEW m \in Nat, n <= m, NEW s \in Seq(1..n)
  PROVE  s \in Seq(1..m)
<1>1. 1..n \subseteq 1..m
  OBVIOUS
<1> QED BY <1>1

\* Posting an event leaves the worker alone.
LEMMA PutKeepsInv ==
  ASSUME Inv, NEW e \in {QUIT, NOTE} \cup Receivers, Put(e),
         UNCHANGED workerVars,
         asked' \subseteq Receivers, journal' \in BOOLEAN, open' \in BOOLEAN,
         dtor' \in {"live", "nulled", "closed", "quitting", "gone"}
  PROVE  Inv'
<1> USE DEF workerVars
<1>1. /\ Len(sent) \in Nat /\ Len(ring) \in Nat /\ Len(sent') \in Nat /\ Limit \in Nat \ {0}
      /\ Len(ring') \in Nat /\ Len(sent) <= Len(sent')
  BY PutFacts, PortAssumption DEF Inv, TypeOK
<1>2. TypeOK'
  <2>1. /\ taken' \in Seq(1..Len(sent')) /\ written' \in Seq(1..Len(sent'))
    BY <1>1, MoreNumbers DEF Inv, TypeOK, Numbers
  <2>2. got' \in [Receivers -> Seq(1..Len(sent'))]
    <3>1. \A r \in Receivers : got[r] \in Seq(1..Len(sent'))
      BY <1>1, MoreNumbers DEF Inv, TypeOK, Numbers
    <3> QED BY <3>1 DEF Inv, TypeOK, Numbers
  <2>3. cur' \in 1..Len(sent') \cup {0}
    BY <1>1 DEF Inv, TypeOK, Numbers
  <2> QED BY <2>1, <2>2, <2>3, PutFacts DEF Inv, TypeOK, Numbers
<1>3. InOrder'
  <2>1. \A k \in 1..Len(taken) : taken[k] \in 1..Len(sent) /\ taken[k] <= Len(sent) - Len(ring)
    BY DEF Inv, TypeOK, InOrder, Numbers
  <2>2. Len(sent) - Len(ring) <= Len(sent') - Len(ring')
    BY <1>1, PutFacts
  <2>3. \A k \in 1..Len(taken') : taken'[k] <= Len(sent') - Len(ring')
    BY <1>1, <2>1, <2>2
  <2> QED BY <2>3, PutFacts DEF Inv, InOrder
<1>4. LostAfterLimit'
  <2> SUFFICES ASSUME NEW n \in Dropped' PROVE n + Limit <= Len(sent')
    BY DEF LostAfterLimit
  <2>1. n \in 1..Len(sent') - Len(ring') /\ \A k \in 1..Len(taken) : taken[k] # n
    BY DEF Dropped
  <2>2. CASE n \in 1..Len(sent) - Len(ring)
    <3>1. n \in Dropped
      BY <2>1, <2>2 DEF Dropped
    <3>2. n \in Int /\ n + Limit <= Len(sent)
      BY <2>2, <3>1 DEF Inv, LostAfterLimit
    <3> QED BY <1>1, <3>2
  <2>3. CASE n \notin 1..Len(sent) - Len(ring)
    BY <1>1, <2>1, <2>3, PutFacts
  <2> QED BY <2>2, <2>3
<1>5. HasEvent'
  BY <1>1 DEF Inv, HasEvent, Numbers
<1> QED BY <1>2, <1>3, <1>4, <1>5 DEF Inv

\* Taking the oldest event, registration or not.
LEMMA TakeKeepsInv ==
  ASSUME Inv, Take
  PROVE  Inv'
<1>1. /\ sent' = sent /\ ring # <<>> /\ ring' = Tail(ring) /\ cur' = Head(ring)
      /\ taken' = Append(taken, cur')
  BY DEF Take
<1>2. /\ Len(sent) \in Nat /\ Len(ring) \in Nat /\ Limit \in Nat /\ Len(taken) \in Nat
      /\ ring \in Seq(1..Len(sent)) /\ taken \in Seq(1..Len(sent)) /\ sent \in Seq({QUIT, NOTE} \cup Receivers)
      /\ Len(ring) <= Limit
  BY PortAssumption DEF Inv, TypeOK, Numbers
<1>3. /\ Len(ring) > 0 /\ cur' = ring[1] /\ cur' \in 1..Len(sent) /\ cur' = Len(sent) - Len(ring) + 1
      /\ ring' \in Seq(1..Len(sent)) /\ Len(ring') = Len(ring) - 1
      /\ \A k \in 1..Len(ring') : ring'[k] = ring[k + 1]
  <2>1. Len(ring) > 0 /\ 1 \in 1..Len(ring) /\ cur' = ring[1] /\ cur' \in 1..Len(sent)
    BY <1>1, <1>2
  <2>2. cur' = Len(sent) - Len(ring) + 1
    BY <2>1 DEF Inv, InOrder
  <2>3. ring' \in Seq(1..Len(sent)) /\ Len(ring') = Len(ring) - 1
    BY <1>1, <1>2
  <2>4. \A k \in 1..Len(ring') : ring'[k] = ring[k + 1]
    BY <1>1, <1>2, <2>3
  <2> QED BY <2>1, <2>2, <2>3, <2>4
<1>4. /\ taken' \in Seq(1..Len(sent)) /\ Len(taken') = Len(taken) + 1 /\ taken'[Len(taken) + 1] = cur'
      /\ \A k \in 1..Len(taken) : taken'[k] = taken[k]
  BY <1>1, <1>2, <1>3
<1>5. TypeOK'
  <2>1. callbacks' \in Seq(Receivers) /\ left' \in Seq(Receivers)
    BY DEF Take, Inv, TypeOK
  <2> QED BY <1>1, <1>2, <1>3, <1>4, <2>1, SMTT(30) DEF Take, Inv, TypeOK, Numbers, logVars
<1>6. InOrder'
  <2>1. \A k \in 1..Len(ring') : ring'[k] = Len(sent') - Len(ring') + k
    <3> SUFFICES ASSUME NEW k \in 1..Len(ring') PROVE ring'[k] = Len(sent') - Len(ring') + k
      OBVIOUS
    <3>1. k + 1 \in 1..Len(ring)
      BY <1>2, <1>3
    <3>2. ring[k + 1] = Len(sent) - Len(ring) + (k + 1)
      BY <3>1 DEF Inv, InOrder
    <3> QED BY <1>1, <1>2, <1>3, <3>2
  <2>2. \A j, k \in 1..Len(taken') : j < k => taken'[j] < taken'[k]
    <3> SUFFICES ASSUME NEW j \in 1..Len(taken'), NEW k \in 1..Len(taken'), j < k
                 PROVE taken'[j] < taken'[k]
      OBVIOUS
    <3>1. CASE k = Len(taken) + 1
      <4>1. j \in 1..Len(taken) /\ taken'[j] = taken[j] /\ taken'[k] = cur'
        BY <1>2, <1>4, <3>1
      <4>2. taken[j] \in 1..Len(sent) /\ taken[j] <= Len(sent) - Len(ring)
        BY <1>2, <4>1 DEF Inv, InOrder
      <4> QED BY <1>2, <1>3, <4>1, <4>2, SMTT(30)
    <3>2. CASE k # Len(taken) + 1
      <4>1. j \in 1..Len(taken) /\ k \in 1..Len(taken)
        <5>1. Len(taken') = Len(taken) + 1 /\ Len(taken) \in Nat
          BY <1>2, <1>4
        <5> QED BY <3>2, <5>1
      <4>2. taken[j] < taken[k]
        BY <4>1 DEF Inv, InOrder
      <4> QED BY <1>4, <4>1, <4>2
    <3> QED BY <3>1, <3>2
  <2>3. \A k \in 1..Len(taken') : taken'[k] <= Len(sent') - Len(ring')
    <3> SUFFICES ASSUME NEW k \in 1..Len(taken') PROVE taken'[k] <= Len(sent') - Len(ring')
      OBVIOUS
    <3>1. CASE k = Len(taken) + 1
      BY <1>1, <1>2, <1>3, <1>4, <3>1
    <3>2. CASE k \in 1..Len(taken)
      <4>1. taken[k] \in 1..Len(sent) /\ taken[k] <= Len(sent) - Len(ring)
        BY <1>2, <3>2 DEF Inv, InOrder
      <4> QED BY <1>1, <1>2, <1>3, <1>4, <3>2, <4>1
    <3> QED BY <1>2, <1>4, <3>1, <3>2
  <2> QED BY <2>1, <2>2, <2>3 DEF InOrder
<1>7. HasEvent'
  BY <1>1, <1>3 DEF HasEvent, Numbers
<1>8. LostAfterLimit'
  <2> SUFFICES ASSUME NEW n \in Dropped' PROVE n + Limit <= Len(sent')
    BY DEF LostAfterLimit
  <2>1. n \in 1..Len(sent) - Len(ring') /\ \A k \in 1..Len(taken') : taken'[k] # n
    BY <1>1 DEF Dropped
  <2>2. n # cur' /\ \A k \in 1..Len(taken) : taken[k] # n
    BY <1>2, <1>4, <2>1
  <2>3. n \in Dropped
    <3>1. n \in Int /\ 1 <= n /\ n <= Len(sent) - Len(ring) + 1
      BY <1>2, <1>3, <2>1
    <3>2. n <= Len(sent) - Len(ring)
      <4>1. cur' = Len(sent) - Len(ring) + 1 /\ Len(sent) \in Int /\ Len(ring) \in Int /\ n # cur'
        BY <1>2, <1>3, <2>2
      <4> QED BY <3>1, <4>1
    <3> QED BY <1>2, <2>2, <3>1, <3>2 DEF Dropped
  <2> QED BY <1>1, <2>3 DEF Inv, LostAfterLimit
<1> QED BY <1>5, <1>6, <1>7, <1>8 DEF Inv

\* The ring and what was taken from it are an invariant by themselves.
THEOREM RingHolds == Spec => []Inv
<1>1. Init => Inv
  <2> SUFFICES ASSUME Init PROVE Inv
    OBVIOUS
  <2>1. TypeOK
    BY PortAssumption DEF Init, TypeOK, Numbers
  <2>2. InOrder /\ LostAfterLimit /\ HasEvent
    BY DEF Init, InOrder, LostAfterLimit, Dropped, HasEvent
  <2> QED BY <2>1, <2>2 DEF Inv
<1>2. Inv /\ [Next]_vars => Inv'
  <2> SUFFICES ASSUME Inv, [Next]_vars PROVE Inv'
    OBVIOUS
  <2>1. CASE Printf
    BY <2>1, PutKeepsInv DEF Printf, logVars, Inv, TypeOK
  <2>2. ASSUME NEW r \in Receivers, Register(r) PROVE Inv'
    <3>1. Put(r) /\ asked' \subseteq Receivers /\ UNCHANGED <<workerVars, logVars>>
      BY <2>2 DEF Register, Inv, TypeOK
    <3> QED BY <3>1, PutKeepsInv DEF logVars, Inv, TypeOK
  <2>3. CASE Take
    BY <2>3, TakeKeepsInv
  <2>4. CASE TakeQuit
    BY <2>4 DEF TakeQuit, logVars, Inv, HasEvent, TypeOK, InOrder, LostAfterLimit, Dropped, Numbers
  <2>5. CASE Call
    <3>1. TypeOK'
      <4>1. /\ left \in Seq(Receivers) /\ left # <<>> /\ Head(left) \in Receivers /\ Tail(left) \in Seq(Receivers)
        BY <2>5 DEF Call, Inv, TypeOK
      <4>2. cur \in Numbers
        BY <2>5 DEF Call, Inv, HasEvent
      <4> QED BY <2>5, <4>1, <4>2 DEF Call, logVars, Inv, TypeOK, Numbers
    <3>2. UNCHANGED <<sent, ring, taken>>
      BY <2>5 DEF Call
    <3>3. HasEvent'
      BY <2>5 DEF Call, Inv, HasEvent, Numbers
    <3> QED BY <3>1, <3>2, <3>3 DEF Inv, InOrder, LostAfterLimit, Dropped
  <2>6. CASE Write
    <3>1. cur \in Numbers
      BY <2>6 DEF Write, Inv, HasEvent
    <3>2. written' \in Seq(Numbers) /\ late' \in Nat
      <4>1. written \in Seq(Numbers) /\ late \in Nat
        BY DEF Inv, TypeOK
      <4>2. Append(written, cur) \in Seq(Numbers)
        BY <3>1, <4>1
      <4>3. \/ written' = Append(written, cur) /\ late' = late
            \/ written' = written /\ late' = late + 1
        BY <2>6 DEF Write
      <4>4. written' \in Seq(Numbers)
        BY <4>1, <4>2, <4>3
      <4>5. late' \in Nat
        BY <4>1, <4>3
      <4> QED BY <4>4, <4>5
    <3>3. TypeOK'
      BY <2>6, <3>2 DEF Write, logVars, Inv, TypeOK, Numbers
    <3> QED BY <2>6, <3>1, <3>3 DEF Write, Inv, HasEvent, InOrder, LostAfterLimit, Dropped, Numbers
  <2>7. CASE NextEvent
    BY <2>7 DEF NextEvent, logVars, Inv, HasEvent, TypeOK, InOrder, LostAfterLimit, Dropped, Numbers
  <2>8. CASE SetNull
    BY <2>8 DEF SetNull, workerVars, Inv, HasEvent, TypeOK, InOrder, LostAfterLimit, Dropped, Numbers
  <2>9. CASE CloseFile
    BY <2>9 DEF CloseFile, workerVars, Inv, HasEvent, TypeOK, InOrder, LostAfterLimit, Dropped, Numbers
  <2>10. CASE PostQuit
    BY <2>10, PutKeepsInv DEF PostQuit, Inv, TypeOK
  <2>11. CASE Join
    BY <2>11 DEF Join, workerVars, Inv, HasEvent, TypeOK, InOrder, LostAfterLimit, Dropped, Numbers
  <2>12. CASE UNCHANGED vars
    BY <2>12 DEF vars, workerVars, logVars, Inv, HasEvent, TypeOK, InOrder, LostAfterLimit, Dropped, Numbers
  <2> QED BY <2>1, <2>2, <2>3, <2>4, <2>5, <2>6, <2>7, <2>8, <2>9, <2>10, <2>11, <2>12 DEF Next, Worker
<1> QED BY <1>1, <1>2, PTL DEF Spec

\* The type invariant.
THEOREM TypeCorrect == Spec => []TypeOK
BY RingHolds, PTL DEF Inv

\* The ring is the unbroken run of the youngest events, for any Limit.
THEOREM RingInOrder == Spec => []InOrder
BY RingHolds, PTL DEF Inv

\* An event is lost only to Limit younger ones, for any Limit.
THEOREM LossIsBounded == Spec => []LostAfterLimit
BY RingHolds, PTL DEF Inv

\* At most one write comes too late: only the message that was in dump when ~logd
\* began still reaches the file that is gone.
THEOREM OneWriteLate == Spec => []OneLateWrite
<1>1. Init => FileInv
  BY DEF Init, FileInv, OneLateWrite
<1>2. TypeOK /\ FileInv /\ [Next]_vars => FileInv'
  <2> SUFFICES ASSUME TypeOK, FileInv, [Next]_vars PROVE FileInv'
    OBVIOUS
  <2> USE DEF FileInv, OneLateWrite, TypeOK, workerVars, logVars
  <2>1. CASE Printf \/ \E r \in Receivers : Register(r)
    BY <2>1 DEF Printf, Register
  <2>2. CASE Take \/ TakeQuit \/ NextEvent
    BY <2>2, SMTT(30) DEF Take, TakeQuit, NextEvent
  <2>3. CASE Call
    BY <2>3 DEF Call
  <2>4. CASE Write
    BY <2>4 DEF Write
  <2>5. CASE SetNull \/ CloseFile \/ PostQuit \/ Join
    BY <2>5 DEF SetNull, CloseFile, PostQuit, Join
  <2>6. CASE UNCHANGED vars
    BY <2>6 DEF vars
  <2> QED BY <2>1, <2>2, <2>3, <2>4, <2>5, <2>6 DEF Next, Worker
<1>3. FileInv => OneLateWrite
  BY DEF FileInv
<1> QED BY <1>1, <1>2, <1>3, TypeCorrect, PTL DEF Spec
-----------------------------------------------------------------------------
(***************************************************************************)
(* What a receiver got.  It is called once for every event taken since its *)
(* own registration, which is the only event that names it: so it is in    *)
(* the list of callbacks once, and the worker that has not called it yet   *)
(* is one event ahead of it.                                               *)
(***************************************************************************)
Listed(r) == \E k \in 1..Len(callbacks) : callbacks[k] = r
Waits(r) == \E k \in 1..Len(left) : left[k] = r
Due(r) == Len(taken) - (IF Waits(r) THEN 1 ELSE 0)

\* A receiver asks once, with one event.
AsksOnce ==
  \A r \in Receivers :
    /\ \A m \in Numbers : sent[m] = r => r \in asked
    /\ \A m, n \in Numbers : sent[m] = r /\ sent[n] = r => m = n

\* Who is listed has been taken from the ring, and is listed once.
ListedOnce ==
  /\ \A r \in Receivers : Listed(r) => \E j \in 1..Len(taken) : sent[taken[j]] = r
  /\ \A j, k \in 1..Len(callbacks) : callbacks[j] = callbacks[k] => j = k

\* Those still to call are listed, each once, and the event is the last taken.
LeftOfListed ==
  /\ \A r \in Receivers : Waits(r) => Listed(r)
  /\ \A j, k \in 1..Len(left) : left[j] = left[k] => j = k
  /\ at \in {"taking", "gone"} => left = <<>>
  /\ at \in {"calling", "dumping"} => Len(taken) > 0 /\ cur = taken[Len(taken)]

\* What r got is the end of what was taken, up to where the worker is.
EndsAt(r) ==
  /\ Len(got[r]) <= Due(r)
  /\ \A i \in 1..Len(got[r]) : got[r][i] = taken[Due(r) - Len(got[r]) + i]

\* It begins with the registration, and who is not listed got nothing.
Begins(r) ==
  /\ Len(got[r]) > 0 => Listed(r) /\ sent[got[r][1]] = r
  /\ Waits(r) /\ Len(got[r]) = 0 => sent[cur] = r
  /\ Listed(r) => Len(got[r]) > 0 \/ Waits(r)

HeardInv ==
  /\ AsksOnce /\ ListedOnce /\ LeftOfListed
  /\ \A r \in Receivers : EndsAt(r) /\ Begins(r)

\* What was posted stays: a step posts at most one event, and registers nobody
\* twice.
LEMMA HeardPost ==
  ASSUME Inv, HeardInv, NEW e \in {QUIT, NOTE} \cup Receivers, Put(e), UNCHANGED workerVars,
         asked \subseteq asked', e \in Receivers => e \notin asked /\ e \in asked'
  PROVE  HeardInv'
<1>1. /\ Len(sent') = Len(sent) + 1 /\ Len(sent) \in Nat
      /\ \A n \in 1..Len(sent) : sent'[n] = sent[n]
      /\ sent'[Len(sent) + 1] = e
  BY PutFacts DEF Inv, TypeOK, Put
<1>2. UNCHANGED <<at, cur, left, callbacks, taken, got>>
  BY DEF workerVars
<1>3. QUIT \notin Receivers /\ NOTE \notin Receivers
  BY PortAssumption
<1>4. AsksOnce'
  <2> SUFFICES ASSUME NEW r \in Receivers
               PROVE  /\ \A m \in 1..Len(sent') : sent'[m] = r => r \in asked'
                      /\ \A m, n \in 1..Len(sent') : sent'[m] = r /\ sent'[n] = r => m = n
    BY DEF AsksOnce, Numbers
  <2>1. \A m \in 1..Len(sent') : m \in 1..Len(sent) \/ m = Len(sent) + 1
    BY <1>1
  <2>2. \A m \in 1..Len(sent) : sent'[m] = r => r \in asked
    BY <1>1 DEF HeardInv, AsksOnce, Numbers
  <2>3. \A m, n \in 1..Len(sent) : sent'[m] = r /\ sent'[n] = r => m = n
    BY <1>1 DEF HeardInv, AsksOnce, Numbers
  <2>4. e = r => r \notin asked /\ r \in asked'
    BY <1>3
  <2> QED BY <1>1, <2>1, <2>2, <2>3, <2>4
<1>5. \A j \in 1..Len(taken) : sent'[taken[j]] = sent[taken[j]]
  <2>1. \A j \in 1..Len(taken) : taken[j] \in 1..Len(sent)
    BY SMTT(30) DEF Inv, TypeOK, Numbers
  <2> QED BY <1>1, <2>1
<1>6. ListedOnce'
  BY <1>2, <1>5 DEF HeardInv, ListedOnce, Listed
<1>7. LeftOfListed'
  BY <1>2 DEF HeardInv, LeftOfListed, Listed, Waits
<1>8. ASSUME NEW r \in Receivers PROVE EndsAt(r)' /\ Begins(r)'
  <2>1. EndsAt(r)'
    BY <1>2, ZenonT(30) DEF HeardInv, EndsAt, Due, Waits
  <2>2. Len(got[r]) > 0 => sent'[got[r][1]] = sent[got[r][1]]
    <3>1. got[r] \in Seq(1..Len(sent))
      BY DEF Inv, TypeOK, Numbers
    <3>2. Len(got[r]) > 0 => got[r][1] \in 1..Len(sent)
      BY <3>1
    <3> QED BY <1>1, <3>2
  <2>3. Waits(r) => sent'[cur] = sent[cur]
    <3>1. Waits(r) => at \in {"calling", "dumping"}
      BY DEF HeardInv, LeftOfListed, Waits, Inv, TypeOK
    <3> QED BY <1>1, <3>1 DEF Inv, HasEvent, Numbers
  <2>4. Begins(r)
    BY DEF HeardInv
  <2> QED BY <1>2, <2>1, <2>2, <2>3, <2>4 DEF Begins, Listed, Waits
<1> QED BY <1>4, <1>6, <1>7, <1>8 DEF HeardInv

\* The event taken names nobody who is already listed.
LEMMA HeardTake ==
  ASSUME Inv, HeardInv, Take
  PROVE  HeardInv'
<1>1. /\ UNCHANGED <<sent, asked, got>> /\ ring # <<>> /\ cur' = Head(ring) /\ taken' = Append(taken, cur')
      /\ callbacks' = IF sent[cur'] \in Receivers THEN Append(callbacks, sent[cur']) ELSE callbacks
      /\ left' = callbacks' /\ at = "taking" /\ at' = "calling"
  BY DEF Take
<1>2. /\ taken \in Seq(Numbers) /\ Len(taken) \in Nat /\ Len(sent) \in Nat /\ ring \in Seq(Numbers)
      /\ callbacks \in Seq(Receivers) /\ Len(callbacks) \in Nat /\ got \in [Receivers -> Seq(Numbers)]
  BY DEF Inv, TypeOK, Numbers
<1>3. /\ cur' \in Numbers /\ Len(taken') = Len(taken) + 1 /\ taken'[Len(taken) + 1] = cur'
      /\ \A k \in 1..Len(taken) : taken'[k] = taken[k]
  BY <1>1, <1>2
<1>4. \A k \in 1..Len(taken) : taken[k] # cur'
  <2>1. 1 \in 1..Len(ring) /\ cur' = ring[1]
    BY <1>1, <1>2
  <2>2. cur' = Len(sent) - Len(ring) + 1
    BY <2>1 DEF Inv, InOrder
  <2>3. \A k \in 1..Len(taken) : taken[k] \in Int /\ taken[k] <= Len(sent) - Len(ring)
    BY <1>2 DEF Inv, InOrder, Numbers
  <2>4. Len(ring) \in Nat
    BY <1>2
  <2> QED BY <1>2, <2>2, <2>3, <2>4
<1>5. left = <<>> /\ \A r : ~Waits(r)
  BY <1>1 DEF HeardInv, LeftOfListed, Waits
<1>6. \A r \in Receivers : sent[cur'] = r => ~Listed(r)
  <2> SUFFICES ASSUME NEW r \in Receivers, sent[cur'] = r, Listed(r) PROVE FALSE
    OBVIOUS
  <2>1. PICK j \in 1..Len(taken) : sent[taken[j]] = r
    BY DEF HeardInv, ListedOnce
  <2>2. taken[j] \in Numbers /\ sent[cur'] = r
    BY <1>2
  <2> QED BY <1>3, <1>4, <2>1, <2>2 DEF HeardInv, AsksOnce
<1>7. \A r \in Receivers : Listed(r)' <=> Listed(r) \/ sent[cur'] = r
  <2>1. CASE sent[cur'] \in Receivers
    <3>1. /\ Len(callbacks') = Len(callbacks) + 1 /\ callbacks'[Len(callbacks) + 1] = sent[cur']
          /\ \A k \in 1..Len(callbacks) : callbacks'[k] = callbacks[k]
      BY <1>1, <1>2, <2>1
    <3>2. \A k : k \in 1..Len(callbacks') <=> k \in 1..Len(callbacks) \/ k = Len(callbacks) + 1
      BY <1>2, <3>1
    <3> QED BY <3>1, <3>2 DEF Listed
  <2>2. CASE sent[cur'] \notin Receivers
    BY <1>1, <2>2 DEF Listed
  <2> QED BY <2>1, <2>2
<1>8. \A j, k \in 1..Len(callbacks') : callbacks'[j] = callbacks'[k] => j = k
  <2>1. CASE sent[cur'] \in Receivers
    <3>1. /\ Len(callbacks') = Len(callbacks) + 1 /\ callbacks'[Len(callbacks) + 1] = sent[cur']
          /\ \A k \in 1..Len(callbacks) : callbacks'[k] = callbacks[k]
      BY <1>1, <1>2, <2>1
    <3>2. \A k \in 1..Len(callbacks) : callbacks[k] # sent[cur']
      BY <1>6, <2>1 DEF Listed
    <3>3. \A k \in 1..Len(callbacks') : k \in 1..Len(callbacks) \/ k = Len(callbacks) + 1
      BY <1>2, <3>1, SMTT(30)
    <3> QED BY <3>1, <3>2, <3>3 DEF HeardInv, ListedOnce
  <2>2. CASE sent[cur'] \notin Receivers
    BY <1>1, <2>2 DEF HeardInv, ListedOnce
  <2> QED BY <2>1, <2>2
<1>9. \A r \in Receivers : Waits(r)' <=> Listed(r)'
  BY <1>1 DEF Waits, Listed
<1>10. AsksOnce'
  BY <1>1 DEF HeardInv, AsksOnce, Numbers
<1>11. ListedOnce'
  <2> SUFFICES ASSUME NEW r \in Receivers, Listed(r)'
               PROVE  \E j \in 1..Len(taken') : sent[taken'[j]] = r
    BY <1>1, <1>8 DEF ListedOnce
  <2>1. CASE sent[cur'] = r
    <3>1. Len(taken) + 1 \in 1..Len(taken')
      BY <1>2, <1>3
    <3> QED BY <1>3, <2>1, <3>1
  <2>2. CASE Listed(r)
    <3>1. PICK j \in 1..Len(taken) : sent[taken[j]] = r
      BY <2>2 DEF HeardInv, ListedOnce
    <3>2. j \in 1..Len(taken') /\ taken'[j] = taken[j]
      BY <1>2, <1>3
    <3> QED BY <3>1, <3>2
  <2> QED BY <1>7, <2>1, <2>2
<1>12. LeftOfListed'
  <2>1. Len(taken') > 0 /\ cur' = taken'[Len(taken')]
    BY <1>2, <1>3
  <2> QED BY <1>1, <1>8, <1>9, <2>1 DEF LeftOfListed
<1>13. ASSUME NEW r \in Receivers PROVE EndsAt(r)' /\ Begins(r)'
  <2>1. got[r] \in Seq(Numbers) /\ Len(got[r]) \in Nat /\ got'[r] = got[r]
    BY <1>1, <1>2
  <2>2. EndsAt(r) /\ Begins(r) /\ ~Waits(r) /\ Due(r) = Len(taken)
    BY <1>2, <1>5 DEF HeardInv, Due
  <2>3. CASE Listed(r)
    <3>1. Due(r)' = Len(taken)
      BY <1>2, <1>3, <1>7, <1>9, <2>3 DEF Due
    <3>2. Len(got[r]) <= Len(taken) /\ \A i \in 1..Len(got[r]) : got[r][i] = taken[Len(taken) - Len(got[r]) + i]
      BY <2>2 DEF EndsAt
    <3>3. \A i \in 1..Len(got[r]) : Len(taken) - Len(got[r]) + i \in 1..Len(taken)
      BY <1>2, <2>1, <3>2
    <3>4. EndsAt(r)'
      BY <1>3, <2>1, <3>1, <3>2, <3>3 DEF EndsAt
    <3>5. Begins(r)'
      BY <1>1, <1>7, <1>9, <2>1, <2>2, <2>3 DEF Begins
    <3> QED BY <3>4, <3>5
  <2>4. CASE ~Listed(r)
    <3>1. Len(got[r]) = 0
      BY <2>1, <2>2, <2>4 DEF Begins
    <3>2. Due(r)' \in Nat
      BY <1>2, <1>3 DEF Due
    <3>3. EndsAt(r)'
      BY <2>1, <3>1, <3>2 DEF EndsAt
    <3>4. Begins(r)'
      BY <1>1, <1>7, <1>9, <2>1, <2>4, <3>1 DEF Begins
    <3> QED BY <3>3, <3>4
  <2> QED BY <2>3, <2>4
<1> QED BY <1>10, <1>11, <1>12, <1>13 DEF HeardInv

\* The receiver called gets the event the worker is at; no other is affected.
LEMMA HeardCall ==
  ASSUME Inv, HeardInv, Call
  PROVE  HeardInv'
<1>0. PICK h : h = Head(left)
  OBVIOUS
<1>1. /\ at = "calling" /\ left # <<>> /\ got' = [got EXCEPT ![h] = Append(@, cur)] /\ left' = Tail(left)
      /\ at' \in {"calling", "dumping"} /\ UNCHANGED <<cur, callbacks, asked, sent, taken>>
  BY <1>0 DEF Call
<1>2. /\ taken \in Seq(Numbers) /\ Len(taken) \in Nat /\ left \in Seq(Receivers) /\ Len(left) \in Nat
      /\ got \in [Receivers -> Seq(Numbers)] /\ cur \in Numbers
  BY <1>1 DEF Inv, TypeOK, HasEvent
<1>3. /\ Len(left) > 0 /\ h = left[1] /\ h \in Receivers /\ Len(left') = Len(left) - 1
      /\ \A k \in 1..Len(left') : k + 1 \in 1..Len(left) /\ left'[k] = left[k + 1]
  BY <1>0, <1>1, <1>2
<1>4. \A k \in 1..Len(left) : k # 1 => \E j \in 1..Len(left') : left'[j] = left[k]
  <2> SUFFICES ASSUME NEW k \in 1..Len(left), k # 1 PROVE \E j \in 1..Len(left') : left'[j] = left[k]
    OBVIOUS
  <2>1. PICK j \in 1..Len(left') : j + 1 = k
    <3>1. k - 1 \in 1..Len(left') /\ (k - 1) + 1 = k
      BY <1>2, <1>3
    <3> QED BY <3>1
  <2> QED BY <1>3, <2>1
<1>5. \A j, k \in 1..Len(left) : left[j] = left[k] => j = k
  BY DEF HeardInv, LeftOfListed
<1>6. /\ Waits(h) /\ ~Waits(h)'
      /\ \A r \in Receivers : r # h => (Waits(r)' <=> Waits(r))
  <2>1. 1 \in 1..Len(left)
    BY <1>2, <1>3
  <2>2. \A k \in 1..Len(left') : left'[k] # h
    <3> SUFFICES ASSUME NEW k \in 1..Len(left'), left'[k] = h PROVE FALSE
      OBVIOUS
    <3>1. k + 1 \in 1..Len(left) /\ left[k + 1] = left[1]
      BY <1>3
    <3>2. k + 1 = 1
      BY <1>5, <2>1, <3>1
    <3> QED BY <1>3, <3>2
  <2>3. Waits(h) /\ ~Waits(h)'
    <3>1. Waits(h)
      BY <1>3, <2>1 DEF Waits
    <3>2. ~Waits(h)'
      BY <2>2 DEF Waits
    <3> QED BY <3>1, <3>2
  <2>4. ASSUME NEW r \in Receivers, r # h PROVE Waits(r)' <=> Waits(r)
    <3>1. Waits(r)' => Waits(r)
      BY <1>3 DEF Waits
    <3>2. Waits(r) => Waits(r)'
      BY <1>3, <1>4, <2>4 DEF Waits
    <3> QED BY <3>1, <3>2
  <2> QED BY <2>3, <2>4
<1>7. LeftOfListed'
  <2>1. \A j, k \in 1..Len(left') : left'[j] = left'[k] => j = k
    <3> SUFFICES ASSUME NEW j \in 1..Len(left'), NEW k \in 1..Len(left'), left'[j] = left'[k]
                 PROVE  j = k
      OBVIOUS
    <3>1. j + 1 \in 1..Len(left) /\ k + 1 \in 1..Len(left) /\ left[j + 1] = left[k + 1]
      BY <1>3
    <3>2. j + 1 = k + 1
      BY <1>5, <3>1
    <3> QED BY <3>2
  <2>2. \A r \in Receivers : Waits(r)' => Listed(r)'
    BY <1>1, <1>6 DEF HeardInv, LeftOfListed, Listed
  <2>3. Len(taken) > 0 /\ cur = taken[Len(taken)]
    BY <1>1 DEF HeardInv, LeftOfListed
  <2> QED BY <1>1, <2>1, <2>2, <2>3 DEF LeftOfListed
<1>8. ASSUME NEW r \in Receivers PROVE EndsAt(r)' /\ Begins(r)'
  <2>1. EndsAt(r) /\ Begins(r) /\ got[r] \in Seq(Numbers) /\ Len(got[r]) \in Nat
    BY <1>2 DEF HeardInv
  <2>2. CASE r # h
    <3>1. got'[r] = got[r] /\ (Waits(r)' <=> Waits(r))
      BY <1>1, <1>2, <1>6, <2>2
    <3> QED BY <1>1, <2>1, <3>1 DEF EndsAt, Begins, Due, Listed
  <2>3. CASE r = h
    <3>1. /\ got'[r] = Append(got[r], cur) /\ Waits(r) /\ ~Waits(r)'
          /\ Len(got'[r]) = Len(got[r]) + 1 /\ got'[r][Len(got[r]) + 1] = cur
          /\ \A i \in 1..Len(got[r]) : got'[r][i] = got[r][i]
      <4>1. got'[r] = Append(got[r], cur) /\ Waits(r) /\ ~Waits(r)'
        <5>1. got'[r] = Append(got[r], cur)
          BY <1>1, <1>2, <2>3
        <5>2. Waits(r) /\ ~Waits(r)'
          BY <1>6, <2>3 DEF Waits
        <5> QED BY <5>1, <5>2
      <4> QED BY <1>2, <2>1, <4>1
    <3>2. Due(r) = Len(taken) - 1 /\ Due(r)' = Len(taken)
      BY <1>1, <1>2, <3>1 DEF Due
    <3>3. /\ Len(got[r]) <= Len(taken) - 1
          /\ \A i \in 1..Len(got[r]) : got[r][i] = taken[(Len(taken) - 1) - Len(got[r]) + i]
      BY <2>1, <3>2 DEF EndsAt
    <3>4. cur = taken[Len(taken)]
      BY <1>1 DEF HeardInv, LeftOfListed
    <3>5. \A i \in 1..Len(got'[r]) : got'[r][i] = taken[Len(taken) - Len(got'[r]) + i]
      <4> SUFFICES ASSUME NEW i \in 1..Len(got'[r])
                   PROVE  got'[r][i] = taken[Len(taken) - Len(got'[r]) + i]
        OBVIOUS
      <4>1. CASE i \in 1..Len(got[r])
        <5>1. (Len(taken) - 1) - Len(got[r]) + i = Len(taken) - Len(got'[r]) + i
          BY <1>2, <2>1, <3>1, <4>1
        <5> QED BY <3>1, <3>3, <4>1, <5>1
      <4>2. CASE i = Len(got[r]) + 1
        <5>1. Len(taken) - Len(got'[r]) + i = Len(taken)
          BY <1>2, <2>1, <3>1, <4>2
        <5> QED BY <3>1, <3>4, <4>2, <5>1
      <4>3. i \in 1..Len(got[r]) \/ i = Len(got[r]) + 1
        BY <2>1, <3>1
      <4> QED BY <4>1, <4>2, <4>3
    <3>6. EndsAt(r)'
      <4>1. Len(got'[r]) <= Len(taken)
        BY <1>2, <2>1, <3>1, <3>3
      <4> QED BY <1>1, <3>2, <3>5, <4>1 DEF EndsAt
    <3>7. sent[got'[r][1]] = r
      <4>1. CASE Len(got[r]) = 0
        BY <2>1, <3>1, <4>1 DEF Begins
      <4>2. CASE Len(got[r]) > 0
        BY <2>1, <3>1, <4>2 DEF Begins
      <4> QED BY <2>1, <4>1, <4>2
    <3>8. Listed(r)
      BY <3>1 DEF HeardInv, LeftOfListed
    <3>9. Len(got'[r]) > 0
      BY <2>1, <3>1
    <3>10. Begins(r)'
      BY <1>1, <3>1, <3>7, <3>8, <3>9 DEF Begins, Listed
    <3> QED BY <3>6, <3>10
  <2> QED BY <2>2, <2>3
<1>9. AsksOnce' /\ ListedOnce'
  BY <1>1 DEF HeardInv, AsksOnce, ListedOnce, Listed, Numbers
<1> QED BY <1>7, <1>8, <1>9 DEF HeardInv

\* Where the worker stands matters only to what is left to call.
LEMMA HeardStays ==
  ASSUME HeardInv, UNCHANGED <<cur, left, callbacks, asked, sent, taken, got>>, LeftOfListed'
  PROVE  HeardInv'
<1>1. AsksOnce' /\ ListedOnce'
  BY DEF HeardInv, AsksOnce, ListedOnce, Listed, Numbers
<1>2. \A r \in Receivers : EndsAt(r)'
  BY ZenonT(30) DEF HeardInv, EndsAt, Due, Waits
<1>3. \A r \in Receivers : Begins(r)'
  BY DEF HeardInv, Begins, Waits, Listed
<1> QED BY <1>1, <1>2, <1>3 DEF HeardInv

LEMMA HeardHolds == Spec => []HeardInv
<1>1. Init => HeardInv
  <2> SUFFICES ASSUME Init PROVE HeardInv
    OBVIOUS
  <2>1. sent = <<>> /\ left = <<>> /\ callbacks = <<>> /\ taken = <<>> /\ at = "taking"
        /\ \A r \in Receivers : got[r] = <<>>
    BY DEF Init
  <2>2. \A r \in Receivers : EndsAt(r) /\ Begins(r)
    <3> TAKE r \in Receivers
    <3>1. Len(got[r]) = 0 /\ Due(r) = 0
      BY <2>1 DEF Due, Waits
    <3>2. ~Listed(r) /\ ~Waits(r)
      BY <2>1 DEF Waits, Listed
    <3> QED BY <3>1, <3>2 DEF EndsAt, Begins
  <2>3. AsksOnce /\ ListedOnce /\ LeftOfListed
    BY <2>1 DEF AsksOnce, ListedOnce, LeftOfListed, Waits, Listed, Numbers
  <2> QED BY <2>2, <2>3 DEF HeardInv
<1>2. Inv /\ HeardInv /\ [Next]_vars => HeardInv'
  <2> SUFFICES ASSUME Inv, HeardInv, [Next]_vars PROVE HeardInv'
    OBVIOUS
  <2>1. CASE Printf \/ PostQuit
    <3>1. \E e \in {QUIT, NOTE} : Put(e) /\ UNCHANGED <<workerVars, asked>>
      BY <2>1 DEF Printf, PostQuit
    <3>2. PICK e \in {QUIT, NOTE} : Put(e) /\ UNCHANGED <<workerVars, asked>>
      BY <3>1
    <3>3. e \notin Receivers
      BY PortAssumption
    <3> QED BY <3>2, <3>3, HeardPost
  <2>2. ASSUME NEW r \in Receivers, Register(r) PROVE HeardInv'
    BY <2>2, HeardPost DEF Register
  <2>3. CASE Take
    BY <2>3, HeardTake
  <2>4. CASE Call
    BY <2>4, HeardCall
  <2>5. CASE TakeQuit \/ Write \/ NextEvent
    <3>1. UNCHANGED <<cur, left, callbacks, asked, sent, taken, got>>
      BY <2>5 DEF TakeQuit, Write, NextEvent
    <3>2. /\ at' \in {"calling", "dumping"} => at \in {"calling", "dumping"}
          /\ at' \in {"taking", "gone"} => left = <<>>
      BY <2>5 DEF TakeQuit, Write, NextEvent, HeardInv, LeftOfListed
    <3>3. LeftOfListed'
      BY <3>1, <3>2 DEF HeardInv, LeftOfListed, Waits, Listed
    <3> QED BY <3>1, <3>3, HeardStays
  <2>6. CASE SetNull \/ CloseFile \/ Join \/ UNCHANGED vars
    <3>1. UNCHANGED <<at, cur, left, callbacks, asked, sent, taken, got>>
      BY <2>6 DEF SetNull, CloseFile, Join, vars, workerVars
    <3>2. LeftOfListed'
      BY <3>1 DEF HeardInv, LeftOfListed, Waits, Listed
    <3> QED BY <3>1, <3>2, HeardStays
  <2> QED BY <2>1, <2>2, <2>3, <2>4, <2>5, <2>6 DEF Next, Worker
<1> QED BY <1>1, <1>2, RingHolds, PTL DEF Spec

\* Whoever is registered gets every event that is taken, its own registration
\* first, in order and once, for any receivers and events (eventd.cc:25-37).
THEOREM EveryEventHeard == Spec => []Heard
<1>1. Inv /\ HeardInv => Heard
  <2> SUFFICES ASSUME Inv, HeardInv, NEW r \in Receivers
               PROVE  /\ got[r] = SubSeq(taken, Due(r) - Len(got[r]) + 1, Due(r))
                      /\ Len(got[r]) > 0 => sent[got[r][1]] = r
                      /\ r \in {callbacks[k] : k \in 1..Len(callbacks)} => Len(got[r]) > 0 \/ Waits(r)
    BY DEF Heard, Due, Waits
  <2>1. EndsAt(r) /\ Begins(r)
    BY DEF HeardInv
  <2>2. taken \in Seq(Numbers) /\ Len(taken) \in Nat /\ got[r] \in Seq(Numbers) /\ Len(got[r]) \in Nat
    BY DEF Inv, TypeOK
  <2>3. Due(r) \in Int /\ Due(r) <= Len(taken) /\ Len(got[r]) <= Due(r)
    <3>1. Due(r) = Len(taken) \/ Due(r) = Len(taken) - 1
      BY DEF Due
    <3> QED BY <2>1, <2>2, <3>1 DEF EndsAt
  <2> DEFINE d == Due(r)
             n == Len(got[r])
             s == SubSeq(taken, d - n + 1, d)
  <2>5. /\ s \in Seq(Numbers) /\ Len(s) = d - (d - n + 1) + 1
        /\ \A i \in 1..d - (d - n + 1) + 1 : s[i] = taken[(d - n + 1) + i - 1]
    <3>1. d \in Int /\ n \in Int /\ d - n + 1 \in Int
      BY <2>2, <2>3
    <3>2. \A i \in d - n + 1..d : taken[i] \in Numbers
      BY <2>2, <2>3
    <3>3. d - n + 1 <= d \/ d - n + 1 = d + 1
      BY <2>2, <3>1
    <3>4. ASSUME NEW m \in Int, NEW e \in Int, \A i \in m..e : taken[i] \in Numbers
          PROVE  /\ SubSeq(taken, m, e) \in Seq(Numbers)
                 /\ Len(SubSeq(taken, m, e)) = IF m <= e THEN e - m + 1 ELSE 0
                 /\ \A i \in 1..e - m + 1 : SubSeq(taken, m, e)[i] = taken[m + i - 1]
      BY <3>4, SubSeqProperties
    <3>5. /\ s \in Seq(Numbers) /\ Len(s) = IF d - n + 1 <= d THEN d - (d - n + 1) + 1 ELSE 0
          /\ \A i \in 1..d - (d - n + 1) + 1 : s[i] = taken[(d - n + 1) + i - 1]
      BY <3>1, <3>2, <3>4, Zenon
    <3> QED BY <3>1, <3>3, <3>5, SMTT(30)
  <2>6. Len(s) = n /\ \A i \in 1..n : s[i] = taken[d - n + i]
    <3>1. d - (d - n + 1) + 1 = n
      BY <2>2, <2>3
    <3>2. \A i \in 1..n : (d - n + 1) + i - 1 = d - n + i
      BY <2>2, <2>3
    <3> QED BY <2>5, <3>1, <3>2
  <2>7. \A i \in 1..n : got[r][i] = taken[d - n + i]
    BY <2>1 DEF EndsAt
  <2> HIDE DEF s, n
  <2>8. got[r] = s
    BY <2>2, <2>5, <2>6, <2>7 DEF n
  <2> QED BY <2>1, <2>8 DEF Begins, Listed, s, n
<1> QED BY <1>1, HeardHolds, RingHolds, PTL
=============================================================================
