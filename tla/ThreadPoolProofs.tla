-------------------------- MODULE ThreadPoolProofs --------------------------
(***************************************************************************)
(* Proofs about ThreadPool for any number of threads and owners, any group *)
(* sizes, and any contents of the memory a new tp_thread_t is built in:    *)
(* groups may use fresh and recycled threads in any mixture.               *)
(***************************************************************************)
EXTENDS ThreadPool, TLAPS

Groups ==
  /\ \A w \in Owners : pend[w] \subseteq group[w] /\ ready[w] \subseteq group[w]
  /\ \A w \in Owners : place[w] = "new" => group[w] = {} /\ begun[w] = {}
  /\ \A w \in Owners : place[w] \in {"up", "gone"} => pend[w] = {}
  /\ ThreadsNotShared

\* The pool is torn down after its owners.
TornDownLast ==
  \A t \in Threads : del[t] # "no" \/ quit[t] =>
    del[t] # "no" /\ \A w \in Owners : ~Live(w)

\* A thread is asked to run, and runs, an owner that has or had it in its group.
OwnWork ==
  \A t \in Threads :
    /\ \A w \in Owners : candidate[t] = w \/ job[t] = w => t \in group[w]
    /\ candidate[t] # NULL \/ job[t] # NULL => t \in all
    /\ job[t] # NULL <=> at[t] \in {"holding", "running"}

\* The life of a thread in a live group: to be woken, asked, past can_lock_, in
\* tp_working, back from it.  A thread that is not ready may still be busy with
\* an earlier job, or have a stale done, until it has entered tp_working.
Awake(w, t) == ~(place[w] = "waking" /\ t \in pend[w])
ToWake(w, t) == /\ ~Awake(w, t) /\ candidate[t] # w /\ job[t] # w /\ t \notin begun[w]
                /\ t \in ready[w] => candidate[t] = NULL /\ job[t] = NULL /\ ~done[t]
Asked(w, t) == /\ Awake(w, t) /\ candidate[t] = w /\ job[t] # w /\ t \notin begun[w]
               /\ t \in ready[w] => job[t] = NULL /\ ~done[t]
Picked(w, t) == /\ Awake(w, t) /\ candidate[t] = NULL /\ job[t] = w
                /\ at[t] = "holding" /\ t \notin begun[w]
                /\ t \in ready[w] => ~done[t]
Working(w, t) == /\ Awake(w, t) /\ candidate[t] = NULL /\ job[t] = w
                 /\ at[t] = "running" /\ ~done[t] /\ t \in begun[w]
Back(w, t) == /\ Awake(w, t) /\ candidate[t] = NULL /\ job[t] = NULL
              /\ done[t] /\ t \in begun[w]
Stage(w, t) == \/ ToWake(w, t) \/ Asked(w, t) \/ Picked(w, t) \/ Working(w, t) \/ Back(w, t)

\* ... and after the group: nothing of it is left.
Over(w, t) == t \in begun[w] /\ job[t] # w /\ candidate[t] # w

Thread(w, t) ==
  /\ Live(w) /\ t \in group[w] => Stage(w, t)
  /\ place[w] = "waiting" /\ t \in ready[w] /\ t \notin pend[w] => Back(w, t)
  /\ place[w] = "gone" /\ t \in ready[w] => Over(w, t)

Stages == \A w \in Owners, t \in Threads : Thread(w, t)

IInv ==
  /\ TypeOK
  /\ Groups
  /\ TornDownLast
  /\ OwnWork
  /\ Stages
-----------------------------------------------------------------------------
LEMMA TypeInit == Init => TypeOK
BY OwnerAssumption DEF Init, TypeOK, MasterPlace, OwnerPlace

LEMMA TypeStep == TypeOK /\ [Next]_vars => TypeOK'
<1> SUFFICES ASSUME TypeOK, [Next]_vars PROVE TypeOK'
  OBVIOUS
<1> USE DEF TypeOK, MasterPlace, OwnerPlace, poolVars, threadVars, ownerVars, history
<1>1. ASSUME NEW w \in Owners, Allocate(w) PROVE TypeOK'
  <2>1. PICK S \in SUBSET cans, F \in SUBSET (Threads \ all) :
          /\ cans' = cans \ S
          /\ all' = all \cup F
          /\ \E d \in [F -> FreshDone], c \in [F -> FreshCandidate] :
               /\ done' = [t \in Threads |-> IF t \in F THEN d[t] ELSE done[t]]
               /\ candidate' = [t \in Threads |-> IF t \in F THEN c[t] ELSE candidate[t]]
          /\ at' = [t \in Threads |-> IF t \in F THEN "top" ELSE at[t]]
          /\ group' = [group EXCEPT ![w] = S \cup F]
          /\ pend' = [pend EXCEPT ![w] = S \cup F]
          /\ ready' = [ready EXCEPT ![w] = Idle(S \cup F)]
    BY <1>1 DEF Allocate, HandOut
  <2>2. PICK d \in [F -> FreshDone], c \in [F -> FreshCandidate] :
               /\ done' = [t \in Threads |-> IF t \in F THEN d[t] ELSE done[t]]
               /\ candidate' = [t \in Threads |-> IF t \in F THEN c[t] ELSE candidate[t]]
    BY <2>1
  <2>3. done' \in [Threads -> BOOLEAN]
    BY <2>2, OwnerAssumption
  <2>4. candidate' \in [Threads -> Owners \cup {NULL, GARBAGE}]
    BY <2>2, OwnerAssumption
  <2>5. S \cup F \in SUBSET all' /\ SUBSET all \subseteq SUBSET all'
    BY <2>1
  <2>6. group' \in [Owners -> SUBSET all']
    BY <2>1, <2>5
  <2>7. Idle(S \cup F) \subseteq Threads
    BY <2>1 DEF Idle
  <2>8. QED
    BY <1>1, <2>1, <2>3, <2>4, <2>5, <2>6, <2>7 DEF Allocate, HandOut
<1>2. ASSUME NEW w \in Owners, OwnerLoop(w) PROVE TypeOK'
  <2>1. ASSUME NEW t \in Threads, Wake(w, t) PROVE TypeOK'
    BY <2>1 DEF Wake, StoreCandidate
  <2>2. ASSUME NEW t \in Threads, WaitPasses(w, t) \/ WaitSleeps(w, t) PROVE TypeOK'
    BY <2>2 DEF WaitPasses, WaitSleeps
  <2>3. CASE Recycle(w)
    BY <2>3 DEF Recycle
  <2>4. QED
    BY <1>2, <2>1, <2>2, <2>3 DEF OwnerLoop
<1>3. ASSUME NEW w \in Owners, Destroy(w) \/ WaitSpuriousWakeup(w) PROVE TypeOK'
  BY <1>3 DEF Destroy, WaitSpuriousWakeup
<1>4. ASSUME NEW t \in Threads, Master(t) PROVE TypeOK'
  <2>1. CASE LookEmpty(t) \/ Doze(t) \/ Leave(t)
    BY <2>1 DEF LookEmpty, Doze, Leave
  <2>2. CASE PickCandidate(t)
    BY <2>2 DEF PickCandidate
  <2>3. CASE StartWorking(t)
    BY <2>3 DEF StartWorking
  <2>4. CASE ReturnFromWork(t)
    BY <2>4 DEF ReturnFromWork, WorkDone
  <2>5. QED
    BY <1>4, <2>1, <2>2, <2>3, <2>4 DEF Master
<1>5. ASSUME NEW t \in Threads, SpuriousWakeup(t) PROVE TypeOK'
  BY <1>5 DEF SpuriousWakeup
<1>6. ASSUME NEW t \in Threads, Delete(t) PROVE TypeOK'
  <2>1. CASE SetQuit(t)
    BY <2>1 DEF SetQuit
  <2>2. CASE NotifyQuit(t)
    BY <2>2 DEF NotifyQuit
  <2>3. CASE Join(t)
    BY <2>3 DEF Join
  <2>4. QED
    BY <1>6, <2>1, <2>2, <2>3 DEF Delete
<1>7. CASE UNCHANGED vars
  BY <1>7 DEF vars
<1>8. QED
  BY <1>1, <1>2, <1>3, <1>4, <1>5, <1>6, <1>7 DEF Next

\* The variables of the model keep the types the code declares.
THEOREM TypeCorrect == SafetySpec => []TypeOK
BY TypeInit, TypeStep, PTL DEF SafetySpec
-----------------------------------------------------------------------------
LEMMA IInvInit == Init => IInv
<1> SUFFICES ASSUME Init PROVE IInv
  OBVIOUS
<1>1. TypeOK
  BY TypeInit
<1>2. Groups /\ TornDownLast /\ OwnWork /\ Stages
  BY OwnerAssumption
     DEF Init, Groups, ThreadsNotShared, Live, TornDownLast, OwnWork, Stages, Thread
<1>3. QED
  BY <1>1, <1>2 DEF IInv

\* A step that leaves what the stages of (w, t) speak of alone.
LEMMA StageFrame ==
  ASSUME NEW w \in Owners, NEW t \in Threads, Thread(w, t),
         place'[w] = place[w],
         t \in group'[w] <=> t \in group[w],
         t \in pend'[w] <=> t \in pend[w],
         t \in begun'[w] <=> t \in begun[w],
         t \in ready'[w] <=> t \in ready[w],
         candidate'[t] = candidate[t] /\ job'[t] = job[t] /\ done'[t] = done[t],
         at[t] \in {"holding", "running"} \/ at'[t] \in {"holding", "running"} =>
           at'[t] = at[t]
  PROVE  Thread(w, t)'
BY DEF Thread, Stage, Over, Live, ToWake, Asked, Picked, Working, Back, Awake

\* Allocation: recycled and newborn threads, in whatever state they are.
LEMMA AllocateStep ==
  ASSUME IInv, NEW w \in Owners, Allocate(w), TypeOK'
  PROVE  IInv'
<1> USE DEF poolVars, threadVars, ownerVars, history
<1>a. TypeOK /\ Groups /\ TornDownLast /\ OwnWork /\ Stages
  BY DEF IInv
<1>1. PICK S \in SUBSET cans, F \in SUBSET (Threads \ all) :
        /\ cans' = cans \ S
        /\ all' = all \cup F
        /\ \E d \in [F -> FreshDone], c \in [F -> FreshCandidate] :
             /\ done' = [t \in Threads |-> IF t \in F THEN d[t] ELSE done[t]]
             /\ candidate' = [t \in Threads |-> IF t \in F THEN c[t] ELSE candidate[t]]
        /\ at' = [t \in Threads |-> IF t \in F THEN "top" ELSE at[t]]
        /\ group' = [group EXCEPT ![w] = S \cup F]
        /\ pend' = [pend EXCEPT ![w] = S \cup F]
        /\ ready' = [ready EXCEPT ![w] = Idle(S \cup F)]
  BY DEF Allocate, HandOut
<1>2. /\ place[w] = "new" /\ place' = [place EXCEPT ![w] = "waking"]
      /\ \A t \in Threads : del[t] = "no"
      /\ UNCHANGED <<quit, job, blocked, del, begun>>
  BY DEF Allocate
<1>3. PICK d \in [F -> FreshDone], c \in [F -> FreshCandidate] :
        /\ done' = [t \in Threads |-> IF t \in F THEN d[t] ELSE done[t]]
        /\ candidate' = [t \in Threads |-> IF t \in F THEN c[t] ELSE candidate[t]]
  BY <1>1
<1>4. \A t \in F : candidate'[t] \in {NULL, GARBAGE}
  BY <1>3, OwnerAssumption
<1>5. \A t \in Threads \ F : /\ done'[t] = done[t] /\ candidate'[t] = candidate[t]
                             /\ at'[t] = at[t]
  BY <1>1, <1>3
<1>6. \A v \in Owners \ {w} : /\ group'[v] = group[v] /\ pend'[v] = pend[v]
                              /\ ready'[v] = ready[v] /\ place'[v] = place[v]
  BY <1>a, <1>1, <1>2 DEF TypeOK
<1>7. /\ group'[w] = S \cup F /\ pend'[w] = S \cup F /\ ready'[w] = Idle(S \cup F)
      /\ place'[w] = "waking"
  BY <1>a, <1>1, <1>2 DEF TypeOK
<1>8. \A v \in Owners : group[v] \cap F = {}
  BY <1>a DEF TypeOK
<1>9. \A t \in F : job[t] = NULL /\ at'[t] = "top"
  <2>1. \A t \in F : job[t] = NULL
    BY <1>a DEF OwnWork
  <2>2. QED
    BY <1>1, <2>1
<1>10. TornDownLast'
  BY <1>2, <1>a DEF TornDownLast
<1>11. \A v \in Owners \ {w} : Live(v)' <=> Live(v)
  BY <1>6 DEF Live
<1>12. ThreadsNotShared'
  <2>1. \A v \in Owners \ {w} : Live(v) => group[v] \cap (S \cup F) = {}
    BY <1>a, <1>8 DEF Groups, ThreadsNotShared
  <2>2. cans' \cap (S \cup F) = {} /\ cans' \subseteq cans
    BY <1>1, <1>a DEF TypeOK
  <2>3. \A v \in Owners \ {w} : Live(v) => group[v] \cap cans = {}
    BY <1>a DEF Groups, ThreadsNotShared
  <2>4. \A u, v \in Owners \ {w} : u # v /\ Live(u) /\ Live(v) => group[u] \cap group[v] = {}
    BY <1>a DEF Groups, ThreadsNotShared
  <2>5. QED
    BY <1>6, <1>7, <1>11, <2>1, <2>2, <2>3, <2>4 DEF ThreadsNotShared
<1>13. Groups'
  <2>1. Idle(S \cup F) \subseteq S \cup F
    BY DEF Idle
  <2>2. ASSUME NEW v \in Owners PROVE pend'[v] \subseteq group'[v] /\ ready'[v] \subseteq group'[v]
    <3>1. CASE v = w
      BY <1>7, <2>1, <3>1
    <3>2. CASE v # w
      BY <1>a, <1>6, <3>2 DEF Groups
    <3>3. QED
      BY <3>1, <3>2
  <2>3. \A v \in Owners : place'[v] = "new" => group'[v] = {} /\ begun'[v] = {}
    BY <1>a, <1>2, <1>6, <1>7 DEF Groups
  <2>4. \A v \in Owners : place'[v] \in {"up", "gone"} => pend'[v] = {}
    BY <1>a, <1>6, <1>7 DEF Groups
  <2>5. QED
    BY <1>12, <2>2, <2>3, <2>4 DEF Groups
<1>14. \A t \in Threads : candidate[t] # w /\ job[t] # w /\ t \notin begun[w]
  BY <1>a, <1>2 DEF Groups, OwnWork
<1>15. OwnWork'
  <2>1. \A t \in Threads, v \in Owners : candidate'[t] = v \/ job'[t] = v => t \in group'[v]
    BY <1>a, <1>2, <1>4, <1>5, <1>6, <1>9, <1>14, OwnerAssumption DEF OwnWork
  <2>2. \A t \in Threads : candidate'[t] # NULL \/ job'[t] # NULL => t \in all'
    BY <1>a, <1>1, <1>2, <1>5 DEF OwnWork
  <2>3. \A t \in Threads : job'[t] # NULL <=> at'[t] \in {"holding", "running"}
    BY <1>a, <1>2, <1>5, <1>9 DEF OwnWork
  <2>4. QED
    BY <2>1, <2>2, <2>3 DEF OwnWork
<1>16. ASSUME NEW t \in Threads PROVE Thread(w, t)'
  <2>1. t \in Idle(S \cup F) => candidate'[t] = NULL /\ job[t] = NULL /\ ~done'[t]
    BY DEF Idle
  <2>2. candidate'[t] # w
    BY <1>4, <1>5, <1>14, OwnerAssumption
  <2>3. t \in group'[w] => ToWake(w, t)'
    BY <1>2, <1>7, <1>14, <2>1, <2>2 DEF ToWake, Awake
  <2>4. QED
    BY <1>7, <2>3 DEF Thread, Stage
<1>17. ASSUME NEW v \in Owners \ {w}, NEW t \in Threads PROVE Thread(v, t)'
  <2>1. Thread(v, t)
    BY <1>a DEF Stages
  <2>2. CASE t \in F
    <3>1. t \notin group'[v] /\ t \notin ready'[v]
      BY <1>6, <1>8, <1>a, <2>2 DEF Groups
    <3>2. QED
      BY <3>1 DEF Thread
  <2>3. CASE t \notin F
    BY <1>2, <1>5, <1>6, <2>1, <2>3, StageFrame
  <2>4. QED
    BY <2>2, <2>3
<1>18. Stages'
  BY <1>16, <1>17 DEF Stages
<1>19. QED
  BY <1>10, <1>13, <1>15, <1>18 DEF IInv

\* Steps of master() that do not touch the worker in hand.
LEMMA IdleStep ==
  ASSUME IInv, NEW t \in Threads, TypeOK',
         LookEmpty(t) \/ Doze(t) \/ Leave(t) \/ SpuriousWakeup(t)
  PROVE  IInv'
<1> USE DEF poolVars, threadVars, ownerVars, history
<1>a. TypeOK /\ Groups /\ TornDownLast /\ OwnWork /\ Stages
  BY DEF IInv
<1>1. /\ UNCHANGED <<all, cans, candidate, done, quit, job, place, group, pend, blocked, del, begun, ready>>
      /\ at[t] \notin {"holding", "running"}
      /\ \E p \in {"top", "dozing", "asleep", "exited"} : at' = [at EXCEPT ![t] = p]
  BY DEF LookEmpty, Doze, Leave, SpuriousWakeup
<1>2. Groups' /\ TornDownLast'
  BY <1>a, <1>1 DEF Groups, ThreadsNotShared, Live, TornDownLast
<1>3. \A s \in Threads :
        at[s] \in {"holding", "running"} \/ at'[s] \in {"holding", "running"} => at'[s] = at[s]
  BY <1>a, <1>1 DEF TypeOK
<1>4. OwnWork'
  BY <1>a, <1>1, <1>3 DEF OwnWork
<1>5. Stages'
  <2> SUFFICES ASSUME NEW v \in Owners, NEW s \in Threads PROVE Thread(v, s)'
    BY DEF Stages
  <2>1. Thread(v, s)
    BY <1>a DEF Stages
  <2>2. QED
    BY <1>1, <1>3, <2>1, StageFrame
<1>6. QED
  BY <1>2, <1>4, <1>5 DEF IInv

\* The thread leaves an owner's stage "asked" with the worker in hand; any other
\* owner that has it is still waiting to wake it.
LEMMA PickStep ==
  ASSUME IInv, NEW t \in Threads, TypeOK', PickCandidate(t)
  PROVE  IInv'
<1> USE DEF poolVars, threadVars, ownerVars, history
<1>a. TypeOK /\ Groups /\ TornDownLast /\ OwnWork /\ Stages
  BY DEF IInv
<1>1. /\ UNCHANGED <<all, cans, done, quit, place, group, pend, blocked, del, begun, ready>>
      /\ at[t] = "top" /\ candidate[t] # NULL
      /\ job' = [job EXCEPT ![t] = candidate[t]]
      /\ candidate' = [candidate EXCEPT ![t] = NULL]
      /\ at' = [at EXCEPT ![t] = "holding"]
  BY DEF PickCandidate
<1>2. /\ job'[t] = candidate[t] /\ candidate'[t] = NULL /\ at'[t] = "holding"
      /\ \A s \in Threads \ {t} :
           job'[s] = job[s] /\ candidate'[s] = candidate[s] /\ at'[s] = at[s]
  BY <1>a, <1>1 DEF TypeOK
<1>3. Groups' /\ TornDownLast'
  BY <1>a, <1>1 DEF Groups, ThreadsNotShared, Live, TornDownLast
<1>4. OwnWork'
  BY <1>a, <1>1, <1>2, OwnerAssumption DEF OwnWork
<1>5. job[t] = NULL
  BY <1>a, <1>1 DEF OwnWork
<1>6. Stages'
  <2> SUFFICES ASSUME NEW v \in Owners, NEW s \in Threads PROVE Thread(v, s)'
    BY DEF Stages
  <2>1. Thread(v, s)
    BY <1>a DEF Stages
  <2>2. CASE s # t
    BY <1>1, <1>2, <2>1, <2>2, StageFrame
  <2>3. CASE s = t
    <3>1. Live(v) /\ t \in group[v] => Stage(v, t)'
      <4> SUFFICES ASSUME Stage(v, t) PROVE Stage(v, t)'
        BY <2>1, <2>3 DEF Thread
      <4>1. CASE ToWake(v, t)
        BY <1>1, <1>2, <4>1, OwnerAssumption DEF ToWake, Awake, Stage
      <4>2. CASE Asked(v, t)
        BY <1>1, <1>2, <4>2 DEF Asked, Picked, Awake, Stage
      <4>3. CASE Picked(v, t) \/ Working(v, t) \/ Back(v, t)
        BY <1>1, <4>3 DEF Picked, Working, Back
      <4>4. QED
        BY <4>1, <4>2, <4>3 DEF Stage
    <3>2. ~(place[v] = "waiting" /\ t \in ready[v] /\ t \notin pend[v])
      BY <1>1, <2>1, <2>3 DEF Thread, Back
    <3>3. place[v] = "gone" /\ t \in ready[v] => Over(v, t)'
      BY <1>1, <1>2, <2>1, <2>3, OwnerAssumption DEF Thread, Over
    <3>4. QED
      BY <1>1, <2>3, <3>1, <3>2, <3>3 DEF Thread, Live
  <2>4. QED
    BY <2>2, <2>3
<1>7. QED
  BY <1>3, <1>4, <1>6 DEF IInv

\* Entering tp_working makes the thread ready, if its owner has not let go.
LEMMA StartStep ==
  ASSUME IInv, NEW t \in Threads, TypeOK', StartWorking(t)
  PROVE  IInv'
<1> USE DEF poolVars, threadVars, ownerVars, history
<1>a. TypeOK /\ Groups /\ TornDownLast /\ OwnWork /\ Stages
  BY DEF IInv
<1>1. /\ UNCHANGED <<all, cans, candidate, quit, job, place, group, pend, blocked, del>>
      /\ at[t] = "holding"
      /\ done' = [done EXCEPT ![t] = FALSE]
      /\ at' = [at EXCEPT ![t] = "running"]
  BY DEF StartWorking
<1>2. /\ ~done'[t] /\ at'[t] = "running"
      /\ \A s \in Threads \ {t} : done'[s] = done[s] /\ at'[s] = at[s]
  BY <1>a, <1>1 DEF TypeOK
<1>3. \A v \in Owners : v # job[t] => begun'[v] = begun[v] /\ ready'[v] = ready[v]
  BY DEF StartWorking
<1>4. \A v \in Owners : v = job[t] =>
        /\ begun'[v] = begun[v] \cup {t}
        /\ place[v] \in {"waking", "up"} => ready'[v] = ready[v] \cup {t}
        /\ place[v] \notin {"waking", "up"} => ready'[v] = ready[v]
  BY DEF StartWorking
<1>5. \A v \in Owners : v = job[t] => t \in group[v]
  BY <1>a DEF OwnWork
<1>6. TornDownLast'
  BY <1>a, <1>1 DEF TornDownLast, Live
<1>7. Groups'
  <2>1. ThreadsNotShared'
    BY <1>a, <1>1 DEF Groups, ThreadsNotShared, Live
  <2>2. \A v \in Owners : /\ pend'[v] \subseteq group'[v] /\ ready'[v] \subseteq group'[v]
                          /\ place'[v] \in {"up", "gone"} => pend'[v] = {}
    BY <1>a, <1>1, <1>3, <1>4, <1>5 DEF Groups
  <2>3. \A v \in Owners : place'[v] = "new" => group'[v] = {} /\ begun'[v] = {}
    BY <1>a, <1>1, <1>3, <1>5 DEF Groups
  <2>4. QED
    BY <2>1, <2>2, <2>3 DEF Groups
<1>8. job[t] # NULL
  BY <1>a, <1>1 DEF OwnWork
<1>9. OwnWork'
  BY <1>a, <1>1, <1>2, <1>8 DEF OwnWork
<1>10. Stages'
  <2> SUFFICES ASSUME NEW v \in Owners, NEW s \in Threads PROVE Thread(v, s)'
    BY DEF Stages
  <2>1. Thread(v, s)
    BY <1>a DEF Stages
  <2>2. CASE s # t
    <3>1. s \in begun'[v] <=> s \in begun[v]
      BY <1>3, <1>4, <2>2
    <3>2. s \in ready'[v] <=> s \in ready[v]
      BY <1>3, <1>4, <2>2
    <3>3. QED
      BY <1>1, <1>2, <2>1, <2>2, <3>1, <3>2, StageFrame
  <2>3. CASE s = t /\ v # job[t]
    <3>1. begun'[v] = begun[v] /\ ready'[v] = ready[v]
      BY <1>3, <2>3
    <3>2. Live(v) /\ t \in group[v] => Stage(v, t)'
      <4> SUFFICES ASSUME Stage(v, t) PROVE Stage(v, t)'
        BY <2>1, <2>3 DEF Thread
      <4>1. CASE ToWake(v, t)
        BY <1>1, <1>2, <1>8, <3>1, <4>1 DEF ToWake, Awake, Stage
      <4>2. CASE Asked(v, t)
        BY <1>1, <1>2, <1>8, <3>1, <4>2 DEF Asked, Awake, Stage
      <4>3. CASE Picked(v, t) \/ Working(v, t) \/ Back(v, t)
        BY <1>8, <2>3, <4>3 DEF Picked, Working, Back
      <4>4. QED
        BY <4>1, <4>2, <4>3 DEF Stage
    <3>3. ~(place[v] = "waiting" /\ t \in ready[v] /\ t \notin pend[v])
      BY <1>8, <2>1, <2>3 DEF Thread, Back
    <3>4. place[v] = "gone" /\ t \in ready[v] => Over(v, t)'
      BY <1>1, <2>1, <2>3, <3>1 DEF Thread, Over
    <3>5. QED
      BY <1>1, <2>3, <3>1, <3>2, <3>3, <3>4 DEF Thread, Live
  <2>4. CASE s = t /\ v = job[t]
    <3>1. t \in group[v] /\ t \in begun'[v]
      BY <1>4, <1>5, <2>4
    <3>2. Live(v) => Stage(v, t)'
      <4> SUFFICES ASSUME Live(v) PROVE Working(v, t)'
        BY DEF Stage
      <4>1. Stage(v, t)
        BY <2>1, <2>4, <3>1 DEF Thread
      <4>2. Picked(v, t)
        BY <1>1, <1>8, <2>4, <4>1 DEF Stage, ToWake, Asked, Working, Back
      <4>3. QED
        BY <1>1, <1>2, <3>1, <4>2 DEF Picked, Working, Awake
    <3>3. place[v] \notin {"waking", "up"} => ready'[v] = ready[v]
      BY <1>4, <2>4
    <3>4. ~(place[v] = "waiting" /\ t \in ready'[v] /\ t \notin pend[v])
      BY <1>8, <2>1, <2>4, <3>3 DEF Thread, Back
    <3>5. ~(place[v] = "gone" /\ t \in ready'[v])
      BY <2>1, <2>4, <3>3 DEF Thread, Over
    <3>6. QED
      BY <1>1, <2>4, <3>2, <3>4, <3>5 DEF Thread, Live
  <2>5. QED
    BY <2>2, <2>3, <2>4
<1>11. QED
  BY <1>6, <1>7, <1>9, <1>10 DEF IInv

LEMMA ReturnStep ==
  ASSUME IInv, NEW t \in Threads, TypeOK', ReturnFromWork(t)
  PROVE  IInv'
<1> USE DEF poolVars, threadVars, ownerVars, history
<1>a. TypeOK /\ Groups /\ TornDownLast /\ OwnWork /\ Stages
  BY DEF IInv
<1>1. /\ UNCHANGED <<all, cans, candidate, quit, place, group, pend, del, begun, ready>>
      /\ at[t] = "running"
      /\ done' = [done EXCEPT ![t] = TRUE]
      /\ job' = [job EXCEPT ![t] = NULL]
      /\ at' = [at EXCEPT ![t] = "top"]
  BY DEF ReturnFromWork, WorkDone
<1>2. /\ done'[t] /\ job'[t] = NULL /\ at'[t] = "top"
      /\ \A s \in Threads \ {t} : done'[s] = done[s] /\ job'[s] = job[s] /\ at'[s] = at[s]
  BY <1>a, <1>1 DEF TypeOK
<1>3. Groups' /\ TornDownLast'
  BY <1>a, <1>1 DEF Groups, ThreadsNotShared, Live, TornDownLast
<1>4. job[t] # NULL
  BY <1>a, <1>1 DEF OwnWork
<1>5. OwnWork'
  <2>1. \A s \in Threads : job'[s] # NULL <=> at'[s] \in {"holding", "running"}
    BY <1>a, <1>2 DEF OwnWork
  <2>2. \A s \in Threads : job'[s] = job[s] \/ job'[s] = NULL
    BY <1>2
  <2>3. \A s \in Threads : candidate'[s] # NULL \/ job'[s] # NULL => s \in all'
    BY <1>a, <1>1, <2>2 DEF OwnWork
  <2>4. \A s \in Threads, v \in Owners : candidate'[s] = v \/ job'[s] = v => s \in group'[v]
    BY <1>a, <1>1, <2>2, OwnerAssumption DEF OwnWork
  <2>5. QED
    BY <2>1, <2>3, <2>4 DEF OwnWork
<1>6. Stages'
  <2> SUFFICES ASSUME NEW v \in Owners, NEW s \in Threads PROVE Thread(v, s)'
    BY DEF Stages
  <2>1. Thread(v, s)
    BY <1>a DEF Stages
  <2>2. CASE s # t
    BY <1>1, <1>2, <2>1, <2>2, StageFrame
  <2>3. CASE s = t
    <3>1. Live(v) /\ t \in group[v] => Stage(v, t)'
      <4> SUFFICES ASSUME Stage(v, t) PROVE Stage(v, t)'
        BY <2>1, <2>3 DEF Thread
      <4>1. CASE ToWake(v, t)
        BY <1>1, <1>2, <1>4, <4>1, OwnerAssumption DEF ToWake, Awake, Stage
      <4>2. CASE Asked(v, t)
        BY <1>1, <1>2, <1>4, <4>2, OwnerAssumption DEF Asked, Awake, Stage
      <4>3. CASE Working(v, t)
        BY <1>1, <1>2, <4>3 DEF Working, Back, Awake, Stage
      <4>4. CASE Picked(v, t) \/ Back(v, t)
        BY <1>1, <1>4, <4>4 DEF Picked, Back
      <4>5. QED
        BY <4>1, <4>2, <4>3, <4>4 DEF Stage
    <3>2. ~(place[v] = "waiting" /\ t \in ready[v] /\ t \notin pend[v])
      BY <1>4, <2>1, <2>3 DEF Thread, Back
    <3>3. place[v] = "gone" /\ t \in ready[v] => Over(v, t)'
      BY <1>1, <1>2, <2>1, <2>3, OwnerAssumption DEF Thread, Over
    <3>4. QED
      BY <1>1, <2>3, <3>1, <3>2, <3>3 DEF Thread, Live
  <2>4. QED
    BY <2>2, <2>3
<1>7. QED
  BY <1>3, <1>5, <1>6 DEF IInv

LEMMA WakeStep ==
  ASSUME IInv, NEW w \in Owners, NEW t \in Threads, TypeOK', Wake(w, t)
  PROVE  IInv'
<1> USE DEF poolVars, threadVars, ownerVars, history
<1>a. TypeOK /\ Groups /\ TornDownLast /\ OwnWork /\ Stages
  BY DEF IInv
<1>1. t \in group[w] /\ place[w] = "waking" /\ t \in pend[w]
  BY <1>a DEF Wake, StoreCandidate, Groups
<1>2. /\ UNCHANGED <<all, cans, done, quit, job, group, blocked, del, begun, ready>>
      /\ candidate' = [candidate EXCEPT ![t] = w]
      /\ (at[t] = "asleep" /\ at' = [at EXCEPT ![t] = "top"]) \/ at' = at
      /\ pend' = [pend EXCEPT ![w] = @ \ {t}]
      /\ place' = [place EXCEPT ![w] = IF pend[w] = {t} THEN "up" ELSE "waking"]
  BY <1>1 DEF Wake, StoreCandidate
<1>3. /\ candidate'[t] = w /\ \A s \in Threads \ {t} : candidate'[s] = candidate[s]
      /\ pend'[w] = pend[w] \ {t}
      /\ place'[w] \in {"waking", "up"} /\ (place'[w] = "up" => pend'[w] = {})
      /\ \A v \in Owners \ {w} : pend'[v] = pend[v] /\ place'[v] = place[v]
  BY <1>a, <1>2 DEF TypeOK
<1>4. \A s \in Threads :
        at[s] \in {"holding", "running"} \/ at'[s] \in {"holding", "running"} => at'[s] = at[s]
  BY <1>a, <1>2 DEF TypeOK
<1>5. \A v \in Owners : Live(v)' <=> Live(v)
  BY <1>1, <1>3 DEF Live
<1>6. TornDownLast'
  BY <1>a, <1>2, <1>5 DEF TornDownLast
<1>7. Groups'
  <2>1. ThreadsNotShared'
    BY <1>a, <1>2, <1>5 DEF Groups, ThreadsNotShared
  <2>2. \A v \in Owners : /\ pend'[v] \subseteq group'[v] /\ ready'[v] \subseteq group'[v]
                          /\ place'[v] = "new" => group'[v] = {} /\ begun'[v] = {}
    BY <1>a, <1>2, <1>3 DEF Groups
  <2>3. \A v \in Owners : place'[v] \in {"up", "gone"} => pend'[v] = {}
    BY <1>a, <1>3 DEF Groups
  <2>4. QED
    BY <2>1, <2>2, <2>3 DEF Groups
<1>8. OwnWork'
  BY <1>a, <1>1, <1>2, <1>3, <1>4, OwnerAssumption DEF OwnWork, TypeOK
<1>9. Stages'
  <2> SUFFICES ASSUME NEW v \in Owners, NEW s \in Threads PROVE Thread(v, s)'
    BY DEF Stages
  <2>1. Thread(v, s)
    BY <1>a DEF Stages
  <2>2. CASE v # w /\ s # t
    BY <1>2, <1>3, <1>4, <2>1, <2>2, StageFrame
  <2>3. CASE v # w /\ s = t
    <3>1. ~(Live(v) /\ t \in group[v])
      BY <1>a, <1>1, <2>3 DEF Groups, ThreadsNotShared, Live
    <3>2. ~(place[v] = "waiting" /\ t \in ready[v])
      BY <1>a, <3>1 DEF Groups, Live
    <3>3. place[v] = "gone" /\ t \in ready[v] => Over(v, t)'
      BY <1>2, <1>3, <2>1, <2>3 DEF Thread, Over
    <3>4. QED
      BY <1>2, <1>3, <1>5, <2>3, <3>1, <3>2, <3>3 DEF Thread
  <2>4. CASE v = w /\ s # t
    <3>1. s \in pend'[w] <=> s \in pend[w]
      BY <1>3, <2>4
    <3>2. s \in group[w] => Stage(w, s)
      BY <1>1, <2>1, <2>4 DEF Thread, Live
    <3>3. Awake(w, s)' <=> Awake(w, s)
      BY <1>1, <1>3, <3>1 DEF Awake
    <3>4. s \in group[w] => Stage(w, s)'
      BY <1>2, <1>3, <1>4, <2>4, <3>2, <3>3
         DEF Stage, ToWake, Asked, Picked, Working, Back
    <3>5. QED
      BY <1>2, <1>3, <2>4, <3>4 DEF Thread
  <2>5. CASE v = w /\ s = t
    <3>1. Stage(w, t)
      BY <1>1, <2>1, <2>5 DEF Thread, Live
    <3>2. ToWake(w, t)
      BY <1>1, <3>1 DEF Stage, Asked, Picked, Working, Back, Awake
    <3>3. Asked(w, t)'
      BY <1>2, <1>3, <3>2 DEF ToWake, Asked, Awake
    <3>4. QED
      BY <1>3, <2>5, <3>3 DEF Thread, Stage
  <2>6. QED
    BY <2>2, <2>3, <2>4, <2>5
<1>10. QED
  BY <1>6, <1>7, <1>8, <1>9 DEF IInv

LEMMA DestroyStep ==
  ASSUME IInv, NEW w \in Owners, TypeOK', Destroy(w)
  PROVE  IInv'
<1> USE DEF poolVars, threadVars, ownerVars, history
<1>a. TypeOK /\ Groups /\ TornDownLast /\ OwnWork /\ Stages
  BY DEF IInv
<1>1. /\ UNCHANGED <<all, cans, at, candidate, done, quit, job, group, blocked, del, begun, ready>>
      /\ place[w] = "up" /\ place' = [place EXCEPT ![w] = "waiting"]
      /\ pend' = [pend EXCEPT ![w] = group[w]]
  BY DEF Destroy
<1>2. /\ place'[w] = "waiting" /\ pend'[w] = group[w]
      /\ \A v \in Owners \ {w} : place'[v] = place[v] /\ pend'[v] = pend[v]
  BY <1>a, <1>1 DEF TypeOK
<1>3. \A v \in Owners : Live(v)' <=> Live(v)
  BY <1>1, <1>2 DEF Live
<1>4. TornDownLast' /\ OwnWork'
  BY <1>a, <1>1, <1>3 DEF TornDownLast, OwnWork
<1>5. Groups'
  <2>1. ThreadsNotShared'
    BY <1>a, <1>1, <1>3 DEF Groups, ThreadsNotShared
  <2>2. QED
    BY <1>a, <1>1, <1>2, <2>1 DEF Groups
<1>6. Stages'
  <2> SUFFICES ASSUME NEW v \in Owners, NEW s \in Threads PROVE Thread(v, s)'
    BY DEF Stages
  <2>1. Thread(v, s)
    BY <1>a DEF Stages
  <2>2. CASE v # w
    BY <1>1, <1>2, <2>1, <2>2, StageFrame
  <2>3. CASE v = w
    <3>1. s \in group[w] => Stage(w, s)
      BY <1>1, <2>1, <2>3 DEF Thread, Live
    <3>2. Awake(w, s) /\ Awake(w, s)'
      BY <1>1, <1>2 DEF Awake
    <3>3. s \in group[w] => Stage(w, s)'
      BY <1>1, <3>1, <3>2 DEF Stage, ToWake, Asked, Picked, Working, Back
    <3>4. s \in ready[w] => s \in pend'[w]
      BY <1>a, <1>2 DEF Groups
    <3>5. QED
      BY <1>1, <1>2, <2>3, <3>3, <3>4 DEF Thread
  <2>4. QED
    BY <2>2, <2>3
<1>7. QED
  BY <1>4, <1>5, <1>6 DEF IInv

\* The step that needs it all: wait() passes a ready thread only when it is back.
LEMMA WaitStep ==
  ASSUME IInv, NEW w \in Owners, NEW t \in Threads, TypeOK',
         WaitPasses(w, t) \/ WaitSleeps(w, t) \/ WaitSpuriousWakeup(w)
  PROVE  IInv'
<1> USE DEF poolVars, threadVars, ownerVars, history
<1>a. TypeOK /\ Groups /\ TornDownLast /\ OwnWork /\ Stages
  BY DEF IInv
<1>1. CASE WaitPasses(w, t)
  <2>1. place[w] = "waiting" /\ t \in group[w] /\ ~quit[t] /\ done[t] /\ at[t] # "running"
    BY <1>a, <1>1 DEF WaitPasses, Groups, TornDownLast, Live
  <2>2. /\ UNCHANGED <<all, cans, at, candidate, done, quit, job, place, group, blocked, del, begun, ready>>
        /\ pend' = [pend EXCEPT ![w] = @ \ {t}]
    BY <1>1 DEF WaitPasses
  <2>3. /\ pend'[w] = pend[w] \ {t} /\ \A v \in Owners \ {w} : pend'[v] = pend[v]
    BY <1>a, <2>2 DEF TypeOK
  <2>4. TornDownLast' /\ OwnWork'
    BY <1>a, <2>2 DEF TornDownLast, OwnWork, Live
  <2>5. Groups'
    <3>1. ThreadsNotShared'
      BY <1>a, <2>2 DEF Groups, ThreadsNotShared, Live
    <3>2. QED
      BY <1>a, <2>2, <2>3, <3>1 DEF Groups
  <2>6. Stages'
    <3> SUFFICES ASSUME NEW v \in Owners, NEW s \in Threads PROVE Thread(v, s)'
      BY DEF Stages
    <3>1. Thread(v, s)
      BY <1>a DEF Stages
    <3>2. CASE v # w \/ s # t
      <4>1. s \in pend'[v] <=> s \in pend[v]
        BY <2>3, <3>2
      <4>2. QED
        BY <2>2, <3>1, <4>1, StageFrame
    <3>3. CASE v = w /\ s = t
      <4>1. Stage(w, t)
        BY <2>1, <3>1, <3>3 DEF Thread, Live
      <4>2. Stage(w, t)'
        BY <2>1, <2>2, <4>1 DEF Stage, ToWake, Asked, Picked, Working, Back, Awake
      <4>3. t \in ready[w] => Back(w, t)
        BY <2>1, <4>1 DEF Stage, ToWake, Asked, Picked, Working, Awake
      <4>4. t \in ready[w] => Back(w, t)'
        BY <2>1, <2>2, <4>3 DEF Back, Awake
      <4>5. QED
        BY <2>1, <2>2, <3>3, <4>2, <4>4 DEF Thread
    <3>4. QED
      BY <3>2, <3>3
  <2>7. QED
    BY <2>4, <2>5, <2>6 DEF IInv
<1>2. CASE WaitSleeps(w, t) \/ WaitSpuriousWakeup(w)
  <2>1. UNCHANGED <<all, cans, at, candidate, done, quit, job, place, group, pend, del, begun, ready>>
    BY <1>2 DEF WaitSleeps, WaitSpuriousWakeup
  <2>2. TornDownLast' /\ OwnWork' /\ Groups'
    BY <1>a, <2>1 DEF TornDownLast, OwnWork, Groups, ThreadsNotShared, Live
  <2>3. Stages'
    <3> SUFFICES ASSUME NEW v \in Owners, NEW s \in Threads PROVE Thread(v, s)'
      BY DEF Stages
    <3>1. Thread(v, s)
      BY <1>a DEF Stages
    <3>2. QED
      BY <2>1, <3>1, StageFrame
  <2>4. QED
    BY <2>2, <2>3 DEF IInv
<1>3. QED
  BY <1>1, <1>2

LEMMA RecycleStep ==
  ASSUME IInv, NEW w \in Owners, TypeOK', Recycle(w)
  PROVE  IInv'
<1> USE DEF poolVars, threadVars, ownerVars, history
<1>a. TypeOK /\ Groups /\ TornDownLast /\ OwnWork /\ Stages
  BY DEF IInv
<1>1. /\ UNCHANGED <<all, at, candidate, done, quit, job, group, pend, blocked, del, begun, ready>>
      /\ place[w] = "waiting" /\ place' = [place EXCEPT ![w] = "gone"]
      /\ pend[w] = {} /\ cans' = cans \cup group[w]
  BY DEF Recycle
<1>2. place'[w] = "gone" /\ \A v \in Owners \ {w} : place'[v] = place[v]
  BY <1>a, <1>1 DEF TypeOK
<1>3. Live(w) /\ ~Live(w)' /\ \A v \in Owners \ {w} : Live(v)' <=> Live(v)
  BY <1>1, <1>2 DEF Live
<1>4. TornDownLast' /\ OwnWork'
  BY <1>a, <1>1, <1>3 DEF TornDownLast, OwnWork
<1>5. Groups'
  <2>1. ThreadsNotShared'
    BY <1>a, <1>1, <1>3 DEF Groups, ThreadsNotShared
  <2>2. QED
    BY <1>a, <1>1, <1>2, <2>1 DEF Groups
<1>6. Stages'
  <2> SUFFICES ASSUME NEW v \in Owners, NEW s \in Threads PROVE Thread(v, s)'
    BY DEF Stages
  <2>1. Thread(v, s)
    BY <1>a DEF Stages
  <2>2. CASE v # w
    BY <1>1, <1>2, <2>1, <2>2, StageFrame
  <2>3. CASE v = w
    <3>1. s \in ready[w] => Back(w, s)
      BY <1>1, <2>1, <2>3 DEF Thread
    <3>2. s \in ready[w] => Over(w, s)'
      BY <1>1, <3>1, OwnerAssumption DEF Back, Over
    <3>3. QED
      BY <1>1, <1>2, <1>3, <2>3, <3>2 DEF Thread
  <2>4. QED
    BY <2>2, <2>3
<1>7. QED
  BY <1>4, <1>5, <1>6 DEF IInv

LEMMA DeleteStep ==
  ASSUME IInv, NEW t \in Threads, TypeOK', Delete(t)
  PROVE  IInv'
<1> USE DEF poolVars, threadVars, ownerVars, history
<1>a. TypeOK /\ Groups /\ TornDownLast /\ OwnWork /\ Stages
  BY DEF IInv
<1>1. /\ UNCHANGED <<all, cans, candidate, job, place, group, pend, blocked, begun, ready>>
      /\ at' = at \/ (at[t] = "asleep" /\ at' = [at EXCEPT ![t] = "top"])
      /\ \A s \in Threads : s # t => del'[s] = del[s] /\ quit'[s] = quit[s]
      /\ \A w \in Owners : ~Live(w)
      /\ del'[t] # "no"
  BY <1>a DEF Delete, SetQuit, NotifyQuit, Join, TornDownLast, TypeOK, Live
<1>2. TornDownLast'
  BY <1>a, <1>1 DEF TornDownLast, Live
<1>3. Groups' /\ OwnWork'
  BY <1>a, <1>1 DEF Groups, ThreadsNotShared, Live, OwnWork, TypeOK
<1>4. Stages'
  BY <1>a, <1>1 DEF Stages, Thread, Live, Over
<1>5. QED
  BY <1>2, <1>3, <1>4 DEF IInv

LEMMA IInvStep == IInv /\ [Next]_vars => IInv'
<1> SUFFICES ASSUME IInv, [Next]_vars PROVE IInv'
  OBVIOUS
<1>t. TypeOK'
  BY TypeStep DEF IInv
<1>1. ASSUME NEW w \in Owners, Allocate(w) PROVE IInv'
  BY <1>t, <1>1, AllocateStep
<1>2. ASSUME NEW w \in Owners, OwnerLoop(w) PROVE IInv'
  BY <1>t, <1>2, WakeStep, WaitStep, RecycleStep DEF OwnerLoop
<1>3. ASSUME NEW w \in Owners, Destroy(w) PROVE IInv'
  BY <1>t, <1>3, DestroyStep
<1>4. ASSUME NEW w \in Owners, WaitSpuriousWakeup(w) PROVE IInv'
  <2>1. blocked[w] \in Threads
    BY <1>4 DEF WaitSpuriousWakeup, IInv, TypeOK
  <2>2. QED
    BY <1>t, <1>4, <2>1, WaitStep
<1>5. ASSUME NEW t \in Threads, Master(t) PROVE IInv'
  BY <1>t, <1>5, IdleStep, PickStep, StartStep, ReturnStep DEF Master
<1>6. ASSUME NEW t \in Threads, SpuriousWakeup(t) PROVE IInv'
  BY <1>t, <1>6, IdleStep
<1>7. ASSUME NEW t \in Threads, Delete(t) PROVE IInv'
  BY <1>t, <1>7, DeleteStep
<1>8. CASE UNCHANGED vars
  <2> USE DEF vars, poolVars, threadVars, ownerVars, history
  <2>1. (TornDownLast /\ OwnWork /\ Groups)' <=> (TornDownLast /\ OwnWork /\ Groups)
    BY <1>8 DEF TornDownLast, OwnWork, Groups, ThreadsNotShared, Live
  <2>2. Stages' <=> Stages
    BY <1>8 DEF Stages, Thread, Stage, Over, Live, ToWake, Asked, Picked, Working, Back, Awake
  <2>3. QED
    BY <1>t, <2>1, <2>2 DEF IInv
<1>9. QED
  BY <1>1, <1>2, <1>3, <1>4, <1>5, <1>6, <1>7, <1>8 DEF Next

LEMMA Invariance == SafetySpec => []IInv
BY IInvInit, IInvStep, PTL DEF SafetySpec

\* Destroying a thread group closes all its ready threads, for every number of
\* threads, owners and group sizes, and whatever memory the threads start from.
THEOREM GroupsClose == SafetySpec => []ClosesAllThreads
<1>1. IInv => ClosesAllThreads
  BY DEF IInv, Stages, Thread, Over, ClosesAllThreads, TypeOK
<1>2. QED
  BY <1>1, Invariance, PTL

\* No thread serves two live groups at once, and none of theirs counts as idle.
THEOREM GroupsDisjoint == SafetySpec => []ThreadsNotShared
<1>1. IInv => ThreadsNotShared
  BY DEF IInv, Groups
<1>2. QED
  BY <1>1, Invariance, PTL

\* While an owner lives, nothing overwrites the job it has given to a thread.
THEOREM JobsKept == SafetySpec => NoJobOverwritten
<1> DEFINE Kept == \A w \in Owners, t \in Threads : candidate[t] = w /\ place[w] # "gone" =>
                     candidate'[t] = w \/ (candidate'[t] = NULL /\ job'[t] = w)
<1>1. IInv /\ [Next]_vars => Kept
  <2> SUFFICES ASSUME IInv, [Next]_vars,
                      NEW w \in Owners, NEW t \in Threads, candidate[t] = w, place[w] # "gone"
               PROVE  candidate'[t] = candidate[t] \/ (candidate'[t] = NULL /\ job'[t] = w)
    OBVIOUS
  <2> USE DEF poolVars, threadVars, ownerVars, history
  <2>a. TypeOK /\ OwnWork /\ Stages /\ Groups
    BY DEF IInv
  <2>b. t \in group[w] /\ t \in all /\ Live(w)
    <3>1. t \in group[w] /\ t \in all
      BY <2>a, OwnerAssumption DEF OwnWork
    <3>2. QED
      BY <2>a, <3>1 DEF Groups, Live, TypeOK, OwnerPlace
  <2>1. ASSUME NEW v \in Owners, Allocate(v) PROVE candidate'[t] = candidate[t]
    <3>1. PICK S \in SUBSET cans, F \in SUBSET (Threads \ all) :
            \E d \in [F -> FreshDone], c \in [F -> FreshCandidate] :
              /\ done' = [s \in Threads |-> IF s \in F THEN d[s] ELSE done[s]]
              /\ candidate' = [s \in Threads |-> IF s \in F THEN c[s] ELSE candidate[s]]
      BY <2>1 DEF Allocate, HandOut
    <3>2. PICK c \in [F -> FreshCandidate] :
            candidate' = [s \in Threads |-> IF s \in F THEN c[s] ELSE candidate[s]]
      BY <3>1
    <3>3. QED
      BY <3>2, <2>b
  <2>2. ASSUME NEW v \in Owners, NEW s \in Threads, Wake(v, s) PROVE candidate'[t] = candidate[t]
    <3>1. s \in group[v] /\ ~Awake(v, s) /\ Live(v)
      BY <2>a, <2>2 DEF Wake, StoreCandidate, Groups, Awake, Live
    <3>2. candidate[s] # v
      BY <2>a, <3>1 DEF Stages, Thread, Stage, ToWake, Asked, Picked, Working, Back
    <3>3. s # t
      BY <2>a, <2>b, <3>1, <3>2 DEF Groups, ThreadsNotShared
    <3>4. candidate' = [candidate EXCEPT ![s] = v]
      BY <2>2 DEF Wake, StoreCandidate
    <3>5. QED
      BY <2>a, <3>3, <3>4 DEF TypeOK
  <2>3. ASSUME NEW v \in Owners,
               \/ \E s \in Threads : WaitPasses(v, s) \/ WaitSleeps(v, s)
               \/ Recycle(v) \/ Destroy(v) \/ WaitSpuriousWakeup(v)
        PROVE  candidate'[t] = candidate[t]
    BY <2>3 DEF WaitPasses, WaitSleeps, Recycle, Destroy, WaitSpuriousWakeup
  <2>4. ASSUME NEW s \in Threads, PickCandidate(s)
        PROVE  candidate'[t] = candidate[t] \/ (candidate'[t] = NULL /\ job'[t] = w)
    BY <2>a, <2>4 DEF PickCandidate, TypeOK
  <2>5. ASSUME NEW s \in Threads,
               \/ LookEmpty(s) \/ Doze(s) \/ Leave(s) \/ StartWorking(s) \/ ReturnFromWork(s)
               \/ SpuriousWakeup(s) \/ Delete(s)
        PROVE  candidate'[t] = candidate[t]
    BY <2>5 DEF LookEmpty, Doze, Leave, StartWorking, ReturnFromWork, WorkDone,
       SpuriousWakeup, Delete, SetQuit, NotifyQuit, Join
  <2>6. CASE UNCHANGED vars
    BY <2>6 DEF vars
  <2>7. QED
    BY <2>1, <2>2, <2>3, <2>4, <2>5, <2>6 DEF Next, OwnerLoop, Master
<1>2. QED
  BY <1>1, Invariance, PTL DEF SafetySpec, NoJobOverwritten
=============================================================================
