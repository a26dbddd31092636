-------------------------- MODULE IndexEngineProofs --------------------------
(***************************************************************************)
(* Proofs about IndexEngine, for any volumes, port threads and number of   *)
(* watches: the two vectors run parallel, and every watch has exactly one  *)
(* read pending, queued or being processed.                                *)
(***************************************************************************)
EXTENDS IndexEngine, SequenceTheorems, FiniteSetTheorems, TLAPS

\* A watch number that is used anywhere has been given out.
Numbered ==
  /\ \A w \in alive \cup reading : w <= Len(vol)
  /\ \A i \in DOMAIN watchings : watchings[i] <= Len(vol)
  /\ \A i \in DOMAIN packets : packets[i] # NULL => packets[i] <= Len(vol)
  /\ \A t \in Cpus : job[t] \in Watches => job[t] <= Len(vol)

\* The worker has a command in hand while it executes one.
CommandInHand == prep \in {"popped", "locked"} => cur # <<"quit">>

\* Exactly one of: read pending, packet queued, thread in process().
AtLeastOne ==
  \A w \in alive : \/ w \in reading
                   \/ \E i \in DOMAIN packets : packets[i] = w
                   \/ \E t \in Cpus : job[t] = w
AtMostOne ==
  \A w \in alive :
    /\ w \in reading => (\A i \in DOMAIN packets : packets[i] # w) /\ \A t \in Cpus : job[t] # w
    /\ \A i \in DOMAIN packets, t \in Cpus : ~(packets[i] = w /\ job[t] = w)
    /\ \A i, j \in DOMAIN packets : packets[i] = w /\ packets[j] = w => i = j
    /\ \A s, t \in Cpus : job[s] = w /\ job[t] = w => s = t
-----------------------------------------------------------------------------
LEMMA WithoutType ==
  ASSUME NEW S, NEW s \in Seq(S), NEW i \in DOMAIN s
  PROVE  /\ Without(s, i) \in Seq(S)
         /\ Len(Without(s, i)) = Len(s) - 1
         /\ \A j \in 1..Len(s) - 1 : Without(s, i)[j] = IF j < i THEN s[j] ELSE s[j + 1]
<1> DEFINE a == SubSeq(s, 1, i - 1)
           b == SubSeq(s, i + 1, Len(s))
<1>1. a \in Seq(S) /\ Len(a) = i - 1 /\ \A j \in 1..i - 1 : a[j] = s[j]
  OBVIOUS
<1>2. b \in Seq(S) /\ Len(b) = Len(s) - i /\ \A j \in 1..Len(s) - i : b[j] = s[i + j]
  OBVIOUS
<1>3. i \in 1..Len(s) /\ Len(s) \in Nat
  OBVIOUS
<1> HIDE DEF a, b
<1>4. /\ a \o b \in Seq(S)
      /\ Len(a \o b) = Len(a) + Len(b)
      /\ \A j \in 1..Len(a) + Len(b) : (a \o b)[j] = IF j <= Len(a) THEN a[j] ELSE b[j - Len(a)]
  BY <1>1, <1>2, SMTT(30)
<1>5. ASSUME NEW j \in 1..Len(s) - 1
      PROVE  (a \o b)[j] = IF j < i THEN s[j] ELSE s[j + 1]
  <2>0. j \in Nat /\ i \in Nat /\ j >= 1 /\ j <= Len(s) - 1
    BY <1>3
  <2>1. CASE j < i
    BY <1>1, <1>2, <1>3, <1>4, <2>1, SMTT(30)
  <2>2. CASE ~(j < i)
    <3>1. PICK k \in 1..Len(s) - i : k = j - Len(a) /\ i + k = j + 1
      <4>1. /\ j - (i - 1) \in 1..Len(s) - i
            /\ i + (j - (i - 1)) = j + 1
        BY <1>3, <2>0, <2>2
      <4>2. QED
        BY <1>1, <4>1
    <3>2. (a \o b)[j] = b[k]
      <4>1. j \in 1..Len(a) + Len(b) /\ ~(j <= Len(a))
        BY <1>1, <1>2, <1>3, <2>2
      <4>2. QED
        BY <1>4, <3>1, <4>1
    <3>3. b[k] = s[j + 1]
      BY <1>2, <3>1
    <3>4. QED
      BY <1>3, <2>2, <3>2, <3>3
  <2>3. QED
    BY <2>1, <2>2
<1>6. Without(s, i) = a \o b
  BY DEF Without, a, b
<1>7. Len(a \o b) = Len(s) - 1
  BY <1>1, <1>2, <1>3, <1>4
<1>8. QED
  BY <1>4, <1>5, <1>6, <1>7

LEMMA EmptyPacketsType == EmptyPackets \in Seq({NULL})
<1>1. Cardinality(Cpus) \in Nat
  BY EngineAssumption, FS_CardinalityType
<1>2. QED
  BY <1>1 DEF EmptyPackets

LEMMA Appended ==
  ASSUME NEW S, NEW s \in Seq(S), NEW e \in Seq({NULL})
  PROVE  /\ \A k \in DOMAIN (s \o e) : (s \o e)[k] = NULL \/ (k \in DOMAIN s /\ (s \o e)[k] = s[k])
         /\ \A k \in DOMAIN s : k \in DOMAIN (s \o e) /\ (s \o e)[k] = s[k]
<1>1. /\ DOMAIN (s \o e) = 1..Len(s) + Len(e)
      /\ \A k \in 1..Len(s) + Len(e) : (s \o e)[k] = IF k <= Len(s) THEN s[k] ELSE e[k - Len(s)]
  OBVIOUS
<1>2. DOMAIN s = 1..Len(s) /\ Len(s) \in Nat /\ Len(e) \in Nat
  OBVIOUS
<1>3. \A k \in 1..Len(e) : e[k] = NULL
  OBVIOUS
<1>4. ASSUME NEW k \in 1..Len(s) + Len(e), ~(k <= Len(s)) PROVE (s \o e)[k] = NULL
  <2>1. k - Len(s) \in 1..Len(e)
    BY <1>2, <1>4
  <2>2. QED
    BY <1>1, <1>3, <1>4, <2>1
<1>5. ASSUME NEW k \in 1..Len(s) + Len(e), k <= Len(s) PROVE k \in DOMAIN s /\ (s \o e)[k] = s[k]
  BY <1>1, <1>2, <1>5
<1>6. \A k \in 1..Len(s) : k \in 1..Len(s) + Len(e) /\ k <= Len(s)
  BY <1>2
<1>7. QED
  BY <1>1, <1>2, <1>4, <1>5, <1>6

LEMMA TypeInit == Init => TypeOK /\ CommandInHand
BY EngineAssumption DEF Init, TypeOK, CommandInHand, GuiPlace, Commands, Watches

LEMMA CommandType ==
  ASSUME NEW c \in Commands
  PROVE  c # <<"quit">> => c[1] \in {"add", "remove"} /\ c[2] \in Volumes
BY DEF Commands

LEMMA TypeStep ==
  TypeOK /\ CommandInHand /\ ListsAgree /\ [Next]_vars => TypeOK' /\ CommandInHand'
<1> SUFFICES ASSUME TypeOK, CommandInHand, ListsAgree, [Next]_vars
             PROVE  TypeOK' /\ CommandInHand'
  OBVIOUS
<1> USE EngineAssumption DEF TypeOK, CommandInHand, guiVars, prepVars, listVars, ioVars, GuiPlace
<1>c. <<"quit">> \in Commands /\ \A v \in Volumes : <<"add", v>> \in Commands /\ <<"remove", v>> \in Commands
  BY DEF Commands
<1>1. ASSUME NEW v \in Volumes, Change(v) PROVE TypeOK' /\ CommandInHand'
  <2>1. /\ tracing' \subseteq Volumes
        /\ \E c \in Commands : prep_queue' = Append(prep_queue, c)
        /\ UNCHANGED <<gui, prep, cur, listVars, ioVars>>
    BY <1>1, <1>c DEF Change
  <2>2. prep_queue' \in Seq(Commands)
    BY <2>1
  <2>3. QED
    BY <2>1, <2>2
<1>2. CASE CallList \/ ListReturns \/ PrepJoined \/ PoolJoined
  BY <1>2 DEF CallList, ListReturns, PrepJoined, PoolJoined
<1>3. CASE Destroy
  BY <1>3, <1>c DEF Destroy
<1>4. CASE PostEmpty
  <2>1. packets \o EmptyPackets \in Seq(Watches \cup {NULL})
    BY EmptyPacketsType
  <2>2. QED
    BY <1>4, <2>1 DEF PostEmpty
<1>5. CASE Pop
  <2>1. Head(prep_queue) \in Commands /\ Tail(prep_queue) \in Seq(Commands)
    BY <1>5 DEF Pop
  <2>2. QED
    BY <1>5, <2>1 DEF Pop
<1>6. CASE Lock \/ ReturnLocked
  BY <1>6 DEF Lock, ReturnLocked
<1>7. CASE AddWatch
  <2>1. cur[2] \in Volumes
    BY <1>7, CommandType DEF AddWatch
  <2>2. Len(vol) + 1 \in Watches
    BY DEF Watches
  <2>3. QED
    BY <1>7, <2>1, <2>2 DEF AddWatch, Unlock
<1>8. CASE RemoveWatch
  <2>1. PICK i \in DOMAIN watchings : Erase(i) /\ Delete(watchings[i])
    BY <1>8 DEF RemoveWatch, Find
  <2>2. watchings' \in Seq(Watches) /\ watchings[i] \in Watches
    BY <2>1, WithoutType DEF Erase
  <2>3. i \in DOMAIN watching_volumes
    BY DEF ListsAgree
  <2>4. watching_volumes' \in Seq(Volumes)
    BY <2>1, <2>3, WithoutType DEF Erase
  <2>5. packets' \in Seq(Watches \cup {NULL}) /\ alive' \subseteq Watches /\ reading' \subseteq Watches
    BY <2>1, <2>2 DEF Delete
  <2>6. QED
    BY <1>8, <2>2, <2>4, <2>5 DEF RemoveWatch, Unlock
<1>9. ASSUME NEW w \in reading, ReadCompletes(w) PROVE TypeOK' /\ CommandInHand'
  BY <1>9 DEF ReadCompletes
<1>10. ASSUME NEW t \in Cpus, Pool(t) \/ EndProcessDeleted(t) PROVE TypeOK' /\ CommandInHand'
  <2>1. CASE GetPacket(t)
    <3>1. Head(packets) \in Watches \cup {NULL} /\ Tail(packets) \in Seq(Watches \cup {NULL})
      BY <2>1 DEF GetPacket
    <3>2. QED
      BY <2>1, <3>1 DEF GetPacket
  <2>2. CASE EndProcess(t) \/ EndProcessDeleted(t)
    BY <2>2 DEF EndProcess, EndProcessDeleted, DispatchRead
  <2>3. QED
    BY <1>10, <2>1, <2>2 DEF Pool
<1>11. CASE UNCHANGED vars
  BY <1>11 DEF vars
<1>12. QED
  BY <1>1, <1>2, <1>3, <1>4, <1>5, <1>6, <1>7, <1>8, <1>9, <1>10, <1>11 DEF Next, Gui, Prep
-----------------------------------------------------------------------------
Lists == TypeOK /\ CommandInHand /\ Numbered /\ ListsAgree

\* A volume that is listed is found.
LEMMA Found ==
  ASSUME TypeOK, ListsAgree, NEW v \in Volumes
  PROVE  v \in RangeOf(watching_volumes) => Find(v) # {}
<1> SUFFICES ASSUME NEW i \in DOMAIN watching_volumes, watching_volumes[i] = v
             PROVE  i \in Find(v)
  BY DEF RangeOf
<1>1. /\ DOMAIN watching_volumes = DOMAIN watchings
      /\ \A k \in DOMAIN watchings : watching_volumes[k] = vol[watchings[k]]
  BY DEF ListsAgree
<1>2. \A k \in DOMAIN watchings : watching_volumes[k] = watching_volumes[i] => k = i
  BY <1>1 DEF ListsAgree
<1>3. \A k \in DOMAIN watchings : k < i => k # i
  BY DEF TypeOK
<1>4. QED
  BY <1>1, <1>2, <1>3 DEF Find

LEMMA RangeAppend ==
  ASSUME NEW S, NEW s \in Seq(S), NEW x \in S
  PROVE  RangeOf(Append(s, x)) = RangeOf(s) \cup {x}
<1>1. DOMAIN Append(s, x) = DOMAIN s \cup {Len(s) + 1}
  OBVIOUS
<1>2. \A i \in DOMAIN s : Append(s, x)[i] = s[i]
  OBVIOUS
<1>3. Append(s, x)[Len(s) + 1] = x
  OBVIOUS
<1>4. Len(s) + 1 \notin DOMAIN s
  OBVIOUS
<1>5. QED
  BY <1>1, <1>2, <1>3, <1>4 DEF RangeOf

\* Without its i-th element, a sequence without repetitions loses that element.
LEMMA WithoutRange ==
  ASSUME NEW S, NEW s \in Seq(S), NEW i \in DOMAIN s,
         \A j, k \in DOMAIN s : s[j] = s[k] => j = k
  PROVE  RangeOf(Without(s, i)) = RangeOf(s) \ {s[i]}
<1> DEFINE w == Without(s, i)
           n == Len(s)
<1>1. /\ n \in Nat /\ DOMAIN s = 1..n /\ i \in 1..n
      /\ DOMAIN w = 1..n - 1
      /\ \A j \in 1..n - 1 : w[j] = IF j < i THEN s[j] ELSE s[j + 1]
  BY WithoutType
<1> HIDE DEF w, n
<1>2. ASSUME NEW j \in 1..n - 1 PROVE \E k \in 1..n : k # i /\ w[j] = s[k]
  <2>1. j \in 1..n /\ j + 1 \in 1..n
    BY <1>1
  <2>2. CASE j < i
    BY <1>1, <2>1, <2>2
  <2>3. CASE ~(j < i)
    <3>1. j + 1 # i
      BY <1>1, <2>3
    <3> QED BY <1>1, <2>1, <2>3, <3>1
  <2> QED BY <2>2, <2>3
<1>3. ASSUME NEW k \in 1..n, k # i PROVE \E j \in 1..n - 1 : w[j] = s[k]
  <2>1. CASE k < i
    <3>1. k \in 1..n - 1
      BY <1>1, <2>1
    <3> QED BY <1>1, <2>1, <3>1
  <2>2. CASE ~(k < i)
    <3>1. k - 1 \in 1..n - 1 /\ ~(k - 1 < i) /\ (k - 1) + 1 = k
      BY <1>1, <1>3, <2>2
    <3>2. w[k - 1] = s[k]
      BY <1>1, <3>1
    <3> QED BY <3>1, <3>2
  <2> QED BY <2>1, <2>2
<1>4. \A k \in 1..n : k # i => s[k] # s[i]
  BY <1>1
<1>5. \A x : x \in RangeOf(w) => x \in RangeOf(s) \ {s[i]}
  <2> SUFFICES ASSUME NEW j \in 1..n - 1 PROVE w[j] \in RangeOf(s) \ {s[i]}
    BY <1>1 DEF RangeOf
  <2>1. PICK k \in 1..n : k # i /\ w[j] = s[k]
    BY <1>2
  <2> QED BY <1>1, <1>4, <2>1 DEF RangeOf
<1>6. \A x : x \in RangeOf(s) \ {s[i]} => x \in RangeOf(w)
  <2> SUFFICES ASSUME NEW k \in 1..n, s[k] # s[i] PROVE s[k] \in RangeOf(w)
    BY <1>1 DEF RangeOf
  <2>1. k # i
    OBVIOUS
  <2>2. PICK j \in 1..n - 1 : w[j] = s[k]
    BY <1>3, <2>1
  <2> QED BY <1>1, <2>2 DEF RangeOf
<1> QED BY <1>5, <1>6 DEF w

LEMMA AddStep == Lists /\ AddWatch => Numbered' /\ ListsAgree'
<1> SUFFICES ASSUME Lists, AddWatch PROVE Numbered' /\ ListsAgree'
  OBVIOUS
<1> USE DEF Lists
<1> DEFINE w == Len(vol) + 1
<1>1. /\ vol' = Append(vol, cur[2]) /\ alive' = alive \cup {w}
      /\ watchings' = Append(watchings, w)
      /\ reading' = reading \cup {w}
      /\ watching_volumes' = Append(watching_volumes, cur[2])
      /\ UNCHANGED <<packets, job>>
  BY DEF AddWatch
<1>2. cur[2] \in Volumes /\ cur[2] \notin RangeOf(watching_volumes)
  BY CommandType, Found DEF AddWatch, TypeOK
<1>3. Len(watching_volumes) = Len(watchings)
  BY DEF ListsAgree, TypeOK
<1>4. Numbered'
  BY <1>1, <1>2, SMTT(30) DEF Numbered, TypeOK, Watches
<1>5. watching_volumes' = [i \in DOMAIN watchings' |-> vol'[watchings'[i]]]
  BY <1>1, <1>2, <1>3 DEF ListsAgree, Numbered, TypeOK, Watches
<1>6. RangeOf(watchings') = alive'
  <2>1. watchings \in Seq(Watches) /\ w \in Watches
    BY DEF TypeOK, Watches
  <2>2. RangeOf(watchings') = RangeOf(watchings) \cup {w}
    BY <1>1, <2>1, RangeAppend
  <2>3. QED
    BY <1>1, <2>2 DEF ListsAgree
<1>7. \A i, j \in DOMAIN watching_volumes' :
        watching_volumes'[i] = watching_volumes'[j] => i = j
  BY <1>1, <1>2 DEF ListsAgree, RangeOf, TypeOK
<1>8. QED
  BY <1>4, <1>5, <1>6, <1>7 DEF ListsAgree, RangeOf

LEMMA RemoveStep == Lists /\ RemoveWatch => Numbered' /\ ListsAgree'
<1> SUFFICES ASSUME Lists, RemoveWatch PROVE Numbered' /\ ListsAgree'
  OBVIOUS
<1> USE DEF Lists
<1>1. PICK i \in DOMAIN watchings : Erase(i) /\ Delete(watchings[i])
  BY DEF RemoveWatch, Find
<1>2. UNCHANGED <<vol, job>>
  BY DEF RemoveWatch
<1>3. /\ Len(watching_volumes) = Len(watchings) /\ i \in DOMAIN watching_volumes
      /\ \A k \in DOMAIN watchings : watching_volumes[k] = vol[watchings[k]]
  BY DEF ListsAgree, TypeOK
<1>4. /\ watchings' \in Seq(Watches) /\ Len(watchings') = Len(watchings) - 1
      /\ \A j \in 1..Len(watchings) - 1 :
           watchings'[j] = IF j < i THEN watchings[j] ELSE watchings[j + 1]
  BY <1>1, WithoutType DEF Erase, TypeOK
<1>5. /\ watching_volumes' \in Seq(Volumes) /\ Len(watching_volumes') = Len(watchings) - 1
      /\ \A j \in 1..Len(watchings) - 1 :
           watching_volumes'[j] = IF j < i THEN watching_volumes[j] ELSE watching_volumes[j + 1]
  <2> HIDE DEF TypeOK
  <2>1. /\ watching_volumes' = Without(watching_volumes, i)
        /\ watching_volumes \in Seq(Volumes) /\ i \in DOMAIN watching_volumes
    BY <1>1, <1>3 DEF Erase, TypeOK
  <2>2. /\ watching_volumes' \in Seq(Volumes) /\ Len(watching_volumes') = Len(watching_volumes) - 1
        /\ \A j \in 1..Len(watching_volumes) - 1 :
             watching_volumes'[j] = IF j < i THEN watching_volumes[j] ELSE watching_volumes[j + 1]
    BY <2>1, WithoutType
  <2>3. QED
    BY <1>3, <2>2
<1>6. \A j, k \in DOMAIN watchings : watchings[j] = watchings[k] => j = k
  BY <1>3 DEF ListsAgree
<1>7. Len(watchings) \in Nat /\ i \in 1..Len(watchings)
  BY DEF TypeOK
<1>8. watching_volumes' = [j \in DOMAIN watchings' |-> vol'[watchings'[j]]]
  <2>1. DOMAIN watchings' = 1..Len(watchings) - 1 /\ DOMAIN watching_volumes' = 1..Len(watchings) - 1
    BY <1>4, <1>5
  <2>2. ASSUME NEW j \in 1..Len(watchings) - 1 PROVE watching_volumes'[j] = vol[watchings'[j]]
    <3>1. j \in DOMAIN watchings /\ j + 1 \in DOMAIN watchings
      BY <1>7 DEF TypeOK
    <3>2. CASE j < i
      BY <1>3, <1>4, <1>5, <3>1, <3>2
    <3>3. CASE ~(j < i)
      BY <1>3, <1>4, <1>5, <3>1, <3>3
    <3>4. QED
      BY <3>2, <3>3
  <2>3. watching_volumes' = [j \in 1..Len(watchings) - 1 |-> watching_volumes'[j]]
    BY <1>5, <2>1
  <2>4. QED
    BY <1>2, <2>1, <2>2, <2>3
<1>9. RangeOf(watchings') = alive \ {watchings[i]}
  <2> HIDE DEF TypeOK
  <2>1. watchings' = Without(watchings, i) /\ watchings \in Seq(Watches) /\ RangeOf(watchings) = alive
    BY <1>1 DEF Erase, TypeOK, ListsAgree
  <2> QED BY <1>6, <2>1, WithoutRange
<1>10. \A j, k \in DOMAIN watching_volumes' :
         watching_volumes'[j] = watching_volumes'[k] => j = k
  <2> SUFFICES ASSUME NEW j \in DOMAIN watching_volumes', NEW k \in DOMAIN watching_volumes',
                      watching_volumes'[j] = watching_volumes'[k]
               PROVE  j = k
    OBVIOUS
  <2>1. j \in 1..Len(watchings) - 1 /\ k \in 1..Len(watchings) - 1
    BY <1>5
  <2>2. PICK a, b \in DOMAIN watching_volumes :
          /\ a = (IF j < i THEN j ELSE j + 1) /\ b = (IF k < i THEN k ELSE k + 1)
          /\ watching_volumes[a] = watching_volumes[b]
    <3> DEFINE a == IF j < i THEN j ELSE j + 1
               b == IF k < i THEN k ELSE k + 1
    <3>1. a \in 1..Len(watchings) /\ b \in 1..Len(watchings)
      BY <1>7, <2>1
    <3>2. DOMAIN watching_volumes = 1..Len(watchings)
      BY <1>3 DEF TypeOK
    <3>3. watching_volumes'[j] = watching_volumes[a] /\ watching_volumes'[k] = watching_volumes[b]
      BY <1>5, <2>1
    <3>4. QED
      BY <3>1, <3>2, <3>3
  <2>3. a = b
    BY <2>2 DEF ListsAgree
  <2>4. QED
    BY <1>7, <2>1, <2>2, <2>3
<1>11. ListsAgree'
  BY <1>1, <1>8, <1>9, <1>10 DEF ListsAgree, Delete, RangeOf
<1>12. Numbered'
  <2>1. \A j \in DOMAIN watchings' : watchings'[j] <= Len(vol)
    BY <1>4, <1>7, SMTT(30) DEF Numbered
  <2>2. watchings[i] <= Len(vol) /\ watchings[i] \in Watches
    BY DEF Numbered, TypeOK
  <2>3. \A j \in DOMAIN packets' : packets'[j] # NULL => packets'[j] <= Len(vol)
    BY <1>1, <2>2 DEF Delete, Numbered, TypeOK
  <2>4. QED
    BY <1>1, <1>2, <2>1, <2>3 DEF Delete, Numbered
<1>13. QED
  BY <1>11, <1>12

LEMMA FrameStep ==
  ASSUME Lists,
         \/ \E v \in Volumes : Change(v)
         \/ CallList \/ Destroy \/ Gui
         \/ Pop \/ Lock \/ ReturnLocked
         \/ \E w \in reading : ReadCompletes(w)
         \/ \E t \in Cpus : Pool(t) \/ EndProcessDeleted(t)
         \/ UNCHANGED vars
  PROVE  Numbered' /\ ListsAgree'
<1> USE DEF Lists, guiVars, prepVars, listVars, ioVars
<1>1. UNCHANGED <<watchings, watching_volumes, vol, alive>>
  BY DEF Change, CallList, Destroy, Gui, ListReturns, PrepJoined, PostEmpty, PoolJoined,
     Pop, Lock, ReturnLocked, ReadCompletes, Pool, GetPacket, EndProcess, EndProcessDeleted, vars
<1>2. ListsAgree'
  BY <1>1 DEF ListsAgree, RangeOf
<1>3. CASE UNCHANGED ioVars
  BY <1>1, <1>2, <1>3 DEF Numbered
<1>4. CASE PostEmpty
  <2>1. packets \in Seq(Watches \cup {NULL}) /\ packets' = packets \o EmptyPackets
    BY <1>4 DEF PostEmpty, TypeOK
  <2>3. \A k \in DOMAIN packets' : packets'[k] = NULL \/ (k \in DOMAIN packets /\ packets'[k] = packets[k])
    BY <2>1, EmptyPacketsType, Appended
  <2>2. QED
    BY <1>1, <1>2, <1>4, <2>3 DEF PostEmpty, Numbered
<1>5. ASSUME NEW w \in reading, ReadCompletes(w) PROVE Numbered'
  BY <1>1, <1>5 DEF ReadCompletes, Numbered, TypeOK
<1>6. ASSUME NEW t \in Cpus, Pool(t) \/ EndProcessDeleted(t) PROVE Numbered'
  <2>1. CASE GetPacket(t)
    <3>1. /\ packets # <<>> /\ packets' = Tail(packets)
          /\ job' = [job EXCEPT ![t] = IF Head(packets) = NULL THEN ENDED ELSE Head(packets)]
          /\ UNCHANGED reading
      BY <2>1 DEF GetPacket
    <3>2. \A k \in DOMAIN packets' : k + 1 \in DOMAIN packets /\ packets'[k] = packets[k + 1]
      BY <3>1 DEF TypeOK
    <3>3. Head(packets) # NULL => Head(packets) <= Len(vol)
      BY <3>1 DEF TypeOK, Numbered
    <3>4. ENDED \notin Watches
      BY EngineAssumption DEF Watches
    <3>5. \A c \in Cpus : job'[c] \in Watches => job'[c] <= Len(vol)
      BY <3>1, <3>3, <3>4 DEF TypeOK, Numbered
    <3>6. QED
      BY <1>1, <3>1, <3>2, <3>5 DEF Numbered
  <2>2. CASE EndProcess(t) \/ EndProcessDeleted(t)
    <3>1. /\ job' = [job EXCEPT ![t] = NULL] /\ UNCHANGED packets
          /\ reading' \subseteq reading \cup alive
      BY <2>2 DEF EndProcess, EndProcessDeleted, DispatchRead
    <3>2. NULL \notin Watches
      BY EngineAssumption DEF Watches
    <3>3. QED
      BY <1>1, <3>1, <3>2 DEF Numbered, TypeOK
  <2>3. QED
    BY <1>6, <2>1, <2>2 DEF Pool
<1>7. UNCHANGED ioVars \/ PostEmpty \/ (\E w \in reading : ReadCompletes(w))
      \/ (\E t \in Cpus : Pool(t) \/ EndProcessDeleted(t))
  BY DEF Change, CallList, Destroy, Gui, ListReturns, PrepJoined, PoolJoined,
     Pop, Lock, ReturnLocked, vars
<1>8. QED
  BY <1>2, <1>3, <1>4, <1>5, <1>6, <1>7

LEMMA ListsInit == Init => Lists
<1>1. Init => Numbered /\ ListsAgree
  BY EngineAssumption DEF Init, Numbered, ListsAgree, RangeOf, Watches
<1>2. QED
  BY <1>1, TypeInit DEF Lists

LEMMA ListsStep == Lists /\ [Next]_vars => Lists'
<1> SUFFICES ASSUME Lists, [Next]_vars PROVE Lists'
  OBVIOUS
<1>1. TypeOK' /\ CommandInHand'
  BY TypeStep DEF Lists
<1>2. Numbered' /\ ListsAgree'
  BY AddStep, RemoveStep, FrameStep DEF Next, Prep
<1>3. QED
  BY <1>1, <1>2 DEF Lists

LEMMA ListsInvariance == SafetySpec => []Lists
BY ListsInit, ListsStep, PTL DEF SafetySpec

\* The variables keep their types; the worker never holds QUIT for a command.
THEOREM TypeCorrect == SafetySpec => []TypeOK
<1>1. Lists => TypeOK
  BY DEF Lists
<1>2. QED
  BY <1>1, ListsInvariance, PTL

\* The position of a watch is the position of its volume, no volume is watched
\* twice and no deleted watch is listed, whatever is added and removed.
THEOREM ListsAlwaysAgree == SafetySpec => []ListsAgree
<1>1. Lists => ListsAgree
  BY DEF Lists
<1>2. QED
  BY <1>1, ListsInvariance, PTL
-----------------------------------------------------------------------------
LEMMA OneReadInit == Init => AtLeastOne /\ AtMostOne
BY DEF Init, AtLeastOne, AtMostOne

LEMMA OneReadStep ==
  Lists /\ AtLeastOne /\ AtMostOne /\ [Next]_vars => AtLeastOne' /\ AtMostOne'
<1> SUFFICES ASSUME Lists, AtLeastOne, AtMostOne, [Next]_vars PROVE AtLeastOne' /\ AtMostOne'
  OBVIOUS
<1> USE DEF Lists, guiVars, prepVars, listVars, ioVars
<1>1. CASE AddWatch
  <2> DEFINE w == Len(vol) + 1
  <2>1. /\ alive' = alive \cup {w} /\ reading' = reading \cup {w} /\ UNCHANGED <<packets, job>>
    BY <1>1 DEF AddWatch
  <2>2. /\ w \notin alive \cup reading
        /\ \A i \in DOMAIN packets : packets[i] # w
        /\ \A t \in Cpus : job[t] # w
    BY EngineAssumption, SMTT(30) DEF Numbered, TypeOK, Watches
  <2> HIDE DEF w
  <2>3. AtLeastOne'
    BY <2>1 DEF AtLeastOne
  <2>4. AtMostOne'
    BY <2>1, <2>2 DEF AtMostOne
  <2>5. QED
    BY <2>3, <2>4
<1>2. CASE RemoveWatch
  <2>1. PICK i \in DOMAIN watchings : Delete(watchings[i])
    BY <1>2 DEF RemoveWatch, Find
  <2> DEFINE w == watchings[i]
  <2>2. /\ alive' = alive \ {w} /\ reading' = reading \ {w} /\ UNCHANGED job
        /\ packets' = packets \/ packets' = Append(packets, w)
    BY <1>2, <2>1 DEF RemoveWatch, Delete
  <2> HIDE DEF w
  <2>3. \A v \in alive' :
          /\ \A k \in DOMAIN packets' : packets'[k] = v => k \in DOMAIN packets /\ packets[k] = v
          /\ \A k \in DOMAIN packets : packets[k] = v => k \in DOMAIN packets' /\ packets'[k] = v
    <3>1. CASE packets' = packets
      BY <3>1
    <3>2. CASE packets' = Append(packets, w)
      <4>1. /\ DOMAIN packets' = DOMAIN packets \cup {Len(packets) + 1}
            /\ packets'[Len(packets) + 1] = w
            /\ \A k \in DOMAIN packets : packets'[k] = packets[k]
        BY <3>2 DEF TypeOK
      <4>2. QED
        BY <2>2, <4>1
    <3>3. QED
      BY <2>2, <3>1, <3>2
  <2>4. AtLeastOne'
    BY <2>2, <2>3 DEF AtLeastOne
  <2>5. AtMostOne'
    BY <2>2, <2>3 DEF AtMostOne
  <2>6. QED
    BY <2>4, <2>5
<1>3. CASE PostEmpty
  <2>1. /\ \A k \in DOMAIN packets' : packets'[k] = NULL \/ (k \in DOMAIN packets /\ packets'[k] = packets[k])
        /\ \A k \in DOMAIN packets : k \in DOMAIN packets' /\ packets'[k] = packets[k]
    <3>1. packets \in Seq(Watches \cup {NULL}) /\ packets' = packets \o EmptyPackets
      BY <1>3 DEF PostEmpty, TypeOK
    <3>2. QED
      BY <3>1, EmptyPacketsType, Appended
  <2>2. NULL \notin alive
    BY EngineAssumption DEF TypeOK, Watches
  <2>3. UNCHANGED <<alive, reading, job>>
    BY <1>3 DEF PostEmpty
  <2>4. QED
    BY <2>1, <2>2, <2>3 DEF AtLeastOne, AtMostOne
<1>4. ASSUME NEW w \in reading, ReadCompletes(w) PROVE AtLeastOne' /\ AtMostOne'
  <2>1. /\ reading' = reading \ {w} /\ packets' = Append(packets, w) /\ UNCHANGED <<alive, job>>
    BY <1>4 DEF ReadCompletes
  <2>2. /\ DOMAIN packets' = DOMAIN packets \cup {Len(packets) + 1}
        /\ Len(packets) + 1 \notin DOMAIN packets
        /\ packets'[Len(packets) + 1] = w
        /\ \A k \in DOMAIN packets : packets'[k] = packets[k]
    BY <2>1 DEF TypeOK
  <2>3. AtLeastOne'
    BY <2>1, <2>2 DEF AtLeastOne
  <2>4. AtMostOne'
    BY <2>1, <2>2 DEF AtMostOne
  <2>5. QED
    BY <2>3, <2>4
<1>5. ASSUME NEW t \in Cpus, GetPacket(t) PROVE AtLeastOne' /\ AtMostOne'
  <2>1. /\ packets # <<>> /\ packets' = Tail(packets) /\ job[t] = NULL
        /\ job' = [job EXCEPT ![t] = IF Head(packets) = NULL THEN ENDED ELSE Head(packets)]
        /\ UNCHANGED <<alive, reading>>
    BY <1>5 DEF GetPacket
  <2>2. NULL \notin alive /\ ENDED \notin alive
    BY EngineAssumption DEF TypeOK, Watches
  <2>3. /\ \A k \in DOMAIN packets' : k + 1 \in DOMAIN packets /\ k + 1 # 1 /\ packets'[k] = packets[k + 1]
        /\ \A k \in DOMAIN packets : k # 1 => \E m \in DOMAIN packets' : packets'[m] = packets[k]
    <3>1. DOMAIN packets = 1..Len(packets) /\ Len(packets) \in Nat
      BY DEF TypeOK
    <3>2. DOMAIN packets' = 1..Len(packets) - 1 /\ \A k \in 1..Len(packets) - 1 : packets'[k] = packets[k + 1]
      BY <2>1 DEF TypeOK
    <3>3. \A k \in 1..Len(packets) : k # 1 => k - 1 \in 1..Len(packets) - 1 /\ (k - 1) + 1 = k
      BY <3>1
    <3>4. \A k \in 1..Len(packets) - 1 : k + 1 \in 1..Len(packets) /\ k + 1 # 1
      BY <3>1
    <3>5. ASSUME NEW k \in 1..Len(packets), k # 1
          PROVE  \E m \in DOMAIN packets' : packets'[m] = packets[k]
      <4>1. PICK m \in 1..Len(packets) - 1 : m + 1 = k
        BY <3>3, <3>5
      <4>2. QED
        BY <3>2, <4>1
    <3>6. QED
      BY <3>1, <3>2, <3>4, <3>5
  <2>4. 1 \in DOMAIN packets /\ Head(packets) = packets[1]
    BY <2>1 DEF TypeOK
  <2>5. \A c \in Cpus : c # t => job'[c] = job[c]
    BY <2>1 DEF TypeOK
  <2>6. \A w \in alive : job'[t] = w <=> packets[1] = w
    BY <2>1, <2>2, <2>4 DEF TypeOK
  <2>7. \A w \in alive, c \in Cpus : job'[c] = w => job[c] = w \/ (c = t /\ packets[1] = w)
    BY <2>5, <2>6
  <2>8. AtLeastOne'
    BY <2>1, <2>2, <2>3, <2>5, <2>6 DEF AtLeastOne
  <2>9. \A w \in alive : w \in reading =>
           (\A k \in DOMAIN packets' : packets'[k] # w) /\ \A c \in Cpus : job'[c] # w
    BY <2>3, <2>4, <2>7 DEF AtMostOne
  <2>10. \A w \in alive : \A k \in DOMAIN packets', c \in Cpus : ~(packets'[k] = w /\ job'[c] = w)
    BY <2>3, <2>4, <2>7 DEF AtMostOne
  <2>11. \A w \in alive : \A k, m \in DOMAIN packets' : packets'[k] = w /\ packets'[m] = w => k = m
    <3>1. \A k, m \in DOMAIN packets' : k + 1 = m + 1 => k = m
      BY <2>1 DEF TypeOK
    <3>2. QED
      BY <2>3, <3>1 DEF AtMostOne
  <2>12. \A w \in alive : \A c, d \in Cpus : job'[c] = w /\ job'[d] = w => c = d
    BY <2>4, <2>5, <2>6 DEF AtMostOne
  <2>13. QED
    BY <2>1, <2>8, <2>9, <2>10, <2>11, <2>12 DEF AtMostOne
<1>6. ASSUME NEW t \in Cpus, EndProcess(t) PROVE AtLeastOne' /\ AtMostOne'
  <2>1. /\ job[t] \in alive /\ reading' = reading \cup {job[t]}
        /\ job' = [job EXCEPT ![t] = NULL] /\ UNCHANGED <<alive, packets>>
    BY <1>6 DEF EndProcess, DispatchRead
  <2>2. NULL \notin alive
    BY EngineAssumption DEF TypeOK, Watches
  <2>3. \A c \in Cpus : job'[c] = IF c = t THEN NULL ELSE job[c]
    BY <2>1 DEF TypeOK
  <2>4. AtLeastOne'
    BY <2>1, <2>3 DEF AtLeastOne
  <2>5. AtMostOne'
    BY <2>1, <2>2, <2>3 DEF AtMostOne
  <2>6. QED
    BY <2>4, <2>5
<1>7. ASSUME NEW t \in Cpus, EndProcessDeleted(t) PROVE AtLeastOne' /\ AtMostOne'
  <2>1. /\ job[t] \notin alive /\ job' = [job EXCEPT ![t] = NULL]
        /\ UNCHANGED <<alive, packets, reading>>
    BY <1>7 DEF EndProcessDeleted
  <2>2. NULL \notin alive
    BY EngineAssumption DEF TypeOK, Watches
  <2>3. \A c \in Cpus : job'[c] = IF c = t THEN NULL ELSE job[c]
    BY <2>1 DEF TypeOK
  <2>4. QED
    BY <2>1, <2>2, <2>3 DEF AtLeastOne, AtMostOne
<1>8. CASE UNCHANGED <<alive, ioVars>>
  BY <1>8 DEF AtLeastOne, AtMostOne
<1>9. \/ AddWatch \/ RemoveWatch \/ PostEmpty
      \/ \E w \in reading : ReadCompletes(w)
      \/ \E t \in Cpus : GetPacket(t) \/ EndProcess(t) \/ EndProcessDeleted(t)
      \/ UNCHANGED <<alive, ioVars>>
  BY DEF Next, Gui, Prep, Pool, Change, CallList, Destroy, ListReturns, PrepJoined, PoolJoined,
     Pop, Lock, ReturnLocked, vars
<1>10. QED
  BY <1>1, <1>2, <1>3, <1>4, <1>5, <1>6, <1>7, <1>8, <1>9

\* The one buffer of a watch is never written by two reads nor worked off by
\* two threads, and no watch is ever without a read to wake it.
THEOREM OneReadAlways == SafetySpec => []OneReadPerWatch
<1>1. SafetySpec => [](AtLeastOne /\ AtMostOne)
  BY OneReadInit, OneReadStep, ListsInvariance, PTL DEF SafetySpec
<1>2. AtLeastOne /\ AtMostOne => OneReadPerWatch
  <2> SUFFICES ASSUME AtLeastOne, AtMostOne, NEW w \in alive
               PROVE  \E x \in HeldBy(w) : HeldBy(w) = {x}
    BY DEF OneReadPerWatch
  <2>1. CASE w \in reading
    <3>1. HeldBy(w) = {<<"read", w>>}
      BY <2>1 DEF HeldBy, AtMostOne
    <3>2. QED
      BY <3>1
  <2>2. CASE w \notin reading /\ \E i \in DOMAIN packets : packets[i] = w
    <3>1. PICK i \in DOMAIN packets : packets[i] = w
      BY <2>2
    <3>2. HeldBy(w) = {<<"packet", i>>}
      BY <2>2, <3>1 DEF HeldBy, AtMostOne
    <3>3. QED
      BY <3>2
  <2>3. CASE w \notin reading /\ \E t \in Cpus : job[t] = w
    <3>1. PICK t \in Cpus : job[t] = w
      BY <2>3
    <3>2. HeldBy(w) = {<<"thread", t>>}
      BY <2>3, <3>1 DEF HeldBy, AtMostOne
    <3>3. QED
      BY <3>2
  <2>4. QED
    BY <2>1, <2>2, <2>3 DEF AtLeastOne
<1>3. QED
  BY <1>1, <1>2, PTL
-----------------------------------------------------------------------------
(***************************************************************************)
(* What the GUI asked for.  The commands given and not yet executed lead   *)
(* from the volumes listed to those traced: each fits the state that those *)
(* before it leave, so that only a volume that cannot be watched makes a   *)
(* command fail.  A command that fails keeps the lock and breaks the chain *)
(* for good.                                                               *)
(***************************************************************************)
Listed == RangeOf(watching_volumes)

\* The commands to come, with the one in hand.
Pending == IF prep \in {"popped", "locked"} THEN <<cur>> \o prep_queue ELSE prep_queue

\* Volume v is watched when the first k commands of s have been executed on L:
\* it was there or one of them adds it, and none removes it after that.
WatchedAfter(s, L, v, k) ==
  \E i \in 0..k : /\ IF i = 0 THEN v \in L ELSE s[i] = <<"add", v>>
                  /\ \A j \in 1..k : i < j => s[j] # <<"remove", v>>

Fits(s, L, v) ==
  \A k \in 0..Len(s), m \in 1..Len(s) :
    m = k + 1 => /\ s[m] = <<"add", v>> => ~WatchedAfter(s, L, v, k)
                 /\ s[m] = <<"remove", v>> => WatchedAfter(s, L, v, k)

LeadsToWish ==
  lock # "leaked" =>
    \A v \in Volumes : /\ Fits(Pending, Listed, v)
                       /\ WatchedAfter(Pending, Listed, v, Len(Pending)) <=> v \in tracing

\* One more command changes nothing before it, and does what it says after it.
LEMMA MoreCommands ==
  ASSUME NEW s \in Seq(Commands), NEW c \in Commands, NEW L, NEW v
  PROVE  /\ \A k \in 0..Len(s) : WatchedAfter(Append(s, c), L, v, k) <=> WatchedAfter(s, L, v, k)
         /\ WatchedAfter(Append(s, c), L, v, Len(s) + 1)
              <=> \/ c = <<"add", v>>
                  \/ WatchedAfter(s, L, v, Len(s)) /\ c # <<"remove", v>>
<1> DEFINE t == Append(s, c)
           n == Len(s)
<1>1. n \in Nat /\ t[n + 1] = c /\ \A i \in 1..n : t[i] = s[i]
  OBVIOUS
<1> HIDE DEF t, n
<1>2. ASSUME NEW k \in 0..n PROVE WatchedAfter(t, L, v, k) <=> WatchedAfter(s, L, v, k)
  <2>1. \A i \in 1..k : t[i] = s[i]
    BY <1>1
  <2>2. \A i \in 0..k : i = 0 \/ i \in 1..k
    BY <1>1
  <2> QED BY <2>1, <2>2 DEF WatchedAfter
<1>3. c = <<"add", v>> => WatchedAfter(t, L, v, n + 1)
  <2> SUFFICES ASSUME c = <<"add", v>> PROVE WatchedAfter(t, L, v, n + 1)
    OBVIOUS
  <2>1. n + 1 \in 0..n + 1 /\ n + 1 # 0 /\ \A j \in 1..n + 1 : ~(n + 1 < j)
    BY <1>1
  <2> QED BY <1>1, <2>1 DEF WatchedAfter
<1>4. ASSUME WatchedAfter(s, L, v, n), c # <<"remove", v>> PROVE WatchedAfter(t, L, v, n + 1)
  <2>1. PICK i \in 0..n : /\ IF i = 0 THEN v \in L ELSE s[i] = <<"add", v>>
                          /\ \A j \in 1..n : i < j => s[j] # <<"remove", v>>
    BY <1>4 DEF WatchedAfter
  <2>2. i \in 0..n + 1 /\ (i = 0 \/ i \in 1..n)
    BY <1>1
  <2>3. IF i = 0 THEN v \in L ELSE t[i] = <<"add", v>>
    BY <1>1, <2>1, <2>2
  <2>4. \A j \in 1..n + 1 : j \in 1..n \/ j = n + 1
    BY <1>1
  <2>5. \A j \in 1..n + 1 : i < j => t[j] # <<"remove", v>>
    BY <1>1, <1>4, <2>1, <2>4
  <2> QED BY <2>2, <2>3, <2>5 DEF WatchedAfter
<1>5. ASSUME WatchedAfter(t, L, v, n + 1), c # <<"add", v>>
      PROVE  WatchedAfter(s, L, v, n) /\ c # <<"remove", v>>
  <2>1. PICK i \in 0..n + 1 : /\ IF i = 0 THEN v \in L ELSE t[i] = <<"add", v>>
                              /\ \A j \in 1..n + 1 : i < j => t[j] # <<"remove", v>>
    BY <1>5 DEF WatchedAfter
  <2>2. i # n + 1
    <3>1. n + 1 # 0
      BY <1>1
    <3> QED BY <1>1, <1>5, <2>1, <3>1
  <2>3. i \in 0..n /\ (i = 0 \/ i \in 1..n) /\ i < n + 1 /\ n + 1 \in 1..n + 1
    BY <1>1, <2>2
  <2>4. IF i = 0 THEN v \in L ELSE s[i] = <<"add", v>>
    BY <1>1, <2>1, <2>3
  <2>5. \A j \in 1..n : i < j => s[j] # <<"remove", v>>
    <3>1. \A j \in 1..n : j \in 1..n + 1
      BY <1>1
    <3> QED BY <1>1, <2>1, <3>1
  <2>6. c # <<"remove", v>>
    BY <1>1, <2>1, <2>3
  <2> QED BY <2>3, <2>4, <2>5, <2>6 DEF WatchedAfter
<1> QED BY <1>2, <1>3, <1>4, <1>5 DEF t, n

\* Executing the first command takes it off, and the rest means the same.
LEMMA FirstDone ==
  ASSUME NEW s \in Seq(Commands), Len(s) > 0, NEW L, NEW M, NEW v,
         v \in M <=> s[1] = <<"add", v>> \/ (v \in L /\ s[1] # <<"remove", v>>)
  PROVE  \A k \in 0..Len(s) - 1 : WatchedAfter(Tail(s), M, v, k) <=> WatchedAfter(s, L, v, k + 1)
<1> DEFINE t == Tail(s)
<1>1. Len(s) \in Nat /\ \A i \in 1..Len(s) - 1 : t[i] = s[i + 1]
  OBVIOUS
<1> HIDE DEF t
<1> SUFFICES ASSUME NEW k \in 0..Len(s) - 1
             PROVE  WatchedAfter(t, M, v, k) <=> WatchedAfter(s, L, v, k + 1)
  BY DEF t
<1>2. \A i \in 1..k : t[i] = s[i + 1]
  BY <1>1
<1>3. \A j \in 1..k + 1 : j = 1 \/ \E i \in 1..k : i + 1 = j
  <2> TAKE j \in 1..k + 1
  <2>1. j = 1 \/ (j - 1 \in 1..k /\ (j - 1) + 1 = j)
    BY <1>1
  <2> QED BY <2>1
<1>4. ASSUME WatchedAfter(t, M, v, k) PROVE WatchedAfter(s, L, v, k + 1)
  <2>1. PICK i \in 0..k : /\ IF i = 0 THEN v \in M ELSE t[i] = <<"add", v>>
                          /\ \A j \in 1..k : i < j => t[j] # <<"remove", v>>
    BY <1>4 DEF WatchedAfter
  <2>2. ASSUME NEW m \in 1..k + 1, i + 1 < m PROVE s[m] # <<"remove", v>>
    <3>1. m # 1
      BY <2>2
    <3>2. PICK j \in 1..k : j + 1 = m
      BY <1>3, <3>1
    <3>3. i < j
      BY <2>2, <3>2
    <3> QED BY <1>2, <2>1, <3>2, <3>3
  <2>3. CASE i # 0 \/ s[1] = <<"add", v>>
    <3>1. i + 1 \in 0..k + 1 /\ i + 1 # 0
      BY <1>1
    <3>2. s[i + 1] = <<"add", v>>
      <4>1. CASE i = 0
        BY <2>3, <4>1
      <4>2. CASE i # 0
        <5>1. i \in 1..k
          BY <1>1, <4>2
        <5> QED BY <1>2, <2>1, <4>2, <5>1
      <4> QED BY <4>1, <4>2
    <3> QED BY <2>2, <3>1, <3>2 DEF WatchedAfter
  <2>4. CASE i = 0 /\ s[1] # <<"add", v>>
    <3>1. v \in L /\ s[1] # <<"remove", v>>
      BY <2>1, <2>4
    <3>2. \A m \in 1..k + 1 : m = 1 \/ i + 1 < m
      BY <1>1, <2>4
    <3>3. \A m \in 1..k + 1 : s[m] # <<"remove", v>>
      BY <2>2, <3>1, <3>2
    <3>4. 0 \in 0..k + 1
      BY <1>1
    <3> QED BY <3>1, <3>3, <3>4 DEF WatchedAfter
  <2> QED BY <2>3, <2>4
<1>5. ASSUME WatchedAfter(s, L, v, k + 1) PROVE WatchedAfter(t, M, v, k)
  <2>1. PICK m \in 0..k + 1 : /\ IF m = 0 THEN v \in L ELSE s[m] = <<"add", v>>
                              /\ \A j \in 1..k + 1 : m < j => s[j] # <<"remove", v>>
    BY <1>5 DEF WatchedAfter
  <2>2. ASSUME NEW j \in 1..k, m < j + 1 PROVE t[j] # <<"remove", v>>
    <3>1. j + 1 \in 1..k + 1
      BY <1>1
    <3> QED BY <1>2, <2>1, <2>2, <3>1
  <2>3. CASE m \in {0, 1}
    <3>1. v \in M
      <4>1. CASE m = 0
        <5>1. v \in L /\ 1 \in 1..k + 1 /\ 0 < 1
          BY <1>1, <2>1, <4>1
        <5>2. s[1] # <<"remove", v>>
          BY <2>1, <4>1, <5>1
        <5> QED BY <5>1, <5>2
      <4>2. CASE m = 1
        <5>1. s[1] = <<"add", v>>
          BY <2>1, <4>2
        <5> QED BY <5>1
      <4> QED BY <2>3, <4>1, <4>2
    <3>2. \A j \in 1..k : t[j] # <<"remove", v>>
      <4>1. \A j \in 1..k : m < j + 1
        BY <1>1, <2>3
      <4> QED BY <2>2, <4>1
    <3>3. 0 \in 0..k
      BY <1>1
    <3> QED BY <3>1, <3>2, <3>3 DEF WatchedAfter
  <2>4. CASE m \notin {0, 1}
    <3>1. m \in 1..k + 1 /\ m # 1
      BY <1>1, <2>4
    <3>2. PICK i \in 1..k : i + 1 = m
      BY <1>3, <3>1
    <3>3. i \in 0..k /\ i # 0
      BY <1>1
    <3>4. t[i] = <<"add", v>>
      BY <1>2, <2>1, <2>4, <3>2
    <3>5. \A j \in 1..k : i < j => m < j + 1
      BY <1>1, <3>2
    <3>6. \A j \in 1..k : i < j => t[j] # <<"remove", v>>
      BY <2>2, <3>5
    <3> QED BY <3>3, <3>4, <3>6 DEF WatchedAfter
  <2> QED BY <2>3, <2>4
<1> QED BY <1>4, <1>5

LEMMA FitsAppended ==
  ASSUME NEW s \in Seq(Commands), NEW c \in Commands, NEW L, NEW v, Fits(s, L, v),
         c = <<"add", v>> => ~WatchedAfter(s, L, v, Len(s)),
         c = <<"remove", v>> => WatchedAfter(s, L, v, Len(s))
  PROVE  Fits(Append(s, c), L, v)
<1> DEFINE t == Append(s, c)
           n == Len(s)
<1>1. n \in Nat /\ Len(t) = n + 1 /\ t[n + 1] = c /\ \A i \in 1..n : t[i] = s[i]
  OBVIOUS
<1>2. \A k \in 0..n : WatchedAfter(t, L, v, k) <=> WatchedAfter(s, L, v, k)
  BY MoreCommands
<1> HIDE DEF t, n
<1> SUFFICES ASSUME NEW k \in 0..n + 1, NEW m \in 1..n + 1, m = k + 1
             PROVE  /\ t[m] = <<"add", v>> => ~WatchedAfter(t, L, v, k)
                    /\ t[m] = <<"remove", v>> => WatchedAfter(t, L, v, k)
  BY <1>1 DEF Fits, t
<1>3. k \in 0..n
  BY <1>1
<1>4. CASE m = n + 1
  <2>1. k = n /\ t[m] = c
    BY <1>1, <1>4
  <2> QED BY <1>2, <1>3, <2>1 DEF n
<1>5. CASE m # n + 1
  <2>1. m \in 1..n /\ t[m] = s[m]
    BY <1>1, <1>5
  <2>2. /\ s[m] = <<"add", v>> => ~WatchedAfter(s, L, v, k)
        /\ s[m] = <<"remove", v>> => WatchedAfter(s, L, v, k)
    BY <1>3, <2>1 DEF Fits, n
  <2> QED BY <1>2, <1>3, <2>1, <2>2
<1> QED BY <1>4, <1>5

LEMMA FitsDone ==
  ASSUME NEW s \in Seq(Commands), Len(s) > 0, NEW L, NEW M, NEW v, Fits(s, L, v),
         v \in M <=> s[1] = <<"add", v>> \/ (v \in L /\ s[1] # <<"remove", v>>)
  PROVE  Fits(Tail(s), M, v)
<1> DEFINE t == Tail(s)
<1>1. Len(s) \in Nat /\ Len(t) = Len(s) - 1 /\ \A i \in 1..Len(s) - 1 : t[i] = s[i + 1]
  OBVIOUS
<1>2. \A k \in 0..Len(s) - 1 : WatchedAfter(t, M, v, k) <=> WatchedAfter(s, L, v, k + 1)
  BY FirstDone
<1> HIDE DEF t
<1> SUFFICES ASSUME NEW k \in 0..Len(s) - 1, NEW m \in 1..Len(s) - 1, m = k + 1
             PROVE  /\ t[m] = <<"add", v>> => ~WatchedAfter(t, M, v, k)
                    /\ t[m] = <<"remove", v>> => WatchedAfter(t, M, v, k)
  BY <1>1 DEF Fits, t
<1>3. k + 1 \in 0..Len(s) /\ m + 1 \in 1..Len(s) /\ m + 1 = (k + 1) + 1 /\ t[m] = s[m + 1]
  BY <1>1
<1>4. /\ s[m + 1] = <<"add", v>> => ~WatchedAfter(s, L, v, k + 1)
      /\ s[m + 1] = <<"remove", v>> => WatchedAfter(s, L, v, k + 1)
  BY <1>3 DEF Fits
<1> QED BY <1>2, <1>3, <1>4

LEMMA PendingType == TypeOK => Pending \in Seq(Commands)
<1> SUFFICES ASSUME TypeOK PROVE Pending \in Seq(Commands)
  OBVIOUS
<1>1. cur \in Commands /\ prep_queue \in Seq(Commands)
  BY DEF TypeOK
<1>2. <<cur>> \o prep_queue \in Seq(Commands)
  BY <1>1
<1> QED BY <1>1, <1>2 DEF Pending

\* The first of the commands still to come fits what is listed: it fails only if
\* the volume cannot be watched.
LEMMA FailsForReason ==
  ASSUME Lists, LeadsToWish, ReturnLocked
  PROVE  cur[1] = "add" /\ cur[2] \in BadVolumes
<1> DEFINE v == cur[2]
<1>1. prep = "locked" /\ lock # "leaked" /\ TypeOK /\ ListsAgree
  BY DEF ReturnLocked, Lists, TypeOK
<1>2. cur \in Commands /\ cur # <<"quit">> /\ prep_queue \in Seq(Commands)
  BY <1>1 DEF Lists, CommandInHand, TypeOK
<1>3. v \in Volumes /\ (cur = <<"add", v>> \/ cur = <<"remove", v>>)
  BY <1>2 DEF Commands
<1>4. Pending = <<cur>> \o prep_queue
  BY <1>1 DEF Pending
<1>5. Pending[1] = cur /\ 1 \in 1..Len(Pending) /\ 0 \in 0..Len(Pending)
  BY <1>2, <1>4
<1>6. /\ cur = <<"add", v>> => ~WatchedAfter(Pending, Listed, v, 0)
      /\ cur = <<"remove", v>> => WatchedAfter(Pending, Listed, v, 0)
  <2>1. Fits(Pending, Listed, v)
    BY <1>1, <1>3 DEF LeadsToWish
  <2>2. 1 = 0 + 1
    OBVIOUS
  <2> QED BY <1>5, <2>1, <2>2 DEF Fits
<1>7. WatchedAfter(Pending, Listed, v, 0) <=> v \in Listed
  <2>1. 0..0 = {0} /\ 1..0 = {}
    OBVIOUS
  <2> QED BY <2>1 DEF WatchedAfter
<1>8. CASE cur = <<"add", v>>
  <2>1. v \notin Listed
    BY <1>6, <1>7, <1>8
  <2>2. Find(v) = {}
    <3> SUFFICES ASSUME NEW i \in Find(v) PROVE FALSE
      OBVIOUS
    <3>1. i \in DOMAIN watchings /\ vol[watchings[i]] = v
      BY DEF Find
    <3>2. i \in DOMAIN watching_volumes /\ watching_volumes[i] = v
      BY <1>1, <3>1 DEF ListsAgree
    <3> QED BY <2>1, <3>2 DEF Listed, RangeOf
  <2>3. cur[1] = "add"
    BY <1>8
  <2> QED BY <2>2, <2>3 DEF ReturnLocked
<1>9. CASE cur = <<"remove", v>>
  <2>1. v \in Listed
    BY <1>6, <1>7, <1>9
  <2>2. Find(v) # {}
    BY <1>1, <1>3, <2>1, Found DEF Listed
  <2>3. cur[1] = "remove"
    BY <1>9
  <2> QED BY <2>2, <2>3 DEF ReturnLocked
<1> QED BY <1>3, <1>8, <1>9

\* An executed command has done to the list what it says.
LEMMA ExecutedDone ==
  ASSUME Lists, LeadsToWish, AddWatch \/ RemoveWatch
  PROVE  LeadsToWish'
<1>1. /\ prep = "locked" /\ prep' = "idle" /\ lock # "leaked" /\ TypeOK
      /\ UNCHANGED <<tracing, prep_queue>>
  BY DEF AddWatch, RemoveWatch, Unlock, guiVars, Lists, TypeOK
<1>2. cur \in Commands /\ prep_queue \in Seq(Commands) /\ Pending \in Seq(Commands)
  BY <1>1, PendingType DEF TypeOK
<1>3. Pending = <<cur>> \o prep_queue /\ Pending' = prep_queue
  BY <1>1 DEF Pending
<1>4. Len(Pending) > 0 /\ Pending[1] = cur /\ Tail(Pending) = prep_queue
  BY <1>2, <1>3
<1>5. Len(Pending) = Len(prep_queue) + 1 /\ Len(prep_queue) \in Nat
  BY <1>2, <1>3
<1>6. ASSUME NEW v \in Volumes
      PROVE  v \in Listed' <=> cur = <<"add", v>> \/ (v \in Listed /\ cur # <<"remove", v>>)
  <2>1. CASE AddWatch
    <3>1. cur[1] = "add" /\ watching_volumes' = Append(watching_volumes, cur[2])
      BY <2>1 DEF AddWatch
    <3>2. cur = <<"add", cur[2]>> /\ cur[2] \in Volumes
      BY <1>2, <3>1 DEF Commands
    <3>3. Listed' = Listed \cup {cur[2]}
      BY <1>1, <3>1, <3>2, RangeAppend DEF Listed, TypeOK
    <3> QED BY <3>2, <3>3
  <2>2. CASE RemoveWatch
    <3>1. PICK i \in Find(cur[2]) : Erase(i)
      BY <2>2 DEF RemoveWatch
    <3>2. cur = <<"remove", cur[2]>> /\ cur[2] \in Volumes
      BY <1>2, <2>2 DEF RemoveWatch, Commands
    <3>3. i \in DOMAIN watching_volumes /\ watching_volumes[i] = cur[2]
      BY DEF Lists, ListsAgree, Find
    <3>4. Listed' = Listed \ {cur[2]}
      <4>1. watching_volumes' = Without(watching_volumes, i) /\ watching_volumes \in Seq(Volumes)
        BY <1>1, <3>1 DEF Erase, TypeOK
      <4>2. \A j, k \in DOMAIN watching_volumes : watching_volumes[j] = watching_volumes[k] => j = k
        BY DEF Lists, ListsAgree
      <4>3. RangeOf(Without(watching_volumes, i)) = RangeOf(watching_volumes) \ {watching_volumes[i]}
        BY <3>3, <4>1, <4>2, WithoutRange
      <4> QED BY <3>3, <4>1, <4>3 DEF Listed
    <3> QED BY <3>2, <3>4
  <2> QED BY <2>1, <2>2
<1>7. ASSUME NEW v \in Volumes
      PROVE  /\ Fits(Pending', Listed', v)
             /\ WatchedAfter(Pending', Listed', v, Len(Pending')) <=> v \in tracing'
  <2>1. Fits(Pending, Listed, v) /\ (WatchedAfter(Pending, Listed, v, Len(Pending)) <=> v \in tracing)
    BY <1>1 DEF LeadsToWish
  <2>2. v \in Listed' <=> Pending[1] = <<"add", v>> \/ (v \in Listed /\ Pending[1] # <<"remove", v>>)
    BY <1>4, <1>6
  <2>3. Fits(prep_queue, Listed', v)
    BY <1>2, <1>4, <2>1, <2>2, FitsDone
  <2>4. Len(prep_queue) \in 0..Len(Pending) - 1
    BY <1>5
  <2>5. WatchedAfter(prep_queue, Listed', v, Len(prep_queue))
          <=> WatchedAfter(Pending, Listed, v, Len(prep_queue) + 1)
    BY <1>2, <1>4, <2>2, <2>4, FirstDone
  <2> QED BY <1>1, <1>3, <1>5, <2>1, <2>3, <2>5
<1> QED BY <1>7 DEF LeadsToWish

\* A command given is the last of those to come.
LEMMA GivenFits ==
  ASSUME Lists, LeadsToWish, NEW u \in Volumes, Change(u)
  PROVE  LeadsToWish'
<1> SUFFICES ASSUME lock # "leaked", NEW v \in Volumes
             PROVE  /\ Fits(Pending', Listed', v)
                    /\ WatchedAfter(Pending', Listed', v, Len(Pending')) <=> v \in tracing'
  BY DEF LeadsToWish, Change, listVars
<1>1. PICK c \in Commands :
        /\ prep_queue' = Append(prep_queue, c)
        /\ \/ u \in tracing /\ tracing' = tracing \ {u} /\ c = <<"remove", u>>
           \/ u \notin tracing /\ tracing' = tracing \cup {u} /\ c = <<"add", u>>
  BY DEF Change, Commands
<1>2. UNCHANGED <<prep, cur, watching_volumes>>
  BY DEF Change, listVars
<1>3. cur \in Commands /\ prep_queue \in Seq(Commands) /\ Pending \in Seq(Commands)
  BY PendingType DEF Lists, TypeOK
<1>4. Pending' = Append(Pending, c)
  <2>1. <<cur>> \o Append(prep_queue, c) = Append(<<cur>> \o prep_queue, c)
    BY <1>3
  <2> QED BY <1>1, <1>2, <2>1 DEF Pending
<1>5. Listed' = Listed
  BY <1>2 DEF Listed, RangeOf
<1>6. Fits(Pending, Listed, v) /\ (WatchedAfter(Pending, Listed, v, Len(Pending)) <=> v \in tracing)
  BY DEF LeadsToWish
<1>7. /\ c = <<"add", v>> => v = u /\ u \notin tracing /\ v \in tracing'
      /\ c = <<"remove", v>> => v = u /\ u \in tracing /\ v \notin tracing'
      /\ c # <<"add", v>> /\ c # <<"remove", v>> => (v \in tracing' <=> v \in tracing)
  BY <1>1
<1>8. Fits(Append(Pending, c), Listed, v)
  BY <1>3, <1>6, <1>7, FitsAppended
<1>9. WatchedAfter(Append(Pending, c), Listed, v, Len(Pending) + 1)
        <=> c = <<"add", v>> \/ (WatchedAfter(Pending, Listed, v, Len(Pending)) /\ c # <<"remove", v>>)
  BY <1>3, MoreCommands
<1>10. Len(Append(Pending, c)) = Len(Pending) + 1
  BY <1>3
<1>11. c # <<"add", v>> \/ c # <<"remove", v>>
  OBVIOUS
<1> QED BY <1>4, <1>5, <1>6, <1>7, <1>8, <1>9, <1>10, <1>11

\* QUIT asks for no volume.
LEMMA QuitFits ==
  ASSUME Lists, LeadsToWish, Destroy
  PROVE  LeadsToWish'
<1> DEFINE c == <<"quit">>
<1> SUFFICES ASSUME lock # "leaked", NEW v \in Volumes
             PROVE  /\ Fits(Pending', Listed', v)
                    /\ WatchedAfter(Pending', Listed', v, Len(Pending')) <=> v \in tracing'
  BY DEF LeadsToWish, Destroy, listVars
<1>1. prep_queue' = Append(prep_queue, c) /\ UNCHANGED <<tracing, prep, cur, watching_volumes>>
  BY DEF Destroy, listVars
<1>2. c \in Commands /\ c # <<"add", v>> /\ c # <<"remove", v>>
  BY DEF Commands
<1>3. cur \in Commands /\ prep_queue \in Seq(Commands) /\ Pending \in Seq(Commands)
  BY PendingType DEF Lists, TypeOK
<1> HIDE DEF c
<1>4. Pending' = Append(Pending, c)
  <2>1. <<cur>> \o Append(prep_queue, c) = Append(<<cur>> \o prep_queue, c)
    BY <1>2, <1>3
  <2> QED BY <1>1, <2>1 DEF Pending
<1>5. Listed' = Listed
  BY <1>1 DEF Listed, RangeOf
<1>6. Fits(Pending, Listed, v) /\ (WatchedAfter(Pending, Listed, v, Len(Pending)) <=> v \in tracing)
  BY DEF LeadsToWish
<1>7. Fits(Append(Pending, c), Listed, v)
  BY <1>2, <1>3, <1>6, FitsAppended
<1>8. WatchedAfter(Append(Pending, c), Listed, v, Len(Pending) + 1)
        <=> c = <<"add", v>> \/ (WatchedAfter(Pending, Listed, v, Len(Pending)) /\ c # <<"remove", v>>)
  BY <1>2, <1>3, MoreCommands
<1>9. Len(Append(Pending, c)) = Len(Pending) + 1
  BY <1>2, <1>3
<1> QED BY <1>1, <1>2, <1>4, <1>5, <1>6, <1>7, <1>8, <1>9

\* A command changes hands and remains the first to come.
LEMMA PendingStays ==
  ASSUME Lists, Pop \/ Lock
  PROVE  Pending' = Pending
<1>1. CASE Pop
  <2>1. prep = "idle" /\ prep_queue # <<>> /\ cur' = Head(prep_queue) /\ prep_queue \in Seq(Commands)
    BY <1>1 DEF Pop, Lists, TypeOK
  <2>2. \/ prep' = "returned" /\ prep_queue' = prep_queue
        \/ prep' = "popped" /\ prep_queue' = Tail(prep_queue)
    BY <1>1 DEF Pop
  <2>3. <<Head(prep_queue)>> \o Tail(prep_queue) = prep_queue
    BY <2>1
  <2> QED BY <2>1, <2>2, <2>3 DEF Pending
<1>2. CASE Lock
  BY <1>2 DEF Lock, Pending
<1> QED BY <1>1, <1>2

LEMMA WishStep == Lists /\ LeadsToWish /\ [Next]_vars => LeadsToWish'
<1> SUFFICES ASSUME Lists, LeadsToWish, [Next]_vars PROVE LeadsToWish'
  OBVIOUS
<1>1. CASE AddWatch \/ RemoveWatch
  BY <1>1, ExecutedDone
<1>2. CASE \E v \in Volumes : Change(v)
  BY <1>2, GivenFits
<1>3. CASE Destroy
  BY <1>3, QuitFits
<1>4. CASE ReturnLocked
  BY <1>4 DEF ReturnLocked, LeadsToWish
<1>5. ASSUME Pending' = Pending, UNCHANGED <<tracing, watching_volumes>>,
             lock' = lock \/ lock = "free"
      PROVE  LeadsToWish'
  <2>1. Listed' = Listed
    BY <1>5 DEF Listed, RangeOf
  <2>2. lock' # "leaked" => lock # "leaked"
    BY <1>5
  <2> QED BY <1>5, <2>1, <2>2 DEF LeadsToWish
<1>6. CASE Pop \/ Lock
  <2>1. UNCHANGED <<tracing, watching_volumes>> /\ (lock' = lock \/ lock = "free")
    BY <1>6 DEF Pop, Lock, guiVars, listVars
  <2> QED BY <1>5, <1>6, <2>1, PendingStays
<1>7. CASE UNCHANGED <<tracing, prepVars, listVars>>
  BY <1>5, <1>7 DEF Pending, prepVars, listVars
<1>8. \/ AddWatch \/ RemoveWatch \/ (\E v \in Volumes : Change(v)) \/ Destroy \/ ReturnLocked
      \/ Pop \/ Lock \/ UNCHANGED <<tracing, prepVars, listVars>>
  BY DEF Next, Gui, Prep, Pool, CallList, ListReturns, PrepJoined, PostEmpty, PoolJoined,
     ReadCompletes, GetPacket, EndProcess, EndProcessDeleted, vars, guiVars
<1> QED BY <1>1, <1>2, <1>3, <1>4, <1>6, <1>7, <1>8

LEMMA WishHolds == SafetySpec => []LeadsToWish
<1>1. Init => LeadsToWish
  <2> SUFFICES ASSUME Init, NEW v \in Volumes
               PROVE  /\ Fits(Pending, Listed, v)
                      /\ WatchedAfter(Pending, Listed, v, Len(Pending)) <=> v \in tracing
    BY DEF LeadsToWish
  <2>1. Pending = <<>> /\ Listed = {} /\ tracing = {}
    BY DEF Init, Pending, Listed, RangeOf
  <2>2. 0..0 = {0} /\ Len(Pending) = 0
    BY <2>1
  <2> QED BY <2>1, <2>2 DEF Fits, WatchedAfter
<1> QED BY <1>1, WishStep, ListsInvariance, PTL DEF SafetySpec

\* When the queue has been worked off, and no command failed, exactly the
\* volumes the GUI believes to be traced are watched, however often and in
\* whatever order it changed its mind.
THEOREM WishesComeTrue == SafetySpec => []WatchesMatchWish
<1>1. Lists /\ LeadsToWish => WatchesMatchWish
  <2> SUFFICES ASSUME Lists, LeadsToWish, prep \in {"idle", "returned"}, lock = "free",
                      RangeOf(prep_queue) \subseteq {<<"quit">>}
               PROVE  RangeOf(watching_volumes) = tracing
    BY DEF WatchesMatchWish
  <2>1. Pending = prep_queue /\ prep_queue \in Seq(Commands) /\ tracing \subseteq Volumes
        /\ watching_volumes \in Seq(Volumes)
    BY DEF Pending, Lists, TypeOK
  <2>2. \A i \in 1..Len(Pending) : Pending[i] = <<"quit">>
    BY <2>1 DEF RangeOf
  <2>3. ASSUME NEW v \in Volumes
        PROVE  WatchedAfter(Pending, Listed, v, Len(Pending)) <=> v \in Listed
    <3>1. \A i \in 1..Len(Pending) : Pending[i] # <<"add", v>> /\ Pending[i] # <<"remove", v>>
      BY <2>2
    <3>2. Len(Pending) \in Nat
      BY <2>1
    <3>3. 0 \in 0..Len(Pending) /\ \A i \in 0..Len(Pending) : i = 0 \/ i \in 1..Len(Pending)
      BY <3>2
    <3> QED BY <3>1, <3>3 DEF WatchedAfter
  <2>4. \A v \in Volumes : v \in Listed <=> v \in tracing
    BY <2>3 DEF LeadsToWish
  <2>5. Listed \subseteq Volumes
    BY <2>1 DEF Listed, RangeOf
  <2> QED BY <2>1, <2>4, <2>5 DEF Listed
<1> QED BY <1>1, WishHolds, ListsInvariance, PTL

\* A tasklet returns with the lock held (volpreplet_win32.cc) only because its
\* volume cannot be watched: no order of clicks, however fast, makes the queue
\* add what is listed or remove what is not.
FailsOnlyBad == [][ReturnLocked => cur[1] = "add" /\ cur[2] \in BadVolumes]_vars

THEOREM OnlyBadVolumesFail == SafetySpec => FailsOnlyBad
BY FailsForReason, WishHolds, ListsInvariance, PTL DEF FailsOnlyBad, SafetySpec
=============================================================================
