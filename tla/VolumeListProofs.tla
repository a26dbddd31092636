-------------------------- MODULE VolumeListProofs --------------------------
(***************************************************************************)
(* What VolumeList promises for any set of volumes and number of sessions. *)
(* The commands queued for a volume alternate, the first of them fits the  *)
(* watches there are and the last what the list shows, so that no command  *)
(* meets a watch it would refuse.                                          *)
(***************************************************************************)
EXTENDS VolumeList, TLAPS

\* The order of two commands for the same volume with none between them.
Adjacent(v, j, k) ==
  /\ j < k /\ commands[j][2] = v /\ commands[k][2] = v
  /\ \A i \in j + 1..k - 1 : commands[i][2] # v

First(v) ==
  \A k \in 1..Len(commands) :
    commands[k][2] = v /\ (\A j \in 1..k - 1 : commands[j][2] # v) =>
      (commands[k][1] = "add" <=> v \notin watched)

Alternate(v) ==
  \A j, k \in 1..Len(commands) :
    Adjacent(v, j, k) => (commands[j][1] = "add" <=> commands[k][1] # "add")

\* The commands for v end with what is wanted, w.
Ends(v, w) ==
  /\ \A k \in 1..Len(commands) : LastFor(v, k) => (commands[k][1] = "add" <=> w)
  /\ (\A k \in 1..Len(commands) : commands[k][2] # v) => (v \in watched <=> w)

Ordered(v, w) == First(v) /\ Alternate(v) /\ Ends(v, w)

Queue == failed = {} => \A v \in Volumes : Ordered(v, Wanted(v))

\* What each place of the GUI thread knows.
Gui ==
  /\ gui = "down" => /\ rows = disk /\ traced = {} /\ still = {}
                     /\ commands = <<>> /\ watched = {} /\ failed = {}
  /\ gui \in {"down", "idle", "closing"} => todo = {}
  /\ gui = "loading" => still = traced /\ todo \subseteq traced
  /\ gui = "applying" => todo = Changed

\* Adding was asked for, whatever place the wish has got to.
Asked ==
  /\ watched \cup traced \subseteq asked
  /\ \A v \in Volumes : disk[v] = "tracing" \/ rows[v] = "tracing" => v \in asked
  /\ \A k \in 1..Len(commands) : commands[k][1] = "add" => commands[k][2] \in asked

Inv == TypeOK /\ Gui /\ TracedContinues /\ Asked /\ Queue /\ NoneRefused

\* Queueing for v what it did not have; the commands of other volumes are not touched.
LEMMA AppendOrdered ==
  ASSUME commands \in Seq({"add", "remove"} \X Volumes), UNCHANGED watched,
         NEW v \in Volumes, NEW kind \in {"add", "remove"},
         commands' = Append(commands, <<kind, v>>),
         NEW u \in Volumes, NEW w \in BOOLEAN, Ordered(u, w),
         u = v => (w <=> kind # "add")
  PROVE  Ordered(u, IF u = v THEN kind = "add" ELSE w)'
<1> DEFINE n == Len(commands)
           new == IF u = v THEN kind = "add" ELSE w
<1>1. /\ n \in Nat /\ Len(commands') = n + 1
      /\ commands'[n + 1] = <<kind, v>>
      /\ \A k \in 1..n : commands'[k] = commands[k]
  OBVIOUS
<1>2. commands'[n + 1][1] = kind /\ commands'[n + 1][2] = v
  BY <1>1
<1>3. First(u)'
  <2> SUFFICES ASSUME NEW k \in 1..n + 1, commands'[k][2] = u, \A j \in 1..k - 1 : commands'[j][2] # u
               PROVE  commands'[k][1] = "add" <=> u \notin watched
    BY <1>1 DEF First
  <2>1. CASE k \in 1..n
    <3>1. commands[k][2] = u /\ \A j \in 1..k - 1 : commands[j][2] # u
      BY <1>1, <2>1
    <3> QED BY <1>1, <2>1, <3>1 DEF Ordered, First
  <2>2. CASE k = n + 1
    <3>1. u = v /\ \A j \in 1..n : commands[j][2] # u
      BY <1>1, <1>2, <2>2
    <3>2. u \in watched <=> w
      BY <3>1 DEF Ordered, Ends
    <3> QED BY <1>2, <2>2, <3>1, <3>2
  <2> QED BY <1>1, <2>1, <2>2
<1>4. Alternate(u)'
  <2> SUFFICES ASSUME NEW j \in 1..n + 1, NEW k \in 1..n + 1, j < k,
                      commands'[j][2] = u, commands'[k][2] = u,
                      \A i \in j + 1..k - 1 : commands'[i][2] # u
               PROVE  commands'[j][1] = "add" <=> commands'[k][1] # "add"
    BY <1>1 DEF Alternate, Adjacent
  <2>0. j \in 1..n /\ commands'[j] = commands[j] /\ \A i \in j + 1..k - 1 : commands[i][2] # u
    BY <1>1
  <2>1. CASE k \in 1..n
    <3>1. Adjacent(u, j, k)
      BY <1>1, <2>0, <2>1 DEF Adjacent
    <3> QED BY <1>1, <2>0, <2>1, <3>1 DEF Ordered, Alternate
  <2>2. CASE k = n + 1
    <3>1. u = v /\ LastFor(u, j)
      BY <1>1, <1>2, <2>0, <2>2 DEF LastFor
    <3>2. commands[j][1] = "add" <=> w
      BY <2>0, <3>1 DEF Ordered, Ends
    <3> QED BY <1>2, <2>0, <2>2, <3>1, <3>2
  <2> QED BY <1>1, <2>1, <2>2
<1>5. Ends(u, new)'
  <2>1. ASSUME NEW k \in 1..n + 1, commands'[k][2] = u, \A j \in k + 1..n + 1 : commands'[j][2] # u
        PROVE  commands'[k][1] = "add" <=> new
    <3>1. CASE k = n + 1
      BY <1>2, <2>1, <3>1
    <3>2. CASE k \in 1..n
      <4>1. n + 1 \in k + 1..n + 1 /\ u # v
        BY <1>1, <1>2, <2>1, <3>2
      <4>2. LastFor(u, k)
        BY <1>1, <2>1, <3>2 DEF LastFor
      <4> QED BY <1>1, <3>2, <4>1, <4>2 DEF Ordered, Ends
    <3> QED BY <1>1, <3>1, <3>2
  <2>2. ASSUME \A k \in 1..n + 1 : commands'[k][2] # u
        PROVE  u \in watched <=> new
    <3>1. u # v /\ \A k \in 1..n : commands[k][2] # u
      BY <1>1, <1>2, <2>2
    <3> QED BY <3>1 DEF Ordered, Ends
  <2> QED BY <1>1, <2>1, <2>2 DEF Ends, LastFor
<1> QED BY <1>3, <1>4, <1>5 DEF Ordered

\* Doing the oldest command changes the watch of its volume and no other.
LEMMA TailOrdered ==
  ASSUME commands \in Seq({"add", "remove"} \X Volumes), commands # <<>>,
         commands' = Tail(commands),
         NEW v \in Volumes, NEW kind \in {"add", "remove"}, Head(commands) = <<kind, v>>,
         NEW u \in Volumes, NEW w \in BOOLEAN, Ordered(u, w),
         u # v => (u \in watched' <=> u \in watched),
         v \in watched' <=> kind = "add"
  PROVE  Ordered(u, w)'
<1> DEFINE n == Len(commands)
<1>1. /\ n \in Nat \ {0} /\ Len(commands') = n - 1
      /\ commands[1] = <<kind, v>>
      /\ \A k \in 1..n - 1 : commands'[k] = commands[k + 1]
  OBVIOUS
<1>2. commands[1][1] = kind /\ commands[1][2] = v
  BY <1>1
<1>3. First(u)'
  <2> SUFFICES ASSUME NEW k \in 1..n - 1, commands'[k][2] = u, \A j \in 1..k - 1 : commands'[j][2] # u
               PROVE  commands'[k][1] = "add" <=> u \notin watched'
    BY <1>1 DEF First
  <2>1. /\ k + 1 \in 1..n /\ 1 \in 1..n /\ commands'[k] = commands[k + 1] /\ commands[k + 1][2] = u
    BY <1>1
  <2>2. \A i \in 2..k : commands[i][2] # u
    <3> SUFFICES ASSUME NEW i \in 2..k PROVE commands[i][2] # u
      OBVIOUS
    <3>1. i - 1 \in 1..k - 1 /\ i - 1 \in 1..n - 1 /\ (i - 1) + 1 = i
      BY <1>1
    <3> QED BY <1>1, <3>1, ZenonT(30)
  <2>3. CASE u = v
    <3>1. Adjacent(u, 1, k + 1)
      BY <1>1, <1>2, <2>1, <2>2, <2>3 DEF Adjacent
    <3>2. kind = "add" <=> commands[k + 1][1] # "add"
      BY <1>2, <2>1, <3>1 DEF Ordered, Alternate
    <3> QED BY <2>1, <2>3, <3>2
  <2>4. CASE u # v
    <3>1. \A j \in 1..(k + 1) - 1 : commands[j][2] # u
      BY <1>1, <1>2, <2>2, <2>4
    <3>2. commands[k + 1][1] = "add" <=> u \notin watched
      BY <2>1, <3>1 DEF Ordered, First
    <3> QED BY <2>1, <2>4, <3>2
  <2> QED BY <2>3, <2>4
<1>4. Alternate(u)'
  <2> SUFFICES ASSUME NEW j \in 1..n - 1, NEW k \in 1..n - 1, j < k,
                      commands'[j][2] = u, commands'[k][2] = u,
                      \A i \in j + 1..k - 1 : commands'[i][2] # u
               PROVE  commands'[j][1] = "add" <=> commands'[k][1] # "add"
    BY <1>1 DEF Alternate, Adjacent
  <2>1. \A i \in (j + 1) + 1..(k + 1) - 1 : commands[i][2] # u
    <3> SUFFICES ASSUME NEW i \in (j + 1) + 1..(k + 1) - 1 PROVE commands[i][2] # u
      OBVIOUS
    <3>1. i - 1 \in j + 1..k - 1 /\ i - 1 \in 1..n - 1 /\ (i - 1) + 1 = i
      BY <1>1
    <3> QED BY <1>1, <3>1
  <2>2. j + 1 \in 1..n /\ k + 1 \in 1..n /\ Adjacent(u, j + 1, k + 1)
    BY <1>1, <2>1 DEF Adjacent
  <2> QED BY <1>1, <2>2 DEF Ordered, Alternate
<1>5. Ends(u, w)'
  <2>1. ASSUME NEW k \in 1..n - 1, commands'[k][2] = u, \A j \in k + 1..n - 1 : commands'[j][2] # u
        PROVE  commands'[k][1] = "add" <=> w
    <3>1. \A i \in (k + 1) + 1..n : commands[i][2] # u
      <4> SUFFICES ASSUME NEW i \in (k + 1) + 1..n PROVE commands[i][2] # u
        OBVIOUS
      <4>1. i - 1 \in k + 1..n - 1 /\ i - 1 \in 1..n - 1 /\ (i - 1) + 1 = i
        BY <1>1
      <4> QED BY <1>1, <2>1, <4>1
    <3>2. k + 1 \in 1..n /\ LastFor(u, k + 1)
      BY <1>1, <2>1, <3>1 DEF LastFor
    <3> QED BY <1>1, <3>2 DEF Ordered, Ends
  <2>2. ASSUME \A k \in 1..n - 1 : commands'[k][2] # u
        PROVE  u \in watched' <=> w
    <3>1. \A i \in 2..n : commands[i][2] # u
      <4> SUFFICES ASSUME NEW i \in 2..n PROVE commands[i][2] # u
        OBVIOUS
      <4>1. i - 1 \in 1..n - 1 /\ (i - 1) + 1 = i
        BY <1>1
      <4> QED BY <1>1, <2>2, <4>1
    <3>2. CASE u = v
      <4>1. LastFor(u, 1) /\ 1 \in 1..n
        BY <1>1, <1>2, <3>1, <3>2 DEF LastFor
      <4>2. kind = "add" <=> w
        BY <1>2, <4>1 DEF Ordered, Ends
      <4> QED BY <3>2, <4>2
    <3>3. CASE u # v
      <4>1. \A k \in 1..n : commands[k][2] # u
        BY <1>1, <1>2, <3>1, <3>3
      <4> QED BY <3>3, <4>1 DEF Ordered, Ends
    <3> QED BY <3>2, <3>3
  <2> QED BY <1>1, <2>1, <2>2 DEF Ends, LastFor
<1> QED BY <1>3, <1>4, <1>5 DEF Ordered

\* Both lemmas, as the steps of the two threads use them.
LEMMA QueueingKeepsQueue ==
  ASSUME Inv, UNCHANGED <<watched, failed>>, NEW v \in Volumes, NEW kind \in {"add", "remove"},
         commands' = Append(commands, <<kind, v>>),
         Wanted(v) <=> kind # "add", Wanted(v)' <=> kind = "add",
         \A u \in Volumes : u # v => (Wanted(u)' <=> Wanted(u))
  PROVE  Queue'
<1> SUFFICES ASSUME failed = {}, NEW u \in Volumes PROVE Ordered(u, Wanted(u))'
  BY DEF Queue
<1>1. Ordered(u, Wanted(u)) /\ Wanted(u) \in BOOLEAN /\ commands \in Seq({"add", "remove"} \X Volumes)
  BY DEF Inv, Queue, TypeOK, Wanted
<1>2. PICK w \in BOOLEAN : w <=> Wanted(u)
  BY <1>1
<1>3. Ordered(u, w)
  BY <1>1, <1>2 DEF Ordered, Ends
<1>4. Ordered(u, IF u = v THEN kind = "add" ELSE w)'
  BY <1>1, <1>2, <1>3, AppendOrdered
<1>5. CASE u = v
  <2>1. Ordered(u, kind = "add")'
    BY <1>4, <1>5
  <2> QED BY <1>5, <2>1 DEF Ordered, Ends
<1>6. CASE u # v
  <2>1. Ordered(u, w)'
    BY <1>4, <1>6
  <2>2. w <=> Wanted(u)'
    BY <1>2, <1>6
  <2> QED BY <2>1, <2>2 DEF Ordered, Ends
<1> QED BY <1>5, <1>6

LEMMA DoingKeepsQueue ==
  ASSUME Inv, failed = {}, NEW v \in Volumes, NEW kind \in {"add", "remove"},
         commands # <<>>, Head(commands) = <<kind, v>>, commands' = Tail(commands),
         \A u \in Volumes : u # v => (u \in watched' <=> u \in watched),
         v \in watched' <=> kind = "add",
         UNCHANGED <<traced, gui, todo>>
  PROVE  Queue'
<1> SUFFICES ASSUME NEW u \in Volumes PROVE Ordered(u, Wanted(u))'
  BY DEF Queue
<1>1. Ordered(u, Wanted(u)) /\ Wanted(u) \in BOOLEAN /\ commands \in Seq({"add", "remove"} \X Volumes)
  BY DEF Inv, Queue, TypeOK, Wanted
<1>2. PICK w \in BOOLEAN : w <=> Wanted(u)
  BY <1>1
<1>3. Ordered(u, w)
  BY <1>1, <1>2 DEF Ordered, Ends
<1>4. Ordered(u, w)'
  BY <1>1, <1>3, TailOrdered
<1>5. w <=> Wanted(u)'
  BY <1>2 DEF Wanted
<1> QED BY <1>4, <1>5 DEF Ordered, Ends

\* The oldest command fits the watches there are.
LEMMA HeadFits ==
  ASSUME Inv, failed = {}, NEW v \in Volumes, NEW kind \in {"add", "remove"},
         commands # <<>>, Head(commands) = <<kind, v>>
  PROVE  kind = "add" <=> v \notin watched
<1>1. commands \in Seq({"add", "remove"} \X Volumes) /\ First(v)
  BY DEF Inv, TypeOK, Queue, Ordered
<1>2. 1 \in 1..Len(commands) /\ commands[1] = <<kind, v>>
  BY <1>1
<1> QED BY <1>1, <1>2 DEF First
-----------------------------------------------------------------------------
\* A step that touches neither the queue nor what is wanted.
LEMMA QueueUntouched ==
  ASSUME Queue, UNCHANGED <<commands, watched, failed>>,
         \A u \in Volumes : Wanted(u)' <=> Wanted(u)
  PROVE  Queue'
BY DEF Queue, Ordered, First, Alternate, Adjacent, Ends, LastFor

LEMMA StoreFacts ==
  ASSUME TypeOK, NEW table \in [Volumes -> Status], Store(table)
  PROVE  /\ disk' \in [Volumes -> Status] /\ rows' = table
         /\ \A v \in Volumes : disk'[v] = disk[v] \/ disk'[v] = table[v]
BY DEF Store, TypeOK

\* The type invariant, the order of the queue and the wish behind all of it.
THEOREM InvariantHolds == Spec => []Inv
<1>1. Init => Inv
  BY ListAssumption DEF Init, Inv, TypeOK, Gui, TracedContinues, Asked, Queue, NoneRefused,
     Ordered, First, Alternate, Adjacent, Ends, LastFor, Wanted, Status
<1>2. Inv /\ [Next]_vars => Inv'
  <2> SUFFICES ASSUME Inv, [Next]_vars PROVE Inv'
    OBVIOUS
  <2>1. ASSUME NEW sys \in SUBSET Volumes, Load(sys) PROVE Inv'
    <3>1. TypeOK'
      BY <2>1, ListAssumption DEF Load, Inv, TypeOK, Gui, tableVars, engineVars
    <3>2. Gui' /\ TracedContinues' /\ Asked' /\ NoneRefused'
      BY <2>1 DEF Load, Inv, TypeOK, Gui, TracedContinues, Asked, NoneRefused, tableVars, engineVars
    <3>3. Queue'
      BY <2>1 DEF Load, Inv, Gui, Queue, Ordered, First, Alternate, Adjacent, Ends, LastFor, Wanted, engineVars
    <3> QED BY <3>1, <3>2, <3>3 DEF Inv
  <2>2. ASSUME NEW v \in Volumes, QueueKnown(v) PROVE Inv'
    <3>1. TypeOK'
      BY <2>2 DEF QueueKnown, Inv, TypeOK, tableVars, listVars
    <3>2. Gui' /\ TracedContinues' /\ NoneRefused'
      BY <2>2 DEF QueueKnown, Inv, TypeOK, Gui, TracedContinues, NoneRefused, tableVars, listVars
    <3>3. Asked'
      BY <2>2 DEF QueueKnown, Inv, TypeOK, Gui, Asked, tableVars, listVars
    <3>4. Queue'
      <4>1. UNCHANGED <<watched, failed>> /\ commands' = Append(commands, <<"add", v>>)
        BY <2>2 DEF QueueKnown
      <4>2. /\ ~Wanted(v) /\ Wanted(v)'
            /\ \A u \in Volumes : u # v => (Wanted(u)' <=> Wanted(u))
        BY <2>2 DEF QueueKnown, Wanted, Inv, Gui, listVars
      <4> QED BY <4>1, <4>2, QueueingKeepsQueue
    <3> QED BY <3>1, <3>2, <3>3, <3>4 DEF Inv
  <2>3. ASSUME NEW v \in Volumes, Toggle(v) PROVE Inv'
    <3>1. TypeOK' /\ Gui' /\ TracedContinues' /\ NoneRefused' /\ Asked'
      BY <2>3, ListAssumption DEF Toggle, Inv, TypeOK, Gui, TracedContinues, NoneRefused, Asked, tableVars, engineVars
    <3>2. Queue'
      BY <2>3, QueueUntouched DEF Toggle, Inv, Wanted, engineVars
    <3> QED BY <3>1, <3>2 DEF Inv
  <2>4. ASSUME NEW v \in Volumes, ApplyAdd(v) PROVE Inv'
    <3>0. /\ v \notin traced /\ v \in still /\ v \in todo /\ gui = "applying" /\ gui' = gui
          /\ todo' = todo \ {v} /\ traced' = traced \cup {v} /\ still' = still
          /\ commands' = Append(commands, <<"add", v>>) /\ asked' = asked \cup {v}
          /\ UNCHANGED <<online, known, watched, failed, toggles, sessions>>
      BY <2>4 DEF ApplyAdd, Inv, Gui, Changed
    <3>1. /\ disk' \in [Volumes -> Status] /\ rows' = [rows EXCEPT ![v] = IF v \in known THEN "tracing" ELSE @]
          /\ \A u \in Volumes : disk'[u] = disk[u] \/ disk'[u] = rows'[u]
      <4>1. [rows EXCEPT ![v] = IF v \in known THEN "tracing" ELSE @] \in [Volumes -> Status]
        BY DEF Inv, TypeOK, Status
      <4> QED BY <2>4, <4>1, StoreFacts DEF ApplyAdd, Update, Inv
    <3>2. TypeOK'
      BY <3>0, <3>1 DEF Inv, TypeOK, Status
    <3>3. Gui' /\ TracedContinues' /\ NoneRefused'
      BY <3>0, <3>1 DEF Inv, TypeOK, Gui, Changed, TracedContinues, NoneRefused
    <3>4. Asked'
      <4>1. \A k \in 1..Len(commands') : commands'[k][1] = "add" => commands'[k][2] \in asked'
        BY <3>0 DEF Inv, TypeOK, Asked
      <4> QED BY <3>0, <3>1, <4>1 DEF Inv, TypeOK, Asked
    <3>5. Queue'
      BY <3>0, QueueingKeepsQueue DEF Wanted
    <3> QED BY <3>2, <3>3, <3>4, <3>5 DEF Inv
  <2>5. ASSUME NEW v \in Volumes, ApplyRemove(v) PROVE Inv'
    <3>0. /\ v \in traced /\ v \notin still /\ v \in todo /\ gui = "applying" /\ gui' = gui
          /\ todo' = todo \ {v} /\ traced' = traced \ {v}
          /\ commands' = Append(commands, <<"remove", v>>)
          /\ UNCHANGED <<disk, rows, still, online, known, watched, failed, toggles, sessions, asked>>
      BY <2>5 DEF ApplyRemove, Inv, Gui, Changed, tableVars
    <3>2. TypeOK'
      BY <3>0 DEF Inv, TypeOK
    <3>3. Gui' /\ TracedContinues' /\ NoneRefused'
      BY <3>0 DEF Inv, TypeOK, Gui, Changed, TracedContinues, NoneRefused
    <3>4. Asked'
      <4>1. \A k \in 1..Len(commands') : commands'[k][1] = "add" => commands'[k][2] \in asked'
        BY <3>0 DEF Inv, TypeOK, Asked
      <4> QED BY <3>0, <4>1 DEF Inv, TypeOK, Asked
    <3>5. Queue'
      BY <3>0, QueueingKeepsQueue DEF Wanted
    <3> QED BY <3>2, <3>3, <3>4, <3>5 DEF Inv
  <2>6. ASSUME NEW v \in Volumes, DoAdd(v) PROVE Inv'
    <3>0. /\ failed = {} /\ commands # <<>> /\ Head(commands) = <<"add", v>> /\ commands' = Tail(commands)
          /\ v \notin watched
          /\ UNCHANGED <<listVars, gui, todo, toggles, sessions, asked>>
      BY <2>6, HeadFits DEF DoAdd
    <3>1. /\ Witness(v)
          /\ \/ v \in online /\ watched' = watched \cup {v} /\ failed' = failed
             \/ watched' = watched /\ failed' = {<<"add", v>>}
      BY <2>6, <3>0 DEF DoAdd
    <3>2. /\ disk' \in [Volumes -> Status] /\ rows' = [rows EXCEPT ![v] = IF @ = "none" THEN "off" ELSE @]
          /\ \A u \in Volumes : disk'[u] = disk[u] \/ disk'[u] = rows'[u]
      <4>1. [rows EXCEPT ![v] = IF @ = "none" THEN "off" ELSE @] \in [Volumes -> Status]
        BY DEF Inv, TypeOK, Status
      <4> QED BY <3>1, <4>1, StoreFacts DEF Witness, Inv
    <3>3. TypeOK'
      BY <3>0, <3>1, <3>2 DEF Inv, TypeOK, Status, listVars
    <3>4. v \in asked /\ \A k \in 1..Len(commands') : commands'[k][1] = "add" => commands'[k][2] \in asked'
      <4>1. /\ commands \in Seq({"add", "remove"} \X Volumes) /\ asked' = asked
            /\ \A k \in 1..Len(commands) : commands[k][1] = "add" => commands[k][2] \in asked
        BY <3>0 DEF Inv, TypeOK, Asked
      <4>2. 1 \in 1..Len(commands) /\ commands[1] = <<"add", v>>
        BY <3>0, <4>1
      <4>3. ASSUME NEW k \in 1..Len(commands') PROVE k + 1 \in 1..Len(commands) /\ commands'[k] = commands[k + 1]
        BY <3>0, <4>1
      <4>4. commands[1][1] = "add" /\ commands[1][2] = v
        BY <4>2
      <4>5. v \in asked
        BY <4>1, <4>2, <4>4
      <4>6. \A k \in 1..Len(commands') : commands'[k][1] = "add" => commands'[k][2] \in asked
        BY <4>1, <4>3
      <4> QED BY <4>1, <4>5, <4>6
    <3>5. Gui' /\ TracedContinues' /\ NoneRefused'
      BY <3>0, <3>1, <3>2 DEF Inv, TypeOK, Gui, Changed, TracedContinues, NoneRefused, listVars
    <3>6. Asked'
      BY <3>0, <3>1, <3>2, <3>4 DEF Inv, TypeOK, Asked, listVars
    <3>7. Queue'
      <4>1. CASE failed' = {}
        BY <3>0, <3>1, <4>1, DoingKeepsQueue DEF listVars
      <4>2. CASE failed' # {}
        BY <4>2 DEF Queue
      <4> QED BY <4>1, <4>2
    <3> QED BY <3>3, <3>5, <3>6, <3>7 DEF Inv
  <2>7. ASSUME NEW v \in Volumes, DoRemove(v) PROVE Inv'
    <3>0. /\ failed = {} /\ commands # <<>> /\ Head(commands) = <<"remove", v>> /\ commands' = Tail(commands)
          /\ v \in watched /\ watched' = watched \ {v} /\ failed' = failed
          /\ UNCHANGED <<tableVars, listVars, gui, todo, toggles, sessions, asked>>
      BY <2>7, HeadFits DEF DoRemove
    <3>1. TypeOK'
      BY <3>0 DEF Inv, TypeOK, tableVars, listVars
    <3>2. Gui' /\ TracedContinues' /\ NoneRefused'
      BY <3>0 DEF Inv, TypeOK, Gui, Changed, TracedContinues, NoneRefused, tableVars, listVars
    <3>3. Asked'
      <4>1. /\ commands \in Seq({"add", "remove"} \X Volumes)
            /\ \A k \in 1..Len(commands) : commands[k][1] = "add" => commands[k][2] \in asked
        BY DEF Inv, TypeOK, Asked
      <4>2. ASSUME NEW k \in 1..Len(commands') PROVE k + 1 \in 1..Len(commands) /\ commands'[k] = commands[k + 1]
        BY <3>0, <4>1
      <4>3. \A k \in 1..Len(commands') : commands'[k][1] = "add" => commands'[k][2] \in asked
        BY <4>1, <4>2
      <4> QED BY <3>0, <4>3 DEF Inv, Asked, tableVars, listVars
    <3>4. Queue'
      BY <3>0, DoingKeepsQueue DEF listVars
    <3> QED BY <3>1, <3>2, <3>3, <3>4 DEF Inv
  <2>8. CASE Reset
    <3>1. TypeOK' /\ Gui' /\ TracedContinues' /\ NoneRefused' /\ Asked'
      BY <2>8 DEF Reset, Inv, TypeOK, Gui, TracedContinues, NoneRefused, Asked, tableVars, engineVars
    <3>2. Queue'
      BY <2>8, QueueUntouched DEF Reset, Inv, Wanted, engineVars
    <3> QED BY <3>1, <3>2 DEF Inv
  <2>9. CASE Apply \/ EndLoop \/ Close
    <3>1. TypeOK' /\ Gui' /\ TracedContinues' /\ NoneRefused' /\ Asked'
      BY <2>9 DEF Apply, EndLoop, Close, Changed, Inv, TypeOK, Gui, TracedContinues, NoneRefused, Asked,
                  tableVars, listVars, engineVars
    <3>2. Queue'
      BY <2>9, QueueUntouched DEF Apply, EndLoop, Close, Changed, Inv, Gui, Wanted, listVars, engineVars
    <3> QED BY <3>1, <3>2 DEF Inv
  <2>10. CASE Down
    <3>1. TypeOK'
      BY <2>10, ListAssumption DEF Down, Inv, TypeOK
    <3>2. Gui' /\ TracedContinues' /\ NoneRefused' /\ Asked'
      BY <2>10 DEF Down, Inv, TypeOK, Gui, TracedContinues, NoneRefused, Asked
    <3>3. Queue'
      BY <2>10 DEF Down, Queue, Ordered, First, Alternate, Adjacent, Ends, LastFor, Wanted
    <3> QED BY <3>1, <3>2, <3>3 DEF Inv
  <2>11. CASE Commit
    <3>1. TypeOK' /\ TracedContinues' /\ NoneRefused' /\ Asked'
      BY <2>11 DEF Commit, Inv, TypeOK, TracedContinues, NoneRefused, Asked, listVars, engineVars
    <3>2. Gui'
      BY <2>11 DEF Commit, Inv, Gui, Changed, listVars, engineVars
    <3>3. Queue'
      BY <2>11, QueueUntouched DEF Commit, Inv, Wanted, listVars, engineVars
    <3> QED BY <3>1, <3>2, <3>3 DEF Inv
  <2>12. CASE UNCHANGED vars
    <3>1. Queue'
      BY <2>12, QueueUntouched DEF vars, Inv, Wanted, listVars, engineVars
    <3> QED BY <2>12, <3>1 DEF vars, Inv, TypeOK, Gui, Changed, TracedContinues, NoneRefused, Asked,
               tableVars, listVars, engineVars
  <2> QED BY <2>1, <2>2, <2>3, <2>4, <2>5, <2>6, <2>7, <2>8, <2>9, <2>10, <2>11, <2>12 DEF Next, Exit, Crash
<1> QED BY <1>1, <1>2, PTL DEF Spec

\* The type invariant.
THEOREM TypeCorrect == Spec => []TypeOK
BY InvariantHolds, PTL DEF Inv

\* The engine's list of watches refuses no command, whatever volumes check() passes.
THEOREM CommandsFit == Spec => []NoneRefused
BY InvariantHolds, PTL DEF Inv

\* The engine comes to watch what the list shows as traced.
THEOREM EngineComesToFollow == Spec => []EngineFollows
<1>1. Inv => EngineFollows
  BY DEF Inv, Queue, Ordered, Ends, EngineFollows
<1> QED BY <1>1, InvariantHolds, PTL

\* A known volume that is traced is so in its row.
THEOREM TracingIsStored == Spec => []TracedContinues
BY InvariantHolds, PTL DEF Inv

\* Nothing is watched in any session unless the user once applied tracing to it.
THEOREM NothingUnasked == Spec => []OnlyAsked
<1>1. Inv => OnlyAsked
  BY DEF Inv, Asked, OnlyAsked
<1> QED BY <1>1, InvariantHolds, PTL
=============================================================================
