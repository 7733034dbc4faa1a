-------------------------- MODULE LifecycleProofs --------------------------
(***************************************************************************)
(* With careful users, and a listener that gets its events one by one,     *)
(* the devices are those that are there, and those enabled are remapped.   *)
(***************************************************************************)
EXTENDS Lifecycle, SequenceLemmas, FiniteSetTheorems

(* inotify has a word on e that the listener has not read.                  *)
Told(mask, e) == \E i \in DOMAIN events : events[i].mask = mask /\ events[i].node = e

(* The last word on e.                                                      *)
Latest(mask, e) ==
  \E i \in DOMAIN events :
    /\ events[i].mask = mask /\ events[i].node = e
    /\ \A j \in DOMAIN events : j > i => events[j].node # e

Silent(e) == \A i \in DOMAIN events : events[i].node # e

Fresh(e) == e \in Range(newDevices)
Stale(e) == e \in Range(removedDevices)
Leaving(e) == Told("delete", e) \/ Stale(e)

Listed(e) == e \in NodesOf(NameOf[e])

(* The devices the main thread has left running, or started again.          *)
Held(n) ==
  \/ main \in {"pause", "wake", "return"}
  \/ main \in {"start", "resume"} /\ n \notin todo.main
  \/ main \in {"quit", "suspend"} /\ n \in todo.main

-----------------------------------------------------------------------------
(* While the main thread is busy nothing is plugged, unplugged or noticed.  *)
BusyIsQuiet ==
  main # "pause" =>
    /\ events = <<>> /\ newDevices = <<>> /\ removedDevices = <<>>
    /\ listener = "wait"
    /\ \A n \in Names : \A i \in DOMAIN paths[n] : paths[n][i].fd # "dead"

TodoIsKnown ==
  /\ todo.main \cup todo.listener \subseteq known
  /\ todo.main # {} => main \in {"start", "quit", "suspend", "resume"}
  /\ main = "start" => todo.main \cap inited = {}
  /\ todo.listener # {} => listener = "start"
  /\ todo.listener \cap inited = {}

(* The listener sorts what it has read, and then nothing more is plugged.   *)
SortingIsCalm ==
  /\ listener = "start" => newDevices = <<>> /\ removedDevices = <<>>
  /\ listener # "wait" => \A e \in Nodes : ~Told("create", e)

PathsAreNamed ==
  \A n \in Names : \A i \in DOMAIN paths[n] :
    /\ NameOf[paths[n][i].node] = n
    /\ \A j \in DOMAIN paths[n] : paths[n][i].node = paths[n][j].node => i = j

StrangersAreIdle ==
  \A n \in Names \ known :
    paths[n] = <<>> /\ thread[n] = "none" /\ n \notin active \cup enabled \cup inited

(* A thread that runs has its nodes open, and others are closed.            *)
RunningAreOpen ==
  \A n \in Names :
    /\ thread[n] = "running" => paths[n] # <<>>
    /\ thread[n] # "none" => n \in active \cap inited
    /\ \A i \in DOMAIN paths[n] :
         paths[n][i].fd = "closed" <=> thread[n] # "running"

(* A thread has ended, and a device has no nodes, just if all were lost.    *)
EndedHaveLost ==
  \A n \in known :
    /\ paths[n] = <<>> <=> thread[n] = "ended"
    /\ thread[n] = "ended" => \E e \in Nodes : NameOf[e] = n /\ Leaving(e)

(* What an active device has lost the listener hears of, and the other way  *)
(* round.                                                                   *)
DeadAreLeaving ==
  \A n \in Names, e \in Nodes : \A i \in DOMAIN paths[n] :
    paths[n][i].node = e =>
      /\ paths[n][i].fd = "dead" =>
           e \notin plugged /\ (Told("delete", e) \/ (listener = "wait" /\ Stale(e)))
      /\ n \in active /\ Leaving(e) => paths[n][i].fd = "dead"

(* The queues come down to what is plugged.                                 *)
QueuesAreTrue ==
  \A e \in Nodes :
    /\ e \in plugged =>
         \/ Latest("create", e)
         \/ Silent(e) /\ (Fresh(e) \/ (Listed(e) /\ ~Stale(e)))
    /\ e \notin plugged =>
         \/ Latest("delete", e)
         \/ Silent(e) /\ ~Fresh(e) /\ (Listed(e) => Stale(e))

(* No node is announced twice without being lost in between.                *)
NewsAreNew ==
  \A e \in Nodes : \A i \in DOMAIN events :
    events[i].mask = "create" /\ events[i].node = e =>
      /\ \A j \in 1..(i - 1) :
           events[j].mask = "create" /\ events[j].node = e =>
             \E k \in (j + 1)..(i - 1) : events[k].mask = "delete" /\ events[k].node = e
      /\ Fresh(e) \/ (Listed(e) /\ ~Stale(e)) =>
           \E k \in 1..(i - 1) : events[k].mask = "delete" /\ events[k].node = e

FreshAreNew ==
  /\ \A i, j \in DOMAIN newDevices : newDevices[i] = newDevices[j] => i = j
  /\ \A e \in Nodes : Fresh(e) /\ Listed(e) => Stale(e)

(* Nothing is plugged into a device that is being remapped.                 *)
FreshAreIdle ==
  \A e \in Nodes :
    /\ Fresh(e) \/ Told("create", e) => thread[NameOf[e]] # "running"
    /\ Fresh(e) /\ listener = "remove" /\ thread[NameOf[e]] = "ended" =>
         removedDevices # <<>>

EnabledAreHeld ==
  \A n \in Names :
    thread[n] # "none" <=> n \in enabled /\ n \in inited /\ Held(n)

(* Devices that are not initialised are about to be, or lose a node.        *)
KnownAreInited ==
  \A n \in known \ inited :
    \/ main = "start" /\ n \in todo.main
    \/ listener = "remove"
    \/ n \in todo.listener
    \/ \E e \in Nodes : NameOf[e] = n /\ Leaving(e)

CareInv ==
  /\ LifeTypeOK
  /\ ~ub
  /\ BusyIsQuiet
  /\ TodoIsKnown
  /\ SortingIsCalm
  /\ PathsAreNamed
  /\ StrangersAreIdle
  /\ RunningAreOpen
  /\ EndedHaveLost
  /\ DeadAreLeaving
  /\ QueuesAreTrue
  /\ NewsAreNew
  /\ FreshAreNew
  /\ FreshAreIdle
  /\ EnabledAreHeld
  /\ KnownAreInited

-----------------------------------------------------------------------------
(* Facts about the vectors.                                                 *)

LEMMA NamesAreTyped == \A e \in Nodes : NameOf[e] \in Names
BY LifecycleIsTyped

LEMMA PathsMapped ==
  ASSUME NEW q \in Seq(Path), NEW f \in [DOMAIN q -> Path]
  PROVE  f \in Seq(Path) /\ DOMAIN f = DOMAIN q
<1>1. Len(q) \in Nat /\ DOMAIN q = 1..Len(q)
  BY Positions
<1>2. QED
  BY <1>1, FunctionIsSeq

LEMMA PathsTyped ==
  ASSUME NEW q \in Seq(Path)
  PROVE  /\ Len(q) \in Nat
         /\ DOMAIN q = 1..Len(q)
         /\ q = <<>> <=> DOMAIN q = {}
         /\ \A i \in DOMAIN q :
              /\ q[i] \in Path /\ q[i].node \in Nodes
              /\ q[i].fd \in {"closed", "live", "dead"}
<1>1. Len(q) \in Nat /\ DOMAIN q = 1..Len(q) /\ \A i \in DOMAIN q : q[i] \in Path
  BY Positions
<1>2. q = <<>> <=> DOMAIN q = {}
  <2>1. q # <<>> => Len(q) \in Nat \ {0}
    BY EmptySeq
  <2>2. q = <<>> => DOMAIN q = {}
    OBVIOUS
  <2>3. Len(q) \in Nat \ {0} => 1 \in DOMAIN q
    BY <1>1
  <2>4. QED
    BY <2>1, <2>2, <2>3
<1>3. QED
  BY <1>1, <1>2 DEF Path

LEMMA EventsTyped ==
  ASSUME LifeTypeOK
  PROVE  /\ Len(events) \in Nat
         /\ DOMAIN events = 1..Len(events)
         /\ \A i \in DOMAIN events :
              events[i].mask \in {"create", "delete"} /\ events[i].node \in Nodes
<1>1. /\ Len(events) \in Nat
      /\ DOMAIN events = 1..Len(events)
      /\ \A i \in DOMAIN events : events[i] \in Notice
  BY Positions DEF LifeTypeOK
<1>2. \A w \in Notice : w.mask \in {"create", "delete"} /\ w.node \in Nodes
  BY DEF Notice
<1>3. QED
  BY <1>1, <1>2

LEMMA QueueRead ==
  ASSUME NEW T, NEW q \in Seq(T), NEW n \in 1..Len(q)
  PROVE  /\ SubSeq(q, n + 1, Len(q)) \in Seq(T)
         /\ Len(SubSeq(q, n + 1, Len(q))) = Len(q) - n
         /\ \A i \in 1..(Len(q) - n) : SubSeq(q, n + 1, Len(q))[i] = q[i + n]
OBVIOUS

(* activate opens the nodes, deactivate closes them.                        *)
Opened(q) == [i \in DOMAIN q |-> [q[i] EXCEPT !.fd = "live"]]

LEMMA OpenedAndClosed ==
  ASSUME NEW q \in Seq(Path)
  PROVE  /\ Opened(q) \in Seq(Path) /\ DOMAIN Opened(q) = DOMAIN q
         /\ Closes(q) \in Seq(Path) /\ DOMAIN Closes(q) = DOMAIN q
         /\ \A i \in DOMAIN q :
              /\ Opened(q)[i].node = q[i].node /\ Opened(q)[i].fd = "live"
              /\ Closes(q)[i].node = q[i].node /\ Closes(q)[i].fd = "closed"
<1>0. \A p \in Path :
        /\ [p EXCEPT !.fd = "live"] = [node |-> p.node, fd |-> "live"]
        /\ [p EXCEPT !.fd = "closed"] = [node |-> p.node, fd |-> "closed"]
        /\ [node |-> p.node, fd |-> "live"] \in Path
        /\ [node |-> p.node, fd |-> "closed"] \in Path
  BY DEF Path
<1>1. \A i \in DOMAIN q :
        /\ q[i] \in Path
        /\ [q[i] EXCEPT !.fd = "live"] = [node |-> q[i].node, fd |-> "live"]
        /\ [q[i] EXCEPT !.fd = "closed"] = [node |-> q[i].node, fd |-> "closed"]
        /\ [node |-> q[i].node, fd |-> "live"] \in Path
        /\ [node |-> q[i].node, fd |-> "closed"] \in Path
  BY <1>0, Positions
<1>2. Opened(q) \in [DOMAIN q -> Path] /\ Closes(q) \in [DOMAIN q -> Path]
  BY <1>1 DEF Opened, Closes, Closed
<1>3. QED
  BY <1>1, <1>2, PathsMapped DEF Opened, Closes, Closed

(* A node is pulled out.                                                    *)
LEMMA LostPaths ==
  ASSUME NEW q \in Seq(Path), NEW e
  PROVE  /\ [i \in DOMAIN q |-> Lost(q[i], e)] \in Seq(Path)
         /\ \A i \in DOMAIN q :
              Lost(q[i], e) \in Path /\ Lost(q[i], e).node = q[i].node
<1>0. \A p \in Path : Lost(p, e) \in Path /\ Lost(p, e).node = p.node
  BY DEF Path, Lost
<1>1. \A i \in DOMAIN q :
        q[i] \in Path /\ Lost(q[i], e) \in Path /\ Lost(q[i], e).node = q[i].node
  BY <1>0, Positions
<1>2. [i \in DOMAIN q |-> Lost(q[i], e)] \in [DOMAIN q -> Path]
  BY <1>1
<1>3. QED
  BY <1>1, <1>2, PathsMapped

(* A new entry.                                                             *)
LEMMA AppendEntries ==
  ASSUME NEW T, NEW q \in Seq(T), NEW x \in T
  PROVE  /\ Append(q, x) \in Seq(T)
         /\ DOMAIN Append(q, x) = 1..(Len(q) + 1)
         /\ Append(q, x)[Len(q) + 1] = x
         /\ \A i \in DOMAIN q : Append(q, x)[i] = q[i]
<1>1. Len(q) \in Nat /\ DOMAIN q = 1..Len(q)
  BY Positions
<1>2. QED
  BY <1>1

LEMMA AppendRange ==
  ASSUME NEW T, NEW q \in Seq(T), NEW x \in T, NEW r, r = Append(q, x)
  PROVE  Range(r) = Range(q) \cup {x}
<1> DEFINE n == Len(q) + 1
<1>1. /\ n \in DOMAIN r /\ r[n] = x
      /\ \A i \in DOMAIN q : i \in DOMAIN r /\ r[i] = q[i]
      /\ \A i \in DOMAIN r : i \in DOMAIN q \/ i = n
  <2>1. Len(q) \in Nat /\ DOMAIN q = 1..Len(q)
    BY Positions
  <2>2. /\ DOMAIN r = 1..(Len(q) + 1) /\ r[Len(q) + 1] = x
        /\ \A i \in DOMAIN q : r[i] = q[i]
    BY AppendEntries
  <2>3. QED
    BY <2>1, <2>2
<1> HIDE DEF n
<1>2. QED
  BY <1>1 DEF Range

(* What is left of the nodes of a device, and of the queue of new ones.     *)
LEMMA WithoutPathProperties ==
  ASSUME LifeTypeOK, NEW n \in Names, NEW e
  PROVE  /\ WithoutPath(n, e) \in Seq(Path)
         /\ n \in active => WithoutPath(n, e) = paths[n]
         /\ \A i \in DOMAIN WithoutPath(n, e) :
              \E k \in DOMAIN paths[n] :
                /\ WithoutPath(n, e)[i] = paths[n][k]
                /\ n \notin active => paths[n][k].node # e
         /\ \A k \in DOMAIN paths[n] :
              paths[n][k].node # e =>
                \E i \in DOMAIN WithoutPath(n, e) : WithoutPath(n, e)[i] = paths[n][k]
         /\ \A i, j \in DOMAIN WithoutPath(n, e) :
              i # j => \E k, l \in DOMAIN paths[n] :
                         /\ k # l
                         /\ WithoutPath(n, e)[i] = paths[n][k]
                         /\ WithoutPath(n, e)[j] = paths[n][l]
<1> DEFINE q == paths[n]
           S == {p \in Range(q) : p.node # e}
           w == WithoutPath(n, e)
<1>1. q \in Seq(Path)
  BY DEF LifeTypeOK
<1>2. CASE n \in active
  BY <1>1, <1>2 DEF WithoutPath
<1>3. CASE n \notin active
  <2>1. w = Only(q, S)
    BY <1>3 DEF WithoutPath
  <2> HIDE DEF w, S, q
  <2>2. /\ w \in Seq(Path)
        /\ \A i \in DOMAIN w : \E k \in DOMAIN q : q[k] \in S /\ w[i] = q[k]
        /\ \A k \in DOMAIN q : q[k] \in S => \E i \in DOMAIN w : w[i] = q[k]
        /\ \A i, j \in DOMAIN w :
             i < j => \E k, l \in DOMAIN q : k < l /\ w[i] = q[k] /\ w[j] = q[l]
    BY <1>1, <2>1, OnlyProperties
  <2>3. \A k \in DOMAIN q : q[k] \in S <=> q[k].node # e
    BY DEF S, Range
  <2>4. DOMAIN w \subseteq Int /\ DOMAIN q \subseteq Int
    BY <1>1, <2>2, Positions
  <2>5. ASSUME NEW i \in DOMAIN w, NEW j \in DOMAIN w, i # j
        PROVE  \E k, l \in DOMAIN q : k # l /\ w[i] = q[k] /\ w[j] = q[l]
    <3>1. CASE i < j
      BY <3>1, <2>2, <2>4
    <3>2. CASE j < i
      BY <3>2, <2>2, <2>4
    <3>3. QED
      BY <3>1, <3>2, <2>4, <2>5
  <2>6. QED
    BY <1>3, <2>2, <2>3, <2>5 DEF w, q
<1>4. QED
  BY <1>2, <1>3

LEMMA ErasedProperties ==
  ASSUME NEW q \in Seq(Nodes), NEW e
  PROVE  /\ Erased(q, e) \in Seq(Nodes)
         /\ Range(Erased(q, e)) = Range(q) \ {e}
         /\ (\A i, j \in DOMAIN q : q[i] = q[j] => i = j) =>
              \A i, j \in DOMAIN Erased(q, e) : Erased(q, e)[i] = Erased(q, e)[j] => i = j
<1> DEFINE S == Nodes \ {e}
           w == Erased(q, e)
<1>1. w = Only(q, S)
  BY DEF Erased
<1> HIDE DEF w, S
<1>2. /\ w \in Seq(Nodes)
      /\ \A i \in DOMAIN w : \E k \in DOMAIN q : q[k] \in S /\ w[i] = q[k]
      /\ \A k \in DOMAIN q : q[k] \in S => \E i \in DOMAIN w : w[i] = q[k]
      /\ \A i, j \in DOMAIN w :
           i < j => \E k, l \in DOMAIN q : k < l /\ w[i] = q[k] /\ w[j] = q[l]
  BY <1>1, OnlyProperties
<1>3. \A k \in DOMAIN q : q[k] \in S <=> q[k] # e
  BY Positions DEF S
<1>4. Range(w) = Range(q) \ {e}
  BY <1>2, <1>3 DEF Range
<1>5. DOMAIN w \subseteq Int /\ DOMAIN q \subseteq Int
  BY <1>2, Positions
<1>6. ASSUME \A i, j \in DOMAIN q : q[i] = q[j] => i = j,
             NEW i \in DOMAIN w, NEW j \in DOMAIN w, w[i] = w[j]
      PROVE  i = j
  <2>1. ~(i < j)
    BY <1>2, <1>5, <1>6
  <2>2. ~(j < i)
    BY <1>2, <1>5, <1>6
  <2>3. QED
    BY <2>1, <2>2, <1>5
<1>7. QED
  BY <1>2, <1>4, <1>6 DEF w

-----------------------------------------------------------------------------
(* Types.                                                                   *)

LEMMA ActivateTyped ==
  ASSUME LifeTypeOK, NEW n \in Names, Activate(n)
  PROVE  /\ paths' \in [Names -> Seq(Path)]
         /\ thread' \in [Names -> {"none", "running", "ended"}]
         /\ active' \in SUBSET Names
         /\ ub' \in BOOLEAN
<1>1. Opened(paths[n]) \in Seq(Path)
  BY OpenedAndClosed DEF LifeTypeOK
<1>2. CASE CanOpen(n)
  <2>1. paths' = [paths EXCEPT ![n] = Opened(paths[n])]
    BY <1>2 DEF Activate, Opened, LifeTypeOK
  <2>2. paths' \in [Names -> Seq(Path)]
    BY <1>1, <2>1 DEF LifeTypeOK
  <2>3. QED
    BY <1>2, <2>2 DEF Activate, LifeTypeOK
<1>3. CASE ~CanOpen(n)
  BY <1>3 DEF Activate, LifeTypeOK
<1>4. QED
  BY <1>2, <1>3

LEMMA DeactivateTyped ==
  ASSUME LifeTypeOK, NEW n \in Names, Deactivate(n)
  PROVE  /\ paths' \in [Names -> Seq(Path)]
         /\ thread' \in [Names -> {"none", "running", "ended"}]
         /\ active' \in SUBSET Names
         /\ ub' \in BOOLEAN
<1>1. Closes(paths[n]) \in Seq(Path)
  BY OpenedAndClosed DEF LifeTypeOK
<1>2. QED
  BY <1>1 DEF Deactivate, LifeTypeOK

LEMMA StartDeviceTyped ==
  ASSUME LifeTypeOK, NEW n \in Names, StartDevice(n)
  PROVE  /\ paths' \in [Names -> Seq(Path)]
         /\ thread' \in [Names -> {"none", "running", "ended"}]
         /\ {known', inited', active', enabled', saved'} \subseteq SUBSET Names
         /\ ub' \in BOOLEAN
<1>1. /\ paths' \in [Names -> Seq(Path)]
      /\ thread' \in [Names -> {"none", "running", "ended"}]
      /\ active' \in SUBSET Names
      /\ ub' \in BOOLEAN
  <2>1. CASE n \in saved
    BY <2>1, ActivateTyped DEF StartDevice
  <2>2. CASE n \notin saved
    BY <2>2 DEF StartDevice, Spares, LifeTypeOK
  <2>3. QED
    BY <2>1, <2>2
<1>2. inited' \in SUBSET Names
  BY DEF StartDevice, Inits, LifeTypeOK
<1>3. known' \in SUBSET Names /\ saved' \in SUBSET Names /\ enabled' \in SUBSET Names
  BY DEF StartDevice, LifeTypeOK
<1>4. QED
  BY <1>1, <1>2, <1>3

LEMMA StopDeviceTyped ==
  ASSUME LifeTypeOK, NEW n \in Names, StopDevice(n)
  PROVE  /\ paths' \in [Names -> Seq(Path)]
         /\ thread' \in [Names -> {"none", "running", "ended"}]
         /\ {known', inited', active', enabled', saved'} \subseteq SUBSET Names
         /\ ub' \in BOOLEAN
<1>1. /\ paths' \in [Names -> Seq(Path)]
      /\ thread' \in [Names -> {"none", "running", "ended"}]
      /\ active' \in SUBSET Names
      /\ ub' \in BOOLEAN
  <2>1. CASE n \in enabled
    BY <2>1, DeactivateTyped DEF StopDevice
  <2>2. CASE n \notin enabled
    BY <2>2 DEF StopDevice, Spares, LifeTypeOK
  <2>3. QED
    BY <2>1, <2>2
<1>2. /\ known' \in SUBSET Names /\ saved' \in SUBSET Names /\ enabled' \in SUBSET Names
      /\ inited' \in SUBSET Names
  BY DEF StopDevice, LifeTypeOK
<1>3. QED
  BY <1>1, <1>2

LEMMA ListenerTyped ==
  LifeTypeOK /\ (Watch \/ Sort \/ Sorts) => LifeTypeOK'
<1> SUFFICES ASSUME LifeTypeOK, Watch \/ Sort \/ Sorts
             PROVE  LifeTypeOK'
  OBVIOUS
<1>1. CASE Watch
  <2>1. PICK n \in 1..Burst : n <= Len(events) /\ events' = SubSeq(events, n + 1, Len(events))
    BY <1>1 DEF Watch
  <2>2. n \in 1..Len(events) /\ events \in Seq(Notice) /\ Len(events) \in Nat
    BY <2>1, LifecycleIsTyped, LenProperties DEF LifeTypeOK
  <2>3. events' \in Seq(Notice)
    BY <2>1, <2>2, QueueRead
  <2>4. Head(events).node \in Nodes
    <3>1. Head(events) \in Notice
      BY <1>1, HeadTailProperties DEF Watch, LifeTypeOK
    <3>2. QED
      BY <3>1 DEF Notice
  <2>5. newDevices \in Seq(Nodes) /\ removedDevices \in Seq(Nodes)
    BY DEF LifeTypeOK
  <2>6. newDevices' \in Seq(Nodes) /\ removedDevices' \in Seq(Nodes)
    <3>1. CASE Head(events).mask = "create"
      BY <1>1, <3>1, <2>4, <2>5 DEF Watch
    <3>2. CASE Head(events).mask # "create"
      <4>1. Erased(newDevices, Head(events).node) \in Seq(Nodes)
        BY <2>5, ErasedProperties
      <4>2. QED
        <5>1. /\ newDevices' = Erased(newDevices, Head(events).node)
              /\ removedDevices' = Append(removedDevices, Head(events).node)
          BY <1>1, <3>2 DEF Watch
        <5>2. QED
          BY <2>4, <2>5, <4>1, <5>1
    <3>3. QED
      BY <3>1, <3>2
  <2>7. UNCHANGED <<plugged, mainVars, deviceVars, listener, todo, ub>>
    BY <1>1 DEF Watch, Listens
  <2>8. QED
    BY <2>3, <2>6, <2>7 DEF LifeTypeOK, mainVars, deviceVars
<1>2. CASE Sort
  BY <1>2 DEF Sort, Listens, LifeTypeOK, mainVars, deviceVars
<1>3. CASE RemoveDevices
  <2> DEFINE e == Head(removedDevices)
             gone == {n \in known : WithoutPath(n, e) = <<>>}
  <2>1. removedDevices' \in Seq(Nodes)
    BY <1>3, HeadTailProperties DEF RemoveDevices, LifeTypeOK
  <2>2. paths' \in [Names -> Seq(Path)]
    <3>1. \A n \in Names : WithoutPath(n, e) \in Seq(Path)
      BY WithoutPathProperties
    <3>2. paths' = [n \in Names |-> WithoutPath(n, e)]
      BY <1>3 DEF RemoveDevices
    <3>3. QED
      BY <3>1, <3>2
  <2>3. /\ thread' = [n \in Names |-> IF n \in gone THEN "none" ELSE thread[n]]
        /\ ub' = \E n \in gone \cap active : thread[n] = "none"
        /\ saved' = (saved \ gone) \cup (gone \cap enabled)
        /\ known' = known \ gone /\ inited' = inited \ gone
        /\ active' = active \ gone /\ enabled' = enabled \ gone
        /\ UNCHANGED <<plugged, main, whatToDo, events, newDevices, listener, todo>>
    BY <1>3 DEF RemoveDevices, Listens, mainVars
  <2> HIDE DEF gone
  <2>4. thread' \in [Names -> {"none", "running", "ended"}] /\ ub' \in BOOLEAN
    BY <2>3 DEF LifeTypeOK
  <2>5. /\ saved' \subseteq Names /\ known' \subseteq Names /\ inited' \subseteq Names
        /\ active' \subseteq Names /\ enabled' \subseteq Names
    BY <2>3 DEF LifeTypeOK
  <2>6. QED
    BY <2>1, <2>2, <2>3, <2>4, <2>5 DEF LifeTypeOK
<1>4. CASE AddDevice
  <2> DEFINE e == Head(newDevices)
  <2>1. newDevices' \in Seq(Nodes) /\ e \in Nodes
    BY <1>4, HeadTailProperties DEF AddDevice, LifeTypeOK
  <2>2. Unopened(e) \in Path
    BY <2>1 DEF Unopened, Path
  <2>3. known' \in SUBSET Names /\ paths' \in [Names -> Seq(Path)] /\ ub' \in BOOLEAN
    <3>1. CASE e \in plugged
      <4> DEFINE n == NameOf[e]
      <4>1. n \in Names
        BY <2>1, NamesAreTyped
      <4>2. ProcessDev(e)
        BY <1>4, <3>1 DEF AddDevice
      <4>3. Append(paths[n], Unopened(e)) \in Seq(Path)
        BY <2>2, <4>1 DEF LifeTypeOK
      <4> HIDE DEF n, e
      <4>4. QED
        BY <4>1, <4>2, <4>3 DEF ProcessDev, LifeTypeOK, n
    <3>2. CASE e \notin plugged
      BY <1>4, <3>2 DEF AddDevice, LifeTypeOK
    <3>3. QED
      BY <3>1, <3>2
  <2>4. QED
    BY <1>4, <2>1, <2>3 DEF AddDevice, Listens, mainVars, LifeTypeOK
<1>5. CASE Sorted
  BY <1>5 DEF Sorted, Listens, LifeTypeOK, mainVars, deviceVars
<1>6. CASE StartNew
  <2>1. PICK n \in todo.listener :
           StartDevice(n) /\ todo' = [todo EXCEPT !.listener = @ \ {n}]
    BY <1>6 DEF StartNew
  <2>2. n \in Names
    BY <2>1 DEF LifeTypeOK
  <2>3. /\ todo' \in [{"main", "listener"} -> SUBSET Names]
        /\ UNCHANGED <<plugged, main, whatToDo, events, newDevices, removedDevices, listener>>
    BY <1>6, <2>1 DEF StartNew, Listens, LifeTypeOK, mainVars, listenVars
  <2>4. QED
    BY <2>1, <2>2, <2>3, StartDeviceTyped DEF LifeTypeOK
<1>7. CASE WaitAgain
  BY <1>7 DEF WaitAgain, Listens, LifeTypeOK, mainVars, deviceVars
<1>8. QED
  BY <1>1, <1>2, <1>3, <1>4, <1>5, <1>6, <1>7 DEF Sorts

LEMMA MainTyped ==
  LifeTypeOK /\ (Main \/ Continue) => LifeTypeOK'
<1> SUFFICES ASSUME LifeTypeOK, Main \/ Continue
             PROVE  LifeTypeOK'
  OBVIOUS
<1>1. ASSUME NEW n \in Names, MainDevice(n)
      PROVE  LifeTypeOK'
  <2>1. /\ UNCHANGED <<plugged, events, newDevices, removedDevices, listener, whatToDo>>
        /\ main' = main
        /\ todo' \in [{"main", "listener"} -> SUBSET Names]
    <3>1. PICK phase \in {"start", "suspend", "quit", "resume"} : Deals(phase, n)
      BY <1>1 DEF MainDevice
    <3>2. QED
      BY <3>1 DEF Deals, Goes, listenVars, LifeTypeOK
  <2>2. CASE StartDevice(n)
    BY <2>1, <2>2, StartDeviceTyped DEF LifeTypeOK
  <2>3. CASE StopDevice(n)
    BY <2>1, <2>3, StopDeviceTyped DEF LifeTypeOK
  <2>4. CASE /\ IF Resumes(n) THEN Activate(n) ELSE Spares(n)
             /\ UNCHANGED <<known, inited, enabled, saved>>
    <3>1. CASE Resumes(n)
      BY <2>1, <2>4, <3>1, ActivateTyped DEF LifeTypeOK
    <3>2. CASE ~Resumes(n)
      BY <2>1, <2>4, <3>2 DEF LifeTypeOK, Spares
    <3>3. QED
      BY <3>1, <3>2
  <2>5. QED
    BY <1>1, <2>2, <2>3, <2>4 DEF MainDevice
<1>2. ASSUME NEW phase, NEW next \in {"pause", "exited", "stopped", "return"},
             MainNext(phase, next)
      PROVE  LifeTypeOK'
  BY <1>2 DEF MainNext, Goes, listenVars, deviceVars, LifeTypeOK
<1>3. CASE WakeUp
  BY <1>3 DEF WakeUp, Goes, listenVars, deviceVars, LifeTypeOK
<1>4. CASE Continue
  BY <1>4 DEF Continue, Goes, listenVars, deviceVars, LifeTypeOK
<1>5. QED
  BY <1>1, <1>2, <1>3, <1>4 DEF Main

LEMMA ThreadsTyped ==
  LifeTypeOK /\ Threads => LifeTypeOK'
<1> SUFFICES ASSUME LifeTypeOK, NEW n \in Names, LosePath(n)
             PROVE  LifeTypeOK'
  BY DEF Threads
<1>1. PICK i \in DOMAIN paths[n] :
         /\ paths' = [paths EXCEPT ![n] = RemoveAt(@, i)]
         /\ thread' = [thread EXCEPT ![n] = IF Len(paths[n]) = 1 THEN Ended ELSE @]
  BY DEF LosePath
<1>2. RemoveAt(paths[n], i) \in Seq(Path)
  BY RemoveAtProperties DEF LifeTypeOK
<1>3. paths' \in [Names -> Seq(Path)]
  BY <1>1, <1>2 DEF LifeTypeOK
<1>4. thread' \in [Names -> {"none", "running", "ended"}]
  BY <1>1 DEF LifeTypeOK, Ended
<1>5. UNCHANGED <<plugged, known, inited, active, enabled, saved, events, newDevices,
                  removedDevices, listener, main, whatToDo, todo, ub>>
  BY DEF LosePath, listenVars, mainVars
<1>6. QED
  BY <1>3, <1>4, <1>5 DEF LifeTypeOK

LEMMA UsersTyped ==
  LifeTypeOK /\ Users => LifeTypeOK'
<1> SUFFICES ASSUME LifeTypeOK, Users
             PROVE  LifeTypeOK'
  OBVIOUS
<1>1. ASSUME NEW mask \in {"create", "delete"}, NEW e \in Nodes, Notify(mask, e),
             plugged' \subseteq Nodes, paths' \in [Names -> Seq(Path)]
      PROVE  LifeTypeOK'
  <2>1. events' \in Seq(Notice)
    BY <1>1 DEF Notify, Notice, LifeTypeOK
  <2>2. QED
    BY <1>1, <2>1 DEF Notify, LifeTypeOK, listenVars, mainVars
<1>2. ASSUME NEW e \in Nodes, Plug(e)
      PROVE  LifeTypeOK'
  BY <1>1, <1>2 DEF Plug, LifeTypeOK
<1>3. ASSUME NEW e \in Nodes, Unplug(e)
      PROVE  LifeTypeOK'
  <2>1. \A n \in Names : [i \in DOMAIN paths[n] |-> Lost(paths[n][i], e)] \in Seq(Path)
    BY LostPaths DEF LifeTypeOK
  <2>2. paths' \in [Names -> Seq(Path)]
    BY <1>3, <2>1 DEF Unplug
  <2>3. QED
    BY <1>1, <1>3, <2>2 DEF Unplug, LifeTypeOK
<1>4. ASSUME NEW n \in Names, Enable(n)
      PROVE  LifeTypeOK'
  <2>1. enabled' \in SUBSET Names
    BY <1>4 DEF Enable, LifeTypeOK
  <2>2. QED
    BY <1>4, <2>1, ActivateTyped DEF Enable, Commands, LifeTypeOK, listenVars, mainVars
<1>5. ASSUME NEW n \in Names, Disable(n)
      PROVE  LifeTypeOK'
  <2>1. enabled' \in SUBSET Names
    BY <1>5 DEF Disable, LifeTypeOK
  <2>2. QED
    BY <1>5, <2>1, DeactivateTyped DEF Disable, Commands, LifeTypeOK, listenVars, mainVars
<1>6. ASSUME NEW what \in {"doQuit", "doSuspend"}, Signal(what)
      PROVE  LifeTypeOK'
  BY <1>6 DEF Signal, LifeTypeOK, deviceVars, listenVars
<1>7. QED
  BY <1>2, <1>3, <1>4, <1>5, <1>6 DEF Users

LEMMA LifeTypeStep == LifeTypeOK /\ [LifeNext]_lifeVars => LifeTypeOK'
<1>1. LifeTypeOK /\ UNCHANGED lifeVars => LifeTypeOK'
  BY DEF lifeVars, deviceVars, listenVars, mainVars, LifeTypeOK
<1>2. QED
  BY <1>1, ListenerTyped, MainTyped, ThreadsTyped, UsersTyped DEF LifeNext

(* scanDev: each device has its nodes, once and closed.                     *)
LEMMA SetsAreListed ==
  ASSUME NEW S \in SUBSET Path
  PROVE  IsFiniteSet(S) =>
           /\ SetToSeq(S) \in Seq(S)
           /\ \A x \in S : \E i \in DOMAIN SetToSeq(S) : SetToSeq(S)[i] = x
           /\ \A i, j \in DOMAIN SetToSeq(S) : SetToSeq(S)[i] = SetToSeq(S)[j] => i = j
<1> SUFFICES ASSUME IsFiniteSet(S)
             PROVE  /\ SetToSeq(S) \in Seq(S)
                    /\ \A x \in S : \E i \in DOMAIN SetToSeq(S) : SetToSeq(S)[i] = x
                    /\ \A i, j \in DOMAIN SetToSeq(S) : SetToSeq(S)[i] = SetToSeq(S)[j] => i = j
  OBVIOUS
<1> DEFINE N == Cardinality(S)
           f == SetToSeq(S)
<1>1. N \in Nat /\ ExistsBijection(1..N, S)
  BY FS_CardinalityType
<1>2. \E g \in [1..N -> S] : IsInjective(g)
  BY <1>1 DEF ExistsBijection, Bijection, Injection
<1>3. f \in [1..N -> S] /\ IsInjective(f)
  <2>1. f = CHOOSE g \in [1..N -> S] : IsInjective(g)
    BY DEF SetToSeq
  <2> HIDE DEF f, N
  <2>2. QED
    BY <1>2, <2>1
<1>4. IsFiniteSet(1..N) /\ Cardinality(1..N) = N
  BY <1>1, FS_Interval
<1>5. f \in Surjection(1..N, S)
  <2>1. f \in Injection(1..N, S)
    BY <1>3 DEF Injection
  <2> HIDE DEF f
  <2>2. QED
    BY <1>4, <2>1, FS_Injection
<1>6. f \in Seq(S) /\ DOMAIN f = 1..N
  <2> HIDE DEF f, N
  <2>1. QED
    BY <1>1, <1>3, FunctionIsSeq
<1>7. QED
  BY <1>3, <1>5, <1>6 DEF Surjection, IsInjective

LEMMA ScannedPaths ==
  ASSUME LifeInit, NEW n \in Names
  PROVE  /\ paths[n] \in Seq(Path)
         /\ \A i \in DOMAIN paths[n] :
              /\ paths[n][i].fd = "closed"
              /\ paths[n][i].node \in plugged /\ NameOf[paths[n][i].node] = n
         /\ \A e \in plugged :
              NameOf[e] = n => \E i \in DOMAIN paths[n] : paths[n][i].node = e
         /\ \A i, j \in DOMAIN paths[n] : paths[n][i].node = paths[n][j].node => i = j
<1> DEFINE S == {Unopened(e) : e \in {f \in plugged : NameOf[f] = n}}
           q == SetToSeq(S)
<1>1. plugged \subseteq Nodes /\ paths[n] = q
  BY DEF LifeInit
<1>2. /\ S \in SUBSET Path
      /\ \A p \in S : p = Unopened(p.node) /\ p.node \in plugged /\ NameOf[p.node] = n
      /\ \A p \in S : p.fd = "closed"
      /\ \A e \in plugged : NameOf[e] = n => Unopened(e) \in S /\ Unopened(e).node = e
  BY <1>1 DEF Unopened, Path
<1> HIDE DEF S
<1>3. IsFiniteSet(S)
  <2> DEFINE g == [p \in S |-> p.node]
  <2>1. g \in [S -> Nodes] /\ \A a, b \in S : g[a] = g[b] => a = b
    BY <1>1, <1>2
  <2>2. g \in Injection(S, Nodes)
    BY <2>1 DEF Injection, IsInjective
  <2> HIDE DEF g
  <2>3. QED
    BY <2>2, FS_Injection, LifecycleIsTyped
<1>4. /\ q \in Seq(S)
      /\ \A x \in S : \E i \in DOMAIN q : q[i] = x
      /\ \A i, j \in DOMAIN q : q[i] = q[j] => i = j
  BY <1>2, <1>3, SetsAreListed
<1> HIDE DEF q
<1>5. \A i \in DOMAIN q : q[i] \in S
  BY <1>4, Positions
<1>6. q \in Seq(Path)
  BY <1>2, <1>4, SeqMonotonic
<1>7. \A i, j \in DOMAIN q : q[i].node = q[j].node => i = j
  <2>1. TAKE i, j \in DOMAIN q
  <2>2. HAVE q[i].node = q[j].node
  <2>3. q[i] = q[j]
    BY <1>2, <1>5, <2>2
  <2>4. QED
    BY <1>4, <2>3
<1>8. \A e \in plugged : NameOf[e] = n => \E i \in DOMAIN q : q[i].node = e
  BY <1>2, <1>4
<1>9. QED
  BY <1>1, <1>2, <1>5, <1>6, <1>7, <1>8

LEMMA LifeTypeInit == LifeInit => LifeTypeOK
<1> SUFFICES ASSUME LifeInit
             PROVE  LifeTypeOK
  OBVIOUS
<1>1. paths = [n \in Names |-> paths[n]]
  BY DEF LifeInit
<1>2. paths \in [Names -> Seq(Path)]
  BY <1>1, ScannedPaths
<1>3. known \subseteq Names /\ plugged \subseteq Nodes /\ saved \subseteq Names
  BY NamesAreTyped DEF LifeInit
<1>4. /\ events \in Seq(Notice)
      /\ newDevices \in Seq(Nodes) /\ removedDevices \in Seq(Nodes)
      /\ thread \in [Names -> {"none", "running", "ended"}]
  BY DEF LifeInit
<1>5. todo \in [{"main", "listener"} -> SUBSET Names]
  BY <1>3 DEF LifeInit
<1>6. QED
  BY <1>2, <1>3, <1>4, <1>5 DEF LifeInit, LifeTypeOK

(* Every variable keeps its type, whatever users, threads and main do, and  *)
(* however many events the listener misses.                                 *)
THEOREM LifecycleTypes == LifeSpec => []LifeTypeOK
BY LifeTypeInit, LifeTypeStep, PTL DEF LifeSpec

-----------------------------------------------------------------------------
(* What holds of any users, and of a listener that misses events.           *)

(* deactivate() looks at the flag active, and is called for known devices.  *)
Reached ==
  \A n \in Names :
    /\ thread[n] # "none" => n \in active
    /\ \A i \in DOMAIN paths[n] : paths[n][i].fd # "closed" => n \in active
    /\ n \notin known => paths[n] = <<>> /\ thread[n] = "none"

ReachInv == LifeTypeOK /\ (~ub => Reached)

LEMMA ReachSame ==
  ASSUME ReachInv, ~ub, UNCHANGED <<known, paths, thread, active>>
  PROVE  Reached'
BY DEF ReachInv, Reached

LEMMA ReachActivate ==
  ASSUME ReachInv, ~ub, NEW n \in Names, Activate(n), UNCHANGED known
  PROVE  ~ub' => Reached'
<1>1. CASE ~CanOpen(n)
  BY <1>1, ReachSame DEF Activate
<1>2. ASSUME CanOpen(n), ~ub'
      PROVE  Reached'
  <2>1. /\ \A m \in Names \ {n} : paths'[m] = paths[m] /\ thread'[m] = thread[m]
        /\ active' = active \cup {n}
        /\ paths[n] # <<>>
    BY <1>2 DEF Activate, ReachInv, LifeTypeOK
  <2>2. n \in known
    BY <2>1 DEF ReachInv, Reached
  <2>3. QED
    BY <2>1, <2>2 DEF ReachInv, Reached
<1>3. QED
  BY <1>1, <1>2

LEMMA ReachDeactivate ==
  ASSUME ReachInv, ~ub, NEW n \in Names, Deactivate(n), UNCHANGED known
  PROVE  Reached'
<1>1. CASE n \notin active
  BY <1>1, ReachSame DEF Deactivate
<1>2. CASE n \in active
  <2>1. /\ \A m \in Names \ {n} : paths'[m] = paths[m] /\ thread'[m] = thread[m]
        /\ paths'[n] = Closes(paths[n]) /\ thread'[n] = "none" /\ active' = active
    BY <1>2 DEF Deactivate, ReachInv, LifeTypeOK
  <2>2. paths[n] = <<>> => Closes(paths[n]) = <<>>
    BY DEF Closes
  <2>3. QED
    BY <1>2, <2>1, <2>2 DEF ReachInv, Reached
<1>3. QED
  BY <1>1, <1>2

LEMMA ReachDevice ==
  ASSUME ReachInv, ~ub, NEW n \in Names,
         \/ StartDevice(n)
         \/ StopDevice(n)
         \/ (Activate(n) \/ Spares(n)) /\ UNCHANGED known
  PROVE  ~ub' => Reached'
<1>1. UNCHANGED known
  BY DEF StartDevice, StopDevice
<1>2. Activate(n) \/ Deactivate(n) \/ Spares(n)
  BY DEF StartDevice, StopDevice
<1>3. Spares(n) => Reached'
  BY <1>1, ReachSame DEF Spares
<1>4. QED
  BY <1>1, <1>2, <1>3, ReachActivate, ReachDeactivate

LEMMA ReachLosePath ==
  ASSUME ReachInv, ~ub, NEW n \in Names, LosePath(n)
  PROVE  Reached'
<1>1. PICK i \in DOMAIN paths[n] :
         /\ paths' = [paths EXCEPT ![n] = RemoveAt(@, i)]
         /\ thread' = [thread EXCEPT ![n] = IF Len(paths[n]) = 1 THEN Ended ELSE @]
  BY DEF LosePath
<1>2. /\ \A m \in Names \ {n} : paths'[m] = paths[m] /\ thread'[m] = thread[m]
      /\ thread[n] = "running" /\ UNCHANGED <<known, active>>
  BY <1>1 DEF LosePath, ReachInv, LifeTypeOK
<1>3. n \in active /\ n \in known
  BY <1>2 DEF ReachInv, Reached
<1>4. QED
  BY <1>2, <1>3 DEF ReachInv, Reached

LEMMA ReachRemove ==
  ASSUME ReachInv, ~ub, RemoveDevices
  PROVE  Reached'
<1> DEFINE e == Head(removedDevices)
           gone == {n \in known : WithoutPath(n, e) = <<>>}
<1>1. /\ paths' = [n \in Names |-> WithoutPath(n, e)]
      /\ thread' = [n \in Names |-> IF n \in gone THEN "none" ELSE thread[n]]
      /\ known' = known \ gone /\ active' = active \ gone
  BY DEF RemoveDevices
<1> SUFFICES ASSUME NEW n \in Names
             PROVE  /\ thread'[n] # "none" => n \in active'
                    /\ \A i \in DOMAIN paths'[n] : paths'[n][i].fd # "closed" => n \in active'
                    /\ n \notin known' => paths'[n] = <<>> /\ thread'[n] = "none"
  BY DEF Reached
<1>2. /\ thread[n] # "none" => n \in active
      /\ \A i \in DOMAIN paths[n] : paths[n][i].fd # "closed" => n \in active
      /\ n \notin known => paths[n] = <<>> /\ thread[n] = "none"
  BY DEF ReachInv, Reached
<1>3. paths'[n] = WithoutPath(n, e)
  BY <1>1
<1>4. \A i \in DOMAIN WithoutPath(n, e) :
        \E k \in DOMAIN paths[n] : WithoutPath(n, e)[i] = paths[n][k]
  BY WithoutPathProperties DEF ReachInv
<1>5. CASE n \in gone
  BY <1>1, <1>3, <1>5
<1>6. CASE n \notin gone
  <2>1. thread'[n] = thread[n] /\ (n \in active' <=> n \in active) /\ (n \in known' <=> n \in known)
    BY <1>1, <1>6
  <2>2. paths[n] = <<>> => WithoutPath(n, e) = <<>>
    <3>1. WithoutPath(n, e) \in Seq(Path)
      BY WithoutPathProperties DEF ReachInv
    <3>2. paths[n] = <<>> => DOMAIN WithoutPath(n, e) = {}
      BY <1>4
    <3>3. QED
      BY <3>1, <3>2, PathsTyped
  <2>3. QED
    BY <1>2, <1>3, <1>4, <2>1, <2>2
<1>7. QED
  BY <1>5, <1>6

LEMMA ReachAdd ==
  ASSUME ReachInv, ~ub, AddDevice
  PROVE  Reached'
<1> DEFINE e == Head(newDevices)
<1>1. UNCHANGED <<thread, active>>
  BY DEF AddDevice
<1>2. CASE UNCHANGED <<known, paths, ub>>
  BY <1>1, <1>2, ReachSame
<1>3. CASE ProcessDev(e)
  <2>1. e \in Nodes /\ NameOf[e] \in Names
    <3>1. e \in Nodes
      BY HeadTailProperties DEF AddDevice, ReachInv, LifeTypeOK
    <3>2. QED
      BY <3>1, NamesAreTyped
  <2>2. PICK n \in Names : n = NameOf[e]
    BY <2>1
  <2>3. Unopened(e) \in Path /\ Unopened(e).fd = "closed"
    BY <2>1 DEF Unopened, Path
  <2>4. /\ known' = known \cup {n}
        /\ paths' = [paths EXCEPT ![n] = Append(paths[n], Unopened(e))]
    BY <1>3, <2>2 DEF ProcessDev, ReachInv, LifeTypeOK
  <2>5. /\ \A m \in Names \ {n} : paths'[m] = paths[m]
        /\ paths'[n] = Append(paths[n], Unopened(e)) /\ paths[n] \in Seq(Path)
    BY <2>4 DEF ReachInv, LifeTypeOK
  <2>6. \A i \in DOMAIN paths'[n] : paths'[n][i].fd # "closed" =>
          i \in DOMAIN paths[n] /\ paths'[n][i] = paths[n][i]
    <3>1. PICK u \in Path : u = Unopened(e) /\ u.fd = "closed"
      BY <2>3
    <3>2. PICK q \in Seq(Path) : q = paths[n] /\ Len(q) \in Nat /\ DOMAIN q = 1..Len(q)
      BY <2>5, Positions
    <3>3. /\ DOMAIN Append(q, u) = 1..(Len(q) + 1) /\ Append(q, u)[Len(q) + 1] = u
          /\ \A i \in DOMAIN q : Append(q, u)[i] = q[i]
      BY AppendEntries
    <3>4. QED
      BY <2>5, <3>1, <3>2, <3>3
  <2>7. QED
    BY <1>1, <2>4, <2>5, <2>6 DEF ReachInv, Reached
<1>4. QED
  BY <1>2, <1>3 DEF AddDevice

LEMMA ReachUsers ==
  ASSUME ReachInv, ~ub, Users
  PROVE  ~ub' => Reached'
<1>1. ASSUME NEW e \in Nodes, Unplug(e)
      PROVE  Reached'
  <2>1. /\ paths' = [n \in Names |-> [i \in DOMAIN paths[n] |-> Lost(paths[n][i], e)]]
        /\ UNCHANGED <<known, thread, active>>
    BY <1>1 DEF Unplug, Notify
  <2>2. ASSUME NEW n \in Names
        PROVE  /\ DOMAIN paths'[n] = DOMAIN paths[n]
               /\ \A i \in DOMAIN paths[n] :
                    paths'[n][i].fd # "closed" => paths[n][i].fd # "closed"
               /\ paths[n] = <<>> => paths'[n] = <<>>
    <3>1. paths'[n] = [i \in DOMAIN paths[n] |-> Lost(paths[n][i], e)]
      BY <2>1
    <3>2. \A p : Lost(p, e).fd # "closed" => p.fd # "closed"
      BY DEF Lost
    <3>3. QED
      BY <3>1, <3>2
  <2>3. QED
    BY <2>1, <2>2 DEF ReachInv, Reached
<1>2. ASSUME NEW n \in Names, Enable(n)
      PROVE  ~ub' => Reached'
  BY <1>2, ReachActivate DEF Enable, Commands
<1>3. ASSUME NEW n \in Names, Disable(n)
      PROVE  Reached'
  BY <1>3, ReachDeactivate DEF Disable, Commands
<1>4. CASE (\E e \in Nodes : Plug(e)) \/ Signal("doQuit") \/ Signal("doSuspend")
  BY <1>4, ReachSame DEF Plug, Notify, Signal, deviceVars
<1>5. QED
  BY <1>1, <1>2, <1>3, <1>4 DEF Users

LEMMA ReachStep == ReachInv /\ [LifeNext]_lifeVars => ReachInv'
<1> SUFFICES ASSUME ReachInv, [LifeNext]_lifeVars
             PROVE  ReachInv'
  OBVIOUS
<1>1. LifeTypeOK'
  BY LifeTypeStep DEF ReachInv
<1>2. CASE UNCHANGED lifeVars
  BY <1>1, <1>2 DEF lifeVars, deviceVars, ReachInv, Reached
<1>3. ASSUME LifeNext
      PROVE  ~ub /\ (~ub' => Reached')
  <2>1. ~ub
    BY <1>3 DEF LifeNext, Threads, LosePath, Watch, Sort, Sorts, RemoveDevices, AddDevice, Sorted,
       StartNew, WaitAgain, Main, MainDevice, Deals, WakeUp, MainNext, Continue, Users, Plug,
       Unplug, Notify, Enable, Disable, Commands, Signal, Listens, Goes, Runs
  <2>2. CASE Threads
    BY <2>1, <2>2, ReachLosePath DEF Threads
  <2>3. CASE Watch \/ Sort \/ Sorted \/ WaitAgain
    BY <2>1, <2>3, ReachSame DEF Watch, Sort, Sorted, WaitAgain, deviceVars
  <2>4. CASE StartNew
    <3>1. PICK n \in Names : StartDevice(n)
      BY <2>4 DEF StartNew, ReachInv, LifeTypeOK
    <3>2. QED
      BY <2>1, <3>1, ReachDevice
  <2>5. ASSUME NEW n \in Names, MainDevice(n)
        PROVE  ~ub' => Reached'
    <3>1. \/ StartDevice(n)
          \/ StopDevice(n)
          \/ (Activate(n) \/ Spares(n)) /\ UNCHANGED known
      BY <2>5 DEF MainDevice
    <3>2. QED
      BY <2>1, <3>1, ReachDevice
  <2>6. CASE WakeUp \/ Continue \/ \E phase, next : MainNext(phase, next)
    BY <2>1, <2>6, ReachSame DEF WakeUp, Continue, MainNext, deviceVars
  <2>7. Main => (\E n \in Names : MainDevice(n)) \/ WakeUp \/ \E phase, next : MainNext(phase, next)
    BY DEF Main
  <2>8. QED
    BY <1>3, <2>1, <2>2, <2>3, <2>4, <2>5, <2>6, <2>7, ReachRemove, ReachAdd, ReachUsers
       DEF LifeNext, Sorts
<1>4. QED
  BY <1>1, <1>2, <1>3 DEF ReachInv

LEMMA ReachInit == LifeInit => ReachInv
<1> SUFFICES ASSUME LifeInit
             PROVE  Reached
  BY LifeTypeInit DEF ReachInv
<1>1. ASSUME NEW n \in Names
      PROVE  /\ \A i \in DOMAIN paths[n] : paths[n][i].fd = "closed"
             /\ n \notin known => paths[n] = <<>>
  <2>1. /\ paths[n] \in Seq(Path)
        /\ \A i \in DOMAIN paths[n] :
             /\ paths[n][i].fd = "closed"
             /\ paths[n][i].node \in plugged /\ NameOf[paths[n][i].node] = n
    BY ScannedPaths
  <2>2. n \notin known => DOMAIN paths[n] = {}
    BY <2>1 DEF LifeInit
  <2>3. QED
    BY <2>1, <2>2, PathsTyped
<1>2. QED
  BY <1>1 DEF LifeInit, Reached

(* No input thread and no open node is ever beyond the reach of             *)
(* deactivate(): as long as nothing undefined was done, a thread that runs, *)
(* or that has ended and was not joined, and a descriptor that is open      *)
(* belong to a known device whose flag active is set.  That holds of users  *)
(* who plug, unplug, suspend and give commands at any moment, and of reads  *)
(* of any number of events.                                                 *)
THEOREM NothingIsLeaked == LifeSpec => [](~ub => Reached)
<1>1. LifeInit => ReachInv
  BY ReachInit
<1>2. ReachInv /\ [LifeNext]_lifeVars => ReachInv'
  BY ReachStep
<1>3. ReachInv => (~ub => Reached)
  BY DEF ReachInv
<1>4. QED
  BY <1>1, <1>2, <1>3, PTL DEF LifeSpec

-----------------------------------------------------------------------------
(* With nothing on its way the nodes of the devices are those plugged in.   *)

QueuesEmpty == events = <<>> /\ newDevices = <<>> /\ removedDevices = <<>>

LEMMA EmptyQueues ==
  ASSUME QueuesEmpty
  PROVE  \A e : /\ ~Told("create", e) /\ ~Told("delete", e) /\ ~Leaving(e)
                /\ ~Fresh(e) /\ ~Stale(e) /\ Silent(e)
                /\ ~Latest("create", e) /\ ~Latest("delete", e)
BY DEF QueuesEmpty, Told, Leaving, Fresh, Stale, Silent, Latest, Range

(* The nodes of a device are plugged in, and open if its thread runs.       *)
AllIsWell ==
  \A n \in Names :
    /\ CanOpen(n)
    /\ thread[n] # "ended"
    /\ n \in known => paths[n] # <<>>
    /\ \A i \in DOMAIN paths[n] :
         paths[n][i].fd = IF thread[n] = "running" THEN "live" ELSE "closed"

LEMMA EmptyIsWell ==
  ASSUME CareInv, QueuesEmpty
  PROVE  /\ AllIsWell
         /\ \A e \in Nodes : e \in plugged <=> Listed(e)
<1>1. \A e \in Nodes : e \in plugged <=> Listed(e)
  BY EmptyQueues DEF CareInv, QueuesAreTrue
<1>2. ASSUME NEW n \in Names
      PROVE  /\ paths[n] \in Seq(Path)
             /\ thread[n] \in {"none", "running", "ended"}
             /\ n \in known => thread[n] # "ended" /\ paths[n] # <<>>
  BY EmptyQueues DEF CareInv, EndedHaveLost, LifeTypeOK
<1>3. ASSUME NEW n \in Names
      PROVE  thread[n] # "ended"
  BY <1>2, <1>3 DEF CareInv, StrangersAreIdle
<1>4. ASSUME NEW n \in Names, NEW i \in DOMAIN paths[n]
      PROVE  /\ paths[n][i].node \in plugged
             /\ paths[n][i].fd = IF thread[n] = "running" THEN "live" ELSE "closed"
  <2>1. paths[n][i].node \in Nodes /\ paths[n][i].fd \in {"closed", "live", "dead"}
    BY <1>2, PathsTyped
  <2>2. NameOf[paths[n][i].node] = n
    BY DEF CareInv, PathsAreNamed
  <2>3. Listed(paths[n][i].node)
    BY <2>2 DEF Listed, NodesOf
  <2>4. paths[n][i].node \in plugged
    BY <1>1, <2>1, <2>3
  <2>5. paths[n][i].fd # "dead"
    BY <2>1, <2>4 DEF CareInv, DeadAreLeaving
  <2>6. paths[n][i].fd = "closed" <=> thread[n] # "running"
    BY DEF CareInv, RunningAreOpen
  <2>7. QED
    BY <2>1, <2>4, <2>5, <2>6
<1>5. \A n \in Names : CanOpen(n)
  BY <1>4 DEF CanOpen, NodesOf
<1>6. QED
  BY <1>1, <1>2, <1>3, <1>4, <1>5 DEF AllIsWell

(* Then a step that changes no node leaves what says where they are.        *)
SameNodes ==
  \A n \in Names :
    /\ DOMAIN paths'[n] = DOMAIN paths[n]
    /\ \A i \in DOMAIN paths[n] : paths'[n][i].node = paths[n][i].node

LEMMA SameNodesListed ==
  ASSUME SameNodes
  PROVE  /\ \A e \in Nodes : Listed(e)' <=> Listed(e)
         /\ \A n \in Names : NodesOf(n)' = NodesOf(n)
<1>1. \A n \in Names : NodesOf(n)' = NodesOf(n)
  BY DEF SameNodes, NodesOf
<1>2. QED
  BY <1>1, NamesAreTyped DEF Listed

LEMMA SameQueues ==
  ASSUME UNCHANGED <<events, newDevices, removedDevices>>
  PROVE  \A e : /\ Told("create", e)' <=> Told("create", e)
                /\ Told("delete", e)' <=> Told("delete", e)
                /\ Leaving(e)' <=> Leaving(e)
                /\ Fresh(e)' <=> Fresh(e)
                /\ Stale(e)' <=> Stale(e)
                /\ Silent(e)' <=> Silent(e)
                /\ Latest("create", e)' <=> Latest("create", e)
                /\ Latest("delete", e)' <=> Latest("delete", e)
BY DEF Told, Leaving, Fresh, Stale, Silent, Latest

LEMMA SameNodesKept ==
  ASSUME CareInv, SameNodes, UNCHANGED <<plugged, events, newDevices, removedDevices>>
  PROVE  PathsAreNamed' /\ QueuesAreTrue' /\ NewsAreNew' /\ FreshAreNew'
<1>1. PathsAreNamed'
  <2>1. PathsAreNamed
    BY DEF CareInv
  <2>2. QED
    BY <2>1 DEF PathsAreNamed, SameNodes
<1>2. QueuesAreTrue'
  BY SameNodesListed, SameQueues DEF CareInv, QueuesAreTrue
<1>3. FreshAreNew'
  BY SameNodesListed, SameQueues DEF CareInv, FreshAreNew
<1>4. NewsAreNew'
  <2>1. LifeTypeOK /\ NewsAreNew
    BY DEF CareInv
  <2>2. \A i \in DOMAIN events : events[i].node \in Nodes
    BY <2>1, EventsTyped
  <2>3. QED
    BY <2>1, <2>2, SameNodesListed, SameQueues DEF NewsAreNew
<1>5. QED
  BY <1>1, <1>2, <1>3, <1>4

(* The steps that are taken while nothing is on its way.                    *)
LEMMA WellStep ==
  ASSUME CareInv, QueuesEmpty,
         UNCHANGED <<plugged, known, events, newDevices, removedDevices, listener>>,
         SameNodes, LifeTypeOK', listener = "wait",
         ~ub', TodoIsKnown', StrangersAreIdle', EnabledAreHeld', AllIsWell',
         \A n \in Names : thread'[n] = "running" => paths'[n] # <<>> /\ n \in active' \cap inited',
         \A n \in known : n \in inited' \/ (main' = "start" /\ n \in todo'.main)
  PROVE  CareInv'
<1>1. QueuesEmpty'
  BY DEF QueuesEmpty
<1>2. PathsAreNamed' /\ QueuesAreTrue' /\ NewsAreNew' /\ FreshAreNew'
  BY SameNodesKept
<1>3. BusyIsQuiet'
  BY <1>1 DEF BusyIsQuiet, QueuesEmpty, AllIsWell
<1>4. SortingIsCalm'
  BY DEF SortingIsCalm
<1>5. RunningAreOpen'
  <2>1. \A n \in Names : thread'[n] \in {"none", "running", "ended"}
    BY DEF LifeTypeOK
  <2>2. QED
    BY <2>1 DEF RunningAreOpen, AllIsWell
<1>6. EndedHaveLost'
  BY DEF EndedHaveLost, AllIsWell, LifeTypeOK
<1>7. DeadAreLeaving'
  <2>1. \A e : ~Leaving(e)'
    BY EmptyQueues, SameQueues
  <2>2. QED
    BY <2>1 DEF DeadAreLeaving, AllIsWell
<1>8. FreshAreIdle'
  <2>1. \A e : ~Fresh(e)' /\ ~Told("create", e)'
    BY EmptyQueues, SameQueues
  <2>2. QED
    BY <2>1 DEF FreshAreIdle
<1>9. KnownAreInited'
  BY DEF KnownAreInited
<1>10. QED
  BY <1>2, <1>3, <1>4, <1>5, <1>6, <1>7, <1>8, <1>9 DEF CareInv

(* activate succeeds and deactivate finds a thread to join.                 *)
LEMMA ActivateWell ==
  ASSUME CareInv, QueuesEmpty, NEW n \in known, thread[n] = "none",
         Activate(n), UNCHANGED <<plugged, known>>
  PROVE  /\ SameNodes
         /\ AllIsWell'
         /\ thread' = [thread EXCEPT ![n] = "running"]
         /\ active' = active \cup {n}
         /\ \A m \in Names : paths'[m] = <<>> <=> paths[m] = <<>>
         /\ paths[n] # <<>>
         /\ ~ub'
<1>1. LifeTypeOK /\ AllIsWell /\ n \in Names
  BY EmptyIsWell DEF CareInv, LifeTypeOK
<1>2. CanOpen(n) /\ paths[n] # <<>>
  BY <1>1 DEF AllIsWell
<1>3. /\ paths' = [paths EXCEPT ![n] = Opened(paths[n])]
      /\ thread' = [thread EXCEPT ![n] = "running"]
      /\ active' = active \cup {n}
      /\ ~ub'
  BY <1>1, <1>2 DEF Activate, Opened, LifeTypeOK
<1>4. \A m \in Names : paths[m] \in Seq(Path)
  BY <1>1 DEF LifeTypeOK
<1>5. /\ Opened(paths[n]) \in Seq(Path)
      /\ DOMAIN Opened(paths[n]) = DOMAIN paths[n]
      /\ \A i \in DOMAIN paths[n] :
           /\ Opened(paths[n])[i].node = paths[n][i].node
           /\ Opened(paths[n])[i].fd = "live"
  BY <1>1, <1>4, OpenedAndClosed
<1>6. \A m \in Names : paths'[m] = IF m = n THEN Opened(paths[n]) ELSE paths[m]
  BY <1>1, <1>3 DEF LifeTypeOK
<1>7. SameNodes
  <2>1. ASSUME NEW m \in Names
        PROVE  /\ DOMAIN paths'[m] = DOMAIN paths[m]
               /\ \A i \in DOMAIN paths[m] : paths'[m][i].node = paths[m][i].node
    <3>1. CASE m = n
      BY <3>1, <1>5, <1>6
    <3>2. CASE m # n
      BY <3>2, <1>6
    <3>3. QED
      BY <3>1, <3>2
  <2>2. QED
    BY <2>1 DEF SameNodes
<1>8. Opened(paths[n]) # <<>>
  BY <1>1, <1>2, <1>4, <1>5, PathsTyped
<1>9. AllIsWell'
  <2>1. ASSUME NEW m \in Names
        PROVE  /\ CanOpen(m)'
               /\ thread'[m] # "ended"
               /\ m \in known' => paths'[m] # <<>>
               /\ \A i \in DOMAIN paths'[m] :
                    paths'[m][i].fd = IF thread'[m] = "running" THEN "live" ELSE "closed"
    <3>1. CanOpen(m)'
      BY <1>1, <1>7, SameNodesListed DEF AllIsWell, CanOpen
    <3>2. CASE m = n
      BY <1>1, <1>3, <1>5, <1>6, <1>8, <3>1, <3>2 DEF LifeTypeOK
    <3>3. CASE m # n
      BY <1>1, <1>3, <1>6, <3>1, <3>3 DEF LifeTypeOK, AllIsWell
    <3>4. QED
      BY <3>2, <3>3
  <2>2. QED
    BY <2>1 DEF AllIsWell
<1>10. QED
  BY <1>2, <1>3, <1>6, <1>7, <1>8, <1>9

LEMMA DeactivateWell ==
  ASSUME CareInv, QueuesEmpty, NEW n \in known, thread[n] = "running",
         Deactivate(n), UNCHANGED <<plugged, known>>
  PROVE  /\ SameNodes
         /\ AllIsWell'
         /\ thread' = [thread EXCEPT ![n] = "none"]
         /\ active' = active
         /\ \A m \in Names : paths'[m] = <<>> <=> paths[m] = <<>>
         /\ ~ub'
<1>1. LifeTypeOK /\ AllIsWell /\ n \in Names /\ n \in active
  BY EmptyIsWell DEF CareInv, LifeTypeOK, RunningAreOpen
<1>2. paths[n] # <<>>
  BY <1>1 DEF AllIsWell
<1>3. /\ paths' = [paths EXCEPT ![n] = Closes(paths[n])]
      /\ thread' = [thread EXCEPT ![n] = "none"]
      /\ active' = active
      /\ ~ub'
  BY <1>1 DEF Deactivate, LifeTypeOK
<1>4. \A m \in Names : paths[m] \in Seq(Path)
  BY <1>1 DEF LifeTypeOK
<1>5. /\ Closes(paths[n]) \in Seq(Path)
      /\ DOMAIN Closes(paths[n]) = DOMAIN paths[n]
      /\ \A i \in DOMAIN paths[n] :
           /\ Closes(paths[n])[i].node = paths[n][i].node
           /\ Closes(paths[n])[i].fd = "closed"
  BY <1>1, <1>4, OpenedAndClosed
<1>6. \A m \in Names : paths'[m] = IF m = n THEN Closes(paths[n]) ELSE paths[m]
  BY <1>1, <1>3 DEF LifeTypeOK
<1>7. SameNodes
  <2>1. ASSUME NEW m \in Names
        PROVE  /\ DOMAIN paths'[m] = DOMAIN paths[m]
               /\ \A i \in DOMAIN paths[m] : paths'[m][i].node = paths[m][i].node
    <3>1. CASE m = n
      BY <3>1, <1>5, <1>6
    <3>2. CASE m # n
      BY <3>2, <1>6
    <3>3. QED
      BY <3>1, <3>2
  <2>2. QED
    BY <2>1 DEF SameNodes
<1>8. Closes(paths[n]) # <<>>
  BY <1>1, <1>2, <1>4, <1>5, PathsTyped
<1>9. AllIsWell'
  <2>1. ASSUME NEW m \in Names
        PROVE  /\ CanOpen(m)'
               /\ thread'[m] # "ended"
               /\ m \in known' => paths'[m] # <<>>
               /\ \A i \in DOMAIN paths'[m] :
                    paths'[m][i].fd = IF thread'[m] = "running" THEN "live" ELSE "closed"
    <3>1. CanOpen(m)'
      BY <1>1, <1>7, SameNodesListed DEF AllIsWell, CanOpen
    <3>2. CASE m = n
      BY <1>1, <1>3, <1>5, <1>6, <1>8, <3>1, <3>2 DEF LifeTypeOK
    <3>3. CASE m # n
      BY <1>1, <1>3, <1>6, <3>1, <3>3 DEF LifeTypeOK, AllIsWell
    <3>4. QED
      BY <3>2, <3>3
  <2>2. QED
    BY <2>1 DEF AllIsWell
<1>10. QED
  BY <1>2, <1>3, <1>6, <1>7, <1>8, <1>9

LEMMA SparedWell ==
  ASSUME CareInv, QueuesEmpty, UNCHANGED <<paths, thread, plugged, known>>
  PROVE  SameNodes /\ AllIsWell'
<1>1. AllIsWell
  BY EmptyIsWell
<1>2. SameNodes
  BY DEF SameNodes
<1>3. QED
  BY <1>1, <1>2, SameNodesListed DEF AllIsWell, CanOpen

-----------------------------------------------------------------------------
(* The main thread and the commands of careful users.                       *)

LEMMA MainDeviceKeeps ==
  ASSUME CareInv, NEW n \in Names, MainDevice(n), LifeTypeOK'
  PROVE  CareInv'
<1>1. PICK phase \in {"start", "suspend", "quit", "resume"} : Deals(phase, n)
  BY DEF MainDevice
<1>2. /\ main = phase /\ main' = phase /\ ~ub
      /\ n \in todo.main
      /\ todo' = [todo EXCEPT !.main = @ \ {n}]
      /\ UNCHANGED <<plugged, events, newDevices, removedDevices, listener>>
  BY <1>1 DEF Deals, Goes, listenVars
<1>3. /\ QueuesEmpty /\ listener = "wait" /\ LifeTypeOK
      /\ n \in known
  BY <1>2 DEF CareInv, BusyIsQuiet, QueuesEmpty, TodoIsKnown
<1>4. todo'.main = todo.main \ {n} /\ todo'.listener = todo.listener /\ todo.listener = {}
  BY <1>2, <1>3 DEF LifeTypeOK, CareInv, TodoIsKnown
<1>5. AllIsWell
  BY <1>3, EmptyIsWell
<1>6. \A m \in known : m \in inited \/ (main = "start" /\ m \in todo.main)
  BY <1>3, <1>4, EmptyQueues DEF CareInv, KnownAreInited
<1>7. CASE main = "start"
  <2>1. StartDevice(n)
    BY <1>2, <1>7 DEF MainDevice, Deals, Goes
  <2>2. /\ known' = known /\ saved' = saved
        /\ inited' = inited \cup {n}
        /\ enabled' = (enabled \ {n}) \cup ({n} \cap saved)
    BY <2>1, <1>5 DEF StartDevice, Inits, AllIsWell
  <2>3. thread[n] = "none"
    BY <1>2, <1>7 DEF CareInv, EnabledAreHeld, Held
  <2>4. /\ SameNodes /\ AllIsWell' /\ ~ub'
        /\ thread' = IF n \in saved THEN [thread EXCEPT ![n] = "running"] ELSE thread
        /\ active' = IF n \in saved THEN active \cup {n} ELSE active
        /\ \A m \in Names : paths'[m] = <<>> <=> paths[m] = <<>>
        /\ n \in saved => paths[n] # <<>>
    <3>1. CASE n \in saved
      BY <3>1, <1>2, <1>3, <2>1, <2>2, <2>3, ActivateWell DEF StartDevice
    <3>2. CASE n \notin saved
      BY <3>2, <1>2, <1>3, <2>1, <2>2, SparedWell DEF StartDevice, Spares, CareInv
    <3>3. QED
      BY <3>1, <3>2
  <2>5. \A m \in Names :
          /\ thread'[m] = IF m = n /\ n \in saved THEN "running" ELSE thread[m]
          /\ thread[m] \in {"none", "running", "ended"}
    BY <2>4, <1>3 DEF LifeTypeOK
  <2>6. TodoIsKnown'
    BY <1>2, <1>4, <1>7, <2>2 DEF CareInv, TodoIsKnown
  <2>7. StrangersAreIdle'
    BY <1>3, <2>2, <2>4, <2>5 DEF CareInv, StrangersAreIdle
  <2>8. EnabledAreHeld'
    BY <1>2, <1>4, <1>7, <2>2, <2>3, <2>5 DEF CareInv, EnabledAreHeld, Held
  <2>9. \A m \in Names :
          thread'[m] = "running" => paths'[m] # <<>> /\ m \in active' \cap inited'
    BY <2>2, <2>4, <2>5 DEF CareInv, RunningAreOpen
  <2>10. \A m \in known : m \in inited' \/ (main' = "start" /\ m \in todo'.main)
    BY <1>2, <1>4, <1>6, <2>2
  <2>11. QED
    BY <1>2, <1>3, <2>2, <2>4, <2>6, <2>7, <2>8, <2>9, <2>10, WellStep
<1>8. CASE main \in {"quit", "suspend"}
  <2>1. StopDevice(n)
    BY <1>2, <1>8 DEF MainDevice, Deals, Goes
  <2>2. /\ known' = known /\ inited' = inited /\ enabled' = enabled
    BY <2>1 DEF StopDevice
  <2>3. n \in inited
    BY <1>3, <1>6, <1>8
  <2>4. thread[n] = IF n \in enabled THEN "running" ELSE "none"
    <3>1. thread[n] # "none" <=> n \in enabled
      BY <1>2, <1>8, <2>3 DEF CareInv, EnabledAreHeld, Held
    <3>2. QED
      BY <3>1, <1>3, <1>5 DEF AllIsWell, LifeTypeOK
  <2>5. /\ SameNodes /\ AllIsWell' /\ ~ub'
        /\ thread' = IF n \in enabled THEN [thread EXCEPT ![n] = "none"] ELSE thread
        /\ active' = active
        /\ \A m \in Names : paths'[m] = <<>> <=> paths[m] = <<>>
    <3>1. CASE n \in enabled
      BY <3>1, <1>2, <1>3, <2>1, <2>2, <2>4, DeactivateWell DEF StopDevice
    <3>2. CASE n \notin enabled
      BY <3>2, <1>2, <1>3, <2>1, <2>2, SparedWell DEF StopDevice, Spares, CareInv
    <3>3. QED
      BY <3>1, <3>2
  <2>6. \A m \in Names :
          /\ thread'[m] = IF m = n THEN "none" ELSE thread[m]
          /\ thread[m] \in {"none", "running", "ended"}
    BY <2>4, <2>5, <1>3 DEF LifeTypeOK
  <2>7. TodoIsKnown'
    BY <1>2, <1>4, <1>8, <2>2 DEF CareInv, TodoIsKnown
  <2>8. StrangersAreIdle'
    BY <1>3, <2>2, <2>5, <2>6 DEF CareInv, StrangersAreIdle
  <2>9. EnabledAreHeld'
    BY <1>2, <1>4, <1>8, <2>2, <2>6 DEF CareInv, EnabledAreHeld, Held
  <2>10. \A m \in Names :
          thread'[m] = "running" => paths'[m] # <<>> /\ m \in active' \cap inited'
    BY <2>2, <2>5, <2>6 DEF CareInv, RunningAreOpen
  <2>11. \A m \in known : m \in inited' \/ (main' = "start" /\ m \in todo'.main)
    BY <1>6, <1>8, <2>2
  <2>12. QED
    BY <1>2, <1>3, <2>2, <2>5, <2>7, <2>8, <2>9, <2>10, <2>11, WellStep
<1>9. CASE main = "resume"
  <2>1. /\ IF n \in enabled THEN Activate(n) ELSE Spares(n)
        /\ UNCHANGED <<known, inited, enabled, saved>>
    BY <1>2, <1>9 DEF MainDevice, Deals, Goes, Resumes
  <2>2. n \in inited
    BY <1>3, <1>6, <1>9
  <2>3. thread[n] = "none"
    BY <1>2, <1>9 DEF CareInv, EnabledAreHeld, Held
  <2>4. /\ SameNodes /\ AllIsWell' /\ ~ub'
        /\ thread' = IF n \in enabled THEN [thread EXCEPT ![n] = "running"] ELSE thread
        /\ active' = IF n \in enabled THEN active \cup {n} ELSE active
        /\ \A m \in Names : paths'[m] = <<>> <=> paths[m] = <<>>
        /\ n \in enabled => paths[n] # <<>>
    <3>1. CASE n \in enabled
      BY <3>1, <1>2, <1>3, <2>1, <2>3, ActivateWell
    <3>2. CASE n \notin enabled
      BY <3>2, <1>2, <1>3, <2>1, SparedWell DEF Spares, CareInv
    <3>3. QED
      BY <3>1, <3>2
  <2>5. \A m \in Names :
          /\ thread'[m] = IF m = n /\ n \in enabled THEN "running" ELSE thread[m]
          /\ thread[m] \in {"none", "running", "ended"}
    BY <2>4, <1>3 DEF LifeTypeOK
  <2>6. TodoIsKnown'
    BY <1>2, <1>4, <1>9, <2>1 DEF CareInv, TodoIsKnown
  <2>7. StrangersAreIdle'
    BY <1>3, <2>1, <2>4, <2>5 DEF CareInv, StrangersAreIdle
  <2>8. EnabledAreHeld'
    BY <1>2, <1>4, <1>9, <2>1, <2>2, <2>3, <2>5 DEF CareInv, EnabledAreHeld, Held
  <2>9. \A m \in Names :
          thread'[m] = "running" => paths'[m] # <<>> /\ m \in active' \cap inited'
    BY <2>1, <2>2, <2>4, <2>5 DEF CareInv, RunningAreOpen
  <2>10. \A m \in known : m \in inited' \/ (main' = "start" /\ m \in todo'.main)
    BY <1>6, <1>9, <2>1
  <2>11. QED
    BY <1>2, <1>3, <2>1, <2>4, <2>6, <2>7, <2>8, <2>9, <2>10, WellStep
<1>10. QED
  BY <1>2, <1>7, <1>8, <1>9

(* The steps of the main thread that touch no device.                       *)
LEMMA MainStepKeeps ==
  ASSUME CareInv, QueuesEmpty, listener = "wait", LifeTypeOK', ~ub',
         UNCHANGED <<plugged, events, listenVars, deviceVars>>,
         TodoIsKnown', main # "start",
         \A n \in known : Held(n)' <=> Held(n)
  PROVE  CareInv'
<1>1. /\ SameNodes /\ AllIsWell'
      /\ UNCHANGED <<plugged, known, events, newDevices, removedDevices, listener,
                     inited, enabled, active, thread, paths>>
  BY SparedWell DEF deviceVars, listenVars
<1>2. StrangersAreIdle'
  BY <1>1 DEF CareInv, StrangersAreIdle
<1>3. EnabledAreHeld'
  <2>1. \A n \in Names \ known : thread[n] = "none" /\ n \notin enabled
    BY DEF CareInv, StrangersAreIdle
  <2>2. ASSUME NEW n \in Names
        PROVE  thread'[n] # "none" <=> n \in enabled' /\ n \in inited' /\ Held(n)'
    <3>1. CASE n \in known
      <4>1. thread[n] # "none" <=> n \in enabled /\ n \in inited /\ Held(n)
        BY DEF CareInv, EnabledAreHeld
      <4>2. Held(n)' <=> Held(n)
        BY <3>1
      <4>3. QED
        BY <1>1, <4>1, <4>2
    <3>2. CASE n \notin known
      BY <1>1, <2>1, <3>2
    <3>3. QED
      BY <3>1, <3>2
  <2>3. QED
    BY <2>2 DEF EnabledAreHeld
<1>4. \A n \in Names : thread'[n] = "running" => paths'[n] # <<>> /\ n \in active' \cap inited'
  BY <1>1 DEF CareInv, RunningAreOpen
<1>5. \A n \in known : n \in inited' \/ (main' = "start" /\ n \in todo'.main)
  BY <1>1, EmptyQueues DEF CareInv, KnownAreInited, TodoIsKnown
<1>6. QED
  BY <1>1, <1>2, <1>3, <1>4, <1>5, WellStep

LEMMA MainNextKeeps ==
  ASSUME CareInv, LifeTypeOK', NEW phase, NEW next, MainNext(phase, next),
         <<phase, next>> \in {<<"start", "pause">>, <<"quit", "exited">>,
                              <<"suspend", "stopped">>, <<"resume", "return">>,
                              <<"return", "pause">>}
  PROVE  CareInv'
<1>1. /\ main = phase /\ main' = next /\ ~ub /\ ub' = ub
      /\ todo.main = {} /\ todo' = todo
      /\ UNCHANGED <<plugged, events, listenVars, deviceVars>>
  BY DEF MainNext, Goes
<1>2. main # "pause"
  BY <1>1
<1>3. QueuesEmpty /\ listener = "wait"
  BY <1>2 DEF CareInv, BusyIsQuiet, QueuesEmpty
<1>4. /\ UNCHANGED <<known, inited>>
      /\ TodoIsKnown
  BY <1>1 DEF deviceVars, CareInv
<1>5. TodoIsKnown'
  <2>1. todo'.main = {} /\ main' # "start"
    BY <1>1
  <2>2. QED
    BY <1>1, <1>4, <2>1 DEF TodoIsKnown, listenVars
<1>6. \A n : Held(n)' <=> Held(n)
  BY <1>1 DEF Held
<1>7. CASE phase # "start"
  BY <1>1, <1>3, <1>5, <1>6, <1>7, MainStepKeeps
<1>8. CASE phase = "start"
  <2>1. /\ SameNodes /\ AllIsWell'
        /\ UNCHANGED <<plugged, known, events, newDevices, removedDevices, listener,
                       inited, enabled, active, thread, paths>>
    BY <1>1, <1>3, SparedWell DEF deviceVars, listenVars
  <2>2. StrangersAreIdle'
    BY <2>1 DEF CareInv, StrangersAreIdle
  <2>3. EnabledAreHeld'
    BY <1>6, <2>1 DEF CareInv, EnabledAreHeld
  <2>4. \A n \in Names : thread'[n] = "running" => paths'[n] # <<>> /\ n \in active' \cap inited'
    BY <2>1 DEF CareInv, RunningAreOpen
  <2>5. \A n \in known : n \in inited' \/ (main' = "start" /\ n \in todo'.main)
    BY <1>1, <1>3, <2>1, EmptyQueues DEF CareInv, KnownAreInited, TodoIsKnown
  <2>6. QED
    BY <1>1, <1>3, <1>5, <2>1, <2>2, <2>3, <2>4, <2>5, WellStep
<1>9. QED
  BY <1>7, <1>8

LEMMA MainTurnsKeep ==
  ASSUME CareInv, LifeTypeOK', WakeUp \/ Continue
  PROVE  CareInv'
<1>1. /\ \/ main = "wake" /\ main' \in {"quit", "suspend"}
         \/ main = "stopped" /\ main' = "resume"
      /\ todo' = [todo EXCEPT !.main = known]
      /\ ~ub /\ ub' = ub
      /\ UNCHANGED <<plugged, events, listenVars, deviceVars>>
  BY DEF WakeUp, Continue, Goes
<1>2. QueuesEmpty /\ listener = "wait" /\ main # "start"
  BY <1>1 DEF CareInv, BusyIsQuiet, QueuesEmpty
<1>3. /\ todo'.main = known /\ todo'.listener = todo.listener
      /\ UNCHANGED <<known, inited, listener>>
      /\ TodoIsKnown
  BY <1>1 DEF deviceVars, listenVars, CareInv, LifeTypeOK
<1>4. TodoIsKnown'
  BY <1>1, <1>3 DEF TodoIsKnown
<1>5. \A n \in known : Held(n)' <=> Held(n)
  BY <1>1, <1>3 DEF Held
<1>6. QED
  BY <1>1, <1>2, <1>4, <1>5, MainStepKeeps

LEMMA SignalKeeps ==
  ASSUME CareInv, LifeTypeOK', Careful, NEW what, Signal(what)
  PROVE  CareInv'
<1>1. /\ main = "pause" /\ main' = "wake" /\ listener = "wait" /\ QueuesEmpty
      /\ ~ub /\ ub' = ub /\ todo' = todo
      /\ UNCHANGED <<plugged, events, listenVars, deviceVars>>
  BY DEF Signal, Runs, Settled, QueuesEmpty
<1>2. TodoIsKnown /\ UNCHANGED <<known, inited, listener>>
  BY <1>1 DEF deviceVars, listenVars, CareInv
<1>3. TodoIsKnown'
  BY <1>1, <1>2 DEF TodoIsKnown
<1>4. \A n \in known : Held(n)' <=> Held(n)
  BY <1>1 DEF Held
<1>5. QED
  BY <1>1, <1>3, <1>4, MainStepKeeps

LEMMA CommandsKeep ==
  ASSUME CareInv, LifeTypeOK', Careful, NEW n \in Names, Enable(n) \/ Disable(n)
  PROVE  CareInv'
<1>1. /\ main = "pause" /\ listener = "wait" /\ QueuesEmpty /\ ~ub
      /\ n \in known
      /\ UNCHANGED <<plugged, known, inited, saved, events, newDevices, removedDevices,
                     listener, main, todo>>
  BY DEF Enable, Disable, Commands, Runs, Settled, QueuesEmpty, listenVars, mainVars
<1>2. AllIsWell /\ LifeTypeOK /\ TodoIsKnown
  BY <1>1, EmptyIsWell DEF CareInv
<1>3. \A m \in known : m \in inited
  BY <1>1, EmptyQueues DEF CareInv, KnownAreInited, TodoIsKnown
<1>4. \A m \in Names : Held(m) /\ Held(m)'
  BY <1>1 DEF Held
<1>5. thread[n] = IF n \in enabled THEN "running" ELSE "none"
  <2>1. thread[n] # "none" <=> n \in enabled
    BY <1>1, <1>3, <1>4 DEF CareInv, EnabledAreHeld
  <2>2. QED
    BY <2>1, <1>2 DEF AllIsWell, LifeTypeOK
<1>6. TodoIsKnown'
  BY <1>1, <1>2 DEF TodoIsKnown
<1>7. CASE Enable(n)
  <2>1. n \notin enabled /\ Activate(n) /\ enabled' = enabled \cup {n}
    BY <1>2, <1>7 DEF Enable, AllIsWell
  <2>2. /\ SameNodes /\ AllIsWell' /\ ~ub'
        /\ thread' = [thread EXCEPT ![n] = "running"]
        /\ active' = active \cup {n}
        /\ \A m \in Names : paths'[m] = <<>> <=> paths[m] = <<>>
        /\ paths[n] # <<>>
    BY <1>1, <1>5, <2>1, ActivateWell
  <2>3. \A m \in Names : thread'[m] = IF m = n THEN "running" ELSE thread[m]
    BY <1>2, <2>2 DEF LifeTypeOK
  <2>4. StrangersAreIdle'
    BY <1>1, <2>1, <2>2, <2>3 DEF CareInv, StrangersAreIdle
  <2>5. EnabledAreHeld'
    BY <1>1, <1>3, <1>4, <2>1, <2>3 DEF CareInv, EnabledAreHeld
  <2>6. \A m \in Names : thread'[m] = "running" => paths'[m] # <<>> /\ m \in active' \cap inited'
    BY <1>1, <1>3, <2>2, <2>3 DEF CareInv, RunningAreOpen
  <2>7. \A m \in known : m \in inited' \/ (main' = "start" /\ m \in todo'.main)
    BY <1>1, <1>3
  <2>8. QED
    BY <1>1, <1>6, <2>2, <2>4, <2>5, <2>6, <2>7, WellStep
<1>8. CASE Disable(n)
  <2>1. n \in enabled /\ Deactivate(n) /\ enabled' = enabled \ {n}
    BY <1>8 DEF Disable
  <2>2. /\ SameNodes /\ AllIsWell' /\ ~ub'
        /\ thread' = [thread EXCEPT ![n] = "none"]
        /\ active' = active
        /\ \A m \in Names : paths'[m] = <<>> <=> paths[m] = <<>>
    BY <1>1, <1>5, <2>1, DeactivateWell
  <2>3. \A m \in Names : thread'[m] = IF m = n THEN "none" ELSE thread[m]
    BY <1>2, <2>2 DEF LifeTypeOK
  <2>4. StrangersAreIdle'
    BY <1>1, <2>1, <2>2, <2>3 DEF CareInv, StrangersAreIdle
  <2>5. EnabledAreHeld'
    BY <1>1, <1>4, <2>1, <2>3 DEF CareInv, EnabledAreHeld
  <2>6. \A m \in Names : thread'[m] = "running" => paths'[m] # <<>> /\ m \in active' \cap inited'
    BY <1>1, <2>2, <2>3 DEF CareInv, RunningAreOpen
  <2>7. \A m \in known : m \in inited' \/ (main' = "start" /\ m \in todo'.main)
    BY <1>1, <1>3
  <2>8. QED
    BY <1>1, <1>6, <2>2, <2>4, <2>5, <2>6, <2>7, WellStep
<1>9. QED
  BY <1>7, <1>8

-----------------------------------------------------------------------------
(* An input thread loses a node.                                            *)

LEMMA LosePathKeeps ==
  ASSUME CareInv, LifeTypeOK', NEW n \in Names, LosePath(n)
  PROVE  CareInv'
<1>1. PICK i \in DOMAIN paths[n] :
         /\ paths[n][i].fd = "dead"
         /\ paths' = [paths EXCEPT ![n] = RemoveAt(@, i)]
         /\ thread' = [thread EXCEPT ![n] = IF Len(paths[n]) = 1 THEN Ended ELSE @]
  BY DEF LosePath
<1>2. /\ thread[n] = "running" /\ ~ub
      /\ UNCHANGED <<plugged, known, inited, active, enabled, saved, events, newDevices,
                     removedDevices, listener, main, whatToDo, todo, ub>>
  BY DEF LosePath, Runs, listenVars, mainVars
<1> DEFINE q == paths[n]
           r == paths'[n]
           lost == paths[n][i].node
<1>3. LifeTypeOK /\ q \in Seq(Path)
  BY DEF CareInv, LifeTypeOK
<1>4. main = "pause" /\ n \in known
  BY <1>1, <1>2 DEF CareInv, BusyIsQuiet, StrangersAreIdle
<1>5. /\ lost \in Nodes /\ lost \notin plugged /\ NameOf[lost] = n /\ Leaving(lost)
  <2>1. lost \in Nodes
    BY <1>3, PathsTyped
  <2>2. lost \notin plugged /\ (Told("delete", lost) \/ Stale(lost))
    BY <1>1, <2>1 DEF CareInv, DeadAreLeaving
  <2>3. NameOf[lost] = n
    BY DEF CareInv, PathsAreNamed
  <2>4. QED
    BY <2>1, <2>2, <2>3 DEF Leaving
<1>6. /\ r = RemoveAt(q, i)
      /\ \A m \in Names : m # n => paths'[m] = paths[m] /\ thread'[m] = thread[m]
      /\ thread'[n] = IF Len(q) = 1 THEN "ended" ELSE "running"
  BY <1>1, <1>2, <1>3 DEF LifeTypeOK, Ended
<1>7. /\ Len(q) \in Nat /\ DOMAIN q = 1..Len(q) /\ i \in 1..Len(q)
      /\ r \in Seq(Path) /\ Len(r) = Len(q) - 1 /\ DOMAIN r = 1..(Len(q) - 1)
      /\ \A j \in 1..(Len(q) - 1) : r[j] = IF j < i THEN q[j] ELSE q[j + 1]
  <2>1. Len(q) \in Nat /\ DOMAIN q = 1..Len(q)
    BY <1>3, Positions
  <2>2. /\ r \in Seq(Path) /\ Len(r) = Len(q) - 1
        /\ \A j \in 1..(Len(q) - 1) : r[j] = IF j < i THEN q[j] ELSE q[j + 1]
    BY <1>3, <1>6, RemoveAtProperties
  <2>3. QED
    BY <2>1, <2>2, Positions
<1> HIDE DEF q, r, lost
<1>8. /\ \A j \in DOMAIN r : \E k \in DOMAIN q : k # i /\ r[j] = q[k]
      /\ \A k \in DOMAIN q : k # i => \E j \in DOMAIN r : r[j] = q[k]
      /\ \A j, l \in DOMAIN r : j # l =>
           \E k, m \in DOMAIN q : k # m /\ r[j] = q[k] /\ r[l] = q[m]
  <2> DEFINE pos(j) == IF j < i THEN j ELSE j + 1
  <2>1. \A j \in DOMAIN r : pos(j) \in DOMAIN q /\ pos(j) # i /\ r[j] = q[pos(j)]
    BY <1>7
  <2>2. \A j, l \in DOMAIN r : j # l => pos(j) # pos(l)
    BY <1>7
  <2>3. ASSUME NEW k \in DOMAIN q, k # i
        PROVE  \E j \in DOMAIN r : r[j] = q[k]
    <3>1. CASE k < i
      <4>1. k \in 1..(Len(q) - 1) /\ r[k] = q[k]
        BY <1>7, <3>1
      <4>2. QED
        BY <1>7, <4>1
    <3>2. CASE k > i
      <4>1. k - 1 \in 1..(Len(q) - 1) /\ r[k - 1] = q[(k - 1) + 1] /\ (k - 1) + 1 = k
        BY <1>7, <3>2
      <4>2. QED
        BY <1>7, <4>1
    <3>3. QED
      BY <1>7, <2>3, <3>1, <3>2
  <2> HIDE DEF pos
  <2>4. QED
    BY <2>1, <2>2, <2>3
<1>9. r = <<>> <=> Len(q) = 1
  BY <1>7, EmptySeq
<1>10. /\ \A e : Leaving(e)' <=> Leaving(e)
       /\ \A e : Told("delete", e)' <=> Told("delete", e)
       /\ \A e : Told("create", e)' <=> Told("create", e)
       /\ \A e : Fresh(e)' <=> Fresh(e)
       /\ \A e : Stale(e)' <=> Stale(e)
       /\ \A e : Silent(e)' <=> Silent(e)
       /\ \A e : Latest("create", e)' <=> Latest("create", e)
       /\ \A e : Latest("delete", e)' <=> Latest("delete", e)
  BY <1>2, SameQueues
<1>11. /\ \A e \in Nodes : Listed(e)' => Listed(e)
       /\ \A e \in plugged : e \in Nodes /\ Listed(e) => Listed(e)'
  <2>1. \A m \in Names : m # n => NodesOf(m)' = NodesOf(m)
    BY <1>6 DEF NodesOf
  <2>2. NodesOf(n)' = {r[j].node : j \in DOMAIN r} /\ NodesOf(n) = {q[j].node : j \in DOMAIN q}
    BY DEF NodesOf, r, q
  <2>3. NodesOf(n)' \subseteq NodesOf(n)
    BY <1>8, <2>2
  <2>4. \A e \in NodesOf(n) : e # lost => e \in NodesOf(n)'
    BY <1>8, <2>2 DEF lost, q
  <2>5. QED
    BY <1>5, <2>1, <2>3, <2>4, NamesAreTyped DEF Listed
<1>12. BusyIsQuiet' /\ TodoIsKnown' /\ SortingIsCalm'
  <2>1. TodoIsKnown /\ SortingIsCalm
    BY DEF CareInv
  <2>2. QED
    BY <1>2, <1>4, <1>10, <2>1 DEF BusyIsQuiet, TodoIsKnown, SortingIsCalm
<1>13. PathsAreNamed'
  <2>1. ASSUME NEW m \in Names, NEW j \in DOMAIN paths'[m]
        PROVE  /\ NameOf[paths'[m][j].node] = m
               /\ \A l \in DOMAIN paths'[m] : paths'[m][j].node = paths'[m][l].node => j = l
    <3>1. CASE m = n
      BY <1>8, <3>1, <2>1 DEF CareInv, PathsAreNamed, q, r
    <3>2. CASE m # n
      BY <1>6, <3>2, <2>1 DEF CareInv, PathsAreNamed
    <3>3. QED
      BY <3>1, <3>2
  <2>2. QED
    BY <2>1 DEF PathsAreNamed
<1>14. StrangersAreIdle'
  BY <1>2, <1>4, <1>6 DEF CareInv, StrangersAreIdle
<1>15. RunningAreOpen'
  <2>1. ASSUME NEW m \in Names
        PROVE  /\ thread'[m] = "running" => paths'[m] # <<>>
               /\ thread'[m] # "none" => m \in active' \cap inited'
               /\ \A j \in DOMAIN paths'[m] :
                    paths'[m][j].fd = "closed" <=> thread'[m] # "running"
    <3>1. CASE m = n
      <4>1. n \in active /\ n \in inited /\ \A j \in DOMAIN q : q[j].fd # "closed"
        BY <1>2 DEF CareInv, RunningAreOpen, q
      <4>2. \A j \in DOMAIN r : r[j].fd # "closed"
        BY <1>8, <4>1
      <4>3. thread'[n] = "ended" => DOMAIN r = {}
        BY <1>6, <1>7
      <4>4. QED
        BY <1>2, <1>6, <1>9, <3>1, <4>1, <4>2, <4>3 DEF r
    <3>2. CASE m # n
      BY <1>2, <1>6, <3>2 DEF CareInv, RunningAreOpen
    <3>3. QED
      BY <3>1, <3>2
  <2>2. QED
    BY <2>1 DEF RunningAreOpen
<1>16. EndedHaveLost'
  <2>1. ASSUME NEW m \in known
        PROVE  /\ paths'[m] = <<>> <=> thread'[m] = "ended"
               /\ thread'[m] = "ended" => \E e \in Nodes : NameOf[e] = m /\ Leaving(e)'
    <3>1. m \in Names
      BY <1>3 DEF LifeTypeOK
    <3>2. CASE m = n
      BY <1>5, <1>6, <1>9, <1>10, <3>2 DEF r
    <3>3. CASE m # n
      BY <1>6, <1>10, <3>1, <3>3 DEF CareInv, EndedHaveLost
    <3>4. QED
      BY <3>2, <3>3
  <2>2. QED
    BY <1>2, <2>1 DEF EndedHaveLost
<1>17. DeadAreLeaving'
  <2>1. \A m \in Names : \A j \in DOMAIN paths'[m] : \E k \in DOMAIN paths[m] : paths'[m][j] = paths[m][k]
    BY <1>6, <1>8 DEF q, r
  <2>2. ASSUME NEW m \in Names, NEW e \in Nodes, NEW j \in DOMAIN paths'[m],
               paths'[m][j].node = e
        PROVE  /\ paths'[m][j].fd = "dead" =>
                    e \notin plugged /\ (Told("delete", e) \/ (listener = "wait" /\ Stale(e)))
               /\ m \in active /\ Leaving(e) => paths'[m][j].fd = "dead"
    BY <2>1, <2>2 DEF CareInv, DeadAreLeaving
  <2>3. QED
    BY <1>2, <1>10, <2>2 DEF DeadAreLeaving
<1>18. QueuesAreTrue' /\ FreshAreNew'
  <2>1. QueuesAreTrue /\ FreshAreNew
    BY DEF CareInv
  <2>2. QueuesAreTrue'
    BY <1>2, <1>10, <1>11, <2>1 DEF QueuesAreTrue
  <2>3. FreshAreNew'
    BY <1>2, <1>10, <1>11, <2>1 DEF FreshAreNew
  <2>4. QED
    BY <2>2, <2>3
<1>19. NewsAreNew'
  <2>1. NewsAreNew /\ \A j \in DOMAIN events : events[j].node \in Nodes
    BY <1>3, EventsTyped DEF CareInv
  <2>2. QED
    BY <1>2, <1>10, <1>11, <2>1 DEF NewsAreNew
<1>20. FreshAreIdle'
  <2>1. FreshAreIdle
    BY DEF CareInv
  <2>2. \A e \in Nodes : Fresh(e) \/ Told("create", e) => thread'[NameOf[e]] = thread[NameOf[e]]
    BY <1>2, <1>6, <2>1, NamesAreTyped DEF FreshAreIdle
  <2>3. QED
    BY <1>2, <1>10, <2>1, <2>2 DEF FreshAreIdle
<1>21. EnabledAreHeld'
  <2>1. \A m \in Names : (thread'[m] # "none" <=> thread[m] # "none") /\ (Held(m)' <=> Held(m))
    BY <1>2, <1>6 DEF Held
  <2>2. QED
    BY <1>2, <2>1 DEF CareInv, EnabledAreHeld
<1>22. KnownAreInited'
  BY <1>2, <1>10 DEF CareInv, KnownAreInited
<1>23. QED
  BY <1>2, <1>12, <1>13, <1>14, <1>15, <1>16, <1>17, <1>18, <1>19, <1>20, <1>21, <1>22
     DEF CareInv

-----------------------------------------------------------------------------
(* The listener reads.                                                      *)

LEMMA WatchKeeps ==
  ASSUME CareInv, LifeTypeOK', Burst = 1, Watch
  PROVE  CareInv'
<1> DEFINE L == Len(events)
<1>1. /\ listener = "wait" /\ ~ub /\ events # <<>>
      /\ events' = SubSeq(events, 2, L)
      /\ UNCHANGED <<plugged, main, whatToDo, known, paths, thread, inited, active,
                     enabled, saved, listener, todo, ub>>
  BY DEF Watch, Listens, Runs, mainVars, deviceVars
<1>2. /\ LifeTypeOK
      /\ main = "pause"
      /\ newDevices \in Seq(Nodes) /\ removedDevices \in Seq(Nodes)
  BY <1>1 DEF CareInv, BusyIsQuiet, LifeTypeOK
<1>3. /\ L \in Nat /\ 1 \in 1..L /\ DOMAIN events = 1..L
      /\ \A i \in 1..L : events[i].mask \in {"create", "delete"} /\ events[i].node \in Nodes
  BY <1>1, <1>2, EventsTyped, EmptySeq DEF LifeTypeOK
<1>4. /\ DOMAIN events' = 1..(L - 1)
      /\ \A i \in 1..(L - 1) : events'[i] = events[i + 1]
  <2>1. events \in Seq(Notice)
    BY <1>2 DEF LifeTypeOK
  <2>2. /\ events' \in Seq(Notice) /\ Len(events') = L - 1
        /\ \A i \in 1..(L - 1) : events'[i] = events[i + 1]
    BY <1>1, <1>3, <2>1, QueueRead
  <2>3. QED
    BY <2>2, Positions
<1>5. PICK e0 \in Nodes : e0 = events[1].node
  BY <1>3
<1>6. /\ events[1].mask = "create" =>
           newDevices' = Append(newDevices, e0) /\ removedDevices' = removedDevices
      /\ events[1].mask = "delete" =>
           /\ newDevices' = Erased(newDevices, e0)
           /\ removedDevices' = Append(removedDevices, e0)
  <2>1. Head(events) = events[1]
    BY <1>1
  <2>2. QED
    BY <1>5, <2>1 DEF Watch
<1> HIDE DEF L
<1>7. \A i \in 1..L : i = 1 \/ (i - 1 \in 1..(L - 1) /\ events[i] = events'[i - 1])
  <2>1. TAKE i \in 1..L
  <2>2. CASE i # 1
    <3>1. i - 1 \in 1..(L - 1) /\ (i - 1) + 1 = i
      BY <1>3, <2>2
    <3>2. QED
      BY <1>4, <3>1
  <2>3. QED
    BY <2>2
<1>8. \A i \in 1..(L - 1) : i + 1 \in 1..L /\ i + 1 # 1 /\ events'[i] = events[i + 1]
  BY <1>3, <1>4
(* What was told of nodes.                                                  *)
<1>9. \A e : /\ Told("create", e)' => Told("create", e)
             /\ Told("delete", e)' => Told("delete", e)
             /\ Told("delete", e) => Told("delete", e)' \/ (events[1].mask = "delete" /\ e = e0)
  <2>1. ASSUME NEW e, NEW mask, Told(mask, e)'
        PROVE  Told(mask, e)
    <3>1. PICK i \in 1..(L - 1) : events'[i].mask = mask /\ events'[i].node = e
      BY <1>4, <2>1 DEF Told
    <3>2. QED
      BY <1>3, <1>8, <3>1 DEF Told
  <2>2. ASSUME NEW e, Told("delete", e)
        PROVE  Told("delete", e)' \/ (events[1].mask = "delete" /\ e = e0)
    <3>1. PICK i \in 1..L : events[i].mask = "delete" /\ events[i].node = e
      BY <1>3, <2>2 DEF Told
    <3>2. CASE i = 1
      BY <1>5, <3>1, <3>2
    <3>3. CASE i # 1
      <4>1. i - 1 \in DOMAIN events' /\ events[i] = events'[i - 1]
        BY <1>4, <1>7, <3>3
      <4>2. QED
        BY <3>1, <4>1 DEF Told
    <3>4. QED
      BY <3>2, <3>3
  <2>3. QED
    BY <2>1, <2>2
<1>10. \A e : /\ Silent(e) => Silent(e)'
              /\ Silent(e)' /\ e # e0 => Silent(e)
  <2>1. ASSUME NEW e, Silent(e)
        PROVE  Silent(e)'
    BY <1>3, <1>4, <1>8, <2>1 DEF Silent
  <2>2. ASSUME NEW e, Silent(e)', e # e0
        PROVE  Silent(e)
    <3>1. \A i \in 1..(L - 1) : events'[i].node # e
      BY <1>4, <2>2 DEF Silent
    <3>2. \A i \in 1..L : events[i].node # e
      BY <1>5, <1>7, <2>2, <3>1
    <3>3. QED
      BY <1>3, <3>2 DEF Silent
  <2>3. QED
    BY <2>1, <2>2
<1>11. \A e : e # e0 =>
         /\ Latest("create", e) => Latest("create", e)'
         /\ Latest("delete", e) => Latest("delete", e)'
  <2>1. TAKE e
  <2>2. HAVE e # e0
  <2>3. ASSUME NEW mask, Latest(mask, e)
        PROVE  Latest(mask, e)'
    <3>1. PICK i \in 1..L : /\ events[i].mask = mask /\ events[i].node = e
                            /\ \A j \in 1..L : j > i => events[j].node # e
      BY <1>3, <2>3 DEF Latest
    <3>2. i - 1 \in 1..(L - 1) /\ events[i] = events'[i - 1]
      BY <1>5, <1>7, <2>2, <3>1
    <3>3. \A j \in 1..(L - 1) : j > i - 1 => events'[j].node # e
      BY <1>8, <3>1
    <3>4. QED
      BY <1>4, <3>1, <3>2, <3>3 DEF Latest
  <2>4. QED
    BY <2>3
<1>12. /\ ~Silent(e0)
       /\ \A mask \in {"create", "delete"} :
            Latest(mask, e0) => Latest(mask, e0)' \/ (events[1].mask = mask /\ Silent(e0)')
  <2>1. ~Silent(e0)
    BY <1>3, <1>5 DEF Silent
  <2>2. ASSUME NEW mask \in {"create", "delete"}, Latest(mask, e0)
        PROVE  Latest(mask, e0)' \/ (events[1].mask = mask /\ Silent(e0)')
    <3>1. PICK i \in 1..L : /\ events[i].mask = mask /\ events[i].node = e0
                            /\ \A j \in 1..L : j > i => events[j].node # e0
      BY <1>3, <2>2 DEF Latest
    <3>2. CASE i = 1
      <4>1. \A j \in 1..(L - 1) : events'[j].node # e0
        BY <1>3, <1>8, <3>1, <3>2
      <4>2. Silent(e0)'
        BY <1>4, <4>1 DEF Silent
      <4>3. QED
        BY <3>1, <3>2, <4>2
    <3>3. CASE i # 1
      <4>1. i - 1 \in 1..(L - 1) /\ events[i] = events'[i - 1]
        BY <1>7, <3>3
      <4>2. \A j \in 1..(L - 1) : j > i - 1 => events'[j].node # e0
        BY <1>8, <3>1
      <4>3. QED
        BY <1>4, <3>1, <4>1, <4>2 DEF Latest
    <3>4. QED
      BY <3>2, <3>3
  <2>3. QED
    BY <2>1, <2>2
(* The queues it moves between.                                             *)
<1>13. /\ \A e : e # e0 => (Fresh(e)' <=> Fresh(e)) /\ (Stale(e)' <=> Stale(e))
       /\ events[1].mask = "create" => Fresh(e0)' /\ (Stale(e0)' <=> Stale(e0))
       /\ events[1].mask = "delete" => ~Fresh(e0)' /\ Stale(e0)'
  <2>1. CASE events[1].mask = "create"
    <3>1. Range(newDevices') = Range(newDevices) \cup {e0} /\ removedDevices' = removedDevices
      BY <1>2, <1>6, <2>1, AppendRange
    <3>2. QED
      BY <2>1, <3>1 DEF Fresh, Stale
  <2>2. CASE events[1].mask = "delete"
    <3>1. /\ Range(newDevices') = Range(newDevices) \ {e0}
          /\ Range(removedDevices') = Range(removedDevices) \cup {e0}
      BY <1>2, <1>6, <2>2, AppendRange, ErasedProperties
    <3>2. QED
      BY <2>2, <3>1 DEF Fresh, Stale
  <2>3. QED
    BY <1>3, <2>1, <2>2
<1>14. \A e : Leaving(e)' <=> Leaving(e)
  <2>1. events[1].mask = "delete" => Told("delete", e0)
    BY <1>3, <1>5 DEF Told
  <2>2. QED
    BY <1>3, <1>9, <1>13, <2>1 DEF Leaving
<1>15. \A e \in Nodes : Listed(e)' <=> Listed(e)
  BY <1>1 DEF Listed, NodesOf
(* The head of the queue is news if it announces a node.                    *)
<1>16. events[1].mask = "create" => ~Fresh(e0) /\ (Listed(e0) => Stale(e0))
  <2>1. SUFFICES ASSUME events[1].mask = "create", Fresh(e0) \/ (Listed(e0) /\ ~Stale(e0))
                 PROVE  FALSE
    OBVIOUS
  <2>2. \E k \in 1..(1 - 1) : events[k].mask = "delete" /\ events[k].node = e0
    BY <1>3, <1>5, <2>1 DEF CareInv, NewsAreNew
  <2>3. QED
    BY <2>2
<1>17. BusyIsQuiet' /\ TodoIsKnown' /\ SortingIsCalm' /\ PathsAreNamed' /\ StrangersAreIdle' /\ RunningAreOpen'
  BY <1>1, <1>2 DEF CareInv, BusyIsQuiet, TodoIsKnown, SortingIsCalm, PathsAreNamed,
     StrangersAreIdle, RunningAreOpen
<1>18. EndedHaveLost' /\ KnownAreInited'
  BY <1>1, <1>14 DEF CareInv, EndedHaveLost, KnownAreInited
<1>19. DeadAreLeaving'
  <2>1. ASSUME NEW n \in Names, NEW e \in Nodes, NEW i \in DOMAIN paths[n],
               paths[n][i].node = e
        PROVE  /\ paths[n][i].fd = "dead" => e \notin plugged /\ Leaving(e)'
               /\ n \in active /\ Leaving(e)' => paths[n][i].fd = "dead"
    BY <1>1, <1>14, <2>1 DEF CareInv, DeadAreLeaving, Leaving
  <2>2. QED
    BY <1>1, <2>1 DEF DeadAreLeaving, Leaving
<1>20. QueuesAreTrue'
  <2>1. ASSUME NEW e \in Nodes
        PROVE  /\ e \in plugged =>
                    \/ Latest("create", e)'
                    \/ Silent(e)' /\ (Fresh(e)' \/ (Listed(e)' /\ ~Stale(e)'))
               /\ e \notin plugged =>
                    \/ Latest("delete", e)'
                    \/ Silent(e)' /\ ~Fresh(e)' /\ (Listed(e)' => Stale(e)')
    <3>1. /\ e \in plugged =>
               \/ Latest("create", e)
               \/ Silent(e) /\ (Fresh(e) \/ (Listed(e) /\ ~Stale(e)))
          /\ e \notin plugged =>
               \/ Latest("delete", e)
               \/ Silent(e) /\ ~Fresh(e) /\ (Listed(e) => Stale(e))
      BY DEF CareInv, QueuesAreTrue
    <3>2. CASE e # e0
      BY <1>10, <1>11, <1>13, <1>15, <3>1, <3>2
    <3>3. CASE e = e0
      BY <1>3, <1>12, <1>13, <3>1, <3>3
    <3>4. QED
      BY <3>2, <3>3
  <2>2. QED
    BY <1>1, <2>1 DEF QueuesAreTrue
<1>21. NewsAreNew'
  <2>1. ASSUME NEW e \in Nodes, NEW i \in DOMAIN events',
               events'[i].mask = "create", events'[i].node = e
        PROVE  /\ \A j \in 1..(i - 1) :
                    events'[j].mask = "create" /\ events'[j].node = e =>
                      \E k \in (j + 1)..(i - 1) :
                        events'[k].mask = "delete" /\ events'[k].node = e
               /\ Fresh(e)' \/ (Listed(e)' /\ ~Stale(e)') =>
                    \E k \in 1..(i - 1) : events'[k].mask = "delete" /\ events'[k].node = e
    <3>1. i \in 1..(L - 1) /\ i + 1 \in 1..L /\ events'[i] = events[i + 1]
      BY <1>3, <1>4, <1>8
    <3>2. /\ \A j \in 1..((i + 1) - 1) :
               events[j].mask = "create" /\ events[j].node = e =>
                 \E k \in (j + 1)..((i + 1) - 1) :
                   events[k].mask = "delete" /\ events[k].node = e
          /\ Fresh(e) \/ (Listed(e) /\ ~Stale(e)) =>
               \E k \in 1..((i + 1) - 1) : events[k].mask = "delete" /\ events[k].node = e
      BY <1>3, <2>1, <3>1 DEF CareInv, NewsAreNew
    <3>3. (i + 1) - 1 = i /\ i \in Nat
      BY <3>1
    <3>4. ASSUME NEW a \in Nat, NEW k \in (a + 1)..i, a > 0,
                 events[k].mask = "delete" /\ events[k].node = e
          PROVE  \E l \in a..(i - 1) : events'[l].mask = "delete" /\ events'[l].node = e
      <4>1. k \in 1..L /\ k # 1 /\ k - 1 \in a..(i - 1)
        BY <1>3, <3>1, <3>4
      <4>2. events[k] = events'[k - 1]
        BY <1>7, <4>1
      <4>3. QED
        BY <3>4, <4>1, <4>2
    <3>5. ASSUME NEW j \in 1..(i - 1), events'[j].mask = "create", events'[j].node = e
          PROVE  \E k \in (j + 1)..(i - 1) :
                   events'[k].mask = "delete" /\ events'[k].node = e
      <4>1. /\ j + 1 \in 1..((i + 1) - 1) /\ j + 1 \in Nat /\ j + 1 > 0
            /\ j \in 1..(L - 1)
        BY <1>3, <3>1
      <4>2. events[j + 1].mask = "create" /\ events[j + 1].node = e
        BY <1>8, <3>5, <4>1
      <4>3. PICK k \in ((j + 1) + 1)..((i + 1) - 1) :
               events[k].mask = "delete" /\ events[k].node = e
        BY <3>2, <4>1, <4>2
      <4>4. QED
        BY <3>3, <3>4, <4>1, <4>3
    <3>6. ASSUME Fresh(e)' \/ (Listed(e)' /\ ~Stale(e)')
          PROVE  \E k \in 1..(i - 1) : events'[k].mask = "delete" /\ events'[k].node = e
      <4>1. CASE e # e0
        <5>1. Fresh(e) \/ (Listed(e) /\ ~Stale(e))
          BY <1>13, <1>15, <3>6, <4>1
        <5>2. PICK k \in 1..((i + 1) - 1) : events[k].mask = "delete" /\ events[k].node = e
          BY <3>2, <5>1
        <5>3. k # 1
          BY <1>5, <4>1, <5>2
        <5>4. k \in (1 + 1)..i
          BY <3>3, <5>2, <5>3
        <5>5. QED
          BY <3>4, <5>2, <5>4
      <4>2. CASE e = e0
        <5>1. events[1].mask = "create"
          BY <1>3, <1>13, <3>6, <4>2
        <5>2. 1 \in 1..((i + 1) - 1)
          BY <3>1
        <5>3. PICK k \in (1 + 1)..((i + 1) - 1) : events[k].mask = "delete" /\ events[k].node = e
          BY <1>5, <3>2, <4>2, <5>1, <5>2
        <5>4. k \in (1 + 1)..i /\ 1 \in Nat
          BY <3>3, <5>3
        <5>5. QED
          BY <3>4, <5>3, <5>4
      <4>3. QED
        BY <4>1, <4>2
    <3>7. QED
      BY <3>5, <3>6
  <2>2. QED
    BY <2>1 DEF NewsAreNew
<1>22. FreshAreNew'
  <2>1. \A e \in Nodes : Fresh(e)' /\ Listed(e)' => Stale(e)'
    <3>1. \A e \in Nodes : Fresh(e) /\ Listed(e) => Stale(e)
      BY DEF CareInv, FreshAreNew
    <3>2. QED
      BY <1>3, <1>13, <1>15, <1>16, <3>1
  <2>2. \A i, j \in DOMAIN newDevices : newDevices[i] = newDevices[j] => i = j
    BY DEF CareInv, FreshAreNew
  <2>3. \A i, j \in DOMAIN newDevices' : newDevices'[i] = newDevices'[j] => i = j
    <3>1. CASE events[1].mask = "create"
      <4> DEFINE n == Len(newDevices)
                 r == newDevices'
      <4>1. /\ n \in Nat /\ DOMAIN newDevices = 1..n
            /\ DOMAIN r = 1..(n + 1) /\ r[n + 1] = e0
            /\ \A i \in DOMAIN newDevices : r[i] = newDevices[i]
        BY <1>2, <1>6, <3>1, AppendEntries, Positions
      <4>2. \A i \in DOMAIN newDevices : newDevices[i] # e0
        BY <1>16, <3>1 DEF Fresh, Range
      <4> HIDE DEF r, n
      <4>3. \A i \in DOMAIN r : i \in DOMAIN newDevices \/ i = n + 1
        BY <4>1
      <4>4. \A i, j \in DOMAIN r : r[i] = r[j] => i = j
        BY <2>2, <4>1, <4>2, <4>3
      <4>5. QED
        BY <4>4 DEF r
    <3>2. CASE events[1].mask = "delete"
      BY <1>2, <1>6, <2>2, <3>2, ErasedProperties
    <3>3. QED
      BY <1>3, <3>1, <3>2
  <2>4. QED
    BY <2>1, <2>3 DEF FreshAreNew
<1>23. FreshAreIdle'
  <2>1. \A e \in Nodes : Fresh(e)' => Fresh(e) \/ Told("create", e)
    <3>1. events[1].mask = "create" => Told("create", e0)
      BY <1>3, <1>5 DEF Told
    <3>2. QED
      BY <1>3, <1>13, <3>1
  <2>2. QED
    BY <1>1, <1>9, <2>1 DEF CareInv, FreshAreIdle
<1>24. EnabledAreHeld'
  <2>1. \A n : Held(n)' <=> Held(n)
    BY <1>1 DEF Held
  <2>2. QED
    BY <1>1, <2>1 DEF CareInv, EnabledAreHeld
<1>25. ~ub'
  BY <1>1
<1>26. QED
  BY <1>17, <1>18, <1>19, <1>20, <1>21, <1>22, <1>23, <1>24, <1>25 DEF CareInv

-----------------------------------------------------------------------------
(* The listener goes from one of its phases to the next.                    *)

LEMMA PhaseKeeps ==
  ASSUME CareInv, LifeTypeOK', main = "pause",
         UNCHANGED <<plugged, deviceVars, events, newDevices, removedDevices, main, ub>>,
         TodoIsKnown', SortingIsCalm', DeadAreLeaving', FreshAreIdle', KnownAreInited'
  PROVE  CareInv'
<1>1. UNCHANGED <<known, paths, thread, inited, active, enabled, saved>>
  BY DEF deviceVars
<1>2. SameNodes
  BY <1>1 DEF SameNodes
<1>3. PathsAreNamed' /\ QueuesAreTrue' /\ NewsAreNew' /\ FreshAreNew'
  BY <1>2, SameNodesKept
<1>4. BusyIsQuiet' /\ ~ub'
  BY DEF BusyIsQuiet, CareInv
<1>5. StrangersAreIdle' /\ RunningAreOpen'
  BY <1>1 DEF CareInv, StrangersAreIdle, RunningAreOpen
<1>6. EndedHaveLost'
  <2>1. EndedHaveLost
    BY DEF CareInv
  <2>2. QED
    BY <1>1, <2>1, SameQueues DEF EndedHaveLost
<1>7. EnabledAreHeld'
  <2>1. \A n : Held(n)' <=> Held(n)
    BY DEF Held
  <2>2. QED
    BY <1>1, <2>1 DEF CareInv, EnabledAreHeld
<1>8. QED
  BY <1>3, <1>4, <1>5, <1>6, <1>7 DEF CareInv

LEMMA SortKeeps ==
  ASSUME CareInv, LifeTypeOK', Sort
  PROVE  CareInv'
<1>1. /\ listener = "wait" /\ events = <<>> /\ listener' = "remove"
      /\ \A n \in Names : ~NoticesLoss(n)
      /\ removedDevices # <<>> \/ newDevices # <<>>
      /\ UNCHANGED <<plugged, deviceVars, events, newDevices, removedDevices, main, todo, ub>>
  BY DEF Sort, Listens, Unsettled, mainVars
<1>2. UNCHANGED <<known, paths, thread, inited, active, enabled, saved>>
  BY <1>1 DEF deviceVars
<1>3. main = "pause" /\ LifeTypeOK
  BY <1>1 DEF CareInv, BusyIsQuiet
<1>4. \A mask, e : ~Told(mask, e)
  BY <1>1 DEF Told
<1>5. TodoIsKnown' /\ SortingIsCalm'
  <2>1. TodoIsKnown
    BY DEF CareInv
  <2>2. TodoIsKnown'
    BY <1>1, <1>2, <2>1 DEF TodoIsKnown
  <2>3. SortingIsCalm'
    BY <1>1 DEF SortingIsCalm, Told
  <2>4. QED
    BY <2>2, <2>3
(* The threads have noticed what they lost.                                 *)
<1>6. \A n \in Names : \A i \in DOMAIN paths[n] : paths[n][i].fd # "dead"
  BY <1>1 DEF NoticesLoss, CareInv, RunningAreOpen
<1>7. DeadAreLeaving'
  BY <1>1, <1>2, <1>6, SameQueues DEF CareInv, DeadAreLeaving
(* A thread that has ended was told of by the events sorted now.            *)
<1>8. FreshAreIdle'
  <2>1. ASSUME NEW e \in Nodes, thread[NameOf[e]] = "ended"
        PROVE  removedDevices # <<>>
    <3>1. NameOf[e] \in Names /\ NameOf[e] \in known
      BY <2>1, NamesAreTyped DEF CareInv, StrangersAreIdle
    <3>2. PICK f \in Nodes : Leaving(f)
      BY <2>1, <3>1 DEF CareInv, EndedHaveLost
    <3>3. f \in Range(removedDevices)
      BY <1>4, <3>2 DEF Leaving, Stale
    <3>4. QED
      BY <3>3 DEF Range
  <2>2. QED
    BY <1>1, <1>2, <2>1, SameQueues DEF CareInv, FreshAreIdle
<1>9. KnownAreInited'
  BY <1>1 DEF KnownAreInited
<1>10. QED
  BY <1>1, <1>3, <1>5, <1>7, <1>8, <1>9, PhaseKeeps

LEMMA SortedKeeps ==
  ASSUME CareInv, LifeTypeOK', Sorted
  PROVE  CareInv'
<1>1. /\ listener = "remove" /\ listener' = "start"
      /\ removedDevices = <<>> /\ newDevices = <<>>
      /\ todo' = [todo EXCEPT !.listener = known \ inited]
      /\ UNCHANGED <<plugged, deviceVars, events, newDevices, removedDevices, main, ub>>
  BY DEF Sorted, Listens, mainVars
<1>2. UNCHANGED <<known, paths, thread, inited, active, enabled, saved>>
  BY <1>1 DEF deviceVars
<1>3. main = "pause" /\ LifeTypeOK
  BY <1>1 DEF CareInv, BusyIsQuiet
<1>4. todo'.main = todo.main /\ todo'.listener = known \ inited
  BY <1>1, <1>3 DEF LifeTypeOK
<1>5. TodoIsKnown'
  <2>1. TodoIsKnown
    BY DEF CareInv
  <2>2. QED
    BY <1>1, <1>2, <1>4, <2>1 DEF TodoIsKnown
<1>6. SortingIsCalm'
  <2>1. \A e \in Nodes : ~Told("create", e)
    BY <1>1 DEF CareInv, SortingIsCalm
  <2>2. \A e : Told("create", e)' <=> Told("create", e)
    BY <1>1, SameQueues
  <2>3. QED
    BY <1>1, <2>1, <2>2 DEF SortingIsCalm
<1>7. \A e : ~Stale(e) /\ ~Fresh(e)
  BY <1>1 DEF Stale, Fresh, Range
<1>8. DeadAreLeaving'
  <2>1. DeadAreLeaving
    BY DEF CareInv
  <2>2. QED
    BY <1>1, <1>2, <1>7, <2>1, SameQueues DEF DeadAreLeaving
<1>9. FreshAreIdle'
  <2>1. FreshAreIdle
    BY DEF CareInv
  <2>2. QED
    BY <1>1, <1>2, <2>1, SameQueues DEF FreshAreIdle
<1>10. KnownAreInited'
  BY <1>2, <1>4 DEF KnownAreInited
<1>11. QED
  BY <1>1, <1>3, <1>5, <1>6, <1>8, <1>9, <1>10, PhaseKeeps

LEMMA WaitAgainKeeps ==
  ASSUME CareInv, LifeTypeOK', WaitAgain
  PROVE  CareInv'
<1>1. /\ listener = "start" /\ listener' = "wait" /\ todo.listener = {}
      /\ UNCHANGED <<plugged, deviceVars, events, newDevices, removedDevices, main, todo, ub>>
  BY DEF WaitAgain, Listens, mainVars
<1>2. UNCHANGED <<known, paths, thread, inited, active, enabled, saved>>
  BY <1>1 DEF deviceVars
<1>3. main = "pause" /\ LifeTypeOK
  BY <1>1 DEF CareInv, BusyIsQuiet
<1>4. TodoIsKnown'
  <2>1. TodoIsKnown
    BY DEF CareInv
  <2>2. QED
    BY <1>1, <1>2, <2>1 DEF TodoIsKnown
<1>5. SortingIsCalm'
  BY <1>1 DEF SortingIsCalm
<1>6. DeadAreLeaving'
  <2>1. DeadAreLeaving
    BY DEF CareInv
  <2>2. QED
    BY <1>1, <1>2, <2>1, SameQueues DEF DeadAreLeaving
<1>7. FreshAreIdle'
  <2>1. FreshAreIdle
    BY DEF CareInv
  <2>2. QED
    BY <1>1, <1>2, <2>1, SameQueues DEF FreshAreIdle
<1>8. KnownAreInited'
  <2>1. KnownAreInited
    BY DEF CareInv
  <2>2. QED
    BY <1>1, <1>2, <1>3, <2>1, SameQueues DEF KnownAreInited
<1>9. QED
  BY <1>1, <1>3, <1>4, <1>5, <1>6, <1>7, <1>8, PhaseKeeps

-----------------------------------------------------------------------------
(* The listener sorts.                                                      *)

LEMMA QueueHead ==
  ASSUME NEW T, NEW q \in Seq(T), q # <<>>
  PROVE  /\ Head(q) \in T /\ Tail(q) \in Seq(T)
         /\ Head(q) = q[1] /\ 1 \in DOMAIN q
         /\ DOMAIN Tail(q) = 1..(Len(q) - 1)
         /\ \A i \in 1..(Len(q) - 1) : i + 1 \in DOMAIN q /\ Tail(q)[i] = q[i + 1]
         /\ \A i \in DOMAIN q : i = 1 \/ (i - 1 \in DOMAIN Tail(q) /\ Tail(q)[i - 1] = q[i])
<1>1. Len(q) \in Nat /\ Len(q) > 0 /\ DOMAIN q = 1..Len(q)
  BY EmptySeq, Positions
<1>2. /\ Head(q) = q[1] /\ q[1] \in T /\ Tail(q) \in Seq(T)
      /\ DOMAIN Tail(q) = 1..(Len(q) - 1)
      /\ \A i \in 1..(Len(q) - 1) : Tail(q)[i] = q[i + 1]
  BY <1>1
<1>3. \A i \in DOMAIN q : i = 1 \/ (i - 1 \in DOMAIN Tail(q) /\ Tail(q)[i - 1] = q[i])
  <2>1. TAKE i \in DOMAIN q
  <2>2. CASE i # 1
    <3>1. i - 1 \in 1..(Len(q) - 1) /\ (i - 1) + 1 = i
      BY <1>1, <2>2
    <3>2. QED
      BY <1>2, <3>1
  <2>3. QED
    BY <2>2
<1>4. QED
  BY <1>1, <1>2, <1>3

LEMMA TailRange ==
  ASSUME NEW T, NEW q \in Seq(T), q # <<>>, NEW r, r = Tail(q)
  PROVE  Range(r) \subseteq Range(q) /\ Range(q) \subseteq Range(r) \cup {Head(q)}
<1>1. /\ Head(q) = q[1]
      /\ \A i \in DOMAIN r : i + 1 \in DOMAIN q /\ r[i] = q[i + 1]
      /\ \A i \in DOMAIN q : i = 1 \/ (i - 1 \in DOMAIN r /\ r[i - 1] = q[i])
  BY QueueHead
<1>2. \A i \in DOMAIN r : r[i] \in Range(q)
  BY <1>1, Zenon DEF Range
<1>3. \A i \in DOMAIN q : q[i] \in Range(r) \cup {Head(q)}
  BY <1>1, Zenon DEF Range
<1>4. QED
  BY <1>2, <1>3, Zenon DEF Range

LEMMA RemoveDevicesKeeps ==
  ASSUME CareInv, LifeTypeOK', RemoveDevices
  PROVE  CareInv'
<1> DEFINE w(n) == WithoutPath(n, Head(removedDevices))
           gone == {n \in known : w(n) = <<>>}
<1>1. /\ listener = "remove" /\ removedDevices # <<>> /\ ~ub
      /\ removedDevices' = Tail(removedDevices)
      /\ paths' = [n \in Names |-> w(n)]
      /\ thread' = [n \in Names |-> IF n \in gone THEN "none" ELSE thread[n]]
      /\ ub' = \E n \in gone \cap active : thread[n] = "none"
      /\ known' = known \ gone
      /\ inited' = inited \ gone
      /\ active' = active \ gone
      /\ enabled' = enabled \ gone
      /\ UNCHANGED <<plugged, events, newDevices, listener, main, todo>>
  BY DEF RemoveDevices, Listens, Runs, mainVars
<1>2. LifeTypeOK /\ main = "pause" /\ removedDevices \in Seq(Nodes)
  BY <1>1 DEF CareInv, BusyIsQuiet, LifeTypeOK
<1>3. PICK e \in Nodes : e = Head(removedDevices)
  BY <1>1, <1>2, QueueHead
<1>4. \A n \in Names : w(n) = WithoutPath(n, e)
  BY <1>3
<1> HIDE DEF w, gone
<1>5. /\ Stale(e)
      /\ \A f : Stale(f)' => Stale(f)
      /\ \A f : Stale(f) => Stale(f)' \/ f = e
  <2>1. /\ Range(removedDevices') \subseteq Range(removedDevices)
        /\ Range(removedDevices) \subseteq Range(removedDevices') \cup {e}
    BY <1>1, <1>2, <1>3, TailRange
  <2>2. e \in Range(removedDevices)
    BY <1>1, <1>2, <1>3, QueueHead DEF Range
  <2>3. QED
    BY <2>1, <2>2 DEF Stale
<1>6. /\ \A mask, f : Told(mask, f)' <=> Told(mask, f)
      /\ \A mask, f : Latest(mask, f)' <=> Latest(mask, f)
      /\ \A f : (Silent(f)' <=> Silent(f)) /\ (Fresh(f)' <=> Fresh(f))
      /\ \A f : Leaving(f)' => Leaving(f)
  <2>1. /\ \A mask, f : Told(mask, f)' <=> Told(mask, f)
        /\ \A mask, f : Latest(mask, f)' <=> Latest(mask, f)
        /\ \A f : (Silent(f)' <=> Silent(f)) /\ (Fresh(f)' <=> Fresh(f))
    BY <1>1 DEF Told, Latest, Silent, Fresh
  <2>2. QED
    BY <1>5, <2>1 DEF Leaving
<1>7. \A f \in Nodes : ~Told("create", f)
  BY <1>1 DEF CareInv, SortingIsCalm
(* What is left of the devices.                                             *)
<1>8. ASSUME NEW n \in Names
      PROVE  /\ paths'[n] = w(n)
             /\ paths[n] \in Seq(Path) /\ w(n) \in Seq(Path)
             /\ n \in active => w(n) = paths[n]
             /\ \A i \in DOMAIN w(n) :
                  \E k \in DOMAIN paths[n] :
                    w(n)[i] = paths[n][k] /\ (n \notin active => paths[n][k].node # e)
             /\ \A k \in DOMAIN paths[n] :
                  paths[n][k].node # e => \E i \in DOMAIN w(n) : w(n)[i] = paths[n][k]
             /\ \A i, j \in DOMAIN w(n) :
                  i # j => \E k, l \in DOMAIN paths[n] :
                             k # l /\ w(n)[i] = paths[n][k] /\ w(n)[j] = paths[n][l]
             /\ paths[n] = <<>> => w(n) = <<>>
  <2>1. paths'[n] = w(n) /\ paths[n] \in Seq(Path)
    BY <1>1, <1>2 DEF LifeTypeOK
  <2>2. /\ w(n) \in Seq(Path)
        /\ n \in active => w(n) = paths[n]
        /\ \A i \in DOMAIN w(n) :
             \E k \in DOMAIN paths[n] :
               w(n)[i] = paths[n][k] /\ (n \notin active => paths[n][k].node # e)
        /\ \A k \in DOMAIN paths[n] :
             paths[n][k].node # e => \E i \in DOMAIN w(n) : w(n)[i] = paths[n][k]
        /\ \A i, j \in DOMAIN w(n) :
             i # j => \E k, l \in DOMAIN paths[n] :
                        k # l /\ w(n)[i] = paths[n][k] /\ w(n)[j] = paths[n][l]
    BY <1>2, <1>4, WithoutPathProperties
  <2>3. paths[n] = <<>> => w(n) = <<>>
    BY <2>1, <2>2, PathsTyped
  <2>4. QED
    BY <2>1, <2>2, <2>3
<1>9. ASSUME NEW n \in Names
      PROVE  /\ thread[n] \in {"none", "running", "ended"}
             /\ n \in gone => n \in known /\ w(n) = <<>> /\ thread[n] # "running"
             /\ n \in gone /\ n \in active => thread[n] = "ended"
             /\ thread[n] = "ended" => n \in gone
             /\ thread'[n] = IF n \in gone THEN "none" ELSE thread[n]
  <2>1. thread[n] \in {"none", "running", "ended"}
    BY <1>2 DEF LifeTypeOK
  <2>2. thread[n] # "none" => n \in known
    BY DEF CareInv, StrangersAreIdle
  <2>3. n \in known => (paths[n] = <<>> <=> thread[n] = "ended")
    BY DEF CareInv, EndedHaveLost
  <2>4. thread[n] # "none" => n \in active
    BY DEF CareInv, RunningAreOpen
  <2>5. n \in gone <=> n \in known /\ w(n) = <<>>
    BY DEF gone
  <2>6. QED
    BY <1>1, <1>8, <2>1, <2>2, <2>3, <2>4, <2>5
(* A device that refuses to lose e is told of another loss of it.           *)
<1>10. ASSUME NEW n \in Names, NEW i \in DOMAIN w(n), w(n)[i].node = e
       PROVE  thread[n] = "running" /\ ~Silent(e)
  <2>1. PICK k \in DOMAIN paths[n] :
          w(n)[i] = paths[n][k] /\ (n \notin active => paths[n][k].node # e)
    BY <1>8
  <2>2. n \in active /\ paths[n][k].node = e
    BY <1>10, <2>1
  <2>3. paths[n][k].fd = "dead"
    BY <1>5, <2>2 DEF CareInv, DeadAreLeaving, Leaving
  <2>4. Told("delete", e)
    BY <1>1, <2>2, <2>3 DEF CareInv, DeadAreLeaving
  <2>5. thread[n] = "running"
    BY <2>3 DEF CareInv, RunningAreOpen
  <2>6. QED
    BY <2>4, <2>5 DEF Told, Silent
<1>11. /\ \A f \in Nodes : Listed(f)' => Listed(f)
       /\ \A f \in Nodes : Listed(f) /\ f # e => Listed(f)'
       /\ Listed(e)' => thread[NameOf[e]] = "running" /\ ~Silent(e)
  <2>1. ASSUME NEW n \in Names
        PROVE  /\ NodesOf(n)' = {w(n)[i].node : i \in DOMAIN w(n)}
               /\ NodesOf(n)' \subseteq NodesOf(n)
               /\ \A f \in NodesOf(n) : f # e => f \in NodesOf(n)'
    <3>1. NodesOf(n)' = {w(n)[i].node : i \in DOMAIN w(n)}
      BY <1>8 DEF NodesOf
    <3>2. QED
      BY <1>8, <3>1 DEF NodesOf
  <2>2. \A f \in Nodes : NameOf[f] \in Names
    BY NamesAreTyped
  <2>3. Listed(e)' => thread[NameOf[e]] = "running" /\ ~Silent(e)
    BY <1>10, <2>1, <2>2 DEF Listed
  <2>4. QED
    BY <2>1, <2>2, <2>3 DEF Listed
<1>12. ~ub'
  BY <1>1, <1>9, <1>2 DEF LifeTypeOK
<1>13. BusyIsQuiet' /\ TodoIsKnown' /\ SortingIsCalm' /\ KnownAreInited'
  <2>1. TodoIsKnown
    BY DEF CareInv
  <2>2. todo'.main = {} /\ todo'.listener = {}
    BY <1>1, <1>2, <2>1 DEF TodoIsKnown
  <2>3. TodoIsKnown'
    BY <1>1, <1>2, <2>2 DEF TodoIsKnown
  <2>4. QED
    BY <1>1, <1>2, <1>6, <1>7, <2>3 DEF BusyIsQuiet, SortingIsCalm, KnownAreInited
<1>14. PathsAreNamed'
  <2>1. ASSUME NEW n \in Names, NEW i \in DOMAIN paths'[n]
        PROVE  /\ NameOf[paths'[n][i].node] = n
               /\ \A j \in DOMAIN paths'[n] : paths'[n][i].node = paths'[n][j].node => i = j
    <3>1. \A k \in DOMAIN paths[n] :
            /\ NameOf[paths[n][k].node] = n
            /\ \A l \in DOMAIN paths[n] : paths[n][k].node = paths[n][l].node => k = l
      BY DEF CareInv, PathsAreNamed
    <3>2. QED
      BY <1>8, <2>1, <3>1
  <2>2. QED
    BY <2>1 DEF PathsAreNamed
<1>15. StrangersAreIdle'
  <2>1. ASSUME NEW n \in Names, n \notin known'
        PROVE  paths'[n] = <<>> /\ thread'[n] = "none" /\ n \notin active' \cup enabled' \cup inited'
    <3>1. CASE n \in gone
      BY <1>1, <1>8, <1>9, <3>1
    <3>2. CASE n \notin gone
      <4>1. n \notin known
        BY <1>1, <2>1, <3>2
      <4>2. paths[n] = <<>> /\ thread[n] = "none" /\ n \notin active \cup enabled \cup inited
        BY <4>1 DEF CareInv, StrangersAreIdle
      <4>3. QED
        BY <1>1, <1>8, <1>9, <3>2, <4>2
    <3>3. QED
      BY <3>1, <3>2
  <2>2. QED
    BY <2>1 DEF StrangersAreIdle
<1>16. RunningAreOpen'
  <2>1. ASSUME NEW n \in Names
        PROVE  /\ thread'[n] = "running" => paths'[n] # <<>>
               /\ thread'[n] # "none" => n \in active' \cap inited'
               /\ \A i \in DOMAIN paths'[n] : paths'[n][i].fd = "closed" <=> thread'[n] # "running"
    <3>1. /\ thread[n] = "running" => paths[n] # <<>>
          /\ thread[n] # "none" => n \in active \cap inited
          /\ \A k \in DOMAIN paths[n] : paths[n][k].fd = "closed" <=> thread[n] # "running"
      BY DEF CareInv, RunningAreOpen
    <3>2. CASE n \in gone
      BY <1>8, <1>9, <3>2, PathsTyped
    <3>3. CASE n \notin gone
      BY <1>1, <1>8, <1>9, <3>1, <3>3
    <3>4. QED
      BY <3>2, <3>3
  <2>2. QED
    BY <2>1 DEF RunningAreOpen
<1>17. EndedHaveLost'
  <2>1. ASSUME NEW n \in known'
        PROVE  n \in Names /\ paths'[n] # <<>> /\ thread'[n] # "ended"
    <3>1. n \in known /\ n \notin gone /\ n \in Names
      BY <1>1, <1>2 DEF LifeTypeOK
    <3>2. w(n) # <<>>
      BY <3>1 DEF gone
    <3>3. QED
      BY <1>8, <1>9, <3>1, <3>2
  <2>2. QED
    BY <2>1 DEF EndedHaveLost
<1>18. DeadAreLeaving'
  <2>1. ASSUME NEW n \in Names, NEW f \in Nodes, NEW i \in DOMAIN paths'[n],
               paths'[n][i].node = f
        PROVE  /\ paths'[n][i].fd = "dead" => f \notin plugged /\ Told("delete", f)
               /\ n \in active' /\ Leaving(f)' => paths'[n][i].fd = "dead"
    <3>1. PICK k \in DOMAIN paths[n] : paths'[n][i] = paths[n][k]
      BY <1>8, <2>1
    <3>2. /\ paths[n][k].fd = "dead" => f \notin plugged /\ Told("delete", f)
          /\ n \in active /\ Leaving(f) => paths[n][k].fd = "dead"
      BY <1>1, <2>1, <3>1 DEF CareInv, DeadAreLeaving
    <3>3. QED
      BY <1>1, <1>6, <3>1, <3>2
  <2>2. QED
    BY <1>1, <1>6, <2>1 DEF DeadAreLeaving
<1>19. QueuesAreTrue'
  <2>1. QueuesAreTrue
    BY DEF CareInv
  <2>2. ASSUME NEW f \in Nodes
        PROVE  /\ f \in plugged =>
                    \/ Latest("create", f)
                    \/ Silent(f) /\ (Fresh(f) \/ (Listed(f)' /\ ~Stale(f)'))
               /\ f \notin plugged =>
                    \/ Latest("delete", f)
                    \/ Silent(f) /\ ~Fresh(f) /\ (Listed(f)' => Stale(f)')
    BY <1>5, <1>11, <2>1 DEF QueuesAreTrue
  <2>3. QED
    BY <1>1, <1>6, <2>2 DEF QueuesAreTrue
<1>20. NewsAreNew'
  <2>1. ASSUME NEW f \in Nodes, NEW i \in DOMAIN events',
               events'[i].mask = "create", events'[i].node = f
        PROVE  FALSE
    BY <1>1, <1>7, <2>1 DEF Told
  <2>2. QED
    BY <2>1 DEF NewsAreNew
<1>21. FreshAreNew'
  <2>1. FreshAreNew /\ FreshAreIdle
    BY DEF CareInv
  <2>2. \A f \in Nodes : Fresh(f)' /\ Listed(f)' => Stale(f)'
    BY <1>5, <1>6, <1>11, <2>1 DEF FreshAreNew, FreshAreIdle
  <2>3. QED
    BY <1>1, <2>1, <2>2 DEF FreshAreNew
<1>22. FreshAreIdle'
  <2>1. FreshAreIdle
    BY DEF CareInv
  <2>2. \A f \in Nodes : NameOf[f] \in Names
    BY NamesAreTyped
  <2>3. QED
    BY <1>6, <1>9, <2>1, <2>2 DEF FreshAreIdle
<1>23. EnabledAreHeld'
  <2>1. ASSUME NEW n \in Names
        PROVE  thread'[n] # "none" <=> n \in enabled' /\ n \in inited' /\ Held(n)'
    <3>1. thread[n] # "none" <=> n \in enabled /\ n \in inited /\ Held(n)
      BY DEF CareInv, EnabledAreHeld
    <3>2. Held(n)' <=> Held(n)
      BY <1>1 DEF Held
    <3>3. QED
      BY <1>1, <1>9, <3>1, <3>2
  <2>2. QED
    BY <2>1 DEF EnabledAreHeld
<1>24. QED
  BY <1>12, <1>13, <1>14, <1>15, <1>16, <1>17, <1>18, <1>19, <1>20, <1>21, <1>22, <1>23
     DEF CareInv

LEMMA AddDeviceKeeps ==
  ASSUME CareInv, LifeTypeOK', AddDevice
  PROVE  CareInv'
<1>1. /\ listener = "remove" /\ removedDevices = <<>> /\ newDevices # <<>> /\ ~ub
      /\ newDevices' = Tail(newDevices)
      /\ UNCHANGED <<thread, inited, active, enabled, saved, events, removedDevices,
                     listener, todo, plugged, main>>
  BY DEF AddDevice, Listens, Runs, mainVars
<1>2. LifeTypeOK /\ main = "pause" /\ newDevices \in Seq(Nodes)
  BY <1>1 DEF CareInv, BusyIsQuiet, LifeTypeOK
<1>3. PICK e \in Nodes : e = Head(newDevices)
  BY <1>1, <1>2, QueueHead
<1>4. PICK n \in Names : n = NameOf[e]
  BY NamesAreTyped
<1>5. \/ e \in plugged /\ ProcessDev(e)
      \/ e \notin plugged /\ UNCHANGED <<known, paths, ub>>
  BY <1>3 DEF AddDevice
<1>6. /\ Fresh(e) /\ ~Fresh(e)'
      /\ \A f : f # e => (Fresh(f)' <=> Fresh(f))
      /\ \A i, j \in DOMAIN newDevices' : newDevices'[i] = newDevices'[j] => i = j
  <2> DEFINE q == newDevices
             r == newDevices'
  <2>1. /\ e = q[1] /\ 1 \in DOMAIN q
        /\ DOMAIN r = 1..(Len(q) - 1) /\ Len(q) \in Nat
        /\ \A i \in DOMAIN r : i + 1 \in DOMAIN q /\ i + 1 # 1 /\ r[i] = q[i + 1]
    BY <1>1, <1>2, <1>3, QueueHead
  <2>2. \A i, j \in DOMAIN q : q[i] = q[j] => i = j
    BY DEF CareInv, FreshAreNew
  <2>3. Range(r) \subseteq Range(q) /\ Range(q) \subseteq Range(r) \cup {e}
    BY <1>1, <1>2, <1>3, TailRange
  <2> HIDE DEF q, r
  <2>4. \A i \in DOMAIN r : r[i] # e
    BY <2>1, <2>2
  <2>5. e \in Range(q) /\ e \notin Range(r)
    BY <2>1, <2>4 DEF Range
  <2>6. \A i, j \in DOMAIN r : r[i] = r[j] => i = j
    <3>1. TAKE i, j \in DOMAIN r
    <3>2. HAVE r[i] = r[j]
    <3>3. i + 1 = j + 1
      BY <2>1, <2>2, <3>2
    <3>4. i \in Int /\ j \in Int
      BY <2>1
    <3>5. QED
      BY <3>3, <3>4
  <2>7. QED
    BY <2>3, <2>5, <2>6 DEF q, r, Fresh
<1>7. /\ \A mask, f : Told(mask, f)' <=> Told(mask, f)
      /\ \A mask, f : Latest(mask, f)' <=> Latest(mask, f)
      /\ \A f : (Silent(f)' <=> Silent(f)) /\ (Stale(f)' <=> Stale(f))
      /\ \A f : Leaving(f)' <=> Leaving(f)
  BY <1>1 DEF Told, Latest, Silent, Stale, Leaving
<1>8. /\ \A f \in Nodes : ~Told("create", f) /\ ~Latest("create", f)
      /\ \A f : ~Stale(f)
  <2>1. \A f \in Nodes : ~Told("create", f)
    BY <1>1 DEF CareInv, SortingIsCalm
  <2>2. \A f : ~Stale(f)
    BY <1>1 DEF Stale, Range
  <2>3. \A f : Latest("create", f) => Told("create", f)
    BY DEF Latest, Told
  <2>4. QED
    BY <2>1, <2>2, <2>3
<1>9. thread[n] = "none" /\ ~Listed(e)
  <2>1. thread[n] \in {"none", "running", "ended"}
    BY <1>2 DEF LifeTypeOK
  <2>2. thread[n] # "running" /\ thread[n] # "ended"
    BY <1>1, <1>4, <1>6 DEF CareInv, FreshAreIdle
  <2>3. ~Listed(e)
    BY <1>6, <1>8 DEF CareInv, FreshAreNew
  <2>4. QED
    BY <2>1, <2>2, <2>3
(* What is the same whether the node is still there or not.                 *)
<1>10. BusyIsQuiet' /\ SortingIsCalm' /\ KnownAreInited'
  BY <1>1, <1>2, <1>7, <1>8 DEF BusyIsQuiet, SortingIsCalm, KnownAreInited
<1>11. NewsAreNew'
  <2>1. ASSUME NEW f \in Nodes, NEW i \in DOMAIN events',
               events'[i].mask = "create", events'[i].node = f
        PROVE  FALSE
    BY <1>1, <1>8, <2>1 DEF Told
  <2>2. QED
    BY <2>1 DEF NewsAreNew
<1>12. FreshAreIdle'
  <2>1. FreshAreIdle
    BY DEF CareInv
  <2>2. \A f \in Nodes : Fresh(f)' => Fresh(f)
    BY <1>6
  <2>3. QED
    BY <1>1, <1>7, <2>1, <2>2 DEF FreshAreIdle
<1>13. EnabledAreHeld'
  <2>1. \A m : Held(m)' <=> Held(m)
    BY <1>1 DEF Held
  <2>2. QED
    BY <1>1, <2>1 DEF CareInv, EnabledAreHeld
<1>14. CASE e \notin plugged
  <2>1. UNCHANGED <<known, paths, ub>>
    BY <1>5, <1>14
  <2>2. \A f : Listed(f)' <=> Listed(f)
    BY <2>1 DEF Listed, NodesOf
  <2>3. ~ub' /\ TodoIsKnown' /\ PathsAreNamed' /\ StrangersAreIdle' /\ RunningAreOpen'
    BY <1>1, <2>1 DEF CareInv, TodoIsKnown, PathsAreNamed, StrangersAreIdle, RunningAreOpen
  <2>4. EndedHaveLost' /\ DeadAreLeaving'
    <3>1. EndedHaveLost /\ DeadAreLeaving
      BY DEF CareInv
    <3>2. EndedHaveLost'
      BY <1>1, <1>7, <2>1, <3>1 DEF EndedHaveLost
    <3>3. DeadAreLeaving'
      BY <1>1, <1>7, <2>1, <3>1 DEF DeadAreLeaving
    <3>4. QED
      BY <3>2, <3>3
  <2>5. QueuesAreTrue'
    <3>1. QueuesAreTrue
      BY DEF CareInv
    <3>2. ASSUME NEW f \in Nodes
          PROVE  /\ f \in plugged =>
                      \/ Latest("create", f)
                      \/ Silent(f) /\ (Fresh(f)' \/ (Listed(f)' /\ ~Stale(f)'))
                 /\ f \notin plugged =>
                      \/ Latest("delete", f)
                      \/ Silent(f) /\ ~Fresh(f)' /\ (Listed(f)' => Stale(f)')
      BY <1>6, <1>7, <1>8, <1>9, <1>14, <2>2, <3>1 DEF QueuesAreTrue
    <3>3. QED
      BY <1>1, <1>7, <3>2 DEF QueuesAreTrue
  <2>6. FreshAreNew'
    BY <1>6, <1>7, <2>2 DEF CareInv, FreshAreNew
  <2>7. QED
    BY <1>10, <1>11, <1>12, <1>13, <2>3, <2>4, <2>5, <2>6 DEF CareInv
<1>15. CASE e \in plugged
  <2> DEFINE q == paths[n]
             r == Append(q, Unopened(e))
  <2>1. known' = known \cup {n} /\ paths' = [paths EXCEPT ![n] = r] /\ ~ub'
    BY <1>4, <1>5, <1>9, <1>15 DEF ProcessDev
  <2>2. /\ q \in Seq(Path) /\ Unopened(e) \in Path
        /\ Unopened(e).node = e /\ Unopened(e).fd = "closed"
    BY <1>2 DEF LifeTypeOK, Path, Unopened
  <2>3. /\ r \in Seq(Path) /\ Len(q) \in Nat
        /\ DOMAIN q = 1..Len(q) /\ DOMAIN r = 1..(Len(q) + 1)
        /\ r[Len(q) + 1] = Unopened(e)
        /\ \A i \in DOMAIN q : r[i] = q[i]
    BY <2>2, AppendEntries, Positions
  <2>4. \A m \in Names : paths'[m] = IF m = n THEN r ELSE paths[m]
    BY <1>2, <2>1 DEF LifeTypeOK
  <2>5. \A i \in DOMAIN q : q[i].node # e
    BY <1>4, <1>9 DEF Listed, NodesOf
  <2> DEFINE last == Len(q) + 1
  <2>6. /\ last \in DOMAIN r /\ r[last].node = e /\ r[last].fd = "closed"
        /\ \A i \in DOMAIN r : i \in DOMAIN q \/ i = last
        /\ \A i \in DOMAIN q : i \in DOMAIN r /\ r[i] = q[i]
        /\ r # <<>>
    <3>1. /\ last \in DOMAIN r /\ r[last].node = e /\ r[last].fd = "closed"
          /\ \A i \in DOMAIN r : i \in DOMAIN q \/ i = last
          /\ \A i \in DOMAIN q : i \in DOMAIN r /\ r[i] = q[i]
      <4> HIDE DEF r, q
      <4>1. QED
        BY <2>2, <2>3
    <3> HIDE DEF r, q, last
    <3>2. r # <<>>
      BY <2>3, <3>1, PathsTyped
    <3>3. QED
      BY <3>1, <3>2
  <2> HIDE DEF q, r, last
  <2>7. /\ Listed(e)'
        /\ \A f \in Nodes : f # e => (Listed(f)' <=> Listed(f))
    <3>1. NodesOf(n)' = {r[i].node : i \in DOMAIN r} /\ NodesOf(n) = {q[i].node : i \in DOMAIN q}
      BY <2>4 DEF NodesOf, q
    <3>2. NodesOf(n)' = NodesOf(n) \cup {e}
      BY <2>6, <3>1
    <3>3. \A m \in Names : m # n => NodesOf(m)' = NodesOf(m)
      BY <2>4 DEF NodesOf
    <3>4. QED
      BY <1>4, <3>2, <3>3, NamesAreTyped DEF Listed
  <2>8. ~Leaving(e)
    <3>1. Silent(e)
      BY <1>8, <1>15 DEF CareInv, QueuesAreTrue
    <3>2. QED
      BY <1>8, <3>1 DEF Leaving, Told, Silent
  <2>9. TodoIsKnown'
    <3>1. TodoIsKnown
      BY DEF CareInv
    <3>2. QED
      BY <1>1, <2>1, <3>1 DEF TodoIsKnown
  <2>10. PathsAreNamed'
    <3>1. ASSUME NEW m \in Names, NEW i \in DOMAIN paths'[m]
          PROVE  /\ NameOf[paths'[m][i].node] = m
                 /\ \A j \in DOMAIN paths'[m] : paths'[m][i].node = paths'[m][j].node => i = j
      <4>1. \A k \in DOMAIN paths[m] :
              /\ NameOf[paths[m][k].node] = m
              /\ \A l \in DOMAIN paths[m] : paths[m][k].node = paths[m][l].node => k = l
        BY DEF CareInv, PathsAreNamed
      <4>2. CASE m = n
        <5>1. \A k \in DOMAIN q :
                /\ NameOf[q[k].node] = n
                /\ \A l \in DOMAIN q : q[k].node = q[l].node => k = l
          BY <4>1, <4>2 DEF q
        <5>2. paths'[m] = r /\ i \in DOMAIN r
          BY <2>4, <3>1, <4>2
        <5>3. NameOf[r[i].node] = n
          BY <1>4, <2>6, <5>1, <5>2
        <5>4. \A j \in DOMAIN r : r[i].node = r[j].node => i = j
          BY <2>5, <2>6, <5>1, <5>2
        <5>5. QED
          BY <4>2, <5>2, <5>3, <5>4
      <4>3. CASE m # n
        BY <2>4, <3>1, <4>1, <4>3
      <4>4. QED
        BY <4>2, <4>3
    <3>2. QED
      BY <3>1 DEF PathsAreNamed
  <2>11. StrangersAreIdle'
    BY <1>1, <2>1, <2>4 DEF CareInv, StrangersAreIdle
  <2>12. RunningAreOpen'
    <3>1. ASSUME NEW m \in Names
          PROVE  /\ thread'[m] = "running" => paths'[m] # <<>>
                 /\ thread'[m] # "none" => m \in active' \cap inited'
                 /\ \A i \in DOMAIN paths'[m] : paths'[m][i].fd = "closed" <=> thread'[m] # "running"
      <4>1. /\ thread[m] = "running" => paths[m] # <<>>
            /\ thread[m] # "none" => m \in active \cap inited
            /\ \A k \in DOMAIN paths[m] : paths[m][k].fd = "closed" <=> thread[m] # "running"
        BY DEF CareInv, RunningAreOpen
      <4>2. CASE m = n
        BY <1>1, <1>9, <2>4, <2>6, <4>1, <4>2 DEF q
      <4>3. CASE m # n
        BY <1>1, <2>4, <4>1, <4>3
      <4>4. QED
        BY <4>2, <4>3
    <3>2. QED
      BY <3>1 DEF RunningAreOpen
  <2>13. EndedHaveLost'
    <3>1. ASSUME NEW m \in known'
          PROVE  /\ paths'[m] = <<>> <=> thread'[m] = "ended"
                 /\ thread'[m] = "ended" => \E f \in Nodes : NameOf[f] = m /\ Leaving(f)'
      <4>1. CASE m = n
        BY <1>1, <1>9, <2>4, <2>6, <4>1
      <4>2. CASE m # n
        <5>1. m \in known /\ m \in Names
          BY <1>2, <2>1, <3>1, <4>2 DEF LifeTypeOK
        <5>2. paths'[m] = paths[m] /\ thread' = thread
          BY <1>1, <2>4, <4>2, <5>1
        <5>3. /\ paths[m] = <<>> <=> thread[m] = "ended"
              /\ thread[m] = "ended" => \E f \in Nodes : NameOf[f] = m /\ Leaving(f)
          BY <5>1 DEF CareInv, EndedHaveLost
        <5>4. QED
          BY <1>7, <5>2, <5>3
      <4>3. QED
        BY <4>1, <4>2
    <3>2. QED
      BY <3>1 DEF EndedHaveLost
  <2>14. DeadAreLeaving'
    <3>1. ASSUME NEW m \in Names, NEW f \in Nodes, NEW i \in DOMAIN paths'[m],
                 paths'[m][i].node = f
          PROVE  /\ paths'[m][i].fd = "dead" =>
                      f \notin plugged /\ (Told("delete", f) \/ (listener = "wait" /\ Stale(f)))
                 /\ m \in active /\ Leaving(f) => paths'[m][i].fd = "dead"
      <4>1. CASE m = n /\ i = last
        BY <2>4, <2>6, <2>8, <3>1, <4>1
      <4>2. CASE ~(m = n /\ i = last)
        <5>1. i \in DOMAIN paths[m] /\ paths'[m][i] = paths[m][i]
          BY <2>4, <2>6, <3>1, <4>2 DEF q
        <5>2. QED
          BY <3>1, <5>1 DEF CareInv, DeadAreLeaving
      <4>3. QED
        BY <4>1, <4>2
    <3>2. QED
      BY <1>1, <1>7, <3>1 DEF DeadAreLeaving
  <2>15. QueuesAreTrue'
    <3>1. QueuesAreTrue
      BY DEF CareInv
    <3>2. ASSUME NEW f \in Nodes
          PROVE  /\ f \in plugged =>
                      \/ Latest("create", f)
                      \/ Silent(f) /\ (Fresh(f)' \/ (Listed(f)' /\ ~Stale(f)'))
                 /\ f \notin plugged =>
                      \/ Latest("delete", f)
                      \/ Silent(f) /\ ~Fresh(f)' /\ (Listed(f)' => Stale(f)')
      BY <1>6, <1>7, <1>8, <1>15, <2>7, <3>1 DEF QueuesAreTrue
    <3>3. QED
      BY <1>1, <1>7, <3>2 DEF QueuesAreTrue
  <2>16. FreshAreNew'
    BY <1>6, <1>7, <2>7 DEF CareInv, FreshAreNew
  <2>17. QED
    BY <1>10, <1>11, <1>12, <1>13, <2>1, <2>9, <2>10, <2>11, <2>12, <2>13, <2>14, <2>15,
       <2>16 DEF CareInv
<1>16. QED
  BY <1>14, <1>15

(* A device that opens has all of its nodes plugged in, so none is leaving, *)
(* and one that does not is losing one.                                     *)
LEMMA StartNewKeeps ==
  ASSUME CareInv, LifeTypeOK', StartNew
  PROVE  CareInv'
<1>1. PICK n \in todo.listener :
         StartDevice(n) /\ todo' = [todo EXCEPT !.listener = @ \ {n}]
  BY DEF StartNew
<1>2. /\ listener = "start" /\ ~ub
      /\ UNCHANGED <<plugged, main, events, newDevices, removedDevices, listener>>
  BY DEF StartNew, Listens, Runs, mainVars, listenVars
<1>3. LifeTypeOK /\ main = "pause" /\ newDevices = <<>> /\ removedDevices = <<>>
  BY <1>2 DEF CareInv, BusyIsQuiet, SortingIsCalm
<1>4. n \in known /\ n \in Names /\ n \notin inited
  BY <1>1, <1>3 DEF CareInv, TodoIsKnown, LifeTypeOK
<1>5. todo'.main = todo.main /\ todo'.listener = todo.listener \ {n}
  BY <1>1, <1>3 DEF LifeTypeOK
<1>6. thread[n] = "none" /\ paths[n] # <<>> /\ paths[n] \in Seq(Path)
  BY <1>3, <1>4 DEF CareInv, EnabledAreHeld, EndedHaveLost, LifeTypeOK
<1>7. /\ \A f \in Nodes : ~Latest("create", f) /\ ~Told("create", f)
      /\ \A f : ~Stale(f) /\ ~Fresh(f)
      /\ \A f : Silent(f) => ~Leaving(f)
      /\ \A f : Latest("delete", f) => Leaving(f)
  <2>1. \A f \in Nodes : ~Told("create", f)
    BY <1>2 DEF CareInv, SortingIsCalm
  <2>2. \A f : Latest("create", f) => Told("create", f)
    BY DEF Latest, Told
  <2>3. \A f : ~Stale(f) /\ ~Fresh(f)
    BY <1>3 DEF Stale, Fresh, Range
  <2>4. \A f : Silent(f) => ~Leaving(f)
    BY <2>3 DEF Silent, Leaving, Told
  <2>5. \A f : Latest("delete", f) => Leaving(f)
    BY DEF Latest, Leaving, Told
  <2>6. QED
    BY <2>1, <2>2, <2>3, <2>4, <2>5
<1>8. \A i \in DOMAIN paths[n] :
        /\ paths[n][i].node \in Nodes
        /\ NameOf[paths[n][i].node] = n
        /\ paths[n][i].node \in NodesOf(n)
        /\ Listed(paths[n][i].node)
  <2>1. \A i \in DOMAIN paths[n] : NameOf[paths[n][i].node] = n
    BY <1>4 DEF CareInv, PathsAreNamed
  <2>2. QED
    BY <1>6, <2>1, PathsTyped DEF NodesOf, Listed
<1>9. CanOpen(n) => \A i \in DOMAIN paths[n] : ~Leaving(paths[n][i].node)
  <2>1. ASSUME CanOpen(n), NEW i \in DOMAIN paths[n]
        PROVE  ~Leaving(paths[n][i].node)
    <3>1. paths[n][i].node \in plugged
      BY <1>8, <2>1 DEF CanOpen
    <3>2. Silent(paths[n][i].node)
      BY <1>7, <1>8, <3>1 DEF CareInv, QueuesAreTrue
    <3>3. QED
      BY <1>7, <3>2
  <2>2. QED
    BY <2>1
<1>10. CanOpen(n) \/ \E f \in Nodes : NameOf[f] = n /\ Leaving(f)
  <2>1. ASSUME ~CanOpen(n)
        PROVE  \E f \in Nodes : NameOf[f] = n /\ Leaving(f)
    <3>1. PICK i \in DOMAIN paths[n] : paths[n][i].node \notin plugged
      BY <2>1 DEF CanOpen, NodesOf
    <3>2. Leaving(paths[n][i].node)
      BY <1>7, <1>8, <3>1 DEF CareInv, QueuesAreTrue
    <3>3. QED
      BY <1>8, <3>2
  <2>2. QED
    BY <2>1
<1> DEFINE opens == n \in saved /\ CanOpen(n)
<1>11. /\ known' = known
       /\ inited' = IF CanOpen(n) THEN inited \cup {n} ELSE inited
       /\ enabled' = (enabled \ {n}) \cup ({n} \cap saved)
       /\ \A m \in Names : paths'[m] = IF m = n /\ opens THEN Opened(paths[n]) ELSE paths[m]
       /\ \A m \in Names : thread'[m] = IF m = n /\ opens THEN "running" ELSE thread[m]
       /\ active' = IF opens THEN active \cup {n} ELSE active
       /\ ~ub'
  <2>1. /\ known' = known
        /\ inited' = IF CanOpen(n) THEN inited \cup {n} ELSE inited
        /\ enabled' = (enabled \ {n}) \cup ({n} \cap saved)
    BY <1>1 DEF StartDevice, Inits
  <2>2. CASE opens
    <3>1. /\ paths' = [paths EXCEPT ![n] = Opened(paths[n])]
          /\ thread' = [thread EXCEPT ![n] = "running"]
          /\ active' = active \cup {n}
          /\ ~ub'
      BY <1>1, <1>3, <1>4, <1>6, <2>2 DEF StartDevice, Activate, Opened, LifeTypeOK
    <3>2. QED
      BY <1>3, <1>4, <2>1, <2>2, <3>1 DEF LifeTypeOK
  <2>3. CASE ~opens
    <3>1. UNCHANGED <<paths, thread, active, ub>>
      BY <1>1, <2>3 DEF StartDevice, Activate, Spares
    <3>2. QED
      BY <1>2, <2>1, <2>3, <3>1
  <2>4. QED
    BY <2>2, <2>3
<1>12. /\ Opened(paths[n]) \in Seq(Path)
       /\ DOMAIN Opened(paths[n]) = DOMAIN paths[n]
       /\ \A i \in DOMAIN paths[n] :
            Opened(paths[n])[i].node = paths[n][i].node /\ Opened(paths[n])[i].fd = "live"
       /\ Opened(paths[n]) # <<>>
  BY <1>6, OpenedAndClosed, PathsTyped
<1> HIDE DEF opens
<1>13. /\ SameNodes
       /\ \A m \in Names : paths'[m] = <<>> <=> paths[m] = <<>>
  <2>1. ASSUME NEW m \in Names
        PROVE  /\ DOMAIN paths'[m] = DOMAIN paths[m]
               /\ \A i \in DOMAIN paths[m] : paths'[m][i].node = paths[m][i].node
               /\ paths'[m] = <<>> <=> paths[m] = <<>>
    <3>1. CASE m = n /\ opens
      BY <1>6, <1>11, <1>12, <3>1
    <3>2. CASE ~(m = n /\ opens)
      <4>1. paths'[m] = paths[m]
        BY <1>11, <3>2
      <4>2. QED
        BY <4>1
    <3>3. QED
      BY <3>1, <3>2
  <2>2. QED
    BY <2>1 DEF SameNodes
<1>14. PathsAreNamed' /\ QueuesAreTrue' /\ NewsAreNew' /\ FreshAreNew'
  BY <1>2, <1>13, SameNodesKept
<1>15. BusyIsQuiet' /\ SortingIsCalm'
  <2>1. SortingIsCalm
    BY DEF CareInv
  <2>2. SortingIsCalm'
    BY <1>2, <2>1, SameQueues DEF SortingIsCalm
  <2>3. QED
    BY <1>2, <1>3, <2>2 DEF BusyIsQuiet
<1>16. TodoIsKnown'
  <2>1. TodoIsKnown
    BY DEF CareInv
  <2>2. QED
    BY <1>2, <1>3, <1>5, <1>11, <2>1 DEF TodoIsKnown
<1>17. StrangersAreIdle'
  BY <1>4, <1>11 DEF CareInv, StrangersAreIdle, opens
<1>18. RunningAreOpen'
  <2>1. ASSUME NEW m \in Names
        PROVE  /\ thread'[m] = "running" => paths'[m] # <<>>
               /\ thread'[m] # "none" => m \in active' \cap inited'
               /\ \A i \in DOMAIN paths'[m] : paths'[m][i].fd = "closed" <=> thread'[m] # "running"
    <3>1. /\ thread[m] = "running" => paths[m] # <<>>
          /\ thread[m] # "none" => m \in active \cap inited
          /\ \A k \in DOMAIN paths[m] : paths[m][k].fd = "closed" <=> thread[m] # "running"
      BY DEF CareInv, RunningAreOpen
    <3>2. CASE m = n /\ opens
      <4>1. /\ paths'[m] = Opened(paths[n]) /\ thread'[m] = "running"
            /\ m \in active' \cap inited'
        BY <1>11, <3>2 DEF opens
      <4>2. QED
        BY <1>12, <4>1
    <3>3. CASE ~(m = n /\ opens)
      <4>1. /\ paths'[m] = paths[m] /\ thread'[m] = thread[m]
            /\ active \subseteq active' /\ inited \subseteq inited'
        BY <1>11, <3>3
      <4>2. QED
        BY <3>1, <4>1
    <3>4. QED
      BY <3>2, <3>3
  <2>2. QED
    BY <2>1 DEF RunningAreOpen
<1>19. EndedHaveLost'
  <2>1. ASSUME NEW m \in known'
        PROVE  /\ paths'[m] = <<>> <=> thread'[m] = "ended"
               /\ thread'[m] = "ended" => \E f \in Nodes : NameOf[f] = m /\ Leaving(f)'
    <3>1. m \in known /\ m \in Names
      BY <1>3, <1>11, <2>1 DEF LifeTypeOK
    <3>2. /\ paths[m] = <<>> <=> thread[m] = "ended"
          /\ thread[m] = "ended" => \E f \in Nodes : NameOf[f] = m /\ Leaving(f)
      BY <3>1 DEF CareInv, EndedHaveLost
    <3>3. thread'[m] = "ended" <=> thread[m] = "ended"
      BY <1>6, <1>11, <3>1
    <3>4. \A f : Leaving(f)' <=> Leaving(f)
      BY <1>2, SameQueues
    <3>5. QED
      BY <1>13, <3>1, <3>2, <3>3, <3>4
  <2>2. QED
    BY <2>1 DEF EndedHaveLost
<1>20. DeadAreLeaving'
  <2>1. \A f : (Leaving(f)' <=> Leaving(f)) /\ (Told("delete", f)' <=> Told("delete", f))
    BY <1>2, SameQueues
  <2>2. ASSUME NEW m \in Names, NEW f \in Nodes, NEW i \in DOMAIN paths'[m],
               paths'[m][i].node = f
        PROVE  /\ paths'[m][i].fd = "dead" => f \notin plugged /\ Told("delete", f)
               /\ m \in active' /\ Leaving(f) => paths'[m][i].fd = "dead"
    <3>1. i \in DOMAIN paths[m] /\ paths[m][i].node = f
      BY <1>13, <2>2 DEF SameNodes
    <3>2. CASE m = n /\ opens
      <4>1. paths'[m][i].fd = "live" /\ ~Leaving(f)
        BY <1>9, <1>11, <1>12, <3>1, <3>2 DEF opens
      <4>2. QED
        BY <4>1
    <3>3. CASE ~(m = n /\ opens)
      <4>1. paths'[m] = paths[m] /\ (m \in active' => m \in active)
        BY <1>11, <3>3
      <4>2. /\ paths[m][i].fd = "dead" => f \notin plugged /\ Told("delete", f)
            /\ m \in active /\ Leaving(f) => paths[m][i].fd = "dead"
        BY <1>2, <3>1 DEF CareInv, DeadAreLeaving
      <4>3. QED
        BY <4>1, <4>2
    <3>4. QED
      BY <3>2, <3>3
  <2>3. QED
    BY <1>2, <2>1, <2>2 DEF DeadAreLeaving
<1>21. FreshAreIdle'
  <2>1. \A f \in Nodes : ~Fresh(f)' /\ ~Told("create", f)'
    BY <1>2, <1>7, SameQueues
  <2>2. QED
    BY <2>1 DEF FreshAreIdle
<1>22. EnabledAreHeld'
  <2>1. ASSUME NEW m \in Names
        PROVE  thread'[m] # "none" <=> m \in enabled' /\ m \in inited' /\ Held(m)'
    <3>1. thread[m] # "none" <=> m \in enabled /\ m \in inited
      BY <1>3 DEF CareInv, EnabledAreHeld, Held
    <3>2. Held(m)'
      BY <1>2, <1>3 DEF Held
    <3>3. CASE m = n
      BY <1>4, <1>6, <1>11, <3>2, <3>3 DEF opens
    <3>4. CASE m # n
      BY <1>11, <3>1, <3>2, <3>4
    <3>5. QED
      BY <3>3, <3>4
  <2>2. QED
    BY <2>1 DEF EnabledAreHeld
<1>23. KnownAreInited'
  <2>1. ASSUME NEW m \in known' \ inited'
        PROVE  \/ main' = "start" /\ m \in todo'.main
               \/ listener' = "remove"
               \/ m \in todo'.listener
               \/ \E f \in Nodes : NameOf[f] = m /\ Leaving(f)
    <3>1. CASE m = n
      BY <1>10, <1>11, <2>1, <3>1
    <3>2. CASE m # n
      <4>1. m \in known \ inited
        BY <1>11, <2>1, <3>2
      <4>2. QED
        BY <1>2, <1>3, <1>5, <3>2, <4>1 DEF CareInv, KnownAreInited
    <3>3. QED
      BY <3>1, <3>2
  <2>2. \A f : Leaving(f)' <=> Leaving(f)
    BY <1>2, SameQueues
  <2>3. QED
    BY <2>1, <2>2 DEF KnownAreInited
<1>24. QED
  BY <1>11, <1>14, <1>15, <1>16, <1>17, <1>18, <1>19, <1>20, <1>21, <1>22, <1>23 DEF CareInv

-----------------------------------------------------------------------------
(* Careful users plug and unplug.                                           *)

LEMMA NoticeAppended ==
  ASSUME LifeTypeOK, NEW mask \in {"create", "delete"}, NEW e \in Nodes,
         events' = Append(events, [mask |-> mask, node |-> e]),
         UNCHANGED <<newDevices, removedDevices>>
  PROVE  /\ DOMAIN events' = 1..(Len(events) + 1)
         /\ events'[Len(events) + 1].mask = mask /\ events'[Len(events) + 1].node = e
         /\ \A i \in DOMAIN events : events'[i] = events[i]
         /\ \A m, f : Told(m, f)' <=> Told(m, f) \/ (m = mask /\ f = e)
         /\ \A f : Silent(f)' <=> Silent(f) /\ f # e
         /\ \A m, f : f # e /\ Latest(m, f) => Latest(m, f)'
         /\ Latest(mask, e)'
         /\ \A f : (Fresh(f)' <=> Fresh(f)) /\ (Stale(f)' <=> Stale(f))
         /\ \A f : Leaving(f)' <=> Leaving(f) \/ (mask = "delete" /\ f = e)
<1> DEFINE L == Len(events)
<1>1. L \in Nat /\ DOMAIN events = 1..L
  BY EventsTyped
<1>2. /\ DOMAIN events' = 1..(L + 1)
      /\ events'[L + 1] = [mask |-> mask, node |-> e]
      /\ \A i \in DOMAIN events : events'[i] = events[i]
  <2>1. [mask |-> mask, node |-> e] \in Notice /\ events \in Seq(Notice)
    BY DEF LifeTypeOK, Notice
  <2>2. QED
    BY <2>1, AppendEntries
<1>3. events'[L + 1].mask = mask /\ events'[L + 1].node = e
  BY <1>2
<1> HIDE DEF L
<1>4. /\ L + 1 \in DOMAIN events'
      /\ \A i \in DOMAIN events : i \in DOMAIN events' /\ i < L + 1
      /\ \A i \in DOMAIN events' : i \in DOMAIN events \/ i = L + 1
  BY <1>1, <1>2
<1>5. \A m, f : Told(m, f)' <=> Told(m, f) \/ (m = mask /\ f = e)
  BY <1>2, <1>3, <1>4 DEF Told
<1>6. \A f : Silent(f)' <=> Silent(f) /\ f # e
  BY <1>2, <1>3, <1>4 DEF Silent
<1>7. ASSUME NEW m, NEW f, f # e, Latest(m, f)
      PROVE  Latest(m, f)'
  <2>1. PICK i \in DOMAIN events :
          /\ events[i].mask = m /\ events[i].node = f
          /\ \A j \in DOMAIN events : j > i => events[j].node # f
    BY <1>7 DEF Latest
  <2>2. /\ i \in DOMAIN events' /\ events'[i].mask = m /\ events'[i].node = f
        /\ \A j \in DOMAIN events' : j > i => events'[j].node # f
    BY <1>2, <1>3, <1>4, <1>7, <2>1
  <2>3. QED
    BY <2>2 DEF Latest
<1>8. Latest(mask, e)'
  <2>1. \A j \in DOMAIN events' : ~(j > L + 1)
    BY <1>1, <1>2
  <2>2. QED
    BY <1>3, <1>4, <2>1 DEF Latest
<1>9. \A f : (Fresh(f)' <=> Fresh(f)) /\ (Stale(f)' <=> Stale(f))
  BY DEF Fresh, Stale
<1>10. \A f : Leaving(f)' <=> Leaving(f) \/ (mask = "delete" /\ f = e)
  BY <1>5, <1>9 DEF Leaving
<1>11. QED
  BY <1>2, <1>3, <1>5, <1>6, <1>7, <1>8, <1>9, <1>10 DEF L

(* The news there were stay news.                                           *)
LEMMA NewsStayNew ==
  ASSUME CareInv, NEW L \in Nat, DOMAIN events = 1..L, NEW i \in 1..L,
         \A j \in 1..L : events'[j] = events[j],
         NEW e \in Nodes, events'[i].mask = "create", events'[i].node = e
  PROVE  /\ \A j \in 1..(i - 1) :
              events'[j].mask = "create" /\ events'[j].node = e =>
                \E k \in (j + 1)..(i - 1) :
                  events'[k].mask = "delete" /\ events'[k].node = e
         /\ Fresh(e) \/ (Listed(e) /\ ~Stale(e)) =>
              \E k \in 1..(i - 1) : events'[k].mask = "delete" /\ events'[k].node = e
<1>1. /\ \A j \in 1..(i - 1) :
           events[j].mask = "create" /\ events[j].node = e =>
             \E k \in (j + 1)..(i - 1) : events[k].mask = "delete" /\ events[k].node = e
      /\ Fresh(e) \/ (Listed(e) /\ ~Stale(e)) =>
           \E k \in 1..(i - 1) : events[k].mask = "delete" /\ events[k].node = e
  BY DEF CareInv, NewsAreNew
<1>2. /\ \A j \in 1..(i - 1) : j \in 1..L /\ j \in Nat
      /\ \A j \in 1..(i - 1) : \A k \in (j + 1)..(i - 1) : k \in 1..L
  OBVIOUS
<1>3. ASSUME NEW j \in 1..(i - 1), events'[j].mask = "create", events'[j].node = e
      PROVE  \E k \in (j + 1)..(i - 1) : events'[k].mask = "delete" /\ events'[k].node = e
  <2>1. PICK k \in (j + 1)..(i - 1) : events[k].mask = "delete" /\ events[k].node = e
    BY <1>1, <1>2, <1>3
  <2>2. QED
    BY <1>2, <2>1
<1>4. ASSUME Fresh(e) \/ (Listed(e) /\ ~Stale(e))
      PROVE  \E k \in 1..(i - 1) : events'[k].mask = "delete" /\ events'[k].node = e
  <2>1. PICK k \in 1..(i - 1) : events[k].mask = "delete" /\ events[k].node = e
    BY <1>1, <1>4
  <2>2. QED
    BY <1>2, <2>1
<1>5. QED
  BY <1>3, <1>4

LEMMA PlugKeeps ==
  ASSUME CareInv, LifeTypeOK', Careful, NEW e \in Nodes, Plug(e)
  PROVE  CareInv'
<1>1. /\ e \notin plugged /\ plugged' = plugged \cup {e}
      /\ listener = "wait" /\ thread[NameOf[e]] # "running"
      /\ main = "pause" /\ ~ub
      /\ events' = Append(events, [mask |-> "create", node |-> e])
      /\ UNCHANGED <<paths, known, thread, inited, active, enabled, saved, newDevices,
                     removedDevices, listener, main, todo, ub>>
  BY DEF Plug, Notify, listenVars, mainVars
<1> DEFINE L == Len(events)
<1>2. /\ DOMAIN events' = 1..(L + 1)
      /\ events'[L + 1].mask = "create" /\ events'[L + 1].node = e
      /\ \A i \in DOMAIN events : events'[i] = events[i]
      /\ \A m, f : Told(m, f)' <=> Told(m, f) \/ (m = "create" /\ f = e)
      /\ \A f : Silent(f)' <=> Silent(f) /\ f # e
      /\ \A m, f : f # e /\ Latest(m, f) => Latest(m, f)'
      /\ Latest("create", e)'
      /\ \A f : (Fresh(f)' <=> Fresh(f)) /\ (Stale(f)' <=> Stale(f))
      /\ \A f : Leaving(f)' <=> Leaving(f)
  BY <1>1, NoticeAppended DEF CareInv
<1>3. L \in Nat /\ DOMAIN events = 1..L
  BY EventsTyped DEF CareInv
<1> HIDE DEF L
<1>4. SameNodes /\ \A f : Listed(f)' <=> Listed(f)
  BY <1>1 DEF SameNodes, Listed, NodesOf
<1>5. BusyIsQuiet' /\ TodoIsKnown' /\ SortingIsCalm' /\ PathsAreNamed' /\ StrangersAreIdle'
      /\ RunningAreOpen'
  BY <1>1 DEF CareInv, BusyIsQuiet, TodoIsKnown, SortingIsCalm, PathsAreNamed,
     StrangersAreIdle, RunningAreOpen
<1>6. EndedHaveLost' /\ KnownAreInited'
  <2>1. EndedHaveLost /\ KnownAreInited
    BY DEF CareInv
  <2>2. EndedHaveLost'
    BY <1>1, <1>2, <2>1 DEF EndedHaveLost
  <2>3. KnownAreInited'
    BY <1>1, <1>2, <2>1 DEF KnownAreInited
  <2>4. QED
    BY <2>2, <2>3
<1>7. DeadAreLeaving'
  <2>1. ASSUME NEW n \in Names, NEW f \in Nodes, NEW i \in DOMAIN paths[n],
               paths[n][i].node = f
        PROVE  /\ paths[n][i].fd = "dead" =>
                    f \notin plugged' /\ (Told("delete", f)' \/ Stale(f)')
               /\ n \in active /\ Leaving(f)' => paths[n][i].fd = "dead"
    <3>1. /\ paths[n][i].fd = "dead" => f \notin plugged /\ (Told("delete", f) \/ Stale(f))
          /\ n \in active /\ Leaving(f) => paths[n][i].fd = "dead"
      BY <2>1 DEF CareInv, DeadAreLeaving
    <3>2. paths[n][i].fd = "dead" => thread[n] = "running"
      BY DEF CareInv, RunningAreOpen
    <3>3. NameOf[f] = n
      BY <2>1 DEF CareInv, PathsAreNamed
    <3>4. QED
      BY <1>1, <1>2, <3>1, <3>2, <3>3
  <2>2. QED
    BY <1>1, <2>1 DEF DeadAreLeaving
<1>8. QueuesAreTrue'
  <2>1. QueuesAreTrue
    BY DEF CareInv
  <2>2. ASSUME NEW f \in Nodes
        PROVE  /\ f \in plugged' =>
                    \/ Latest("create", f)'
                    \/ Silent(f)' /\ (Fresh(f)' \/ (Listed(f)' /\ ~Stale(f)'))
               /\ f \notin plugged' =>
                    \/ Latest("delete", f)'
                    \/ Silent(f)' /\ ~Fresh(f)' /\ (Listed(f)' => Stale(f)')
    <3>1. CASE f = e
      BY <1>1, <1>2, <3>1
    <3>2. CASE f # e
      BY <1>1, <1>2, <1>4, <2>1, <3>2 DEF QueuesAreTrue
    <3>3. QED
      BY <3>1, <3>2
  <2>3. QED
    BY <2>2 DEF QueuesAreTrue
(* The node was last told to have gone, or was not there at all.            *)
<1>9. ASSUME Latest("delete", e)
      PROVE  \E k \in 1..L :
               /\ events'[k].mask = "delete" /\ events'[k].node = e
               /\ \A j \in 1..L : events'[j].mask = "create" /\ events'[j].node = e => j < k
  <2>1. PICK k \in 1..L :
          /\ events[k].mask = "delete" /\ events[k].node = e
          /\ \A j \in 1..L : j > k => events[j].node # e
    BY <1>3, <1>9 DEF Latest
  <2>2. ASSUME NEW j \in 1..L, events[j].mask = "create", events[j].node = e
        PROVE  j < k
    <3>1. j # k /\ ~(j > k)
      BY <2>1, <2>2
    <3>2. QED
      BY <3>1
  <2>3. QED
    BY <1>2, <1>3, <2>1, <2>2
<1>10. ASSUME ~Latest("delete", e)
       PROVE  /\ \A j \in 1..L : events'[j].node # e
              /\ ~Fresh(e) /\ (Listed(e) => Stale(e))
  <2>1. Silent(e) /\ ~Fresh(e) /\ (Listed(e) => Stale(e))
    BY <1>1, <1>10 DEF CareInv, QueuesAreTrue
  <2>2. QED
    BY <1>2, <1>3, <2>1 DEF Silent
<1>11. NewsAreNew'
  <2>1. ASSUME NEW f \in Nodes, NEW i \in DOMAIN events',
               events'[i].mask = "create", events'[i].node = f
        PROVE  /\ \A j \in 1..(i - 1) :
                    events'[j].mask = "create" /\ events'[j].node = f =>
                      \E k \in (j + 1)..(i - 1) :
                        events'[k].mask = "delete" /\ events'[k].node = f
               /\ Fresh(f) \/ (Listed(f) /\ ~Stale(f)) =>
                    \E k \in 1..(i - 1) : events'[k].mask = "delete" /\ events'[k].node = f
    <3>1. CASE i \in 1..L
      <4>1. \A j \in 1..L : events'[j] = events[j]
        BY <1>2, <1>3
      <4>2. QED
        BY <1>3, <2>1, <3>1, <4>1, NewsStayNew
    <3>2. CASE i = L + 1
      <4>1. f = e /\ i - 1 = L
        BY <1>2, <1>3, <2>1, <3>2
      <4>2. CASE Latest("delete", e)
        <5>1. PICK k \in 1..L :
                /\ events'[k].mask = "delete" /\ events'[k].node = e
                /\ \A j \in 1..L :
                     events'[j].mask = "create" /\ events'[j].node = e => j < k
          BY <1>9, <4>2
        <5>2. \A j \in 1..L : j < k => k \in (j + 1)..L
          BY <1>3
        <5>3. QED
          BY <4>1, <5>1, <5>2
      <4>3. CASE ~Latest("delete", e)
        BY <1>10, <4>1, <4>3
      <4>4. QED
        BY <4>2, <4>3
    <3>3. i \in 1..L \/ i = L + 1
      BY <1>2, <1>3, <2>1
    <3>4. QED
      BY <3>1, <3>2, <3>3
  <2>2. QED
    BY <1>2, <1>4, <2>1 DEF NewsAreNew
<1>12. FreshAreNew'
  BY <1>1, <1>2, <1>4 DEF CareInv, FreshAreNew
<1>13. FreshAreIdle'
  BY <1>1, <1>2 DEF CareInv, FreshAreIdle
<1>14. EnabledAreHeld'
  <2>1. \A n : Held(n)' <=> Held(n)
    BY <1>1 DEF Held
  <2>2. QED
    BY <1>1, <2>1 DEF CareInv, EnabledAreHeld
<1>15. QED
  BY <1>1, <1>5, <1>6, <1>7, <1>8, <1>11, <1>12, <1>13, <1>14 DEF CareInv

LEMMA UnplugKeeps ==
  ASSUME CareInv, LifeTypeOK', Careful, NEW e \in Nodes, Unplug(e)
  PROVE  CareInv'
<1>1. /\ e \in plugged /\ plugged' = plugged \ {e}
      /\ NameOf[e] \in active => thread[NameOf[e]] # "none"
      /\ paths' = [n \in Names |-> [i \in DOMAIN paths[n] |-> Lost(paths[n][i], e)]]
      /\ main = "pause" /\ ~ub
      /\ events' = Append(events, [mask |-> "delete", node |-> e])
      /\ UNCHANGED <<known, thread, inited, active, enabled, saved, newDevices,
                     removedDevices, listener, main, todo, ub>>
  BY DEF Unplug, Notify, listenVars, mainVars
<1> DEFINE L == Len(events)
<1>2. /\ DOMAIN events' = 1..(L + 1)
      /\ events'[L + 1].mask = "delete" /\ events'[L + 1].node = e
      /\ \A i \in DOMAIN events : events'[i] = events[i]
      /\ \A m, f : Told(m, f)' <=> Told(m, f) \/ (m = "delete" /\ f = e)
      /\ \A f : Silent(f)' <=> Silent(f) /\ f # e
      /\ \A m, f : f # e /\ Latest(m, f) => Latest(m, f)'
      /\ Latest("delete", e)'
      /\ \A f : (Fresh(f)' <=> Fresh(f)) /\ (Stale(f)' <=> Stale(f))
      /\ \A f : Leaving(f)' <=> Leaving(f) \/ f = e
  BY <1>1, NoticeAppended DEF CareInv
<1>3. L \in Nat /\ DOMAIN events = 1..L /\ LifeTypeOK
  BY EventsTyped DEF CareInv
<1> HIDE DEF L
(* The node is lost to the thread that has it open.                         *)
<1>4. ASSUME NEW n \in Names
      PROVE  /\ DOMAIN paths'[n] = DOMAIN paths[n]
             /\ paths'[n] = <<>> <=> paths[n] = <<>>
             /\ \A i \in DOMAIN paths[n] :
                  /\ paths'[n][i].node = paths[n][i].node
                  /\ paths[n][i].fd \in {"closed", "live", "dead"}
                  /\ paths'[n][i].fd =
                       IF paths[n][i].node = e /\ paths[n][i].fd = "live"
                         THEN "dead" ELSE paths[n][i].fd
  <2>1. paths[n] \in Seq(Path) /\ paths'[n] \in Seq(Path)
    BY <1>3 DEF LifeTypeOK
  <2>2. paths'[n] = [i \in DOMAIN paths[n] |-> Lost(paths[n][i], e)]
    BY <1>1
  <2>3. DOMAIN paths'[n] = DOMAIN paths[n]
    BY <2>2
  <2>4. \A p \in Path :
          /\ p.fd \in {"closed", "live", "dead"}
          /\ Lost(p, e).node = p.node
          /\ Lost(p, e).fd = IF p.node = e /\ p.fd = "live" THEN "dead" ELSE p.fd
    BY DEF Path, Lost
  <2>5. \A i \in DOMAIN paths[n] : paths[n][i] \in Path /\ paths'[n][i] = Lost(paths[n][i], e)
    BY <2>1, <2>2, Positions
  <2>6. paths'[n] = <<>> <=> paths[n] = <<>>
    BY <2>1, <2>3, PathsTyped
  <2>7. QED
    BY <2>3, <2>4, <2>5, <2>6
<1>5. SameNodes
  BY <1>4 DEF SameNodes
<1>6. \A f \in Nodes : Listed(f)' <=> Listed(f)
  BY <1>5, SameNodesListed
<1>7. BusyIsQuiet' /\ SortingIsCalm' /\ TodoIsKnown'
  <2>1. SortingIsCalm /\ TodoIsKnown
    BY DEF CareInv
  <2>2. QED
    BY <1>1, <1>2, <2>1 DEF BusyIsQuiet, SortingIsCalm, TodoIsKnown
<1>8. PathsAreNamed'
  <2>1. PathsAreNamed
    BY DEF CareInv
  <2>2. QED
    BY <1>4, <2>1 DEF PathsAreNamed
<1>9. StrangersAreIdle'
  BY <1>1, <1>4 DEF CareInv, StrangersAreIdle
<1>10. RunningAreOpen'
  <2>1. RunningAreOpen
    BY DEF CareInv
  <2>2. ASSUME NEW n \in Names
        PROVE  /\ thread'[n] = "running" => paths'[n] # <<>>
               /\ thread'[n] # "none" => n \in active' \cap inited'
               /\ \A i \in DOMAIN paths'[n] : paths'[n][i].fd = "closed" <=> thread'[n] # "running"
    <3>1. thread'[n] = thread[n]
      BY <1>1
    <3>2. \A i \in DOMAIN paths'[n] : paths'[n][i].fd = "closed" <=> paths[n][i].fd = "closed"
      BY <1>4
    <3>3. \A i \in DOMAIN paths'[n] : paths[n][i].fd = "closed" <=> thread[n] # "running"
      BY <1>4, <2>1 DEF RunningAreOpen
    <3>4. thread[n] = "running" => paths'[n] # <<>>
      BY <1>4, <2>1 DEF RunningAreOpen
    <3>5. thread[n] # "none" => n \in active' \cap inited'
      BY <1>1, <2>1 DEF RunningAreOpen
    <3>6. QED
      BY <3>1, <3>2, <3>3, <3>4, <3>5
  <2>3. QED
    BY <2>2 DEF RunningAreOpen
<1>11. EndedHaveLost' /\ KnownAreInited'
  <2>1. EndedHaveLost /\ KnownAreInited
    BY DEF CareInv
  <2>2. known \subseteq Names
    BY <1>3 DEF LifeTypeOK
  <2>3. EndedHaveLost'
    BY <1>1, <1>2, <1>4, <2>1, <2>2 DEF EndedHaveLost
  <2>4. KnownAreInited'
    BY <1>1, <1>2, <2>1 DEF KnownAreInited
  <2>5. QED
    BY <2>3, <2>4
<1>12. DeadAreLeaving'
  <2>1. ASSUME NEW n \in Names, NEW f \in Nodes, NEW i \in DOMAIN paths'[n],
               paths'[n][i].node = f
        PROVE  /\ paths'[n][i].fd = "dead" =>
                    /\ f \notin plugged'
                    /\ Told("delete", f)' \/ (listener = "wait" /\ Stale(f)')
               /\ n \in active /\ Leaving(f)' => paths'[n][i].fd = "dead"
    <3>1. /\ i \in DOMAIN paths[n] /\ paths[n][i].node = f
          /\ paths[n][i].fd \in {"closed", "live", "dead"}
          /\ paths'[n][i].fd =
               IF f = e /\ paths[n][i].fd = "live" THEN "dead" ELSE paths[n][i].fd
      BY <1>4, <2>1
    <3>2. /\ paths[n][i].fd = "dead" =>
               f \notin plugged /\ (Told("delete", f) \/ (listener = "wait" /\ Stale(f)))
          /\ n \in active /\ Leaving(f) => paths[n][i].fd = "dead"
      BY <3>1 DEF CareInv, DeadAreLeaving
    <3>3. CASE f = e
      <4>1. NameOf[e] = n
        BY <3>1, <3>3 DEF CareInv, PathsAreNamed
      <4>2. n \in active => thread[n] = "running"
        <5>1. paths[n] # <<>>
          BY <3>1
        <5>2. thread[n] = "ended" => n \in known
          BY DEF CareInv, StrangersAreIdle
        <5>3. thread[n] # "ended"
          BY <5>1, <5>2 DEF CareInv, EndedHaveLost
        <5>4. QED
          BY <1>1, <1>3, <4>1, <5>3 DEF LifeTypeOK
      <4>3. n \in active => paths[n][i].fd # "closed"
        BY <3>1, <4>2 DEF CareInv, RunningAreOpen
      <4>4. QED
        BY <1>1, <1>2, <3>1, <3>3, <4>3
    <3>4. CASE f # e
      BY <1>1, <1>2, <3>1, <3>2, <3>4
    <3>5. QED
      BY <3>3, <3>4
  <2>2. QED
    BY <1>1, <2>1 DEF DeadAreLeaving
<1>13. QueuesAreTrue'
  <2>1. QueuesAreTrue
    BY DEF CareInv
  <2>2. ASSUME NEW f \in Nodes
        PROVE  /\ f \in plugged' =>
                    \/ Latest("create", f)'
                    \/ Silent(f)' /\ (Fresh(f)' \/ (Listed(f)' /\ ~Stale(f)'))
               /\ f \notin plugged' =>
                    \/ Latest("delete", f)'
                    \/ Silent(f)' /\ ~Fresh(f)' /\ (Listed(f)' => Stale(f)')
    <3>1. CASE f = e
      BY <1>1, <1>2, <3>1
    <3>2. CASE f # e
      BY <1>1, <1>2, <1>6, <2>1, <3>2 DEF QueuesAreTrue
    <3>3. QED
      BY <3>1, <3>2
  <2>3. QED
    BY <2>2 DEF QueuesAreTrue
<1>14. NewsAreNew'
  <2>1. ASSUME NEW f \in Nodes, NEW i \in DOMAIN events',
               events'[i].mask = "create", events'[i].node = f
        PROVE  /\ \A j \in 1..(i - 1) :
                    events'[j].mask = "create" /\ events'[j].node = f =>
                      \E k \in (j + 1)..(i - 1) :
                        events'[k].mask = "delete" /\ events'[k].node = f
               /\ Fresh(f) \/ (Listed(f) /\ ~Stale(f)) =>
                    \E k \in 1..(i - 1) : events'[k].mask = "delete" /\ events'[k].node = f
    <3>1. i \in 1..L
      BY <1>2, <1>3, <2>1
    <3>2. \A j \in 1..L : events'[j] = events[j]
      BY <1>2, <1>3
    <3>3. QED
      BY <1>3, <2>1, <3>1, <3>2, NewsStayNew
  <2>2. QED
    BY <1>2, <1>6, <2>1 DEF NewsAreNew
<1>15. FreshAreNew'
  BY <1>1, <1>2, <1>6 DEF CareInv, FreshAreNew
<1>16. FreshAreIdle'
  BY <1>1, <1>2 DEF CareInv, FreshAreIdle
<1>17. EnabledAreHeld'
  <2>1. \A n : Held(n)' <=> Held(n)
    BY <1>1 DEF Held
  <2>2. QED
    BY <1>1, <2>1 DEF CareInv, EnabledAreHeld
<1>18. QED
  BY <1>1, <1>7, <1>8, <1>9, <1>10, <1>11, <1>12, <1>13, <1>14, <1>15, <1>16, <1>17
     DEF CareInv

-----------------------------------------------------------------------------
(* CareInv holds when the daemon starts, and every step keeps it.           *)

LEMMA CareInit == LifeInit => CareInv
<1> SUFFICES ASSUME LifeInit
             PROVE  CareInv
  OBVIOUS
<1>1. LifeTypeOK
  BY LifeTypeInit
<1>2. QueuesEmpty /\ main = "start" /\ listener = "wait"
  BY DEF LifeInit, QueuesEmpty
<1>3. /\ known = {NameOf[e] : e \in plugged} /\ plugged \subseteq Nodes
      /\ todo.main = known /\ todo.listener = {}
      /\ inited = {} /\ active = {} /\ enabled = {} /\ ~ub
      /\ \A n \in Names : thread[n] = "none"
  BY DEF LifeInit
<1>4. ASSUME NEW n \in Names
      PROVE  /\ \A i \in DOMAIN paths[n] :
                  /\ paths[n][i].fd = "closed"
                  /\ paths[n][i].node \in plugged /\ NameOf[paths[n][i].node] = n
             /\ \A i, j \in DOMAIN paths[n] : paths[n][i].node = paths[n][j].node => i = j
             /\ \A e \in plugged : NameOf[e] = n => e \in NodesOf(n)
             /\ paths[n] = <<>> <=> n \notin known
  <2>1. /\ \A i \in DOMAIN paths[n] :
             /\ paths[n][i].fd = "closed"
             /\ paths[n][i].node \in plugged /\ NameOf[paths[n][i].node] = n
        /\ \A e \in plugged : NameOf[e] = n => \E i \in DOMAIN paths[n] : paths[n][i].node = e
        /\ \A i, j \in DOMAIN paths[n] : paths[n][i].node = paths[n][j].node => i = j
    BY ScannedPaths
  <2>2. paths[n] = <<>> <=> DOMAIN paths[n] = {}
    BY <1>1, PathsTyped DEF LifeTypeOK
  <2>3. n \in known <=> \E e \in plugged : NameOf[e] = n
    BY <1>3
  <2>4. paths[n] = <<>> <=> n \notin known
    BY <2>1, <2>2, <2>3
  <2>5. QED
    BY <2>1, <2>4 DEF NodesOf
<1>5. \A e \in Nodes : e \in plugged <=> Listed(e)
  BY <1>4, NamesAreTyped DEF Listed, NodesOf
<1>6. BusyIsQuiet
  BY <1>2, <1>4 DEF BusyIsQuiet, QueuesEmpty
<1>7. TodoIsKnown /\ SortingIsCalm
  BY <1>2, <1>3 DEF TodoIsKnown, SortingIsCalm
<1>8. PathsAreNamed /\ StrangersAreIdle /\ RunningAreOpen
  <2>1. PathsAreNamed
    BY <1>4 DEF PathsAreNamed
  <2>2. StrangersAreIdle
    BY <1>3, <1>4 DEF StrangersAreIdle
  <2>3. RunningAreOpen
    BY <1>3, <1>4 DEF RunningAreOpen
  <2>4. QED
    BY <2>1, <2>2, <2>3
<1>9. EndedHaveLost /\ DeadAreLeaving
  <2>1. known \subseteq Names
    BY <1>1 DEF LifeTypeOK
  <2>2. EndedHaveLost
    BY <1>3, <1>4, <2>1 DEF EndedHaveLost
  <2>3. DeadAreLeaving
    BY <1>3, <1>4 DEF DeadAreLeaving
  <2>4. QED
    BY <2>2, <2>3
<1>10. QueuesAreTrue /\ FreshAreIdle
  BY <1>2, <1>5, EmptyQueues DEF QueuesAreTrue, FreshAreIdle
<1>11. NewsAreNew /\ FreshAreNew
  <2>1. DOMAIN events = {} /\ DOMAIN newDevices = {}
    BY <1>2 DEF QueuesEmpty
  <2>2. FreshAreNew
    BY <1>2, <2>1, EmptyQueues DEF FreshAreNew
  <2>3. QED
    BY <2>1, <2>2 DEF NewsAreNew
<1>12. EnabledAreHeld /\ KnownAreInited
  BY <1>2, <1>3 DEF EnabledAreHeld, KnownAreInited
<1>13. QED
  BY <1>1, <1>3, <1>6, <1>7, <1>8, <1>9, <1>10, <1>11, <1>12 DEF CareInv

LEMMA CareStutters ==
  ASSUME CareInv, UNCHANGED lifeVars
  PROVE  CareInv'
<1>1. UNCHANGED <<plugged, known, paths, thread, inited, active, enabled, saved, events,
                  newDevices, removedDevices, listener, main, whatToDo, todo, ub>>
  BY DEF lifeVars, deviceVars, listenVars, mainVars
<1>2. /\ \A mask, e : (Told(mask, e)' <=> Told(mask, e)) /\ (Latest(mask, e)' <=> Latest(mask, e))
      /\ \A e : (Silent(e)' <=> Silent(e)) /\ (Fresh(e)' <=> Fresh(e)) /\ (Stale(e)' <=> Stale(e))
      /\ \A e : (Listed(e)' <=> Listed(e)) /\ (Leaving(e)' <=> Leaving(e))
      /\ \A n : Held(n)' <=> Held(n)
  BY <1>1 DEF Told, Latest, Silent, Fresh, Stale, Listed, NodesOf, Leaving, Held
<1>3. LifeTypeOK'
  BY LifeTypeStep DEF CareInv
<1>4. BusyIsQuiet' /\ TodoIsKnown' /\ PathsAreNamed' /\ StrangersAreIdle' /\ RunningAreOpen'
  BY <1>1 DEF CareInv, BusyIsQuiet, TodoIsKnown, PathsAreNamed, StrangersAreIdle,
     RunningAreOpen
<1>5. SortingIsCalm' /\ EndedHaveLost' /\ DeadAreLeaving'
  BY <1>1, <1>2 DEF CareInv, SortingIsCalm, EndedHaveLost, DeadAreLeaving
<1>6. QueuesAreTrue' /\ NewsAreNew' /\ FreshAreNew' /\ FreshAreIdle'
  <2>1. SameNodes
    BY <1>1 DEF SameNodes
  <2>2. QueuesAreTrue' /\ NewsAreNew' /\ FreshAreNew'
    BY <1>1, <2>1, SameNodesKept
  <2>3. FreshAreIdle'
    BY <1>1, <1>2 DEF CareInv, FreshAreIdle
  <2>4. QED
    BY <2>2, <2>3
<1>7. EnabledAreHeld' /\ KnownAreInited'
  BY <1>1, <1>2 DEF CareInv, EnabledAreHeld, KnownAreInited
<1>8. QED
  BY <1>1, <1>3, <1>4, <1>5, <1>6, <1>7 DEF CareInv

LEMMA CareStep ==
  ASSUME Careful, Burst = 1
  PROVE  CareInv /\ [LifeNext]_lifeVars => CareInv'
<1> SUFFICES ASSUME CareInv, [LifeNext]_lifeVars
             PROVE  CareInv'
  OBVIOUS
<1>1. LifeTypeOK'
  BY LifeTypeStep DEF CareInv
<1>2. CASE UNCHANGED lifeVars
  BY <1>2, CareStutters
<1>3. CASE Threads
  BY <1>1, <1>3, LosePathKeeps DEF Threads
<1>4. CASE Watch \/ Sort
  BY <1>1, <1>4, WatchKeeps, SortKeeps
<1>5. CASE Sorts
  BY <1>1, <1>5, RemoveDevicesKeeps, AddDeviceKeeps, SortedKeeps, StartNewKeeps,
     WaitAgainKeeps DEF Sorts
<1>6. CASE Main \/ Continue
  <2>1. CASE \E n \in Names : MainDevice(n)
    BY <1>1, <2>1, MainDeviceKeeps
  <2>2. CASE WakeUp \/ Continue
    BY <1>1, <2>2, MainTurnsKeep
  <2>3. CASE MainNext("start", "pause") \/ MainNext("quit", "exited")
    BY <1>1, <2>3, MainNextKeeps
  <2>4. CASE MainNext("suspend", "stopped") \/ MainNext("resume", "return")
    BY <1>1, <2>4, MainNextKeeps
  <2>5. CASE MainNext("return", "pause")
    BY <1>1, <2>5, MainNextKeeps
  <2>6. QED
    BY <1>6, <2>1, <2>2, <2>3, <2>4, <2>5 DEF Main
<1>7. CASE Users
  BY <1>1, <1>7, PlugKeeps, UnplugKeeps, CommandsKeep, SignalKeeps DEF Users
<1>8. QED
  BY <1>2, <1>3, <1>4, <1>5, <1>6, <1>7 DEF LifeNext

LEMMA CareIsKept ==
  ASSUME Careful, Burst = 1
  PROVE  LifeSpec => []CareInv
<1>1. LifeInit => CareInv
  BY CareInit
<1>2. CareInv /\ [LifeNext]_lifeVars => CareInv'
  BY CareStep
<1>3. QED
  BY <1>1, <1>2, PTL DEF LifeSpec

-----------------------------------------------------------------------------
(* What follows for careful users whose events the listener gets one by one.*)

LEMMA StoppedIsReleased == CareInv => StoppedReleases
<1> SUFFICES ASSUME CareInv, main = "stopped", NEW n \in Names
             PROVE  /\ thread[n] # "running"
                    /\ \A i \in DOMAIN paths[n] : paths[n][i].fd # "live"
  BY DEF StoppedReleases
<1>1. thread[n] = "none"
  BY DEF CareInv, EnabledAreHeld, Held
<1>2. QED
  BY <1>1 DEF CareInv, RunningAreOpen

(* A daemon that SIGTSTP has stopped holds no node of any device: the loop  *)
(* of main over dev has deactivated them all before it raises SIGSTOP.      *)
THEOREM StoppingReleases ==
  ASSUME Careful, Burst = 1
  PROVE  LifeSpec => []StoppedReleases
<1>1. CareInv => StoppedReleases
  BY StoppedIsReleased
<1>2. LifeSpec => []CareInv
  BY CareIsKept
<1>3. QED
  BY <1>1, <1>2, PTL

LEMMA SettledIsWell ==
  ASSUME CareInv, Settled
  PROVE  /\ QueuesEmpty /\ AllIsWell
         /\ \A e \in Nodes : e \in plugged <=> Listed(e)
         /\ \A n \in known : n \in inited
         /\ \A n \in Names : Held(n)
<1>1. QueuesEmpty /\ listener = "wait" /\ main = "pause"
  BY DEF Settled, QueuesEmpty
<1>2. AllIsWell /\ \A e \in Nodes : e \in plugged <=> Listed(e)
  BY <1>1, EmptyIsWell
<1>3. todo.listener = {}
  BY <1>1 DEF CareInv, TodoIsKnown
<1>4. \A n \in known : n \in inited
  BY <1>1, <1>3, EmptyQueues DEF CareInv, KnownAreInited
<1>5. QED
  BY <1>1, <1>2, <1>4 DEF Held

LEMMA SettledIsPlugged == CareInv => KnownArePlugged
<1> SUFFICES ASSUME CareInv, Settled
             PROVE  /\ known = {NameOf[e] : e \in plugged}
                    /\ \A n \in known :
                         /\ NodesOf(n) = {e \in plugged : NameOf[e] = n}
                         /\ IsInjective([i \in DOMAIN paths[n] |-> paths[n][i].node])
  BY DEF KnownArePlugged
<1>1. /\ LifeTypeOK /\ plugged \subseteq Nodes /\ known \subseteq Names
      /\ AllIsWell
      /\ \A e \in Nodes : e \in plugged <=> Listed(e)
  BY SettledIsWell DEF CareInv, LifeTypeOK
<1>2. ASSUME NEW n \in Names
      PROVE  /\ NodesOf(n) = {e \in plugged : NameOf[e] = n}
             /\ \A i, j \in DOMAIN paths[n] : paths[n][i].node = paths[n][j].node => i = j
             /\ paths[n] = <<>> <=> NodesOf(n) = {}
  <2>1. \A i \in DOMAIN paths[n] : paths[n][i].node \in Nodes
    BY <1>1, PathsTyped DEF LifeTypeOK
  <2>2. \A i \in DOMAIN paths[n] :
          /\ NameOf[paths[n][i].node] = n
          /\ \A j \in DOMAIN paths[n] : paths[n][i].node = paths[n][j].node => i = j
    BY DEF CareInv, PathsAreNamed
  <2>3. \A e \in NodesOf(n) : e \in plugged /\ NameOf[e] = n
    BY <1>1, <2>1, <2>2 DEF NodesOf, Listed
  <2>4. \A e \in plugged : NameOf[e] = n => e \in NodesOf(n)
    BY <1>1 DEF Listed
  <2>5. paths[n] = <<>> <=> DOMAIN paths[n] = {}
    BY <1>1, PathsTyped DEF LifeTypeOK
  <2>6. QED
    BY <2>2, <2>3, <2>4, <2>5 DEF NodesOf
<1>3. \A n \in Names : n \in known <=> paths[n] # <<>>
  BY <1>1 DEF AllIsWell, CareInv, StrangersAreIdle
<1>4. known = {NameOf[e] : e \in plugged}
  <2>1. \A n \in known : \E e \in plugged : n = NameOf[e]
    BY <1>1, <1>2, <1>3
  <2>2. \A e \in plugged : NameOf[e] \in known
    <3>1. TAKE e \in plugged
    <3>2. NameOf[e] \in Names /\ e \in NodesOf(NameOf[e])
      BY <1>1, NamesAreTyped DEF Listed
    <3>3. QED
      BY <1>2, <1>3, <3>2
  <2>3. QED
    BY <2>1, <2>2
<1>5. QED
  BY <1>1, <1>2, <1>4 DEF IsInjective

(* Once nothing is left to be read or sorted, dev holds the devices that    *)
(* are there and no others, with each of their nodes once, whatever was     *)
(* plugged and unplugged in between: processDev, delPath and the queues of  *)
(* the listener.                                                            *)
THEOREM DevicesArePlugged ==
  ASSUME Careful, Burst = 1
  PROVE  LifeSpec => []KnownArePlugged
<1>1. CareInv => KnownArePlugged
  BY SettledIsPlugged
<1>2. LifeSpec => []CareInv
  BY CareIsKept
<1>3. QED
  BY <1>1, <1>2, PTL

LEMMA SettledIsRemapped == CareInv => EnabledAreRemapped
<1> SUFFICES ASSUME CareInv, Settled, NEW n \in known
             PROVE  /\ thread[n] = "running" <=> n \in enabled
                    /\ \A i \in DOMAIN paths[n] : paths[n][i].fd = "live" <=> n \in enabled
  BY DEF EnabledAreRemapped
<1>1. n \in Names /\ n \in inited /\ Held(n) /\ AllIsWell /\ LifeTypeOK
  BY SettledIsWell DEF CareInv, LifeTypeOK
<1>2. thread[n] # "none" <=> n \in enabled
  BY <1>1 DEF CareInv, EnabledAreHeld
<1>3. thread[n] \in {"none", "running"}
  BY <1>1 DEF AllIsWell, LifeTypeOK
<1>4. \A i \in DOMAIN paths[n] :
        paths[n][i].fd = IF thread[n] = "running" THEN "live" ELSE "closed"
  BY <1>1 DEF AllIsWell
<1>5. QED
  BY <1>2, <1>3, <1>4

(* And a device has its thread running and all of its nodes grabbed just if *)
(* it is enabled.                                                           *)
THEOREM EnabledIsRemapped ==
  ASSUME Careful, Burst = 1
  PROVE  LifeSpec => []EnabledAreRemapped
<1>1. CareInv => EnabledAreRemapped
  BY SettledIsRemapped
<1>2. LifeSpec => []CareInv
  BY CareIsKept
<1>3. QED
  BY <1>1, <1>2, PTL
=============================================================================
