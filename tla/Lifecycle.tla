----------------------------- MODULE Lifecycle -----------------------------
(***************************************************************************)
(* Devices that come, go, start and stop: the main loop of daemon/main.cpp,*)
(* DeviceListener::run() of listener.cpp, processDev() of scanner.cpp,     *)
(* activate(), deactivate(), addPath(), delPath() and the end of run() of  *)
(* device.cpp, enable and disable of command.cpp.                          *)
(*                                                                         *)
(* The main thread, the listener, the input thread of each device and the  *)
(* clients change the same devices, and nothing is locked.  A device is    *)
(* known by its name, and gathers the nodes of that name.  What a thread   *)
(* of a device does with its events is the subject of Device.              *)
(***************************************************************************)
EXTENDS Naturals, FiniteSets, SequencesExt, Subsequences

CONSTANTS
  Nodes,      \* nodes that may appear in /dev/input
  NameOf,     \* the name of the device each of them is part of
  Burst,      \* events that one read of the listener may return
  Careful,    \* whether users refrain from what the code cannot survive
  MaxEvents   \* events pending at which nothing more is plugged or unplugged

Names == Range(NameOf)

ASSUME LifecycleIsTyped ==
  /\ IsFiniteSet(Nodes)
  /\ NameOf \in [Nodes -> Names]
  /\ Burst \in Nat \ {0}
  /\ Careful \in BOOLEAN
  /\ MaxEvents \in Nat

Path == [node : Nodes, fd : {"closed", "live", "dead"}]
Notice == [mask : {"create", "delete"}, node : Nodes]

VARIABLES
  plugged,         \* the nodes there are
  known,           \* the names of the devices of dev
  paths,           \* the nodes of each device, and whether they are open
  thread,          \* its input thread; one that has ended can be joined
  inited, active, enabled,  \* the devices with these flags
  saved,           \* the devices whose state file says "enabled"
  events,          \* what inotify has to tell
  newDevices, removedDevices,
  listener,        \* what the listener is doing
  main, whatToDo,  \* what the main thread is doing, and has been told to do
  todo,            \* the devices it, or the listener, has yet to deal with
  ub               \* a thread was joined twice, or a descriptor used that is none

deviceVars == <<known, paths, thread, inited, active, enabled, saved>>
listenVars == <<newDevices, removedDevices, listener>>
mainVars == <<main, whatToDo>>
lifeVars == <<plugged, deviceVars, events, listenVars, mainVars, todo, ub>>

LifeTypeOK ==
  /\ plugged \subseteq Nodes
  /\ {known, inited, active, enabled, saved} \subseteq SUBSET Names
  /\ paths \in [Names -> Seq(Path)]
  /\ thread \in [Names -> {"none", "running", "ended"}]
  /\ events \in Seq(Notice)
  /\ {newDevices, removedDevices} \subseteq Seq(Nodes)
  /\ listener \in {"wait", "remove", "add", "start"}
  /\ main \in {"start", "pause", "wake", "quit", "suspend", "stopped", "resume",
               "return", "exited"}
  /\ whatToDo \in {"doNothing", "doQuit", "doSuspend"}
  /\ todo \in [{"main", "listener"} -> SUBSET Names]
  /\ ub \in BOOLEAN

Closed(path) == [path EXCEPT !.fd = "closed"]

BadUnopened(e) == [node |-> e, fd |-> "unset"]

Unopened(e) == [node |-> e, fd |-> "closed"]

NodesOf(n) == {paths[n][i].node : i \in DOMAIN paths[n]}

Runs == ~ub /\ main \notin {"stopped", "exited"}

(* Nodes that are there when the daemon starts: scanDev.                    *)
LifeInit ==
  /\ plugged \in SUBSET Nodes
  /\ known = {NameOf[e] : e \in plugged}
  /\ paths = [n \in Names |->
                SetToSeq({Unopened(e) : e \in {f \in plugged : NameOf[f] = n}})]
  /\ thread = [n \in Names |-> "none"]
  /\ inited = {} /\ active = {} /\ enabled = {}
  /\ saved \in SUBSET Names
  /\ events = <<>> /\ newDevices = <<>> /\ removedDevices = <<>>
  /\ listener = "wait"
  /\ main = "start" /\ whatToDo = "doNothing"
  /\ todo = [main |-> known, listener |-> {}]
  /\ ub = FALSE

-----------------------------------------------------------------------------
(* activate, which starts whatever it is told to start, and deactivate,     *)
(* which leaves the flag.                                                   *)

CanOpen(n) == NodesOf(n) \subseteq plugged

Activate(n) ==
  IF CanOpen(n)
    THEN /\ paths' = [paths EXCEPT ![n] =
                        [i \in DOMAIN @ |-> [@[i] EXCEPT !.fd = "live"]]]
         /\ thread' = [thread EXCEPT ![n] = "running"]
         /\ active' = active \cup {n}
         /\ ub' = (paths[n] = <<>> \/ thread[n] = "running")
    ELSE UNCHANGED <<paths, thread, active, ub>>

BadCloses(ps) == ps

Closes(ps) == [i \in DOMAIN ps |-> Closed(ps[i])]

Deactivate(n) ==
  /\ UNCHANGED active
  /\ IF n \in active
       THEN /\ ub' = (thread[n] = "none")
            /\ thread' = [thread EXCEPT ![n] = "none"]
            /\ paths' = [paths EXCEPT ![n] = Closes(@)]
       ELSE UNCHANGED <<thread, paths, ub>>

Spares(n) == UNCHANGED <<paths, thread, active, ub>>

(* init, which looks at every node                                          *)
Inits(n) == inited' = IF CanOpen(n) THEN inited \cup {n} ELSE inited

(* init, loadState and, if the state says so, activate.                     *)
StartDevice(n) ==
  /\ Inits(n)
  /\ enabled' = (enabled \ {n}) \cup ({n} \cap saved)
  /\ IF n \in saved THEN Activate(n) ELSE Spares(n)
  /\ UNCHANGED <<known, saved>>

(* deactivate if enabled, and saveState.                                    *)
StopDevice(n) ==
  /\ IF n \in enabled THEN Deactivate(n) ELSE Spares(n)
  /\ saved' = (saved \ {n}) \cup ({n} \cap enabled)
  /\ UNCHANGED <<known, inited, enabled>>

-----------------------------------------------------------------------------
(* An input thread that fails to read a node forgets it, and ends with the  *)
(* last one.                                                                *)

BadEnded == "none"

Ended == "ended"

LosePath(n) ==
  /\ Runs
  /\ thread[n] = "running"
  /\ \E i \in DOMAIN paths[n] :
       /\ paths[n][i].fd = "dead"
       /\ paths' = [paths EXCEPT ![n] = RemoveAt(@, i)]
       /\ thread' = [thread EXCEPT ![n] = IF Len(paths[n]) = 1 THEN Ended ELSE @]
  /\ UNCHANGED <<plugged, known, inited, active, enabled, saved, events,
                 listenVars, mainVars, todo, ub>>

-----------------------------------------------------------------------------
(* The listener.                                                            *)

Listens(state) ==
  Runs /\ listener = state /\ UNCHANGED <<plugged, mainVars>>

BadErased(list, e) == list

Erased(list, e) == Only(list, Nodes \ {e})

(* Only the first event of a read is understood: the offset of the next one *)
(* is a byte too far.                                                       *)
Watch ==
  /\ Listens("wait")
  /\ events # <<>>
  /\ \E n \in 1..Burst :
       n <= Len(events) /\ events' = SubSeq(events, n + 1, Len(events))
  /\ LET notice == Head(events) IN
       IF notice.mask = "create"
         THEN /\ newDevices' = Append(newDevices, notice.node)
              /\ UNCHANGED removedDevices
         ELSE /\ newDevices' = Erased(newDevices, notice.node)
              /\ removedDevices' = Append(removedDevices, notice.node)
  /\ UNCHANGED <<deviceVars, listener, todo, ub>>

NoticesLoss(n) == thread[n] = "running" /\ \E i \in DOMAIN paths[n] : paths[n][i].fd = "dead"

BadUnsettled == removedDevices # <<>>

Unsettled == removedDevices # <<>> \/ newDevices # <<>>

(* A second without events: by then the input threads have noticed what     *)
(* they lost.                                                               *)
Sort ==
  /\ Listens("wait")
  /\ Unsettled
  /\ events = <<>>
  /\ \A n \in Names : ~NoticesLoss(n)
  /\ listener' = "remove"
  /\ UNCHANGED <<deviceVars, events, newDevices, removedDevices, todo, ub>>

(* delPath on every device, and the end of those left without a path.       *)
Refuses(n, e) == n \in active /\ e \in NodesOf(n)

WithoutPath(n, e) ==
  IF n \in active THEN paths[n] ELSE Only(paths[n], {p \in Range(paths[n]) : p.node # e})

RemoveDevices ==
  LET e    == Head(removedDevices)
      gone == {n \in known : WithoutPath(n, e) = <<>>}
  IN  /\ Listens("remove")
      /\ removedDevices # <<>>
      /\ removedDevices' = Tail(removedDevices)
      /\ paths' = [n \in Names |-> WithoutPath(n, e)]
      /\ thread' = [n \in Names |-> IF n \in gone THEN "none" ELSE thread[n]]
      /\ ub' = \E n \in gone \cap active : thread[n] = "none"
      /\ saved' = (saved \ gone) \cup (gone \cap enabled)
      /\ known' = known \ gone
      /\ inited' = inited \ gone
      /\ active' = active \ gone
      /\ enabled' = enabled \ gone
      /\ UNCHANGED <<events, newDevices, listener, todo>>

(* A node is added to the device of its name, or a device to dev.  addPath  *)
(* leaves the descriptor unset, which a thread that runs would use.         *)
ProcessDev(e) ==
  LET n == NameOf[e]
  IN  /\ known' = known \cup {n}
      /\ paths' = [paths EXCEPT ![n] = Append(@, Unopened(e))]
      /\ ub' = (thread[n] = "running")

(* processDev, unless the node has gone.                                    *)
AddDevice ==
  LET e == Head(newDevices)
  IN  /\ Listens("remove")
      /\ removedDevices = <<>>
      /\ newDevices # <<>>
      /\ newDevices' = Tail(newDevices)
      /\ \/ e \in plugged /\ ProcessDev(e)
         \/ e \notin plugged /\ UNCHANGED <<known, paths, ub>>
      /\ UNCHANGED <<thread, inited, active, enabled, saved, events,
                     removedDevices, listener, todo>>

Sorted ==
  /\ Listens("remove")
  /\ removedDevices = <<>> /\ newDevices = <<>>
  /\ listener' = "start"
  /\ todo' = [todo EXCEPT !.listener = known \ inited]
  /\ UNCHANGED <<deviceVars, events, newDevices, removedDevices, ub>>

StartNew ==
  /\ Listens("start")
  /\ \E n \in todo.listener :
       StartDevice(n) /\ todo' = [todo EXCEPT !.listener = @ \ {n}]
  /\ UNCHANGED <<events, listenVars>>

WaitAgain ==
  /\ Listens("start")
  /\ todo.listener = {}
  /\ listener' = "wait"
  /\ UNCHANGED <<deviceVars, events, newDevices, removedDevices, todo, ub>>

-----------------------------------------------------------------------------
(* The main thread.                                                         *)

Goes(from, to) ==
  /\ ~ub /\ main = from /\ main' = to
  /\ UNCHANGED <<plugged, events, listenVars>>

BadResumes(n) == n \notin enabled

Resumes(n) == n \in enabled

Deals(phase, n) ==
  /\ n \in todo.main
  /\ Goes(phase, phase)
  /\ todo' = [todo EXCEPT !.main = @ \ {n}]
  /\ UNCHANGED whatToDo

MainDevice(n) ==
  \/ Deals("start", n) /\ StartDevice(n)
  \/ (Deals("suspend", n) \/ Deals("quit", n)) /\ StopDevice(n)
  \/ /\ Deals("resume", n)
     /\ IF Resumes(n) THEN Activate(n) ELSE Spares(n)
     /\ UNCHANGED <<known, inited, enabled, saved>>

(* The daemon has dealt with all devices.  A signal that came after it      *)
(* woke up is forgotten.                                                    *)
MainNext(phase, next) ==
  /\ todo.main = {}
  /\ Goes(phase, next)
  /\ whatToDo' = IF next = "return" THEN "doNothing" ELSE whatToDo
  /\ UNCHANGED <<deviceVars, todo, ub>>

WakeUp ==
  /\ \/ whatToDo = "doQuit" /\ Goes("wake", "quit")
     \/ whatToDo = "doSuspend" /\ Goes("wake", "suspend")
  /\ todo' = [todo EXCEPT !.main = known]
  /\ UNCHANGED <<whatToDo, deviceVars, ub>>

Main ==
  \/ \E n \in Names : MainDevice(n)
  \/ WakeUp
  \/ MainNext("start", "pause") \/ MainNext("quit", "exited")
  \/ MainNext("suspend", "stopped") \/ MainNext("resume", "return")
  \/ MainNext("return", "pause")

Continue ==
  /\ Goes("stopped", "resume")
  /\ todo' = [todo EXCEPT !.main = known]
  /\ UNCHANGED <<whatToDo, deviceVars, ub>>

-----------------------------------------------------------------------------
(* What users do.  Careful ones leave the plugs alone while main is busy,   *)
(* do not plug a node into a device that is being remapped, nor unplug one  *)
(* that was disabled, and give commands when all is settled.                *)

Settled ==
  /\ events = <<>> /\ newDevices = <<>> /\ removedDevices = <<>>
  /\ listener = "wait" /\ main = "pause"
  /\ \A n \in Names : ~NoticesLoss(n)

Signal(what) ==
  /\ Runs
  /\ main # "start"
  /\ Careful => Settled
  /\ whatToDo' = what
  /\ main' = IF main = "pause" THEN "wake" ELSE main
  /\ UNCHANGED <<plugged, deviceVars, events, listenVars, todo, ub>>

Notify(mask, e) ==
  /\ ~ub /\ main # "exited"
  /\ Careful => main = "pause"
  /\ Len(events) + Len(newDevices) + Len(removedDevices) < MaxEvents
  /\ events' = Append(events, [mask |-> mask, node |-> e])
  /\ UNCHANGED <<known, thread, inited, active, enabled, saved,
                 listenVars, mainVars, todo, ub>>

Plug(e) ==
  /\ e \notin plugged
  /\ Careful => listener = "wait" /\ thread[NameOf[e]] # "running"
  /\ Notify("create", e)
  /\ plugged' = plugged \cup {e}
  /\ UNCHANGED paths

Lost(path, e) ==
  IF path.node = e /\ path.fd = "live" THEN [path EXCEPT !.fd = "dead"] ELSE path

Unplug(e) ==
  /\ e \in plugged
  /\ Careful => (NameOf[e] \in active => thread[NameOf[e]] # "none")
  /\ Notify("delete", e)
  /\ plugged' = plugged \ {e}
  /\ paths' = [n \in Names |-> [i \in DOMAIN paths[n] |-> Lost(paths[n][i], e)]]

Commands(n) ==
  /\ Runs
  /\ main # "start"
  /\ n \in known
  /\ Careful => Settled
  /\ UNCHANGED <<plugged, known, inited, saved, events, listenVars, mainVars, todo>>

(* enable, disable                                                          *)
Enable(n) ==
  /\ Commands(n)
  /\ n \notin enabled
  /\ Activate(n)
  /\ enabled' = IF CanOpen(n) THEN enabled \cup {n} ELSE enabled

Disable(n) ==
  /\ Commands(n)
  /\ n \in enabled
  /\ Deactivate(n)
  /\ enabled' = enabled \ {n}

-----------------------------------------------------------------------------
Threads == \E n \in Names : LosePath(n)
Sorts == RemoveDevices \/ AddDevice \/ Sorted \/ StartNew \/ WaitAgain
Users ==
  \/ \E e \in Nodes : Plug(e) \/ Unplug(e)
  \/ \E n \in Names : Enable(n) \/ Disable(n)
  \/ Signal("doQuit") \/ Signal("doSuspend")

LifeNext == Threads \/ Watch \/ Sort \/ Sorts \/ Main \/ Continue \/ Users

LifeSpec == LifeInit /\ [][LifeNext]_lifeVars

(* The threads are scheduled.  A second without events comes every so often,*)
(* and a daemon that is stopped is continued.                               *)
LifeFairness ==
  /\ WF_lifeVars(Threads) /\ WF_lifeVars(Watch) /\ WF_lifeVars(Sorts)
  /\ SF_lifeVars(Sort)
  /\ WF_lifeVars(Main) /\ WF_lifeVars(Continue)

FairLifeSpec == LifeSpec /\ LifeFairness

-----------------------------------------------------------------------------
(* With users that are careful no thread is joined or started twice, and no *)
(* descriptor is used that is none, however the threads of the daemon are   *)
(* interleaved.                                                             *)
JoinedOnce == ~ub

(* Once all is settled the daemon knows the devices that are there and no   *)
(* others, with each of their nodes once.                                   *)
KnownArePlugged ==
  Settled =>
    /\ known = {NameOf[e] : e \in plugged}
    /\ \A n \in known : /\ NodesOf(n) = {e \in plugged : NameOf[e] = n}
                        /\ IsInjective([i \in DOMAIN paths[n] |-> paths[n][i].node])

(* Once all is settled a device is remapped, with all of its nodes, just if *)
(* it is enabled.                                                           *)
EnabledAreRemapped ==
  Settled =>
    \A n \in known :
      /\ thread[n] = "running" <=> n \in enabled
      /\ \A i \in DOMAIN paths[n] : paths[n][i].fd = "live" <=> n \in enabled

(* A daemon that is stopped holds no device: the keyboard that has to       *)
(* continue it is not grabbed.                                              *)
StoppedReleases ==
  main = "stopped" =>
    \A n \in Names : /\ thread[n] # "running"
                     /\ \A i \in DOMAIN paths[n] : paths[n][i].fd # "live"

(* The message of delPath: a path is refused because its device is enabled. *)
RefusedAreEnabled ==
  listener = "remove" /\ removedDevices # <<>> =>
    \A n \in known : Refuses(n, Head(removedDevices)) => n \in enabled

(* What is plugged in comes to be known, and what is unplugged forgotten.   *)
PlugsAreNoticed ==
  \A e \in Nodes :
    (e \in plugged) # (e \in NodesOf(NameOf[e])) ~>
      \/ (e \in plugged) = (e \in NodesOf(NameOf[e]))
      \/ main = "exited"

=============================================================================
