------------------------------- MODULE Device -------------------------------
(***************************************************************************)
(* The input thread of one device, Device::run() of daemon/device.cpp.     *)
(*                                                                         *)
(* The thread grabs the physical device, sleeps in pselect() until an      *)
(* input event arrives or its earliest timer is due, rewires the event     *)
(* through the current map, and writes the result to a virtual uinput      *)
(* device.  A client (command.cpp, in a socket thread) may ask it to       *)
(* record what it writes into a macro.                                     *)
(*                                                                         *)
(* The body of the loop is cut where the thread consults or changes state  *)
(* that another part of it, or a client, depends on: choosing a timer,     *)
(* reading an event, leaving a shift, and each action of a bind or of a    *)
(* playing macro is one step.  Where the thread looks at something first   *)
(* and uses it later - the current map, the bind of a key, the place of a  *)
(* map in the vector - the look is a step of its own, and `seen' is what   *)
(* it found; whatever a client does may come in between.  The stores of    *)
(* the command recordmacro are steps as well.                              *)
(*                                                                         *)
(* Time passes while the thread sleeps: every "next" is kept relative to   *)
(* the present, so that Tick decrements it and a timer is due at zero.     *)
(*                                                                         *)
(* A definition whose name begins with Bad is a faulty variant of the one  *)
(* that follows it: with it in place, a property of the runs must fail.    *)
(***************************************************************************)
EXTENDS Integers, Sequences, FiniteSets, SequencesExt

CONSTANTS
  Keys,          \* key codes other than 0
  Rels,          \* codes of relative axes
  Maps,          \* names of maps
  MacroNames,    \* names of macros
  NULL,          \* the null pointer
  Dangling,      \* a pointer to memory that holds no object
  NoKey,         \* key code 0
  NotYet,        \* the time 0 that stands for "no action recorded so far"
  BaseMappings,  \* the maps the device has when its thread starts, in order
  BaseBinds,     \* their binds
  BaseMacros,    \* the macros there are when the thread starts
  StartMaps,     \* maps that may be current when the thread starts, NULL while
                 \* another client loads a profile into the device
  StopKeys,      \* keys a client may name as the stop key of a recording
  RecordingInit  \* what the uninitialised pointer `recording' may hold

CONSTANTS        \* bounds of the model
  MaxGap,        \* the longest pause between two recorded actions
  MaxRecord,     \* length of a macro at which input stops being offered
  MaxBase,       \* longest macro a client starts a recording on
  MaxTimers,     \* timers armed at which presses stop being offered
  MaxLate        \* how long after a timer is due the thread may wake up

-----------------------------------------------------------------------------
(* The action types of imodd.h that a bind and a macro may hold.  Execute,  *)
(* disable and abs touch no state of the daemon.                            *)

KeyAction == [type : {"key"}, code : Keys]
TurboAction == [type : {"turbo"}, code : Keys, on : Nat, off : Nat]
RelAction == [type : {"rel"}, code : Rels, value : Int]
RelConstAction == [type : {"relconst"}, code : Rels, value : Int, delay : Nat]
StatelessAction == [type : {"abs", "execute", "disable"}]
MapAction == [type : {"switchmap", "shiftmap"}, map : Maps]
MacroAction == [type : {"macro"}, macro : MacroNames]

BindAction ==
  KeyAction \cup TurboAction \cup RelAction \cup RelConstAction
    \cup StatelessAction \cup MapAction \cup MacroAction

Bind == [doModify : BOOLEAN, actions : Seq(BindAction)]

MacroStep ==
  [type : {"key"}, code : Keys, value : 0..2]
    \cup [type : {"rel"}, code : Rels, value : Int]
    \cup [type : {"wait"}, time : Nat]

Turbo == [code : Keys, on : Nat, off : Nat, phase : BOOLEAN, next : Int]
RelConst == [code : Rels, value : Int, delay : Nat, next : Int]
Playing == [which : MacroNames \cup {Dangling}, index : Nat \ {0}, next : Int]

ASSUME PointersAreDistinct ==
  /\ NULL \notin Maps \cup MacroNames
  /\ Dangling \notin Maps \cup MacroNames \cup {NULL}

ASSUME CodesAreDistinct == NoKey \notin Keys

ASSUME NotYetIsNoTime == NotYet \notin Nat

ASSUME BaseIsTyped ==
  /\ BaseMappings \in Seq(Maps)
  /\ BaseBinds \in [Maps -> [Keys -> Bind]]
  /\ BaseMacros \in [MacroNames -> Seq(MacroStep)]
  /\ StartMaps \subseteq Maps \cup {NULL}
  /\ StopKeys \subseteq Keys
  /\ RecordingInit \subseteq {NULL, Dangling}

ASSUME BoundsAreTyped ==
  /\ MaxGap \in Nat
  /\ MaxRecord \in Nat
  /\ MaxBase \in Nat
  /\ MaxTimers \in Nat
  /\ MaxLate \in Nat

-----------------------------------------------------------------------------
VARIABLES
  mappings,      \* names of the maps, in the order of the vector
  keybinds,      \* keybinds[m][k]: the bind of key k in map m
  curmap,        \* the map in force
  mapStack       \* what each shift key goes back to, "not a true stack"

VARIABLES
  held,          \* keys that are physically down, as far as events were read
  pressedKeys,   \* keys the daemon thinks it holds down
  down,          \* keys that are down on the virtual device
  lastKey        \* the last key pressed, for the command whichkey

VARIABLES
  runTurbo,      \* turbos, relative repeats and macros that are running
  runRelConst,
  runMacro

VARIABLES
  macros,        \* macros[m]: the steps of macro m
  liveMacros,    \* the macros that exist
  recording,     \* the macro being recorded
  recordStopKey,
  ignoreRecord,  \* keys whose next release is not recorded
  sinceLast,     \* time since the last recorded action
  request        \* what the command recordmacro has still to store, or NULL

VARIABLES
  pc,            \* where the thread is in its loop
  event,         \* the event it has read
  todo,          \* actions of the bind it has still to perform
  seen,          \* what it has looked up and not used yet
  doWhat,        \* kind of timer it sleeps on
  ub             \* the program has executed undefined behaviour

mapVars == <<mappings, keybinds, curmap, mapStack>>
keyVars == <<held, pressedKeys, down, lastKey>>
timerVars == <<runTurbo, runRelConst, runMacro>>
recVars == <<macros, liveMacros, recording, recordStopKey, ignoreRecord,
             sinceLast>>
ctlVars == <<pc, event, todo, doWhat>>

vars == <<mapVars, keyVars, timerVars, recVars, ctlVars, seen, request, ub>>

Event == [type : {"key"}, code : Keys, value : 0..2]
           \cup [type : {"rel"}, code : Rels, value : Int]
           \cup [type : {"other"}]

NoEvent == [type |-> "other"]

Seen == [what : {"nothing", "map", "bind", "place"}, place : Nat]

Nothing == [what |-> "nothing", place |-> 0]

Request == [stage : {"stopkey", "ignore"}, stopKey : StopKeys]

MapTypes ==
  /\ mappings \in Seq(Maps)
  /\ keybinds \in [Maps -> [Keys -> Bind]]
  /\ curmap \in Maps \cup {NULL, Dangling}
  /\ mapStack \in Seq([map : Maps \cup {NULL, Dangling}, code : Keys])

KeyTypes ==
  /\ held \in SUBSET Keys
  /\ pressedKeys \in SUBSET Keys
  /\ down \in SUBSET Keys
  /\ lastKey \in Keys \cup {NoKey}

TimerTypes ==
  /\ runTurbo \in Seq(Turbo)
  /\ runRelConst \in Seq(RelConst)
  /\ runMacro \in Seq(Playing)

RecTypes ==
  /\ macros \in [MacroNames -> Seq(MacroStep)]
  /\ liveMacros \in SUBSET MacroNames
  /\ recording \in MacroNames \cup {NULL, Dangling}
  /\ recordStopKey \in Keys \cup {NoKey}
  /\ ignoreRecord \in SUBSET Keys
  /\ sinceLast \in Nat \cup {NotYet}

CtlTypes ==
  /\ pc \in {"select", "sleep", "event", "rewire", "actions", "macro",
             "cleanup"}
  /\ event \in Event
  /\ pc = "actions" => event.type = "key"
  /\ todo \in Seq(BindAction)
  /\ doWhat \in {"turbo", "relconst", "macro"}

WindowTypes ==
  /\ seen \in Seen
  /\ request \in {NULL} \cup Request

TypeOK ==
  /\ MapTypes
  /\ KeyTypes
  /\ TimerTypes
  /\ RecTypes
  /\ CtlTypes
  /\ WindowTypes
  /\ ub \in BOOLEAN

(* A step of the thread uses what it has looked up, or has looked nothing   *)
(* up; a look changes nothing else.                                         *)
Uses == seen' = Nothing /\ UNCHANGED request

Sees(what, place) ==
  /\ seen' = [what |-> what, place |-> place]
  /\ UNCHANGED <<mapVars, keyVars, timerVars, recVars, ctlVars, request, ub>>

(* The thread is at point p of its loop.  Nothing is said of what a program *)
(* does once it has executed undefined behaviour.                           *)
At(p) == ~ub /\ pc = p

Init ==
  /\ mappings = BaseMappings
  /\ keybinds = BaseBinds
  /\ curmap \in StartMaps
  /\ mapStack = <<>>
  /\ held \in SUBSET Keys
  /\ pressedKeys = {}
  /\ down = {}
  /\ lastKey = NoKey
  /\ runTurbo = <<>>
  /\ runRelConst = <<>>
  /\ runMacro = <<>>
  /\ macros = BaseMacros
  /\ liveMacros = MacroNames
  /\ recording \in RecordingInit
  /\ recordStopKey = NoKey
  /\ ignoreRecord = {}
  /\ sinceLast = NotYet
  /\ pc = "select"
  /\ event = NoEvent
  /\ todo = <<>>
  /\ doWhat = "turbo"
  /\ seen = Nothing
  /\ request = NULL
  /\ ub = FALSE

-----------------------------------------------------------------------------
(* Writing to the virtual device, and recording what is written.            *)

(* A key's bit after a key event: 1 sets it, 0 clears it, a repeat (2)      *)
(* leaves it alone.                                                         *)
Latch(bits, code, value) ==
  IF value = 0 THEN bits \ {code}
  ELSE IF value = 1 THEN bits \cup {code}
  ELSE bits

Emit(code, value) == down' = Latch(down, code, value)

Suppressed(code) == code = recordStopKey

EmitUnlessStop(code, value) ==
  IF Suppressed(code) THEN UNCHANGED down ELSE Emit(code, value)

BadReleaseKeysForgets == UNCHANGED down /\ pressedKeys' = {}
BadReleaseKeysSkipped == UNCHANGED <<down, pressedKeys>>

(* ReleaseKeys(): a release for every key the daemon thinks is down.        *)
ReleaseKeys ==
  /\ down' = down \ pressedKeys
  /\ pressedKeys' = {}

Pause == IF sinceLast = NotYet THEN <<>>
         ELSE <<[type |-> "wait", time |-> sinceLast]>>

(* Append a step, and the pause before it, to the macro being recorded.     *)
Record(step) ==
  /\ IF recording \in MacroNames
       THEN /\ macros' = [macros EXCEPT ![recording] =
                            (@ \o Pause) \o <<step>>]
            /\ UNCHANGED ub
       ELSE /\ ub' = TRUE
            /\ UNCHANGED macros
  /\ sinceLast' = 0
  /\ UNCHANGED <<liveMacros, recording, recordStopKey, ignoreRecord>>

NoRecord == UNCHANGED <<recVars, ub>>

StopsRecording(code, value) == code = recordStopKey

BadIgnored(code, value) == value = 0 /\ code \notin ignoreRecord

Ignored(code, value) == value = 0 /\ code \in ignoreRecord

(* writeToMacroKey                                                          *)
RecordKey(code, value) ==
  \/ recording = NULL /\ NoRecord
  \/ /\ recording # NULL
     /\ StopsRecording(code, value)
     /\ recording' = NULL
     /\ recordStopKey' = NoKey
     /\ UNCHANGED <<macros, liveMacros, ignoreRecord, sinceLast, ub>>
  \/ /\ recording # NULL
     /\ ~StopsRecording(code, value)
     /\ \/ value = 2 /\ NoRecord
        \/ /\ Ignored(code, value)
           /\ ignoreRecord' = ignoreRecord \ {code}
           /\ UNCHANGED <<macros, liveMacros, recording, recordStopKey,
                          sinceLast, ub>>
        \/ /\ value # 2
           /\ ~Ignored(code, value)
           /\ Record([type |-> "key", code |-> code, value |-> value])

(* writeToMacroRel                                                          *)
RecordRel(code, value) ==
  \/ recording = NULL /\ NoRecord
  \/ /\ recording # NULL
     /\ Record([type |-> "rel", code |-> code, value |-> value])

RoomToRecord == recording \in MacroNames => Len(macros[recording]) < MaxRecord

RoomForTimers ==
  Len(runTurbo) + Len(runRelConst) + Len(runMacro) < MaxTimers

-----------------------------------------------------------------------------
(* Choosing the timer to sleep on.                                          *)

(* The first of the entries of a queue that are due soonest.                *)
IsEarliest(q, i) ==
  /\ \A j \in DOMAIN q : q[i].next <= q[j].next
  /\ \A j \in 1..(i - 1) : q[i].next < q[j].next

Due(q) == q[CHOOSE i \in DOMAIN q : IsEarliest(q, i)].next

Idle == runTurbo = <<>> /\ runRelConst = <<>> /\ runMacro = <<>>

BadConsiderEmpty(choice, q, what) ==
  IF q = <<>> THEN [choice EXCEPT !.what = what]
  ELSE IF choice.ctime = 0 \/ Due(q) < choice.ctime
         THEN [ctime |-> Due(q), what |-> what]
         ELSE choice

(* One comparison of the chain: ctime = 0 stands for "nothing chosen yet",  *)
(* also when the timer chosen is due at this very moment.                   *)
Consider(choice, q, what) ==
  IF q = <<>> THEN choice
  ELSE IF choice.ctime = 0 \/ Due(q) < choice.ctime
         THEN [ctime |-> Due(q), what |-> what]
         ELSE choice

Choice ==
  LET c0 == [ctime |-> 0, what |-> "turbo"]
      c1 == Consider(c0, runTurbo, "turbo")
      c2 == Consider(c1, runRelConst, "relconst")
  IN  Consider(c2, runMacro, "macro")

Select ==
  /\ At("select")
  /\ Uses
  /\ doWhat' = Choice.what
  /\ pc' = "sleep"
  /\ UNCHANGED <<mapVars, keyVars, timerVars, recVars, event, todo, ub>>

-----------------------------------------------------------------------------
(* Time, and the timers it makes due.                                       *)

Chosen == IF doWhat = "turbo" THEN runTurbo
          ELSE IF doWhat = "relconst" THEN runRelConst
          ELSE runMacro

Age(q) == [i \in DOMAIN q |-> [q[i] EXCEPT !.next = @ - 1]]

AgeOf(t) == IF t = NotYet THEN NotYet
            ELSE IF t < MaxGap THEN t + 1 ELSE t

Tick ==
  /\ At("sleep")
  /\ \A i \in DOMAIN Chosen : Chosen[i].next > -MaxLate
  /\ RoomToRecord
  /\ runTurbo' = Age(runTurbo)
  /\ runRelConst' = Age(runRelConst)
  /\ runMacro' = Age(runMacro)
  /\ sinceLast' = AgeOf(sinceLast)
  /\ UNCHANGED <<mapVars, keyVars, macros, liveMacros, recording,
                 recordStopKey, ignoreRecord, ctlVars, seen, request, ub>>

(* pselect() has timed out on the timer i of queue q.                       *)
TimedOut(what, q, i) ==
  /\ At("sleep")
  /\ doWhat = what
  /\ IsEarliest(q, i)
  /\ q[i].next <= 0

(* A turbo goes on to its other phase, for the time of that phase.          *)
PhaseTime(turbo, phase) == IF phase THEN turbo.on ELSE turbo.off

Toggled(turbo) ==
  [code |-> turbo.code, on |-> turbo.on, off |-> turbo.off,
   phase |-> ~turbo.phase,
   next |-> turbo.next + PhaseTime(turbo, ~turbo.phase)]

BadPhaseInverted(phase) == IF phase THEN 0 ELSE 1
BadPhaseConstant(phase) == 1

PhaseValue(phase) == IF phase THEN 1 ELSE 0

FireTurbo(i) ==
  LET turbo == runTurbo[i]
  IN  /\ TimedOut("turbo", runTurbo, i)
      /\ Uses
      /\ runTurbo' = [runTurbo EXCEPT ![i] = Toggled(turbo)]
      /\ EmitUnlessStop(turbo.code, PhaseValue(~turbo.phase))
      /\ RecordKey(turbo.code, PhaseValue(~turbo.phase))
      /\ pc' = "select"
      /\ UNCHANGED <<mapVars, held, pressedKeys, lastKey, runRelConst,
                     runMacro, event, todo, doWhat>>

FireRelConst(i) ==
  LET rc == runRelConst[i]
  IN  /\ TimedOut("relconst", runRelConst, i)
      /\ Uses
      /\ runRelConst' = [runRelConst EXCEPT ![i].next = @ + rc.delay]
      /\ RecordRel(rc.code, rc.value)
      /\ pc' = "select"
      /\ UNCHANGED <<mapVars, keyVars, runTurbo, runMacro, event, todo,
                     doWhat>>

FireMacro(i) ==
  /\ TimedOut("macro", runMacro, i)
  /\ Uses
  /\ pc' = "macro"
  /\ UNCHANGED <<mapVars, keyVars, timerVars, recVars, event, todo, doWhat,
                 ub>>

(* A playing macro whose next step does not exist.                          *)
Finished(p) == p.which \in MacroNames /\ p.index > Len(macros[p.which])

Sane(p) == p.which \in MacroNames

BadStepToStays(p, pause) ==
  [which |-> p.which, index |-> p.index, next |-> p.next + pause]

BadStepToWaits(p, pause) ==
  [which |-> p.which, index |-> IF pause > 0 THEN p.index ELSE p.index + 1,
   next |-> p.next + pause]

StepTo(p, pause) ==
  [which |-> p.which, index |-> p.index + 1, next |-> p.next + pause]

(* One step of the macro that timed out.  A wait ends the loop, any other   *)
(* step goes on to the next one until the macro is at its end.              *)
PlayStep(i) ==
  LET p == runMacro[i]
      step == macros[p.which][p.index]
  IN  /\ At("macro")
      /\ Uses
      /\ IsEarliest(runMacro, i)
      /\ Sane(p)
      /\ ~Finished(p)
      /\ \/ /\ step.type = "wait"
            /\ runMacro' = [runMacro EXCEPT ![i] = StepTo(p, step.time)]
            /\ pc' = "cleanup"
            /\ UNCHANGED down
         \/ /\ step.type = "key"
            /\ Emit(step.code, step.value)
            /\ runMacro' = [runMacro EXCEPT ![i] = StepTo(p, 0)]
            /\ pc' = IF p.index < Len(macros[p.which]) THEN pc ELSE "cleanup"
         \/ /\ step.type = "rel"
            /\ runMacro' = [runMacro EXCEPT ![i] = StepTo(p, 0)]
            /\ pc' = IF p.index < Len(macros[p.which]) THEN pc ELSE "cleanup"
            /\ UNCHANGED down
      /\ UNCHANGED <<mapVars, held, pressedKeys, lastKey, runTurbo,
                     runRelConst, recVars, event, todo, doWhat, ub>>

(* The thread reads a macro that was freed, or a step that does not exist.  *)
PlayWild(i) ==
  /\ At("macro")
  /\ Uses
  /\ IsEarliest(runMacro, i)
  /\ ~Sane(runMacro[i]) \/ Finished(runMacro[i])
  /\ ub' = TRUE
  /\ UNCHANGED <<mapVars, keyVars, timerVars, recVars, ctlVars>>

(* The first macro that has finished leaves the queue; the scan up to it    *)
(* dereferences the macro of every entry it passes.                         *)
Cleanup ==
  /\ At("cleanup")
  /\ Uses
  /\ pc' = "select"
  /\ \/ \E i \in DOMAIN runMacro :
          /\ Finished(runMacro[i])
          /\ \A j \in 1..(i - 1) : Sane(runMacro[j]) /\ ~Finished(runMacro[j])
          /\ runMacro' = RemoveAt(runMacro, i)
          /\ UNCHANGED ub
     \/ /\ \A i \in DOMAIN runMacro : Sane(runMacro[i]) /\ ~Finished(runMacro[i])
        /\ UNCHANGED <<runMacro, ub>>
     \/ \E i \in DOMAIN runMacro :
          /\ ~Sane(runMacro[i])
          /\ \A j \in 1..(i - 1) : Sane(runMacro[j]) /\ ~Finished(runMacro[j])
          /\ ub' = TRUE
          /\ UNCHANGED runMacro
  /\ UNCHANGED <<mapVars, keyVars, runTurbo, runRelConst, recVars, event,
                 todo, doWhat>>

-----------------------------------------------------------------------------
(* Reading an event.  Input is read first even when a timer is due.         *)

(* A key event the kernel can deliver: a press of a key that is up, a       *)
(* repeat or a release of one that is down.                                 *)
Deliverable(k, v) ==
  IF v = 1 THEN k \notin held /\ RoomForTimers ELSE k \in held

ReadKey(k, v) ==
  /\ At("sleep")
  /\ Deliverable(k, v)
  /\ RoomToRecord
  /\ held' = Latch(held, k, v)
  /\ event' = [type |-> "key", code |-> k, value |-> v]
  /\ pc' = "event"
  /\ UNCHANGED <<mapVars, pressedKeys, down, lastKey, timerVars, recVars,
                 todo, doWhat, seen, request, ub>>

ReadRel(r) ==
  /\ At("sleep")
  /\ RoomToRecord
  /\ event' = [type |-> "rel", code |-> r, value |-> 1]
  /\ pc' = "event"
  /\ UNCHANGED <<mapVars, keyVars, timerVars, recVars, todo, doWhat, seen,
                 request, ub>>

(* Any other type of event: synchronisation, scan codes, axes.              *)
ReadOther ==
  /\ At("sleep")
  /\ event' = NoEvent
  /\ pc' = "event"
  /\ UNCHANGED <<mapVars, keyVars, timerVars, recVars, todo, doWhat, seen,
                 request, ub>>

-----------------------------------------------------------------------------
(* Leaving a shift: the release of a key goes back to the map of the first  *)
(* entry that key has in mapStack.                                          *)

IsRelease == event.type = "key" /\ event.value = 0

BadShiftedBy(i) ==
  IsRelease /\ i < Len(mapStack) /\ mapStack[i].code = event.code

ShiftedBy(i) == IsRelease /\ mapStack[i].code = event.code

BadPopShift(stack, i) == stack

(* erase(begin()+i, end()-1): the last entry stays, whichever it is.  The   *)
(* name of the map is read at once, for the log.                            *)
PopShift(stack, i) == SubSeq(stack, 1, i - 1) \o <<stack[Len(stack)]>>

Unshift(i) ==
  /\ At("event")
  /\ Uses
  /\ ShiftedBy(i)
  /\ \A j \in 1..(i - 1) : ~ShiftedBy(j)
  /\ curmap' = mapStack[i].map
  /\ mapStack' = PopShift(mapStack, i)
  /\ ub' = (mapStack[i].map \notin Maps)
  /\ pc' = "rewire"
  /\ UNCHANGED <<mappings, keybinds, keyVars, timerVars, recVars, event,
                 todo, doWhat>>

NoUnshift ==
  /\ At("event")
  /\ Uses
  /\ \A i \in DOMAIN mapStack : ~ShiftedBy(i)
  /\ pc' = "rewire"
  /\ UNCHANGED <<mapVars, keyVars, timerVars, recVars, event, todo, doWhat,
                 ub>>

-----------------------------------------------------------------------------
(* Rewiring the event through the current map.                              *)

Rewired ==
  /\ pc' = "select"
  /\ Uses
  /\ UNCHANGED <<mapVars, held, timerVars, event, todo, doWhat>>

BadLastKey(k, v) == IF v = 1 THEN v ELSE lastKey

LastKey(k, v) == IF v = 1 THEN k ELSE lastKey

(* Is there a current map?  From here on the event is rewired through it.   *)
TestMap ==
  /\ At("rewire")
  /\ seen = Nothing
  /\ curmap # NULL
  /\ Sees("map", 0)

(* No current map: the event is written as it is, the stop key included.    *)
RewireUnmapped ==
  /\ At("rewire")
  /\ seen = Nothing
  /\ curmap = NULL
  /\ Rewired
  /\ \/ /\ event.type = "key"
        /\ pressedKeys' = Latch(pressedKeys, event.code, event.value)
        /\ lastKey' = LastKey(event.code, event.value)
        /\ Emit(event.code, event.value)
        /\ RecordKey(event.code, event.value)
     \/ /\ event.type = "rel"
        /\ RecordRel(event.code, event.value)
        /\ UNCHANGED <<pressedKeys, lastKey, down>>
     \/ /\ event.type = "other"
        /\ NoRecord
        /\ UNCHANGED <<pressedKeys, lastKey, down>>

Bound == keybinds[curmap][event.code]

RewirePlain ==
  /\ At("rewire")
  /\ seen.what = "map"
  /\ curmap \in Maps
  /\ event.type = "key"
  /\ ~Bound.doModify
  /\ pressedKeys' = Latch(pressedKeys, event.code, event.value)
  /\ EmitUnlessStop(event.code, event.value)
  /\ RecordKey(event.code, event.value)
  /\ lastKey' = LastKey(event.code, event.value)
  /\ Rewired

(* The key is bound: its actions are taken from the map that is current     *)
(* then.                                                                    *)
TestBind ==
  /\ At("rewire")
  /\ seen.what = "map"
  /\ curmap \in Maps
  /\ event.type = "key"
  /\ Bound.doModify
  /\ Sees("bind", 0)

RewireBound ==
  /\ At("rewire")
  /\ Uses
  /\ seen.what = "bind"
  /\ curmap \in Maps
  /\ event.type = "key"
  /\ todo' = Bound.actions
  /\ pc' = "actions"
  /\ UNCHANGED <<mapVars, keyVars, timerVars, recVars, event, doWhat, ub>>

(* The binds of relative axes are never set, see addaction: the event is    *)
(* written as it is.                                                        *)
RewireRel ==
  /\ At("rewire")
  /\ seen.what = "map"
  /\ curmap \in Maps
  /\ event.type = "rel"
  /\ RecordRel(event.code, event.value)
  /\ Rewired
  /\ UNCHANGED <<pressedKeys, down, lastKey>>

RewireOther ==
  /\ At("rewire")
  /\ seen.what = "map"
  /\ event.type = "other"
  /\ Rewired
  /\ UNCHANGED <<keyVars, recVars, ub>>

(* The map was there when it was tested and is not when it is read.         *)
RewireWild ==
  /\ At("rewire")
  /\ Uses
  /\ seen.what \in {"map", "bind"}
  /\ curmap \notin Maps
  /\ ub' = TRUE
  /\ UNCHANGED <<mapVars, keyVars, timerVars, recVars, ctlVars>>

-----------------------------------------------------------------------------
(* The actions of a bind, one step each.                                    *)

Now == Head(todo)

Performs(type) ==
  /\ At("actions")
  /\ todo # <<>>
  /\ Now.type = type
  /\ Uses
  /\ todo' = Tail(todo)
  /\ UNCHANGED <<mappings, keybinds, held, lastKey, pc, event, doWhat>>

Pressed == event.value = 1
Released == event.value = 0

ActKey ==
  /\ Performs("key")
  /\ pressedKeys' = Latch(pressedKeys, Now.code, event.value)
  /\ EmitUnlessStop(Now.code, event.value)
  /\ RecordKey(Now.code, event.value)
  /\ UNCHANGED <<curmap, mapStack, timerVars>>

ActTurboPress ==
  /\ Performs("turbo")
  /\ Pressed
  /\ pressedKeys' = Latch(pressedKeys, Now.code, 1)
  /\ runTurbo' = Append(runTurbo,
       [code |-> Now.code, on |-> Now.on, off |-> Now.off,
        phase |-> TRUE, next |-> Now.on])
  /\ EmitUnlessStop(Now.code, 1)
  /\ RecordKey(Now.code, 1)
  /\ UNCHANGED <<curmap, mapStack, runRelConst, runMacro>>

BadTurboSends(i, code) == runTurbo[i].code = code /\ runTurbo[i].phase

TurboSends(i, code) == runTurbo[i].code = code

(* The first turbo of that code stops; if it holds its key down the key is  *)
(* released, a stop key included.                                           *)
ActTurboRelease ==
  /\ Performs("turbo")
  /\ Released
  /\ pressedKeys' = Latch(pressedKeys, Now.code, 0)
  /\ \/ \E i \in DOMAIN runTurbo :
          /\ TurboSends(i, Now.code)
          /\ \A j \in 1..(i - 1) : ~TurboSends(j, Now.code)
          /\ runTurbo' = RemoveAt(runTurbo, i)
          /\ IF runTurbo[i].phase
               THEN Emit(Now.code, 0) /\ RecordKey(Now.code, 0)
               ELSE NoRecord /\ UNCHANGED down
     \/ /\ \A i \in DOMAIN runTurbo : ~TurboSends(i, Now.code)
        /\ NoRecord
        /\ UNCHANGED <<runTurbo, down>>
  /\ UNCHANGED <<curmap, mapStack, runRelConst, runMacro>>

ActRel ==
  /\ Performs("rel")
  /\ IF Pressed THEN RecordRel(Now.code, Now.value) ELSE NoRecord
  /\ UNCHANGED <<curmap, mapStack, pressedKeys, down, timerVars>>

ActRelConstPress ==
  /\ Performs("relconst")
  /\ Pressed
  /\ runRelConst' = Append(runRelConst,
       [code |-> Now.code, value |-> Now.value, delay |-> Now.delay,
        next |-> Now.delay])
  /\ RecordRel(Now.code, Now.value)
  /\ UNCHANGED <<curmap, mapStack, pressedKeys, down, runTurbo, runMacro>>

BadRepeats(i, code, value) ==
  runRelConst[i].code = code /\ runRelConst[i].value = event.value

Repeats(i, code, value) ==
  runRelConst[i].code = code /\ runRelConst[i].value = value

ActRelConstRelease ==
  /\ Performs("relconst")
  /\ Released
  /\ \/ \E i \in DOMAIN runRelConst :
          /\ Repeats(i, Now.code, Now.value)
          /\ \A j \in 1..(i - 1) : ~Repeats(j, Now.code, Now.value)
          /\ runRelConst' = RemoveAt(runRelConst, i)
     \/ /\ \A i \in DOMAIN runRelConst : ~Repeats(i, Now.code, Now.value)
        /\ UNCHANGED runRelConst
  /\ NoRecord
  /\ UNCHANGED <<curmap, mapStack, pressedKeys, down, runTurbo, runMacro>>

Found(m) == m \in {mappings[i] : i \in DOMAIN mappings}

(* findMap: the place of the first map of that name.                        *)
FindMap(m) ==
  CHOOSE i \in DOMAIN mappings :
    mappings[i] = m /\ \A j \in 1..(i - 1) : mappings[j] # m

LookUpMap ==
  /\ At("actions")
  /\ seen = Nothing
  /\ todo # <<>>
  /\ Now.type \in {"switchmap", "shiftmap"}
  /\ Pressed
  /\ Found(Now.map)
  /\ Sees("place", FindMap(Now.map))

(* The map at the place that was found, if the vector still has the place.  *)
GoToPlace ==
  /\ curmap' = IF seen.place \in DOMAIN mappings
                 THEN mappings[seen.place] ELSE Dangling
  /\ ub' = (seen.place \notin DOMAIN mappings)
  /\ UNCHANGED recVars

ActSwitchMap ==
  /\ Performs("switchmap")
  /\ seen.what = "place"
  /\ ReleaseKeys
  /\ GoToPlace
  /\ UNCHANGED <<mapStack, timerVars>>

ActShiftMap ==
  /\ Performs("shiftmap")
  /\ seen.what = "place"
  /\ mapStack' = Append(mapStack, [map |-> curmap, code |-> event.code])
  /\ ReleaseKeys
  /\ GoToPlace
  /\ UNCHANGED timerVars

BadPlayable(m) == m \in liveMacros

Playable(m) == m \in liveMacros /\ macros[m] # <<>>

ActMacro ==
  /\ Performs("macro")
  /\ Pressed
  /\ Playable(Now.macro)
  /\ runMacro' = Append(runMacro,
       [which |-> Now.macro, index |-> 1, next |-> 0])
  /\ NoRecord
  /\ UNCHANGED <<curmap, mapStack, pressedKeys, down, runTurbo, runRelConst>>

(* An action that has nothing to do for this event.                         *)
ActNothing ==
  /\ \/ Performs("abs")
     \/ Performs("execute")
     \/ Performs("disable")
     \/ Performs("turbo") /\ ~Pressed /\ ~Released
     \/ Performs("relconst") /\ ~Pressed /\ ~Released
     \/ Performs("switchmap") /\ seen = Nothing /\ ~(Pressed /\ Found(Now.map))
     \/ Performs("shiftmap") /\ seen = Nothing /\ ~(Pressed /\ Found(Now.map))
     \/ Performs("macro") /\ ~(Pressed /\ Playable(Now.macro))
  /\ NoRecord
  /\ UNCHANGED <<curmap, mapStack, pressedKeys, down, timerVars>>

FinishEvent ==
  /\ At("actions")
  /\ todo = <<>>
  /\ lastKey' = LastKey(event.code, event.value)
  /\ UNCHANGED <<pressedKeys, down, recVars, ub>>
  /\ Rewired

-----------------------------------------------------------------------------
(* The command recordmacro, for a macro and a stop key the client names:    *)
(* three stores, which the thread does not wait for.                        *)

RecordMacro(m, stopKey) ==
  /\ ~ub
  /\ request = NULL
  /\ recording = NULL
  /\ m \in liveMacros
  /\ Len(macros[m]) <= MaxBase
  /\ recording' = m
  /\ sinceLast' = NotYet
  /\ request' = [stage |-> "stopkey", stopKey |-> stopKey]
  /\ UNCHANGED <<mapVars, keyVars, timerVars, macros, liveMacros,
                 recordStopKey, ignoreRecord, ctlVars, seen, ub>>

StoreStopKey ==
  /\ ~ub
  /\ request # NULL
  /\ request.stage = "stopkey"
  /\ recordStopKey' = request.stopKey
  /\ request' = [request EXCEPT !.stage = "ignore"]
  /\ UNCHANGED <<mapVars, keyVars, timerVars, macros, liveMacros, recording,
                 ignoreRecord, sinceLast, ctlVars, seen, ub>>

(* The key whose bit the thread may have stored without having recorded the *)
(* key yet.                                                                 *)
UnderWay ==
  IF pc = "rewire" /\ event.type = "key" /\ (curmap \in Maps => ~Bound.doModify)
    THEN {event.code}
  ELSE IF pc = "actions" /\ todo # <<>> /\ Now.type \in {"key", "turbo"}
    THEN {Now.code}
  ELSE {}

(* What a copy of pressedKeys may hold: ReleaseKeys clears it bit by bit.   *)
Copies ==
  IF seen.what = "place" THEN SUBSET pressedKeys
  ELSE {pressedKeys} \cup {Latch(pressedKeys, c, event.value) : c \in UnderWay}

StoreIgnored ==
  /\ ~ub
  /\ request # NULL
  /\ request.stage = "ignore"
  /\ ignoreRecord' \in Copies
  /\ request' = NULL
  /\ UNCHANGED <<mapVars, keyVars, timerVars, macros, liveMacros, recording,
                 recordStopKey, sinceLast, ctlVars, seen, ub>>

-----------------------------------------------------------------------------
Input ==
  \/ \E k \in Keys : \E v \in 0..2 : ReadKey(k, v)
  \/ \E r \in Rels : ReadRel(r)
  \/ ReadOther

Timers ==
  \/ \E i \in DOMAIN runTurbo : FireTurbo(i)
  \/ \E i \in DOMAIN runRelConst : FireRelConst(i)
  \/ \E i \in DOMAIN runMacro : FireMacro(i)
  \/ \E i \in DOMAIN runMacro : PlayStep(i) \/ PlayWild(i)
  \/ Cleanup

Rewire ==
  \/ \E i \in DOMAIN mapStack : Unshift(i)
  \/ NoUnshift
  \/ TestMap
  \/ RewireUnmapped
  \/ RewirePlain
  \/ TestBind
  \/ RewireRel
  \/ RewireOther
  \/ seen # Nothing /\ (RewireBound \/ RewireWild)

Act ==
  \/ ActKey
  \/ ActTurboPress
  \/ ActTurboRelease
  \/ ActRel
  \/ ActRelConstPress
  \/ ActRelConstRelease
  \/ LookUpMap
  \/ ActSwitchMap
  \/ ActShiftMap
  \/ ActMacro
  \/ ActNothing
  \/ FinishEvent

(* What the thread does of its own accord once it is awake.                 *)
Thread == Select \/ Timers \/ Rewire \/ Act

(* A client gives the command recordmacro, with stop key s.                 *)
Client ==
  \E s \in StopKeys :
    \/ \E m \in MacroNames : RecordMacro(m, s)
    \/ /\ request # NULL
       /\ request.stopKey = s
       /\ StoreStopKey \/ StoreIgnored

Next == Thread \/ Input \/ Tick \/ Client

Spec == Init /\ [][Next]_vars

(* The thread is scheduled and time passes while it sleeps.  pselect()      *)
(* prefers input to a timer, so a timer is served only if the physical      *)
(* device is sometimes quiet when it is due: strong fairness of the timers  *)
(* and of time says that events do not arrive back to back for ever.        *)
Fairness ==
  /\ WF_vars(Thread)
  /\ SF_vars(Timers)
  /\ SF_vars(Tick)

FairSpec == Spec /\ Fairness

-----------------------------------------------------------------------------
(* Properties.                                                              *)

Asleep == pc = "sleep"

(* Tables of binds a property is restricted to.                             *)
WithoutActions(types) ==
  \A m \in Maps, k \in Keys : \A i \in DOMAIN BaseBinds[m][k].actions :
    BaseBinds[m][k].actions[i].type \notin types

SwitchesLast ==
  \A m \in Maps, k \in Keys : \A i, j \in DOMAIN BaseBinds[m][k].actions :
    /\ BaseBinds[m][k].actions[i].type = "switchmap"
    /\ i < j
    => BaseBinds[m][k].actions[j].type # "key"

(* No undefined behaviour: the thread never reads a map or a macro that was *)
(* freed, a step past the end of a macro, or records through a wild         *)
(* pointer.                                                                 *)
NoUndefined == ~ub

(* The steps of macro m that press or release key c.                        *)
StepsOf(m, c) ==
  {i \in DOMAIN macros[m] : macros[m][i].type = "key" /\ macros[m][i].code = c}

TurboCodes == {c \in Keys : \E i \in DOMAIN runTurbo : runTurbo[i].code = c}

PlayedCodes ==
  {c \in Keys : \E i \in DOMAIN runMacro :
     runMacro[i].which \in MacroNames /\ StepsOf(runMacro[i].which, c) # {}}

(* Everything that is down on the virtual device is known to the daemon, so *)
(* that it can release it: ReleaseKeys (on a switch, a shift, a             *)
(* deactivation), the turbo or the macro that runs.  A stop key is not: its *)
(* release is swallowed when it ends a recording.                           *)
DownIsTracked ==
  down \subseteq pressedKeys \cup StopKeys \cup TurboCodes \cup PlayedCodes

(* When no physical key is down, no macro plays and the thread has caught   *)
(* up, nothing is left down on the virtual device, whatever maps were       *)
(* switched and turbos stopped in between.                                  *)
NoStuckKeys ==
  Asleep /\ held = {} /\ runMacro = <<>> => down \subseteq StopKeys

(* The timer pselect() waits for exists (the code logs "smallest is a       *)
(* nihil!" where it would not), so an armed timer is always served.         *)
TimerTargetExists == Asleep /\ ~Idle => Chosen # <<>>

ActionsOf(m, k) ==
  IF m \in Maps /\ keybinds[m][k].doModify
    THEN {keybinds[m][k].actions[i] : i \in DOMAIN keybinds[m][k].actions}
    ELSE {}

(* A turbo runs "until the mapped key is released": some key that is down   *)
(* is bound to it.                                                          *)
TurboOnlyWhileHeld ==
  Asleep => \A i \in DOMAIN runTurbo :
    \E k \in held : \E act \in ActionsOf(curmap, k) :
      act.type = "turbo" /\ act.code = runTurbo[i].code

(* The least of it: with every key up and the thread asleep no turbo runs,  *)
(* whatever maps were switched while the key of a turbo was held.           *)
TurbosEnd == Asleep /\ held = {} => runTurbo = <<>>

(* The same for a repeated relative motion.                                 *)
RelConstOnlyWhileHeld ==
  Asleep => \A i \in DOMAIN runRelConst :
    \E k \in held : \E act \in ActionsOf(curmap, k) :
      /\ act.type = "relconst"
      /\ act.code = runRelConst[i].code
      /\ act.value = runRelConst[i].value

(* A shift lasts as long as a key is down: with every key released the      *)
(* device is in a map it was put in otherwise.                              *)
ReleasedKeysUnshift == Asleep /\ held = {} => curmap \in StartMaps

(* mapStack keeps at most one entry of a key that is up and two of one that *)
(* is down, though a release seldom removes the entry it uses.              *)
EntriesOf(k) == {i \in DOMAIN mapStack : mapStack[i].code = k}

MapStackBounded ==
  Asleep => \A k \in Keys :
    Cardinality(EntriesOf(k)) <= IF k \in held THEN 2 ELSE 1

(* The loops over actions and steps end: the thread comes back to sleep.    *)
ThreadReturns == []<>Asleep

(* A macro that plays comes to its end, whatever else is running.           *)
MacroFinishes ==
  (runMacro # <<>>) ~> (\E i \in DOMAIN runMacro : Finished(runMacro[i]))

(* A turbo that keeps running keeps pressing and releasing its key.         *)
TurboToggles ==
  \A c \in Keys :
    <>[](\E i \in DOMAIN runTurbo : TurboSends(i, c)) =>
      []<>(c \in down) /\ []<>(c \notin down)

=============================================================================
