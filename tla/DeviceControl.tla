--------------------------- MODULE DeviceControl ---------------------------
(***************************************************************************)
(* The commands of command.cpp that change a device while its input thread *)
(* runs.  They are executed by the thread of a client's connection, and    *)
(* nothing is locked: a command, and each store of one that makes several, *)
(* takes effect between any two steps of Device.  One connection gives     *)
(* commands.                                                               *)
(*                                                                         *)
(* A map or a macro is deleted by freeing it: the pointers to it that the  *)
(* code does not mend become Dangling.  A vector that a command makes grow *)
(* or shrink while the thread is in the middle of a step that goes through *)
(* it may be undefined behaviour: such a command is met at the point the   *)
(* thread takes that step from, and either does harm or does not.          *)
(***************************************************************************)
EXTENDS Device

CONSTANTS
  Commands,       \* the commands the client gives
  Careful,        \* whether it refrains from what the code cannot survive
  ClientActions,  \* actions it binds
  ClientSteps,    \* steps it appends to macros
  Profiles,       \* profiles there are on disk
  MaxActions      \* actions of a bind, steps of a macro, at which it stops

Profile == [maps : Seq(Maps), binds : [Maps -> [Keys -> Bind]], curmap : Maps]

ASSUME ControlIsTyped ==
  /\ Careful \in BOOLEAN
  /\ ClientActions \subseteq BindAction
  /\ ClientSteps \subseteq MacroStep
  /\ MaxActions \in Nat
  /\ Profiles \subseteq Profile

Deletion == [map : Maps, stage : {"compare", "free"}]

Load == [stage : {"free", "maps"}, rest : Profile]

ASSUME NullIsNoCommand ==
  NULL \notin Deletion /\ NULL \notin Load /\ NULL \notin Request

VARIABLES
  source,    \* the map whose bind the thread iterates over
  loading,   \* what remains to be done of a switch of profiles, or NULL
  deleting,  \* what remains to be done of a deletion of a map, or NULL
  early      \* keys that went down or up while a recording was started; it
             \* only observes

controlVars == <<source, loading, deleting, early>>

ControlTypeOK ==
  /\ TypeOK
  /\ source \in Maps \cup {NULL, Dangling}
  /\ loading \in {NULL} \cup Load
  /\ deleting \in {NULL} \cup Deletion
  /\ early \in SUBSET Keys

ControlInit ==
  /\ Init
  /\ source = NULL
  /\ loading = NULL
  /\ deleting = NULL
  /\ early = {}

(* The thread reads the actions of the bind of key k in map m.              *)
Iterating(m) == pc = "actions" /\ todo # <<>> /\ source = m
IteratingBind(m, k) == Iterating(m) /\ event.code = k

(* What the thread is doing, or is about to do, when a command comes.       *)
Handling == pc \in {"event", "rewire", "actions"}

UsingMap == pc = "actions" \/ (pc = "rewire" /\ seen # Nothing)

Performing(types) ==
  pc = "actions" /\ todo # <<>> /\ Now.type \in types /\ Pressed

SearchingMaps == Performing({"switchmap", "shiftmap"})

SearchingMacros == Performing({"macro"})

Replaying(m) ==
  pc \in {"macro", "cleanup"} /\ \E i \in DOMAIN runMacro : runMacro[i].which = m

(* The thread, and the physical device.  A careful user leaves the keys     *)
(* alone until delmap is done.                                              *)
ThreadStep ==
  /\ \/ Thread
     \/ Tick
     \/ Input /\ (Careful => deleting = NULL)
  /\ source' = IF pc = "rewire" THEN curmap' ELSE source
  /\ UNCHANGED <<loading, deleting, early>>

-----------------------------------------------------------------------------
(* The client waits for the end of a command before it gives another.       *)
Free == ~ub /\ loading = NULL /\ deleting = NULL /\ request = NULL

Gives(command) ==
  /\ Free
  /\ command \in Commands
  /\ UNCHANGED <<keyVars, ctlVars, seen, request, controlVars>>

OnMaps(command) == Gives(command) /\ UNCHANGED <<timerVars, recVars>>

OnMacros(command) ==
  /\ Gives(command)
  /\ UNCHANGED <<mapVars, runTurbo, runRelConst, recordStopKey, ignoreRecord,
                 sinceLast>>

(* A command that is undefined behaviour in some states, or that is if it   *)
(* falls in the middle of a step of the thread.  A careful client does not  *)
(* give it then.                                                            *)
Hazardous(harm) == (Careful => ~harm) /\ ub' = harm
Racing(harm) == (Careful => ~harm) /\ ub' \in {FALSE, harm}

(* newmap, copymap, switchmap                                               *)
Unbound == [k \in Keys |-> [doModify |-> FALSE, actions |-> <<>>]]

AddMap(m, binds) ==
  /\ ~Found(m)
  /\ Racing(SearchingMaps)
  /\ mappings' = Append(mappings, m)
  /\ keybinds' = [keybinds EXCEPT ![m] = binds]
  /\ UNCHANGED <<curmap, mapStack>>

NewMap(m) == OnMaps("newmap") /\ AddMap(m, Unbound)

CopyMap(src, dest) ==
  OnMaps("copymap") /\ Found(src) /\ AddMap(dest, keybinds[src])

SwitchMap(m) ==
  /\ OnMaps("switchmap")
  /\ Found(m)
  /\ curmap' = m
  /\ UNCHANGED <<mappings, keybinds, mapStack, ub>>

(* delmap: the map leaves the vector, the current map is replaced by the    *)
(* first if it is that one, and the map is freed.  mapStack is left as it   *)
(* is.                                                                      *)
Freed(p, gone) == IF p \in gone THEN Dangling ELSE p

ForgetMaps(stack, gone) ==
  [i \in DOMAIN stack |-> [stack[i] EXCEPT !.map = Freed(@, gone)]]

ShiftsFrom(gone) == \E i \in DOMAIN mapStack : mapStack[i].map \in gone

OtherMaps(m) == RemoveAt(mappings, FindMap(m))

BadFallback(m) == curmap
BadFallbackIndex(m) == IF curmap = m THEN 0 ELSE curmap

Fallback(m) == IF curmap = m THEN Head(mappings) ELSE curmap

Deletes == UNCHANGED <<keyVars, timerVars, recVars, ctlVars, seen, request,
                       source, loading, early>>

DelMap(m) ==
  /\ Free
  /\ "delmap" \in Commands
  /\ Found(m)
  /\ Len(mappings) > 1
  /\ Careful => ~Handling /\ curmap # NULL /\ ~ShiftsFrom({m})
  /\ Racing(SearchingMaps)
  /\ mappings' = OtherMaps(m)
  /\ deleting' = [map |-> m, stage |-> "compare"]
  /\ Deletes
  /\ UNCHANGED <<keybinds, curmap, mapStack>>

(* The name of the current map is read.                                     *)
CompareMap ==
  /\ ~ub
  /\ deleting # NULL
  /\ deleting.stage = "compare"
  /\ ub' = (curmap \notin Maps)
  /\ curmap' = Fallback(deleting.map)
  /\ deleting' = [deleting EXCEPT !.stage = "free"]
  /\ Deletes
  /\ UNCHANGED <<mappings, keybinds, mapStack>>

FreeMap ==
  /\ ~ub
  /\ deleting # NULL
  /\ deleting.stage = "free"
  /\ ub' = Iterating(deleting.map)
  /\ curmap' = Freed(curmap, {deleting.map})
  /\ mapStack' = ForgetMaps(mapStack, {deleting.map})
  /\ keybinds' = [keybinds EXCEPT ![deleting.map] = Unbound]
  /\ deleting' = NULL
  /\ Deletes
  /\ UNCHANGED mappings

-----------------------------------------------------------------------------
(* Commands on the actions of a bind, of a map that is named or of the      *)
(* current one.                                                             *)

Operand(m) == Found(m) \/ m = curmap

Rebind(command, m, k, bind) ==
  /\ OnMaps(command)
  /\ Operand(m)
  /\ Hazardous(IteratingBind(m, k))
  /\ keybinds' = [keybinds EXCEPT ![m][k] = bind]
  /\ UNCHANGED <<mappings, curmap, mapStack>>

Bindable(action) ==
  /\ action.type \in {"switchmap", "shiftmap"} => Found(action.map)
  /\ action.type = "macro" => action.macro \in liveMacros

AddAction(m, k, action) ==
  /\ Bindable(action)
  /\ Len(keybinds[m][k].actions) < MaxActions
  /\ Rebind("addaction", m, k,
       [doModify |-> TRUE, actions |-> Append(keybinds[m][k].actions, action)])

DelAction(m, k, i) ==
  LET rest == RemoveAt(keybinds[m][k].actions, i)
  IN  /\ keybinds[m][k].doModify
      /\ Rebind("delaction", m, k, [doModify |-> rest # <<>>, actions |-> rest])

ClearActions(m, k) ==
  /\ keybinds[m][k].doModify
  /\ Rebind("clearactions", m, k, [doModify |-> FALSE, actions |-> <<>>])

CopyActions(m, k, dest) ==
  /\ k # dest
  /\ keybinds[m][k].doModify
  /\ Rebind("copyactions", m, dest,
       [doModify |-> TRUE, actions |-> keybinds[m][k].actions])

-----------------------------------------------------------------------------
(* Commands on macros: newmacro, copymacro, insmacroact, delmacroact,       *)
(* clearmacro, delmacro.  Those that take steps away ask nobody whether the *)
(* macro plays, or is being recorded.                                       *)

SetSteps(m, steps) ==
  /\ macros' = [macros EXCEPT ![m] = steps]
  /\ UNCHANGED <<runMacro, recording>>

AddMacro(m, steps) ==
  /\ m \notin liveMacros
  /\ liveMacros' = liveMacros \cup {m}
  /\ SetSteps(m, steps)

NewMacro(m) ==
  /\ OnMacros("newmacro")
  /\ Racing(SearchingMacros)
  /\ AddMacro(m, <<>>)

CopyMacro(src, dest) ==
  /\ OnMacros("copymacro")
  /\ Racing(SearchingMacros \/ recording = src)
  /\ src \in liveMacros
  /\ AddMacro(dest, macros[src])

(* The thread reads the steps of m, or appends to them, at any moment.      *)
Touching(m) == recording = m \/ Replaying(m)

InUse(m) == recording = m \/ \E i \in DOMAIN runMacro : runMacro[i].which = m

InsMacroAct(m, step) ==
  /\ OnMacros("insmacroact")
  /\ m \in liveMacros
  /\ Len(macros[m]) < MaxActions
  /\ Racing(Touching(m))
  /\ SetSteps(m, Append(macros[m], step))
  /\ UNCHANGED liveMacros

DelMacroAct(m, i) ==
  /\ OnMacros("delmacroact")
  /\ m \in liveMacros
  /\ Careful => ~InUse(m)
  /\ Racing(Touching(m))
  /\ SetSteps(m, RemoveAt(macros[m], i))
  /\ UNCHANGED liveMacros

ClearMacro(m) ==
  /\ OnMacros("clearmacro")
  /\ m \in liveMacros
  /\ Careful => ~InUse(m)
  /\ Racing(Touching(m))
  /\ SetSteps(m, <<>>)
  /\ UNCHANGED liveMacros

DelMacro(m) ==
  /\ OnMacros("delmacro")
  /\ m \in liveMacros
  /\ Careful => ~InUse(m)
  /\ Racing(SearchingMacros \/ Touching(m))
  /\ liveMacros' = liveMacros \ {m}
  /\ macros' = [macros EXCEPT ![m] = <<>>]
  /\ recording' = Freed(recording, {m})
  /\ runMacro' = [i \in DOMAIN runMacro |->
                    [runMacro[i] EXCEPT !.which = Freed(@, {m})]]

(* recordmacro: its stores, of which the last is the copy of pressedKeys.   *)
(* Keys whose press is in the recording by then, or whose bit the copy      *)
(* catches in passing, are remembered in early.                             *)
StartRecording(m, stopKey) ==
  /\ "recordmacro" \in Commands
  /\ Free
  /\ RecordMacro(m, stopKey)
  /\ UNCHANGED controlVars

GoOnRecording == StoreStopKey /\ UNCHANGED controlVars

LastIsPress(m, c) ==
  \E i \in StepsOf(m, c) :
    /\ macros[m][i].value = 1
    /\ \A j \in StepsOf(m, c) : j <= i

Recorded == {c \in Keys : recording \in MacroNames /\ LastIsPress(recording, c)}

Missed(bits) == (bits \ pressedKeys) \cup (pressedKeys \ bits)

EndStart ==
  /\ StoreIgnored
  /\ early' = Recorded \cup Missed(ignoreRecord')
  /\ UNCHANGED <<source, loading, deleting>>

(* The start of whichkey, which then polls lastKey.                         *)
WhichKey ==
  /\ Free
  /\ "whichkey" \in Commands
  /\ lastKey' = NoKey
  /\ UNCHANGED <<mapVars, held, pressedKeys, down, timerVars, recVars, ctlVars,
                 seen, request, controlVars, ub>>

-----------------------------------------------------------------------------
(* switchprofile: there is no current map from now on, the maps are freed,  *)
(* those of the new profile are loaded one after the other, and only then   *)
(* is there a current map again.                                            *)

Loads == UNCHANGED <<keyVars, timerVars, recVars, ctlVars, seen, request,
                     source, deleting, early>>

StartLoad(profile) ==
  /\ Free
  /\ "switchprofile" \in Commands
  /\ curmap # NULL
  /\ Careful => ~UsingMap /\ ~ShiftsFrom(Maps)
  /\ curmap' = NULL
  /\ loading' = [stage |-> "free", rest |-> profile]
  /\ Loads
  /\ UNCHANGED <<mappings, keybinds, mapStack, ub>>

FreeMaps ==
  /\ ~ub
  /\ loading # NULL
  /\ loading.stage = "free"
  /\ ub' = \E m \in Maps : Iterating(m)
  /\ curmap' = Freed(curmap, Maps)
  /\ mappings' = <<>>
  /\ mapStack' = ForgetMaps(mapStack, Maps)
  /\ loading' = [loading EXCEPT !.stage = "maps"]
  /\ Loads
  /\ UNCHANGED keybinds

BadLoaded(m) == mappings

Loaded(m) == Append(mappings, m)

LoadMap ==
  LET rest == loading.rest
  IN  /\ ~ub
      /\ loading # NULL
      /\ loading.stage = "maps"
      /\ rest.maps # <<>>
      /\ ub' \in {FALSE, SearchingMaps}
      /\ mappings' = Loaded(Head(rest.maps))
      /\ keybinds' = [keybinds EXCEPT ![Head(rest.maps)] =
                        rest.binds[Head(rest.maps)]]
      /\ loading' = [loading EXCEPT !.rest.maps = Tail(@)]
      /\ Loads
      /\ UNCHANGED <<curmap, mapStack>>

(* A profile that names a current map it does not hold indexes the vector   *)
(* with -1.                                                                 *)
FinishLoad ==
  LET rest == loading.rest
  IN  /\ ~ub
      /\ loading # NULL
      /\ loading.stage = "maps"
      /\ rest.maps = <<>>
      /\ IF Found(rest.curmap)
           THEN curmap' = rest.curmap /\ UNCHANGED ub
           ELSE ub' = TRUE /\ UNCHANGED curmap
      /\ loading' = NULL
      /\ Loads
      /\ UNCHANGED <<mappings, keybinds, mapStack>>

-----------------------------------------------------------------------------
MapCommand ==
  \/ \E m \in Maps : NewMap(m) \/ SwitchMap(m) \/ DelMap(m)
  \/ \E src, dest \in Maps : CopyMap(src, dest)
  \/ CompareMap
  \/ FreeMap

BindCommand ==
  \E m \in Maps, k \in Keys :
    \/ \E action \in ClientActions : AddAction(m, k, action)
    \/ \E i \in DOMAIN keybinds[m][k].actions : DelAction(m, k, i)
    \/ ClearActions(m, k)
    \/ \E dest \in Keys : CopyActions(m, k, dest)

MacroCommand ==
  \/ \E m \in MacroNames :
       \/ NewMacro(m)
       \/ \E step \in ClientSteps : InsMacroAct(m, step)
       \/ \E i \in DOMAIN macros[m] : DelMacroAct(m, i)
       \/ ClearMacro(m)
       \/ DelMacro(m)
       \/ \E s \in StopKeys : StartRecording(m, s)
  \/ \E src, dest \in MacroNames : CopyMacro(src, dest)
  \/ GoOnRecording
  \/ EndStart

ProfileCommand ==
  \/ \E profile \in Profiles : StartLoad(profile)
  \/ FreeMaps
  \/ LoadMap
  \/ FinishLoad

Command == MapCommand \/ BindCommand \/ MacroCommand \/ WhichKey \/ ProfileCommand

ControlNext == ThreadStep \/ Command

ControlSpec == ControlInit /\ [][ControlNext]_<<vars, controlVars>>

-----------------------------------------------------------------------------
(* The current map is one of the device's maps.  While a profile loads      *)
(* there is none, and while delmap is at work it may be the map that has    *)
(* left the vector already.  Neither deleting the current map nor replacing *)
(* all maps leaves the thread on a map that is gone, as long as nothing     *)
(* undefined was done.                                                      *)
CurrentMapExists ==
  ~ub => \/ Found(curmap)
         \/ curmap = NULL /\ loading # NULL
         \/ /\ deleting # NULL
            /\ deleting.stage = "compare"
            /\ curmap = deleting.map

(* What was recorded agrees with the keys.  Of the keys other than the stop *)
(* key, the last step recorded of one that the daemon holds down, and that  *)
(* was not down when the recording began, is its press; the last step of    *)
(* one it does not hold down is not.  The keys that went down or up while   *)
(* recordmacro was at its stores are not promised anything.                 *)
RecordMatchesKeys ==
  recording \in MacroNames /\ request = NULL =>
    \A c \in Keys \ (early \cup {recordStopKey}) :
      /\ c \in pressedKeys \ ignoreRecord => LastIsPress(recording, c)
      /\ c \notin pressedKeys => ~LastIsPress(recording, c)

=============================================================================
