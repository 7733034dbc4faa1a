---------------------------- MODULE DeviceKeyProofs ----------------------------
(***************************************************************************)
(* The keys of the virtual device, the shifts and the timers follow the    *)
(* keys of the physical one.  For every table of binds of a kind, however  *)
(* large:                                                                  *)
(*   - without turbos and macros, every key held down is known;            *)
(*   - without shifts either, and with switches last in their binds, no    *)
(*     key is left down when all the physical keys are up;                 *)
(*   - with one shift a bind, mapStack stays small, and if shifts do not   *)
(*     nest they end with their keys;                                      *)
(*   - with maps that start timers neither left nor entered, turbos and    *)
(*     repeated motions run only for keys that are down.                   *)
(***************************************************************************)
EXTENDS DeviceProofs, FiniteSetTheorems

-----------------------------------------------------------------------------
(* Emitting and latching a key event keeps what is down tracked.            *)
LEMMA LatchTracks ==
  ASSUME NEW bits, NEW tracked, NEW code, NEW value,
         bits \subseteq tracked \cup StopKeys
  PROVE  Latch(bits, code, value)
           \subseteq Latch(tracked, code, value) \cup StopKeys
  BY DEF Latch

LEMMA SuppressedTracks ==
  ASSUME NEW bits, NEW tracked, NEW code \in StopKeys, NEW value,
         bits \subseteq tracked \cup StopKeys
  PROVE  bits \subseteq Latch(tracked, code, value) \cup StopKeys
  BY DEF Latch

(* Without turbos and macros, what is down is a pressed or a stop key.      *)
DownIsPressed == down \subseteq pressedKeys \cup StopKeys

(* The stop key of a recording is one that a client named.                  *)
StopKeyNamed == recordStopKey \in StopKeys \cup {NoKey}

(* The binds, and what is left to do of one, hold no action of these types; *)
(* hence neither turbos nor macros run.                                     *)
NoTimedKeys ==
  /\ keybinds = BaseBinds
  /\ \A i \in DOMAIN todo : todo[i].type \notin {"turbo", "macro"}
  /\ runTurbo = <<>>
  /\ runMacro = <<>>

TrackInv == SightInv /\ NoTimedKeys /\ StopKeyNamed /\ DownIsPressed

(* The steps that record keep the stop key one that a client named.         *)
LEMMA RecordStopKey ==
  ASSUME StopKeyNamed, NEW code, NEW value,
         RecordKey(code, value) \/ RecordRel(code, value) \/ NoRecord
  PROVE  StopKeyNamed'
  BY DEF StopKeyNamed, RecordKey, RecordRel, Record, NoRecord, recVars

(* A key event written by way of the stop key's check.                      *)
LEMMA EmitTracks ==
  ASSUME StopKeyNamed, DownIsPressed, NEW code \in Keys, NEW value,
         pressedKeys' = Latch(pressedKeys, code, value),
         EmitUnlessStop(code, value) \/ Emit(code, value)
  PROVE  DownIsPressed'
<1>1. CASE Emit(code, value)
  BY <1>1, LatchTracks DEF Emit, DownIsPressed
<1>2. CASE ~Emit(code, value)
  <2>1. code = recordStopKey /\ down' = down
    BY <1>2 DEF EmitUnlessStop, Suppressed
  <2>2. code \in StopKeys
    BY <2>1, CodesAreDistinct DEF StopKeyNamed
  <2>3. QED
    BY <2>1, <2>2, SuppressedTracks DEF DownIsPressed
<1>3. QED
  BY <1>1, <1>2

-----------------------------------------------------------------------------
LEMMA TrackAct ==
  ASSUME TrackInv, Act
  PROVE  NoTimedKeys' /\ StopKeyNamed' /\ DownIsPressed'
<1> USE DEF TrackInv, SightInv
<1>1. ASSUME NEW type, Performs(type)
      PROVE  /\ type \notin {"turbo", "macro"}
             /\ keybinds' = BaseBinds
             /\ \A i \in DOMAIN todo' : todo'[i].type \notin {"turbo", "macro"}
  BY <1>1, TodoEntries DEF Performs, NoTimedKeys
<1>2. CASE ActKey
  <2>1. Now.code \in Keys
    BY <1>2, PerformsType, ActionKinds DEF ActKey, KeyAction
  <2>2. NoTimedKeys'
    BY <1>1, <1>2 DEF ActKey, NoTimedKeys, timerVars
  <2>3. QED
    BY <1>2, <2>1, <2>2, RecordStopKey, EmitTracks DEF ActKey
<1>3. CASE ActTurboPress \/ ActTurboRelease \/ ActMacro
  BY <1>1, <1>3 DEF ActTurboPress, ActTurboRelease, ActMacro
<1>4. CASE ActRel \/ ActRelConstPress \/ ActRelConstRelease
  <2>1. NoTimedKeys'
    BY <1>1, <1>4 DEF ActRel, ActRelConstPress, ActRelConstRelease,
       NoTimedKeys, timerVars
  <2>2. StopKeyNamed'
    BY <1>4, RecordStopKey DEF ActRel, ActRelConstPress, ActRelConstRelease
  <2>3. QED
    BY <1>4, <2>1, <2>2 DEF ActRel, ActRelConstPress, ActRelConstRelease,
       DownIsPressed
<1>5. CASE ActSwitchMap \/ ActShiftMap
  <2>1. NoTimedKeys'
    BY <1>1, <1>5 DEF ActSwitchMap, ActShiftMap, NoTimedKeys, timerVars
  <2>2. StopKeyNamed'
    BY <1>5 DEF ActSwitchMap, ActShiftMap, GoToPlace, StopKeyNamed, recVars
  <2>3. QED
    BY <1>5, <2>1, <2>2 DEF ActSwitchMap, ActShiftMap, ReleaseKeys,
       DownIsPressed
<1>6. CASE ActNothing
  <2>1. PICK type : Performs(type)
    BY <1>6 DEF ActNothing
  <2>2. NoTimedKeys'
    BY <1>1, <1>6, <2>1 DEF ActNothing, NoTimedKeys, timerVars
  <2>3. QED
    BY <1>6, <2>2, RecordStopKey DEF ActNothing, DownIsPressed
<1>7. CASE FinishEvent
  BY <1>7 DEF FinishEvent, Rewired, NoTimedKeys, StopKeyNamed, DownIsPressed,
     mapVars, timerVars, recVars
<1>8. CASE LookUpMap
  BY <1>8 DEF LookUpMap, Sees, NoTimedKeys, StopKeyNamed, DownIsPressed, mapVars, keyVars,
     timerVars, recVars, ctlVars
<1>9. QED
  BY <1>2, <1>3, <1>4, <1>5, <1>6, <1>7, <1>8 DEF Act

LEMMA TrackRewire ==
  ASSUME WithoutActions({"turbo", "macro"}), TrackInv, Rewire
  PROVE  NoTimedKeys' /\ StopKeyNamed' /\ DownIsPressed'
<1> USE DEF TrackInv, SightInv
<1>1. CASE RewirePlain \/ (RewireUnmapped /\ event.type = "key")
  <2>1. event.code \in Keys
    BY <1>1, EventKinds DEF RewirePlain, TypeOK, CtlTypes
  <2>2. NoTimedKeys'
    BY <1>1 DEF RewirePlain, RewireUnmapped, Rewired, NoTimedKeys, mapVars,
       timerVars
  <2>3. QED
    BY <1>1, <2>1, <2>2, RecordStopKey, EmitTracks
       DEF RewirePlain, RewireUnmapped
<1>2. CASE RewireBound
  <2>1. \A i \in DOMAIN Bound.actions :
          Bound.actions[i].type \notin {"turbo", "macro"}
    <3>1. curmap \in Maps /\ event.code \in Keys
      BY <1>2, EventKinds DEF RewireBound, TypeOK, CtlTypes
    <3>2. QED
      BY <3>1 DEF WithoutActions, Bound, NoTimedKeys
  <2>2. QED
    BY <1>2, <2>1 DEF RewireBound, NoTimedKeys, StopKeyNamed, DownIsPressed,
       mapVars, keyVars, timerVars, recVars
<1>3. CASE RewireRel \/ (RewireUnmapped /\ event.type # "key")
  <2>1. NoTimedKeys'
    BY <1>3 DEF RewireRel, RewireUnmapped, Rewired, NoTimedKeys, mapVars,
       timerVars
  <2>2. StopKeyNamed'
    BY <1>3, RecordStopKey DEF RewireRel, RewireUnmapped
  <2>3. QED
    BY <1>3, <2>1, <2>2 DEF RewireRel, RewireUnmapped, DownIsPressed
<1>4. CASE NoUnshift \/ RewireOther \/ TestMap \/ TestBind \/ RewireWild
  BY <1>4 DEF NoUnshift, RewireOther, Rewired, TestMap, TestBind, Sees, RewireWild, NoTimedKeys,
     StopKeyNamed, DownIsPressed, mapVars, keyVars, timerVars, recVars, ctlVars
<1>5. ASSUME NEW i \in DOMAIN mapStack, Unshift(i)
      PROVE  NoTimedKeys' /\ StopKeyNamed' /\ DownIsPressed'
  BY <1>5 DEF Unshift, NoTimedKeys, StopKeyNamed, DownIsPressed, keyVars,
     timerVars, recVars
<1>6. QED
  BY <1>1, <1>2, <1>3, <1>4, <1>5 DEF Rewire

LEMMA TrackStep ==
  ASSUME WithoutActions({"turbo", "macro"}), TrackInv, [Next]_vars
  PROVE  TrackInv'
<1>1. SightInv'
  BY SightStep DEF TrackInv
<1> SUFFICES NoTimedKeys' /\ StopKeyNamed' /\ DownIsPressed'
  BY <1>1 DEF TrackInv
<1> USE DEF TrackInv, SightInv
<1>2. CASE Act
  BY <1>2, TrackAct
<1>3. CASE Rewire
  BY <1>3, TrackRewire
<1>4. CASE Select \/ Input
  BY <1>4 DEF Select, Input, ReadKey, ReadRel, ReadOther, NoTimedKeys,
     StopKeyNamed, DownIsPressed, mapVars, keyVars, timerVars, recVars
<1>5. CASE Timers
  <2>1. DOMAIN runTurbo = {} /\ DOMAIN runMacro = {}
    BY DEF NoTimedKeys
  <2>2. CASE \E i \in DOMAIN runRelConst : FireRelConst(i)
    <3>1. PICK i \in DOMAIN runRelConst : FireRelConst(i)
      BY <2>2
    <3>2. StopKeyNamed'
      BY <3>1, RecordStopKey DEF FireRelConst
    <3>3. QED
      BY <3>1, <3>2 DEF FireRelConst, NoTimedKeys, DownIsPressed, mapVars,
         keyVars
  <2>3. CASE Cleanup
    BY <2>1, <2>3 DEF Cleanup, NoTimedKeys, StopKeyNamed, DownIsPressed,
       mapVars, keyVars, recVars
  <2>4. QED
    BY <1>5, <2>1, <2>2, <2>3 DEF Timers
<1>6. CASE Tick
  <2>1. Age(<<>>) = <<>>
    BY DEF Age
  <2>2. QED
    BY <1>6, <2>1 DEF Tick, NoTimedKeys, StopKeyNamed, DownIsPressed, mapVars,
       keyVars, ctlVars
<1>7. CASE Client
  <2>1. UNCHANGED <<mapVars, keyVars, timerVars, ctlVars>>
    BY <1>7, ClientKeepsAll
  <2>2. request # NULL => request.stopKey \in StopKeys
    BY DEF TypeOK, WindowTypes, Request
  <2>3. StopKeyNamed'
    BY <1>7, <2>2 DEF Client, RecordMacro, StoreStopKey, StoreIgnored, StopKeyNamed
  <2>4. QED
    BY <2>1, <2>3 DEF NoTimedKeys, DownIsPressed, mapVars, keyVars, timerVars, ctlVars
<1>8. CASE UNCHANGED vars
  BY <1>8 DEF vars, NoTimedKeys, StopKeyNamed, DownIsPressed, mapVars, keyVars,
     timerVars, recVars, ctlVars
<1>9. QED
  BY <1>2, <1>3, <1>4, <1>5, <1>6, <1>7, <1>8 DEF Next, Thread

LEMMA TrackInit == Init => TrackInv
  BY SightInit DEF Init, TrackInv, NoTimedKeys, StopKeyNamed, DownIsPressed

LEMMA Tracked ==
  ASSUME WithoutActions({"turbo", "macro"})
  PROVE  Spec => []TrackInv
<1>1. TrackInv /\ [Next]_vars => TrackInv'
  BY TrackStep
<1>2. QED
  BY TrackInit, <1>1, PTL DEF Spec

(* With binds that start neither turbos nor macros, every key that is down  *)
(* on the virtual device is in pressedKeys, where ReleaseKeys finds it, or  *)
(* has been the stop key of a recording.                                    *)
THEOREM DownTracked ==
  ASSUME WithoutActions({"turbo", "macro"})
  PROVE  Spec => []DownIsTracked
<1>1. TrackInv => DownIsTracked
  BY DEF TrackInv, DownIsPressed, DownIsTracked
<1>2. QED
  BY Tracked, <1>1, PTL
-----------------------------------------------------------------------------
(* No key is stuck.  The strengthening says to whom every key belongs that  *)
(* the daemon holds down: to a physical key that is down and bound to it in *)
(* the current map, or to the release that the thread is working on.        *)

(* In map m, key k sends code: as itself, or by a key action of its bind.   *)
Sends(m, k, code) ==
  IF m # NULL /\ BaseBinds[m][k].doModify
    THEN \E i \in DOMAIN BaseBinds[m][k].actions :
           /\ BaseBinds[m][k].actions[i].type = "key"
           /\ BaseBinds[m][k].actions[i].code = code
    ELSE k = code

StillToSend(code) ==
  \E i \in DOMAIN todo : todo[i].type = "key" /\ todo[i].code = code

Releasing(code) ==
  /\ IsRelease
  /\ \/ pc \in {"event", "rewire"} /\ Sends(curmap, event.code, code)
     \/ pc = "actions" /\ StillToSend(code)

Owned == \A code \in pressedKeys :
  Releasing(code) \/ \E k \in held : Sends(curmap, k, code)

(* A press or a repeat that is being worked on is of a key that is down,    *)
(* and the keys it has still to press are that key's in the current map.    *)
PressInHand ==
  /\ event.type = "key" /\ event.value # 0
  /\ pc \in {"event", "rewire", "actions"}
  => /\ event.code \in held
     /\ pc = "actions" =>
          \A code \in Keys : StillToSend(code) => Sends(curmap, event.code, code)

NoShifts ==
  /\ curmap \in Maps \cup {NULL}
  /\ mapStack = <<>>
  /\ \A i \in DOMAIN todo : todo[i].type # "shiftmap"

SwitchLastInTodo ==
  \A i, j \in DOMAIN todo :
    todo[i].type = "switchmap" /\ i < j => todo[j].type # "key"

KeyInv == TrackInv /\ NoShifts /\ SwitchLastInTodo /\ PressInHand /\ Owned

KeyTable ==
  WithoutActions({"turbo", "macro", "shiftmap"}) /\ SwitchesLast

(* The tail of a list asks for no more than the list.                       *)
LEMMA TailSends ==
  ASSUME TypeOK, todo # <<>>, todo' = Tail(todo), NEW code
  PROVE  /\ StillToSend(code)' => StillToSend(code)
         /\ StillToSend(code) =>
              StillToSend(code)' \/ (Now.type = "key" /\ Now.code = code)
<1>1. ASSUME StillToSend(code)'
      PROVE  StillToSend(code)
  <2>1. PICK i \in DOMAIN Tail(todo) :
          Tail(todo)[i].type = "key" /\ Tail(todo)[i].code = code
    BY <1>1 DEF StillToSend
  <2>2. QED
    BY <2>1, TodoEntries DEF StillToSend
<1>2. ASSUME StillToSend(code)
      PROVE  StillToSend(code)' \/ (Now.type = "key" /\ Now.code = code)
  <2>1. PICK i \in DOMAIN todo : todo[i].type = "key" /\ todo[i].code = code
    BY <1>2 DEF StillToSend
  <2>2. CASE i = 1
    BY <2>1, <2>2, TodoEntries
  <2>3. CASE i # 1
    <3>1. i - 1 \in DOMAIN Tail(todo) /\ Tail(todo)[i - 1] = todo[i]
      BY <2>3, TodoEntries
    <3>2. QED
      BY <2>1, <3>1 DEF StillToSend
  <2>4. QED
    BY <2>2, <2>3
<1>3. QED
  BY <1>1, <1>2

LEMMA TailSwitchLast ==
  ASSUME TypeOK, NoShifts, SwitchLastInTodo, todo # <<>>, todo' = Tail(todo)
  PROVE  /\ SwitchLastInTodo'
         /\ \A i \in DOMAIN todo' : todo'[i].type # "shiftmap"
         /\ Now.type = "switchmap" => \A code : ~StillToSend(code)'
<1>1. /\ DOMAIN todo \subseteq Nat
      /\ DOMAIN Tail(todo) \subseteq Nat \ {0}
  <2>1. todo \in Seq(BindAction) /\ Tail(todo) \in Seq(BindAction)
    BY HeadTailProperties DEF TypeOK, CtlTypes
  <2>2. QED
    BY <2>1, LenProperties
<1>2. \A i \in DOMAIN Tail(todo) :
        i + 1 \in DOMAIN todo /\ Tail(todo)[i] = todo[i + 1]
  BY TodoEntries
<1>3. SwitchLastInTodo'
  <2>1. SUFFICES ASSUME NEW i \in DOMAIN Tail(todo), NEW j \in DOMAIN Tail(todo),
                        Tail(todo)[i].type = "switchmap", i < j
                 PROVE  Tail(todo)[j].type # "key"
    BY DEF SwitchLastInTodo
  <2>2. i + 1 < j + 1
    BY <1>1, <2>1
  <2>3. QED
    BY <1>2, <2>1, <2>2 DEF SwitchLastInTodo
<1>4. \A i \in DOMAIN todo' : todo'[i].type # "shiftmap"
  BY <1>2 DEF NoShifts
<1>5. ASSUME Now.type = "switchmap", NEW code, StillToSend(code)'
      PROVE  FALSE
  <2>1. PICK i \in DOMAIN Tail(todo) : Tail(todo)[i].type = "key"
    BY <1>5 DEF StillToSend
  <2>2. todo[i + 1].type = "key" /\ i + 1 \in DOMAIN todo /\ 1 < i + 1
    BY <1>1, <1>2, <2>1
  <2>3. 1 \in DOMAIN todo /\ todo[1].type = "switchmap"
    BY <1>5, TodoEntries
  <2>4. QED
    BY <2>2, <2>3 DEF SwitchLastInTodo
<1>6. QED
  BY <1>3, <1>4, <1>5

(* Latching a code the event's key sends keeps every key owned.             *)
LEMMA ActOwned ==
  ASSUME KeyInv, NEW type, Performs(type), type # "switchmap",
         \/ pressedKeys' = pressedKeys /\ type # "key"
         \/ type = "key" /\ pressedKeys' = Latch(pressedKeys, Now.code, event.value),
         curmap' = curmap, mapStack' = mapStack
  PROVE  NoShifts' /\ SwitchLastInTodo' /\ PressInHand' /\ Owned'
<1> USE DEF KeyInv, TrackInv, SightInv
<1>1. /\ todo # <<>> /\ todo' = Tail(todo) /\ Now.type = type
      /\ pc = "actions" /\ pc' = pc /\ event' = event /\ held' = held
      /\ keybinds' = keybinds
      /\ event.type = "key"
  BY DEF Performs, At, TypeOK, CtlTypes
<1>2. NoShifts' /\ SwitchLastInTodo'
  BY <1>1, TailSwitchLast DEF NoShifts
<1>3. PressInHand'
  BY <1>1, TailSends DEF PressInHand, Sends
<1>4. Owned'
  <2>1. SUFFICES ASSUME NEW code \in pressedKeys'
                 PROVE  \/ Releasing(code)'
                        \/ \E k \in held : Sends(curmap, k, code)
    BY <1>1 DEF Owned, Sends
  <2>2. event.code \in Keys /\ event.value \in 0..2
    BY PerformsType
  <2>3. CASE code \notin pressedKeys
    <3>1. type = "key" /\ code = Now.code /\ event.value = 1
      BY <2>1, <2>3 DEF Latch
    <3>2. Now.code \in Keys
      BY <3>1, PerformsType, ActionKinds DEF KeyAction
    <3>3. StillToSend(code)
      BY <1>1, <3>1, TodoEntries DEF StillToSend
    <3>4. event.code \in held /\ Sends(curmap, event.code, code)
      BY <1>1, <3>1, <3>2, <3>3 DEF PressInHand
    <3>5. QED
      BY <3>4
  <2>4. CASE code \in pressedKeys /\ Releasing(code)
    <3>1. IsRelease /\ StillToSend(code)
      BY <1>1, <2>4 DEF Releasing
    <3>2. ~(Now.type = "key" /\ Now.code = code)
      BY <1>1, <2>1, <3>1 DEF IsRelease, Latch
    <3>3. StillToSend(code)'
      BY <1>1, <3>1, <3>2, TailSends
    <3>4. QED
      BY <1>1, <3>1, <3>3 DEF Releasing, IsRelease
  <2>5. CASE code \in pressedKeys /\ ~Releasing(code)
    BY <2>5 DEF Owned
  <2>6. QED
    BY <2>3, <2>4, <2>5
<1>5. QED
  BY <1>2, <1>3, <1>4

(* What changes none of this keeps it.                                      *)
LEMMA KeysKept ==
  ASSUME KeyInv, UNCHANGED <<curmap, mapStack, todo, event, held, pressedKeys, pc>>
  PROVE  NoShifts' /\ SwitchLastInTodo' /\ PressInHand' /\ Owned'
<1>1. Owned'
  BY DEF KeyInv, Owned, Releasing, IsRelease, StillToSend
<1>2. QED
  BY <1>1 DEF KeyInv, NoShifts, SwitchLastInTodo, PressInHand, StillToSend

LEMMA LooksKeepKeys ==
  ASSUME KeyInv, Looks \/ RewireWild
  PROVE  NoShifts' /\ SwitchLastInTodo' /\ PressInHand' /\ Owned'
<1>1. UNCHANGED <<mapVars, keyVars, ctlVars>>
  BY LooksChangeNothing DEF RewireWild
<1>2. QED
  BY <1>1, KeysKept DEF mapVars, keyVars, ctlVars

LEMMA KeyAct ==
  ASSUME KeyInv, Act
  PROVE  NoShifts' /\ SwitchLastInTodo' /\ PressInHand' /\ Owned'
<1> USE DEF KeyInv, TrackInv, SightInv
<1>1. CASE ActKey
  BY <1>1, ActOwned DEF ActKey
<1>2. CASE ActTurboPress \/ ActTurboRelease \/ ActMacro \/ ActShiftMap
  <2>1. Now.type \in {"turbo", "macro", "shiftmap"} /\ todo # <<>>
    BY <1>2 DEF ActTurboPress, ActTurboRelease, ActMacro, ActShiftMap, Performs
  <2>2. 1 \in DOMAIN todo /\ Now = todo[1]
    BY <2>1, TodoEntries
  <2>3. QED
    BY <2>1, <2>2 DEF NoTimedKeys, NoShifts
<1>3. CASE ActRel
  BY <1>3, ActOwned DEF ActRel
<1>4. CASE ActRelConstPress
  BY <1>4, ActOwned DEF ActRelConstPress
<1>5. CASE ActRelConstRelease
  BY <1>5, ActOwned DEF ActRelConstRelease
<1>6. CASE ActSwitchMap
  <2>1. /\ todo # <<>> /\ todo' = Tail(todo) /\ Now.type = "switchmap"
        /\ event' = event /\ held' = held /\ pressedKeys' = {}
        /\ pc' = pc /\ pc = "actions" /\ mapStack' = mapStack
        /\ curmap' = Now.map
        /\ event.value = 1
    BY <1>6, GoesToNamed DEF ActSwitchMap, Performs, ReleaseKeys, At, Pressed
  <2>2. /\ SwitchLastInTodo'
        /\ \A i \in DOMAIN todo' : todo'[i].type # "shiftmap"
        /\ \A code : ~StillToSend(code)'
    BY <2>1, TailSwitchLast
  <2>3. curmap' \in Maps
    BY <1>6, <2>1, GoesToNamed
  <2>4. NoShifts'
    BY <2>1, <2>2, <2>3 DEF NoShifts
  <2>5. PressInHand' /\ Owned'
    BY <2>1, <2>2 DEF PressInHand, Owned
  <2>6. QED
    BY <2>2, <2>4, <2>5
<1>7. CASE ActNothing
  <2>1. PICK type : Performs(type) /\ type # "key"
    BY <1>7 DEF ActNothing
  <2>2. CASE type # "switchmap"
    BY <1>7, <2>1, <2>2, ActOwned DEF ActNothing
  <2>3. CASE type = "switchmap"
    <3>1. /\ todo # <<>> /\ todo' = Tail(todo) /\ Now.type = "switchmap"
          /\ event' = event /\ held' = held /\ pressedKeys' = pressedKeys
          /\ pc' = pc /\ pc = "actions" /\ mapStack' = mapStack
          /\ curmap' = curmap
      BY <1>7, <2>1, <2>3 DEF ActNothing, Performs, At
    <3>2. /\ SwitchLastInTodo'
          /\ \A i \in DOMAIN todo' : todo'[i].type # "shiftmap"
          /\ \A code : ~StillToSend(code)'
          /\ \A code : StillToSend(code) => StillToSend(code)'
      BY <3>1, TailSwitchLast, TailSends
    <3>3. NoShifts'
      BY <3>1, <3>2 DEF NoShifts
    <3>4. PressInHand'
      BY <3>1, <3>2 DEF PressInHand
    <3>5. Owned'
      BY <3>1, <3>2 DEF Owned, Releasing, IsRelease
    <3>6. QED
      BY <3>2, <3>3, <3>4, <3>5
  <2>4. QED
    BY <2>2, <2>3
<1>8. CASE FinishEvent
  <2>1. /\ todo = <<>> /\ todo' = todo /\ event' = event /\ held' = held
        /\ pressedKeys' = pressedKeys /\ pc' = "select" /\ pc = "actions"
        /\ mapStack' = mapStack /\ curmap' = curmap
    BY <1>8 DEF FinishEvent, Rewired, At, mapVars
  <2>2. \A code : ~StillToSend(code)
    BY <2>1 DEF StillToSend
  <2>3. Owned'
    BY <2>1, <2>2 DEF Owned, Releasing
  <2>4. QED
    BY <2>1, <2>3 DEF NoShifts, SwitchLastInTodo, PressInHand
<1>9. CASE LookUpMap
  BY <1>9, LooksKeepKeys DEF Looks
<1>10. QED
  BY <1>1, <1>2, <1>3, <1>4, <1>5, <1>6, <1>7, <1>8, <1>9 DEF Act

LEMMA KeyRewire ==
  ASSUME KeyTable, KeyInv, Rewire
  PROVE  NoShifts' /\ SwitchLastInTodo' /\ PressInHand' /\ Owned'
<1> USE DEF KeyInv, TrackInv, SightInv
<1>1. DOMAIN mapStack = {} /\ NULL \notin Maps
  BY PointersAreDistinct DEF NoShifts
<1>2. CASE NoUnshift
  <2>1. /\ UNCHANGED <<curmap, mapStack, todo, event, held, pressedKeys>>
        /\ pc = "event" /\ pc' = "rewire"
    BY <1>2 DEF NoUnshift, At, mapVars, keyVars
  <2>2. Owned'
    BY <2>1 DEF Owned, Releasing, IsRelease
  <2>3. QED
    BY <2>1, <2>2 DEF NoShifts, SwitchLastInTodo, PressInHand
<1>3. CASE RewirePlain \/ (RewireUnmapped /\ event.type = "key")
  <2>1. /\ UNCHANGED <<curmap, mapStack, todo, event, held>>
        /\ pressedKeys' = Latch(pressedKeys, event.code, event.value)
        /\ pc = "rewire" /\ pc' = "select"
        /\ event.type = "key"
        /\ curmap = NULL \/ ~Bound.doModify
    BY <1>3 DEF RewirePlain, RewireUnmapped, Rewired, At, mapVars
  <2>2. event.code \in Keys /\ event.value \in 0..2
    BY <2>1, EventKinds DEF TypeOK, CtlTypes
  <2>3. \A code : Sends(curmap, event.code, code) <=> event.code = code
    BY <2>1 DEF Sends, Bound, NoTimedKeys
  <2>4. Owned'
    <3>1. SUFFICES ASSUME NEW code \in pressedKeys'
                   PROVE  \E k \in held : Sends(curmap, k, code)
      BY <2>1 DEF Owned
    <3>2. CASE code \notin pressedKeys
      <4>1. event.value = 1 /\ code = event.code
        BY <2>1, <3>1, <3>2 DEF Latch
      <4>2. QED
        BY <2>1, <2>3, <4>1 DEF PressInHand
    <3>3. CASE code \in pressedKeys /\ IsRelease
      <4>1. code # event.code
        BY <2>1, <3>1, <3>3 DEF Latch, IsRelease
      <4>2. ~Releasing(code)
        BY <2>1, <2>3, <4>1 DEF Releasing
      <4>3. QED
        BY <3>3, <4>2 DEF Owned
    <3>4. CASE code \in pressedKeys /\ ~IsRelease
      BY <3>4 DEF Owned, Releasing
    <3>5. QED
      BY <3>2, <3>3, <3>4
  <2>5. QED
    BY <2>1, <2>4 DEF NoShifts, SwitchLastInTodo, PressInHand
<1>4. CASE RewireBound
  <2>1. /\ UNCHANGED <<curmap, mapStack, event, held, pressedKeys>>
        /\ todo' = Bound.actions
        /\ pc = "rewire" /\ pc' = "actions"
        /\ event.type = "key"
        /\ Bound.doModify
    BY <1>4 DEF RewireBound, At, mapVars, keyVars
  <2>2. event.code \in Keys /\ curmap \in Maps
    BY <1>4, <2>1, EventKinds DEF TypeOK, CtlTypes, RewireBound
  <2>3. Bound = BaseBinds[curmap][event.code]
    BY DEF Bound, NoTimedKeys
  <2>4. \A code : StillToSend(code)' <=> Sends(curmap, event.code, code)
    BY <1>1, <2>1, <2>2, <2>3 DEF StillToSend, Sends
  <2>5. NoShifts' /\ SwitchLastInTodo'
    BY <2>1, <2>2, <2>3
       DEF KeyTable, WithoutActions, SwitchesLast, NoShifts, SwitchLastInTodo
  <2>6. PressInHand'
    BY <2>1, <2>4 DEF PressInHand
  <2>7. Owned'
    BY <2>1, <2>4 DEF Owned, Releasing, IsRelease
  <2>8. QED
    BY <2>5, <2>6, <2>7
<1>5. CASE RewireRel \/ RewireOther \/ (RewireUnmapped /\ event.type # "key")
  <2>1. /\ UNCHANGED <<curmap, mapStack, todo, event, held, pressedKeys>>
        /\ pc = "rewire" /\ pc' = "select"
        /\ event.type # "key"
    BY <1>5 DEF RewireRel, RewireOther, RewireUnmapped, Rewired, At, mapVars,
       keyVars
  <2>2. Owned'
    BY <2>1 DEF Owned, Releasing, IsRelease
  <2>3. QED
    BY <2>1, <2>2 DEF NoShifts, SwitchLastInTodo, PressInHand
<1>6. CASE TestMap \/ TestBind \/ RewireWild
  BY <1>6, LooksKeepKeys DEF Looks
<1>7. QED
  BY <1>1, <1>2, <1>3, <1>4, <1>5, <1>6 DEF Rewire, RewireUnmapped

LEMMA KeyInput ==
  ASSUME KeyInv, Input
  PROVE  NoShifts' /\ SwitchLastInTodo' /\ PressInHand' /\ Owned'
<1> USE DEF KeyInv, TrackInv, SightInv
<1>1. ASSUME NEW k \in Keys, NEW v \in 0..2, ReadKey(k, v)
      PROVE  NoShifts' /\ SwitchLastInTodo' /\ PressInHand' /\ Owned'
  <2>1. /\ UNCHANGED <<curmap, mapStack, todo, pressedKeys>>
        /\ held' = Latch(held, k, v)
        /\ event' = [type |-> "key", code |-> k, value |-> v]
        /\ pc = "sleep" /\ pc' = "event"
        /\ v # 1 => k \in held
    BY <1>1 DEF ReadKey, Deliverable, At, mapVars
  <2>2. \A code \in pressedKeys : \E h \in held : Sends(curmap, h, code)
    BY <2>1 DEF Owned, Releasing
  <2>3. PressInHand'
    BY <2>1 DEF PressInHand, Latch
  <2>4. Owned'
    <3>1. SUFFICES ASSUME NEW code \in pressedKeys
                   PROVE  \/ Releasing(code)'
                          \/ \E h \in held' : Sends(curmap, h, code)
      BY <2>1 DEF Owned
    <3>2. PICK h \in held : Sends(curmap, h, code)
      BY <2>2
    <3>3. CASE h \in held'
      BY <3>2, <3>3
    <3>4. CASE h \notin held'
      <4>1. v = 0 /\ h = k
        BY <2>1, <3>2, <3>4 DEF Latch
      <4>2. QED
        BY <2>1, <3>2, <4>1 DEF Releasing, IsRelease
    <3>5. QED
      BY <3>3, <3>4
  <2>5. QED
    BY <2>1, <2>3, <2>4 DEF NoShifts, SwitchLastInTodo
<1>2. CASE (\E r \in Rels : ReadRel(r)) \/ ReadOther
  <2>1. /\ UNCHANGED <<curmap, mapStack, todo, pressedKeys, held>>
        /\ event'.type # "key"
        /\ pc = "sleep" /\ pc' = "event"
    BY <1>2 DEF ReadRel, ReadOther, NoEvent, At, mapVars, keyVars
  <2>2. Owned'
    BY <2>1 DEF Owned, Releasing
  <2>3. QED
    BY <2>1, <2>2 DEF NoShifts, SwitchLastInTodo, PressInHand
<1>3. QED
  BY <1>1, <1>2 DEF Input

LEMMA KeyStep ==
  ASSUME KeyTable, KeyInv, [Next]_vars
  PROVE  KeyInv'
<1>1. TrackInv'
  BY TrackStep DEF KeyInv, KeyTable, WithoutActions
<1> SUFFICES NoShifts' /\ SwitchLastInTodo' /\ PressInHand' /\ Owned'
  BY <1>1 DEF KeyInv
<1>2. CASE Act
  BY <1>2, KeyAct
<1>3. CASE Rewire
  BY <1>3, KeyRewire
<1>4. CASE Input
  BY <1>4, KeyInput
<1>5. CASE Select \/ Timers \/ Tick
  <2>1. DOMAIN runTurbo = {} /\ DOMAIN runMacro = {}
    BY DEF KeyInv, TrackInv, NoTimedKeys
  <2>2. /\ UNCHANGED <<curmap, mapStack, todo, event, held, pressedKeys>>
        /\ pc \in {"select", "sleep", "cleanup"} /\ pc' \in {"select", "sleep"}
    BY <1>5, <2>1 DEF Select, Timers, FireRelConst, Cleanup, Tick, TimedOut,
       At, mapVars, keyVars, ctlVars
  <2>3. Owned'
    BY <2>2 DEF KeyInv, Owned, Releasing
  <2>4. QED
    BY <2>2, <2>3 DEF KeyInv, NoShifts, SwitchLastInTodo, PressInHand
<1>6. CASE Client \/ UNCHANGED vars
  <2>1. UNCHANGED <<mapVars, keyVars, ctlVars>>
    BY <1>6, ClientKeepsAll DEF vars
  <2>2. QED
    BY <2>1, KeysKept DEF mapVars, keyVars, ctlVars
<1>7. QED
  BY <1>2, <1>3, <1>4, <1>5, <1>6 DEF Next, Thread

LEMMA KeyInit == Init => KeyInv
  BY TrackInit, BaseIsTyped
     DEF Init, KeyInv, NoShifts, SwitchLastInTodo, PressInHand, Owned, NoEvent

(* With binds whose actions are keys, relative motions, switches of map and *)
(* what leaves the daemon's state alone, and whose switches are not         *)
(* followed by keys, no key but a stop key is down on the virtual device    *)
(* once every physical key is up and its release has been worked on.        *)
THEOREM KeysAreReleased ==
  ASSUME KeyTable
  PROVE  Spec => []NoStuckKeys
<1>1. KeyInv /\ [Next]_vars => KeyInv'
  BY KeyStep
<1>2. KeyInv => NoStuckKeys
  BY DEF KeyInv, TrackInv, Owned, Releasing, NoStuckKeys, Asleep, DownIsPressed
<1>3. QED
  BY KeyInit, <1>1, <1>2, PTL DEF Spec
-----------------------------------------------------------------------------
(* Shifts.                                                                  *)

(* How a step changes what a shift depends on.                              *)
LEMMA StepShape ==
  ASSUME TypeOK, [Next]_vars
  PROVE  \/ \E k \in Keys, v \in 0..2 : ReadKey(k, v)
         \/ \E i \in DOMAIN mapStack : Unshift(i)
         \/ NoUnshift
         \/ RewireBound
         \/ ActShiftMap
         \/ ActSwitchMap
         \/ /\ pc = "sleep" /\ pc' = "event" /\ event'.type # "key"
            /\ UNCHANGED <<mappings, keybinds, curmap, mapStack, held, todo>>
         \/ /\ UNCHANGED <<mappings, keybinds, curmap, mapStack, held, event>>
            /\ \/ UNCHANGED <<pc, todo>>
               \/ pc = "actions" /\ pc' = pc /\ todo # <<>> /\ todo' = Tail(todo)
               \/ /\ pc # "event" /\ pc' \in {"select", "sleep", "macro", "cleanup"} /\ todo' = todo
                  /\ pc = "actions" => todo = <<>>
                  /\ pc = "rewire" /\ event.type = "key" /\ curmap \in Maps => ~Bound.doModify
<1>1. CASE Input
  BY <1>1 DEF Input, ReadRel, ReadOther, NoEvent, At, mapVars, keyVars
<1>2. CASE Select \/ Tick \/ Client \/ UNCHANGED vars
  BY <1>2, ClientKeepsAll DEF Select, Tick, At, vars, mapVars, keyVars, ctlVars
<1>3. CASE Timers
  BY <1>3 DEF Timers, FireTurbo, FireRelConst, FireMacro, PlayStep, PlayWild, Cleanup, TimedOut,
     At, mapVars, keyVars, ctlVars
<1>4. CASE Rewire
  <2>1. CASE TestMap \/ TestBind \/ RewireWild
    BY <2>1 DEF TestMap, TestBind, Sees, RewireWild, mapVars, keyVars, ctlVars
  <2>2. QED
    BY <1>4, <2>1, PointersAreDistinct DEF Rewire, RewireUnmapped, RewirePlain, RewireRel,
       RewireOther, Rewired, At, mapVars, keyVars
<1>5. CASE Act
  <2>1. CASE FinishEvent
    BY <2>1 DEF FinishEvent, Rewired, At, mapVars
  <2>2. CASE ActNothing
    BY <2>2 DEF ActNothing, Performs, At
  <2>3. CASE ActKey \/ ActTurboPress \/ ActTurboRelease \/ ActRel \/ ActRelConstPress
             \/ ActRelConstRelease \/ ActMacro
    BY <2>3 DEF ActKey, ActTurboPress, ActTurboRelease, ActRel, ActRelConstPress,
       ActRelConstRelease, ActMacro, Performs, At
  <2>4. CASE LookUpMap
    BY <2>4 DEF LookUpMap, Sees, mapVars, keyVars, ctlVars
  <2>5. QED
    BY <1>5, <2>1, <2>2, <2>3, <2>4 DEF Act
<1>6. QED
  BY <1>1, <1>2, <1>3, <1>4, <1>5 DEF Next, Thread

(* A bind shifts at most once: one that shifts twice leaves two entries at  *)
(* every press, of which the release uses one.                              *)
OneShift(actions) ==
  \A i, j \in DOMAIN actions :
    actions[i].type = "shiftmap" /\ actions[j].type = "shiftmap" => i = j

OneShiftPerBind == \A m \in Maps, k \in Keys : OneShift(BaseBinds[m][k].actions)

Shifts(actions) == \E i \in DOMAIN actions : actions[i].type = "shiftmap"

(* What is left to do of one shift.                                         *)
LEMMA TailShift ==
  ASSUME TypeOK, todo # <<>>, OneShift(todo)
  PROVE  /\ OneShift(Tail(todo))
         /\ Shifts(Tail(todo)) => Shifts(todo)
         /\ Now.type = "shiftmap" => Shifts(todo) /\ ~Shifts(Tail(todo))
<1>1. /\ 1 \in DOMAIN todo /\ Now = todo[1]
      /\ \A i \in DOMAIN Tail(todo) : i + 1 \in DOMAIN todo /\ Tail(todo)[i] = todo[i + 1]
  BY TodoEntries
<1>2. DOMAIN Tail(todo) \subseteq Nat \ {0}
  <2>1. Tail(todo) \in Seq(BindAction)
    BY TodoType DEF TypeOK
  <2>2. QED
    BY <2>1, LenProperties
<1>3. OneShift(Tail(todo))
  <2>1. SUFFICES ASSUME NEW i \in DOMAIN Tail(todo), NEW j \in DOMAIN Tail(todo),
                        Tail(todo)[i].type = "shiftmap", Tail(todo)[j].type = "shiftmap"
                 PROVE  i = j
    BY DEF OneShift
  <2>2. i + 1 = j + 1
    BY <1>1, <2>1 DEF OneShift
  <2>3. QED
    BY <1>2, <2>2
<1>4. ASSUME NEW i \in DOMAIN Tail(todo), Tail(todo)[i].type = "shiftmap"
      PROVE  Shifts(todo) /\ Now.type # "shiftmap"
  <2>1. i + 1 \in DOMAIN todo /\ todo[i + 1].type = "shiftmap" /\ i + 1 # 1
    BY <1>1, <1>2, <1>4
  <2>2. QED
    BY <1>1, <2>1 DEF OneShift, Shifts
<1>5. QED
  BY <1>1, <1>3, <1>4 DEF Shifts

(* How many entries a key has in mapStack.                                  *)
Once(k) ==
  \A i, j \in DOMAIN mapStack : mapStack[i].code = k /\ mapStack[j].code = k => i = j

Twice(k) ==
  \A i, j, l \in DOMAIN mapStack :
    mapStack[i].code = k /\ mapStack[j].code = k /\ mapStack[l].code = k =>
      i = j \/ j = l \/ i = l

(* The press in hand may shift.                                             *)
MayShift ==
  /\ event.type = "key" /\ event.value = 1
  /\ \/ pc \in {"event", "rewire"}
     \/ pc = "actions" /\ Shifts(todo)

ReleaseInHand(k) == pc = "event" /\ IsRelease /\ event.code = k

StackInv ==
  /\ SightInv
  /\ keybinds = BaseBinds
  /\ OneShift(todo)
  /\ \A k \in Keys : Twice(k)
  /\ \A k \in Keys \ held : Once(k) \/ ReleaseInHand(k)
  /\ MayShift => event.code \in held /\ Once(event.code)

(* The entries of mapStack after a shift, and when one is left.             *)
LEMMA Pushed ==
  ASSUME TypeOK, ActShiftMap
  PROVE  /\ Len(mapStack) \in Nat /\ DOMAIN mapStack = 1..Len(mapStack)
         /\ DOMAIN mapStack' = 1..(Len(mapStack) + 1)
         /\ \A i \in DOMAIN mapStack : mapStack'[i] = mapStack[i]
         /\ mapStack'[Len(mapStack) + 1].code = event.code
         /\ mapStack'[Len(mapStack) + 1].map = curmap
         /\ \A i \in DOMAIN mapStack' : i \in DOMAIN mapStack \/ i = Len(mapStack) + 1
<1> DEFINE e == [map |-> curmap, code |-> event.code]
<1>1. mapStack' = Append(mapStack, e)
  BY DEF ActShiftMap
<1>2. e \in [map : Maps \cup {NULL, Dangling}, code : Keys]
      /\ mapStack \in Seq([map : Maps \cup {NULL, Dangling}, code : Keys])
  BY PerformsType DEF ActShiftMap, TypeOK, MapTypes
<1>3. e.code = event.code /\ e.map = curmap
  OBVIOUS
<1> HIDE DEF e
<1>4. /\ Len(mapStack) \in Nat /\ DOMAIN mapStack = 1..Len(mapStack)
      /\ DOMAIN mapStack' = 1..(Len(mapStack) + 1)
      /\ \A i \in 1..Len(mapStack) : mapStack'[i] = mapStack[i]
      /\ mapStack'[Len(mapStack) + 1] = e
  BY <1>1, <1>2, AppendProperties, Positions
<1>5. QED
  BY <1>3, <1>4

LEMMA Popped ==
  ASSUME TypeOK, NEW i \in DOMAIN mapStack, Unshift(i)
  PROVE  /\ i \in Nat /\ DOMAIN mapStack' = 1..i
         /\ \A j \in 1..(i - 1) : /\ j \in DOMAIN mapStack /\ mapStack'[j] = mapStack[j]
                                  /\ mapStack[j].code # event.code
         /\ Len(mapStack) \in DOMAIN mapStack /\ Len(mapStack) >= i
         /\ mapStack'[i] = mapStack[Len(mapStack)]
<1>1. mapStack \in Seq([map : Maps \cup {NULL, Dangling}, code : Keys])
  BY DEF TypeOK, MapTypes
<1>2. Len(mapStack) \in Nat /\ DOMAIN mapStack = 1..Len(mapStack)
  BY <1>1, Positions
<1>3. /\ mapStack' \in Seq([map : Maps \cup {NULL, Dangling}, code : Keys])
      /\ Len(mapStack') = i
      /\ \A j \in 1..i : mapStack'[j] = IF j < i THEN mapStack[j] ELSE mapStack[Len(mapStack)]
  BY <1>1, PopShiftProperties DEF Unshift
<1>4. DOMAIN mapStack' = 1..i
  BY <1>3, Positions
<1>5. \A j \in 1..(i - 1) : mapStack[j].code # event.code
  BY DEF Unshift, ShiftedBy
<1>6. QED
  BY <1>2, <1>3, <1>4, <1>5

LEMMA StackStep ==
  ASSUME OneShiftPerBind, StackInv, [Next]_vars
  PROVE  StackInv'
<1>1. /\ TypeOK /\ SightInv' /\ TypeOK' /\ keybinds = BaseBinds /\ OneShift(todo)
      /\ \A k \in Keys : Twice(k)
      /\ \A k \in Keys \ held : Once(k) \/ ReleaseInHand(k)
      /\ MayShift => event.code \in held /\ Once(event.code)
  BY SightStep DEF StackInv, SightInv
<1>2. ASSUME NEW k \in Keys, NEW v \in 0..2, ReadKey(k, v)
      PROVE  StackInv'
  <2>1. /\ UNCHANGED <<mapStack, keybinds, todo>>
        /\ held' = Latch(held, k, v)
        /\ event' = [type |-> "key", code |-> k, value |-> v]
        /\ pc = "sleep" /\ pc' = "event"
        /\ v = 1 => k \notin held
        /\ v # 1 => k \in held
    BY <1>2 DEF ReadKey, Deliverable, At, mapVars
  <2>2. \A c \in Keys \ held : Once(c)
    BY <1>1, <2>1 DEF ReleaseInHand
  <2>3. \A c \in Keys \ held' : Once(c)' \/ ReleaseInHand(c)'
    <3>1. ASSUME NEW c \in Keys \ held', c \in held
          PROVE  ReleaseInHand(c)'
      <4>1. v = 0 /\ c = k
        BY <2>1, <3>1 DEF Latch
      <4>2. QED
        BY <2>1, <4>1 DEF ReleaseInHand, IsRelease
    <3>2. ASSUME NEW c \in Keys \ held
          PROVE  Once(c)'
      BY <2>1, <2>2 DEF Once
    <3>3. QED
      BY <3>1, <3>2
  <2>4. MayShift' => event'.code \in held' /\ Once(k)' /\ event'.code = k
    <3>1. ASSUME MayShift'
          PROVE  v = 1
      BY <2>1, <3>1 DEF MayShift
    <3>2. ASSUME v = 1
          PROVE  k \in held' /\ Once(k)'
      BY <2>1, <2>2, <3>2 DEF Latch, Once
    <3>3. QED
      BY <2>1, <3>1, <3>2
  <2>5. \A c \in Keys : Twice(c)'
    BY <1>1, <2>1 DEF Twice
  <2>6. MayShift' => event'.code \in held' /\ Once(event.code)'
    BY <2>1, <2>4 DEF Once
  <2>7. QED
    BY <1>1, <2>1, <2>3, <2>5, <2>6 DEF StackInv
<1>3. ASSUME NEW i \in DOMAIN mapStack, Unshift(i)
      PROVE  StackInv'
  <2>1. /\ UNCHANGED <<keybinds, todo, event, held>> /\ pc' = "rewire" /\ IsRelease
    BY <1>3 DEF Unshift, ShiftedBy, keyVars
  <2>2. /\ i \in Nat /\ DOMAIN mapStack' = 1..i
        /\ \A j \in 1..(i - 1) : /\ j \in DOMAIN mapStack /\ mapStack'[j] = mapStack[j]
                                 /\ mapStack[j].code # event.code
        /\ Len(mapStack) \in DOMAIN mapStack /\ Len(mapStack) >= i
        /\ mapStack'[i] = mapStack[Len(mapStack)]
    BY <1>1, <1>3, Popped
  (* Every entry that is left comes from one of its own.                      *)
  <2> DEFINE from == [j \in 1..i |-> IF j < i THEN j ELSE Len(mapStack)]
  <2>3. \A j \in DOMAIN mapStack' : from[j] \in DOMAIN mapStack /\ mapStack'[j] = mapStack[from[j]]
    BY <2>2
  <2>4. \A j, l \in DOMAIN mapStack' : from[j] = from[l] => j = l
    <3>1. DOMAIN mapStack \subseteq Nat
      <4>1. mapStack \in Seq([map : Maps \cup {NULL, Dangling}, code : Keys])
        BY <1>1 DEF TypeOK, MapTypes
      <4>2. QED
        BY <4>1, Positions
    <3>2. QED
      BY <2>2, <3>1
  <2>5. ASSUME NEW k \in Keys, k = event.code
        PROVE  Once(k)'
    <3>1. ASSUME NEW j \in DOMAIN mapStack', mapStack'[j].code = k
          PROVE  j = i
      BY <2>2, <2>5, <3>1
    <3>2. QED
      BY <3>1 DEF Once
  <2> HIDE DEF from
  <2>6. ASSUME NEW k \in Keys, Once(k)
        PROVE  Once(k)'
    BY <2>3, <2>4, <2>6 DEF Once
  <2>7. ASSUME NEW k \in Keys
        PROVE  Twice(k)'
    <3>1. Twice(k)
      BY <1>1
    <3>2. ASSUME NEW x \in DOMAIN mapStack', NEW y \in DOMAIN mapStack', NEW z \in DOMAIN mapStack',
                 mapStack'[x].code = k, mapStack'[y].code = k, mapStack'[z].code = k
          PROVE  x = y \/ y = z \/ x = z
      <4>1. from[x] = from[y] \/ from[y] = from[z] \/ from[x] = from[z]
        BY <2>3, <3>1, <3>2 DEF Twice
      <4>2. QED
        BY <2>4, <4>1
    <3>3. QED
      BY <3>2 DEF Twice
  <2>8. \A k \in Keys \ held' : Once(k)'
    <3>1. ASSUME NEW k \in Keys \ held
          PROVE  Once(k)'
      <4>1. CASE k = event.code
        BY <2>5, <4>1
      <4>2. CASE k # event.code
        BY <1>1, <2>6, <4>2 DEF ReleaseInHand
      <4>3. QED
        BY <4>1, <4>2
    <3>2. QED
      BY <2>1, <3>1
  <2>9. ~MayShift'
    BY <2>1 DEF MayShift, IsRelease
  <2>10. QED
    BY <1>1, <2>1, <2>7, <2>8, <2>9 DEF StackInv
<1>4. CASE NoUnshift
  <2>1. /\ UNCHANGED <<mapStack, keybinds, todo, event, held>> /\ pc = "event" /\ pc' = "rewire"
        /\ \A i \in DOMAIN mapStack : ~ShiftedBy(i)
    BY <1>4 DEF NoUnshift, At, mapVars, keyVars
  <2>2. \A k \in Keys \ held : Once(k)
    BY <1>1, <2>1 DEF ReleaseInHand, Once, ShiftedBy
  <2>3. MayShift' => MayShift
    BY <2>1 DEF MayShift
  <2>4. QED
    BY <1>1, <2>1, <2>2, <2>3 DEF StackInv, Once, Twice
<1>5. CASE RewireBound
  <2>1. /\ UNCHANGED <<mapStack, keybinds, event, held>> /\ pc = "rewire" /\ pc' = "actions"
        /\ todo' = BaseBinds[curmap][event.code].actions
        /\ curmap \in Maps /\ event.type = "key"
    BY <1>1, <1>5 DEF RewireBound, At, Bound, mapVars, keyVars
  <2>2. OneShift(todo')
    BY <1>1, <2>1, EventKinds DEF OneShiftPerBind, TypeOK, CtlTypes
  <2>3. MayShift' => MayShift
    BY <2>1 DEF MayShift
  <2>4. \A k \in Keys \ held : Once(k)
    BY <1>1, <2>1 DEF ReleaseInHand
  <2>5. QED
    BY <1>1, <2>1, <2>2, <2>3, <2>4 DEF StackInv, Once, Twice
<1>6. CASE ActShiftMap
  <2>1. /\ UNCHANGED <<keybinds, event, held>> /\ pc = "actions" /\ pc' = pc
        /\ todo # <<>> /\ todo' = Tail(todo) /\ Now.type = "shiftmap"
        /\ event.value = 1
    BY <1>6, GoesToNamed DEF ActShiftMap, Performs, At, Pressed, StackInv, SightInv
  <2>2. OneShift(todo') /\ ~Shifts(todo') /\ Shifts(todo)
    BY <1>1, <2>1, TailShift
  <2>3. event.code \in held /\ Once(event.code)
    BY <1>1, <2>1, <2>2 DEF MayShift, TypeOK, CtlTypes
  <2>4. /\ \A i \in DOMAIN mapStack : mapStack'[i] = mapStack[i]
        /\ mapStack'[Len(mapStack) + 1].code = event.code
        /\ \A i \in DOMAIN mapStack' : i \in DOMAIN mapStack \/ i = Len(mapStack) + 1
    BY <1>1, <1>6, Pushed
  <2>5. \A k \in Keys \ held' : Once(k)'
    BY <1>1, <2>1, <2>3, <2>4 DEF Once, ReleaseInHand
  <2>6. ASSUME NEW k \in Keys
        PROVE  Twice(k)'
    <3>1. CASE k = event.code
      BY <2>3, <2>4, <3>1 DEF Once, Twice
    <3>2. CASE k # event.code
      BY <1>1, <2>4, <3>2 DEF Twice
    <3>3. QED
      BY <3>1, <3>2
  <2>7. ~MayShift'
    BY <2>1, <2>2 DEF MayShift
  <2>8. QED
    BY <1>1, <2>1, <2>2, <2>5, <2>6, <2>7 DEF StackInv
<1>7. ASSUME UNCHANGED <<keybinds, mapStack, held, event>>,
             \/ UNCHANGED <<pc, todo>>
             \/ pc = "actions" /\ pc' = pc /\ todo # <<>> /\ todo' = Tail(todo)
             \/ pc # "event" /\ pc' \in {"select", "sleep", "macro", "cleanup"} /\ todo' = todo
      PROVE  StackInv'
  <2>1. OneShift(todo') /\ (MayShift' => MayShift)
    BY <1>1, <1>7, TailShift DEF MayShift
  <2>2. \A k \in Keys : ReleaseInHand(k) => ReleaseInHand(k)'
    BY <1>7 DEF ReleaseInHand, IsRelease
  <2>3. QED
    BY <1>1, <1>7, <2>1, <2>2 DEF StackInv, Once, Twice
<1>8. CASE ActSwitchMap
  BY <1>7, <1>8 DEF ActSwitchMap, Performs, At
<1>9. CASE /\ pc = "sleep" /\ pc' = "event" /\ event'.type # "key"
           /\ UNCHANGED <<mappings, keybinds, curmap, mapStack, held, todo>>
  <2>1. ~MayShift' /\ \A k \in Keys : ~ReleaseInHand(k)
    BY <1>9 DEF MayShift, ReleaseInHand
  <2>2. QED
    BY <1>1, <1>9, <2>1 DEF StackInv, Once, Twice
<1>10. QED
  BY <1>1, <1>2, <1>3, <1>4, <1>5, <1>6, <1>7, <1>8, <1>9, StepShape

LEMMA StackInit == Init => StackInv
BY SightInit DEF Init, StackInv, OneShift, Once, Twice, MayShift, NoEvent

(* A set without two, or without three, different members.                  *)
LEMMA FewMembers ==
  ASSUME NEW S, IsFiniteSet(S)
  PROVE  /\ (\A x, y \in S : x = y) => Cardinality(S) <= 1
         /\ (\A x, y, z \in S : x = y \/ y = z \/ x = z) => Cardinality(S) <= 2
<1>1. CASE S = {}
  BY <1>1, FS_EmptySet
<1>2. ASSUME NEW x \in S
      PROVE  /\ (\A a, b \in S : a = b) => Cardinality(S) <= 1
             /\ (\A a, b, c \in S : a = b \/ b = c \/ a = c) => Cardinality(S) <= 2
  <2>1. Cardinality({x}) = 1 /\ IsFiniteSet({x})
    BY FS_Singleton
  <2>2. CASE S = {x}
    BY <2>1, <2>2
  <2>3. ASSUME NEW y \in S, y # x, \A a, b, c \in S : a = b \/ b = c \/ a = c
        PROVE  Cardinality(S) <= 2
    <3>1. S = {x} \cup {y}
      BY <2>3
    <3>2. Cardinality({x} \cup {y}) = Cardinality({x}) + 1
      BY <2>1, <2>3, FS_AddElement
    <3>3. QED
      BY <2>1, <3>1, <3>2
  <2>4. QED
    BY <2>2, <2>3
<1>3. QED
  BY <1>1, <1>2

(* With binds that shift at most once, mapStack stays as small as the keys  *)
(* that are down allow, though the release of a key leaves the last entry   *)
(* in the place of the one it went back by: nothing piles up in a device    *)
(* that is used for months.                                                 *)
THEOREM StackIsBounded ==
  ASSUME OneShiftPerBind
  PROVE  Spec => []MapStackBounded
<1>1. StackInv => MapStackBounded
  <2>1. SUFFICES ASSUME StackInv, Asleep, NEW k \in Keys
                 PROVE  Cardinality(EntriesOf(k)) <= IF k \in held THEN 2 ELSE 1
    BY DEF MapStackBounded
  <2>2. IsFiniteSet(EntriesOf(k))
    <3>1. mapStack \in Seq([map : Maps \cup {NULL, Dangling}, code : Keys])
      BY <2>1 DEF StackInv, SightInv, TypeOK, MapTypes
    <3>2. Len(mapStack) \in Nat /\ DOMAIN mapStack = 1..Len(mapStack)
      BY <3>1, Positions
    <3>3. IsFiniteSet(1..Len(mapStack))
      BY <3>2, FS_Interval
    <3>4. EntriesOf(k) \subseteq 1..Len(mapStack)
      BY <3>2 DEF EntriesOf
    <3>5. QED
      BY <3>3, <3>4, FS_Subset
  <2>3. CASE k \in held
    <3>1. \A x, y, z \in EntriesOf(k) : x = y \/ y = z \/ x = z
      BY <2>1 DEF StackInv, Twice, EntriesOf
    <3>2. QED
      BY <2>2, <2>3, <3>1, FewMembers
  <2>4. CASE k \notin held
    <3>1. \A x, y \in EntriesOf(k) : x = y
      BY <2>1, <2>4 DEF StackInv, Once, EntriesOf, ReleaseInHand, Asleep
    <3>2. QED
      BY <2>2, <2>4, <3>1, FewMembers
  <2>5. QED
    BY <2>3, <2>4
<1>2. StackInv /\ [Next]_vars => StackInv'
  BY StackStep
<1>3. QED
  BY StackInit, <1>1, <1>2, PTL DEF Spec

(* Only the maps a device may start in shift, and switches lead to those    *)
(* maps: there is no shift within a shift, which would make the map that is *)
(* shifted to one that mapStack goes back to.                               *)
ShiftsDoNotNest ==
  /\ OneShiftPerBind
  /\ \A m \in Maps, k \in Keys : \A i \in DOMAIN BaseBinds[m][k].actions :
       /\ BaseBinds[m][k].actions[i].type = "shiftmap" => m \in StartMaps
       /\ BaseBinds[m][k].actions[i].type = "switchmap" =>
            BaseBinds[m][k].actions[i].map \in StartMaps

(* The key that shifted is down, or its release is about to be noticed.     *)
Shifted ==
  \E i \in DOMAIN mapStack :
    mapStack[i].code \in held \/ ReleaseInHand(mapStack[i].code)

(* A shift leaves a map to start in, to which mapStack leads back.          *)
ShiftInv ==
  /\ SightInv
  /\ keybinds = BaseBinds
  /\ OneShift(todo)
  /\ \A i \in DOMAIN todo : todo[i].type = "switchmap" => todo[i].map \in StartMaps
  /\ pc = "actions" /\ Shifts(todo) => curmap \in StartMaps
  /\ event.type = "key" /\ event.value = 1 /\ pc \in {"event", "rewire", "actions"} =>
       event.code \in held
  /\ \A i \in DOMAIN mapStack : mapStack[i].map \in StartMaps
  /\ curmap \in StartMaps \/ Shifted

LEMMA TailSwitches ==
  ASSUME TypeOK, todo # <<>>,
         \A i \in DOMAIN todo : todo[i].type = "switchmap" => todo[i].map \in StartMaps
  PROVE  /\ \A i \in DOMAIN Tail(todo) :
              Tail(todo)[i].type = "switchmap" => Tail(todo)[i].map \in StartMaps
         /\ Now.type = "switchmap" => Now.map \in StartMaps
BY TodoEntries

LEMMA ShiftStep ==
  ASSUME ShiftsDoNotNest, ShiftInv, [Next]_vars
  PROVE  ShiftInv'
<1>1. /\ TypeOK /\ SightInv' /\ TypeOK' /\ keybinds = BaseBinds /\ OneShift(todo)
      /\ \A i \in DOMAIN todo : todo[i].type = "switchmap" => todo[i].map \in StartMaps
      /\ pc = "actions" /\ Shifts(todo) => curmap \in StartMaps
      /\ event.type = "key" /\ event.value = 1 /\ pc \in {"event", "rewire", "actions"} =>
           event.code \in held
      /\ \A i \in DOMAIN mapStack : mapStack[i].map \in StartMaps
      /\ curmap \in StartMaps \/ Shifted
  BY SightStep DEF ShiftInv, SightInv
<1>2. ASSUME NEW k \in Keys, NEW v \in 0..2, ReadKey(k, v)
      PROVE  ShiftInv'
  <2>1. /\ UNCHANGED <<curmap, mapStack, keybinds, todo>>
        /\ held' = Latch(held, k, v)
        /\ event' = [type |-> "key", code |-> k, value |-> v]
        /\ pc = "sleep" /\ pc' = "event"
    BY <1>2 DEF ReadKey, At, mapVars
  <2>2. \A c \in held : c \in held' \/ ReleaseInHand(c)'
    BY <2>1 DEF Latch, ReleaseInHand, IsRelease
  <2>3. ~\E c : ReleaseInHand(c)
    BY <2>1 DEF ReleaseInHand
  <2>4. Shifted => Shifted'
    BY <2>1, <2>2, <2>3 DEF Shifted
  <2>5. v = 1 => k \in held'
    BY <2>1 DEF Latch
  <2>6. QED
    BY <1>1, <2>1, <2>4, <2>5 DEF ShiftInv
<1>3. ASSUME NEW i \in DOMAIN mapStack, Unshift(i)
      PROVE  ShiftInv'
  <2>1. /\ UNCHANGED <<keybinds, todo, event, held>> /\ pc' = "rewire" /\ IsRelease
        /\ curmap' = mapStack[i].map
    BY <1>3 DEF Unshift, ShiftedBy, keyVars
  <2>2. /\ i \in Nat /\ DOMAIN mapStack' = 1..i
        /\ \A j \in 1..(i - 1) : j \in DOMAIN mapStack /\ mapStack'[j] = mapStack[j]
        /\ Len(mapStack) \in DOMAIN mapStack
        /\ mapStack'[i] = mapStack[Len(mapStack)]
    BY <1>1, <1>3, Popped
  <2>3. \A j \in DOMAIN mapStack' : \E l \in DOMAIN mapStack : mapStack'[j] = mapStack[l]
    BY <2>2
  <2>4. \A j \in DOMAIN mapStack' : mapStack'[j].map \in StartMaps
    BY <1>1, <2>3
  <2>5. QED
    BY <1>1, <2>1, <2>4 DEF ShiftInv, IsRelease
<1>4. CASE NoUnshift
  <2>1. /\ UNCHANGED <<curmap, mapStack, keybinds, todo, event, held>>
        /\ pc = "event" /\ pc' = "rewire"
        /\ \A i \in DOMAIN mapStack : ~ShiftedBy(i)
    BY <1>4 DEF NoUnshift, At, mapVars, keyVars
  <2>2. Shifted => Shifted'
    BY <2>1 DEF Shifted, ReleaseInHand, ShiftedBy
  <2>3. QED
    BY <1>1, <2>1, <2>2 DEF ShiftInv
<1>5. CASE RewireBound
  <2>1. /\ UNCHANGED <<curmap, mapStack, keybinds, event, held>> /\ pc = "rewire" /\ pc' = "actions"
        /\ todo' = BaseBinds[curmap][event.code].actions
        /\ curmap \in Maps /\ event.type = "key"
    BY <1>1, <1>5 DEF RewireBound, At, Bound, mapVars, keyVars
  <2>2. event.code \in Keys
    BY <1>1, <2>1, EventKinds DEF TypeOK, CtlTypes
  <2>3. /\ OneShift(todo')
        /\ \A i \in DOMAIN todo' : todo'[i].type = "switchmap" => todo'[i].map \in StartMaps
        /\ Shifts(todo') => curmap \in StartMaps
    BY <2>1, <2>2 DEF ShiftsDoNotNest, OneShiftPerBind, Shifts
  <2>4. Shifted => Shifted'
    BY <2>1 DEF Shifted, ReleaseInHand
  <2>5. QED
    BY <1>1, <2>1, <2>3, <2>4 DEF ShiftInv
<1>6. CASE ActShiftMap
  <2>1. /\ UNCHANGED <<keybinds, event, held>> /\ pc = "actions" /\ pc' = pc
        /\ todo # <<>> /\ todo' = Tail(todo) /\ Now.type = "shiftmap"
        /\ event.value = 1
    BY <1>6, GoesToNamed DEF ActShiftMap, Performs, At, Pressed, ShiftInv, SightInv
  <2>2. OneShift(todo') /\ ~Shifts(todo') /\ Shifts(todo)
    BY <1>1, <2>1, TailShift
  <2>3. event.code \in held
    BY <1>1, <2>1 DEF TypeOK, CtlTypes
  <2>4. /\ \A i \in DOMAIN mapStack : mapStack'[i] = mapStack[i]
        /\ mapStack'[Len(mapStack) + 1].code = event.code
        /\ mapStack'[Len(mapStack) + 1].map = curmap
        /\ \A i \in DOMAIN mapStack' : i \in DOMAIN mapStack \/ i = Len(mapStack) + 1
        /\ Len(mapStack) + 1 \in DOMAIN mapStack'
    BY <1>1, <1>6, Pushed
  <2>5. Shifted'
    BY <2>1, <2>3, <2>4 DEF Shifted
  <2>6. \A i \in DOMAIN mapStack' : mapStack'[i].map \in StartMaps
    BY <1>1, <2>1, <2>2, <2>4
  <2>7. \A i \in DOMAIN todo' : todo'[i].type = "switchmap" => todo'[i].map \in StartMaps
    BY <1>1, <2>1, TailSwitches
  <2>8. QED
    BY <1>1, <2>1, <2>2, <2>3, <2>5, <2>6, <2>7 DEF ShiftInv
<1>7. CASE ActSwitchMap
  <2>1. /\ UNCHANGED <<keybinds, event, held, mapStack>> /\ pc = "actions" /\ pc' = pc
        /\ todo # <<>> /\ todo' = Tail(todo) /\ Now.type = "switchmap" /\ curmap' = Now.map
    BY <1>7, GoesToNamed DEF ActSwitchMap, Performs, At, ShiftInv, SightInv
  <2>2. /\ curmap' \in StartMaps
        /\ \A i \in DOMAIN todo' : todo'[i].type = "switchmap" => todo'[i].map \in StartMaps
    BY <1>1, <2>1, TailSwitches
  <2>3. OneShift(todo')
    BY <1>1, <2>1, TailShift
  <2>4. QED
    BY <1>1, <2>1, <2>2, <2>3 DEF ShiftInv
<1>8. ASSUME UNCHANGED <<keybinds, curmap, mapStack, held, event>>,
             \/ UNCHANGED <<pc, todo>>
             \/ pc = "actions" /\ pc' = pc /\ todo # <<>> /\ todo' = Tail(todo)
             \/ pc # "event" /\ pc' \in {"select", "sleep", "macro", "cleanup"} /\ todo' = todo
      PROVE  ShiftInv'
  <2>1. /\ OneShift(todo')
        /\ pc' = "actions" /\ Shifts(todo') => Shifts(todo)
        /\ pc' = "actions" => pc = "actions"
    BY <1>1, <1>8, TailShift
  <2>2. \A i \in DOMAIN todo' : todo'[i].type = "switchmap" => todo'[i].map \in StartMaps
    BY <1>1, <1>8, TailSwitches
  <2>3. \A k : ReleaseInHand(k) => ReleaseInHand(k)'
    BY <1>8 DEF ReleaseInHand, IsRelease
  <2>4. Shifted => Shifted'
    BY <1>8, <2>3 DEF Shifted
  <2>5. pc' \in {"event", "rewire", "actions"} => pc \in {"event", "rewire", "actions"}
    BY <1>8
  <2>6. QED
    BY <1>1, <1>8, <2>1, <2>2, <2>4, <2>5 DEF ShiftInv
<1>9. CASE /\ pc = "sleep" /\ pc' = "event" /\ event'.type # "key"
           /\ UNCHANGED <<mappings, keybinds, curmap, mapStack, held, todo>>
  <2>1. Shifted => Shifted'
    BY <1>9 DEF Shifted, ReleaseInHand
  <2>2. QED
    BY <1>1, <1>9, <2>1 DEF ShiftInv
<1>10. QED
  BY <1>1, <1>2, <1>3, <1>4, <1>5, <1>6, <1>7, <1>8, <1>9, StepShape

(* As long as shifts do not nest, every release of keys ends where it       *)
(* should: with all keys up and their events worked on the device is in a   *)
(* map it may start in, however shifts by several keys, repeats and         *)
(* switches of map overlapped.                                              *)
THEOREM ShiftsEnd ==
  ASSUME ShiftsDoNotNest
  PROVE  Spec => []ReleasedKeysUnshift
<1>1. ShiftInv => ReleasedKeysUnshift
  BY DEF ShiftInv, Shifted, ReleaseInHand, ReleasedKeysUnshift, Asleep
<1>2. Init => ShiftInv
  BY SightInit DEF Init, ShiftInv, OneShift, NoEvent
<1>3. ShiftInv /\ [Next]_vars => ShiftInv'
  BY ShiftStep
<1>4. QED
  BY <1>1, <1>2, <1>3, PTL DEF Spec
-----------------------------------------------------------------------------
(* Turbos and repeated motions run for keys that are down.                  *)

(* Every timer, known by its label, has an action of its own that started   *)
(* it: a slot is a key, the position of the action in its bind, and the     *)
(* label of the timer it starts.                                            *)
HasSlots(labels, slots) ==
  \E f \in [DOMAIN labels -> slots] :
    /\ \A i, j \in DOMAIN labels : f[i] = f[j] => i = j
    /\ \A i \in DOMAIN labels : f[i][3] = labels[i]

LEMMA SlotsGrow ==
  ASSUME NEW n \in Nat, NEW labels, NEW longer, NEW slots, NEW s, s \notin slots,
         DOMAIN labels = 1..n, DOMAIN longer = 1..(n + 1),
         \A i \in 1..n : longer[i] = labels[i],
         longer[n + 1] = s[3],
         HasSlots(labels, slots)
  PROVE  HasSlots(longer, slots \cup {s})
<1>1. PICK f \in [1..n -> slots] :
        /\ \A i, j \in 1..n : f[i] = f[j] => i = j
        /\ \A i \in 1..n : f[i][3] = labels[i]
  BY DEF HasSlots
<1> DEFINE g == [i \in 1..(n + 1) |-> IF i = n + 1 THEN s ELSE f[i]]
<1>2. \A i \in 1..(n + 1) : i \in 1..n \/ i = n + 1
  OBVIOUS
<1>3. g \in [1..(n + 1) -> slots \cup {s}]
  BY <1>1, <1>2
<1>4. \A i, j \in 1..(n + 1) : g[i] = g[j] => i = j
  BY <1>1, <1>2
<1>5. \A i \in 1..(n + 1) : g[i][3] = longer[i]
  BY <1>1, <1>2
<1> HIDE DEF g
<1>6. QED
  BY <1>3, <1>4, <1>5 DEF HasSlots

(* A timer stops that need not be the one the slot started, but has its     *)
(* label.                                                                   *)
LEMMA SlotsShrink ==
  ASSUME NEW n \in Nat, NEW i \in 1..n, NEW labels, NEW shorter, NEW slots, NEW s,
         DOMAIN labels = 1..n, DOMAIN shorter = 1..(n - 1),
         \A j \in 1..(n - 1) : shorter[j] = labels[IF j < i THEN j ELSE j + 1],
         labels[i] = s[3],
         HasSlots(labels, slots)
  PROVE  HasSlots(shorter, slots \ {s})
<1>1. PICK f \in [1..n -> slots] :
        /\ \A j, k \in 1..n : f[j] = f[k] => j = k
        /\ \A j \in 1..n : f[j][3] = labels[j]
  BY DEF HasSlots
(* The owner of s takes the slot of the timer that stops.                   *)
<1> DEFINE up == [j \in 1..(n - 1) |-> IF j < i THEN j ELSE j + 1]
           g == [j \in 1..(n - 1) |-> IF f[up[j]] = s THEN f[i] ELSE f[up[j]]]
<1>2. \A j \in 1..(n - 1) : up[j] \in 1..n /\ up[j] # i /\ shorter[j] = labels[up[j]]
  OBVIOUS
<1>3. \A j, k \in 1..(n - 1) : up[j] = up[k] => j = k
  OBVIOUS
<1> HIDE DEF up
<1>4. ASSUME NEW j \in 1..(n - 1)
      PROVE  g[j] \in slots \ {s} /\ g[j][3] = shorter[j]
  <2>1. CASE f[up[j]] = s
    <3>1. g[j] = f[i] /\ f[i] \in slots /\ f[i][3] = labels[i]
      BY <1>1, <2>1
    <3>2. f[i] # s
      BY <1>1, <1>2, <2>1
    <3>3. shorter[j] = s[3]
      BY <1>1, <1>2, <2>1
    <3>4. QED
      BY <3>1, <3>2, <3>3
  <2>2. CASE f[up[j]] # s
    BY <1>1, <1>2, <2>2
  <2>3. QED
    BY <2>1, <2>2
<1>5. \A j, k \in 1..(n - 1) : g[j] = g[k] => j = k
  BY <1>1, <1>2, <1>3
<1>6. g \in [1..(n - 1) -> slots \ {s}]
  BY <1>4
<1> HIDE DEF g
<1>7. QED
  BY <1>4, <1>5, <1>6 DEF HasSlots

LEMMA SlotUnused ==
  ASSUME NEW labels, NEW slots, NEW s, \A i \in DOMAIN labels : labels[i] # s[3],
         HasSlots(labels, slots)
  PROVE  HasSlots(labels, slots \ {s})
<1>1. PICK f \in [DOMAIN labels -> slots] :
        /\ \A j, k \in DOMAIN labels : f[j] = f[k] => j = k
        /\ \A j \in DOMAIN labels : f[j][3] = labels[j]
  BY DEF HasSlots
<1>2. f \in [DOMAIN labels -> slots \ {s}]
  BY <1>1
<1>3. QED
  BY <1>1, <1>2 DEF HasSlots

(* What key k does in the current map.                                      *)
ActsOf(k) ==
  IF curmap \in Maps /\ keybinds[curmap][k].doModify THEN keybinds[curmap][k].actions ELSE <<>>

InHand(k, value) ==
  /\ event.type = "key" /\ event.code = k /\ event.value = value
  /\ pc \in {"event", "rewire", "actions"}

(* The actions of the bind in hand that have been performed.                *)
Done == IF pc = "actions" THEN Len(ActsOf(event.code)) - Len(todo) ELSE 0

(* The j-th action of key k has been performed for its press, and not yet   *)
(* for its release.                                                         *)
Counts(k, j) ==
  IF InHand(k, 1) THEN j <= Done
  ELSE IF InHand(k, 0) THEN j > Done
  ELSE k \in held

TurboSlots ==
  {s \in Keys \X Nat \X Keys :
     /\ s[2] \in DOMAIN ActsOf(s[1])
     /\ ActsOf(s[1])[s[2]].type = "turbo"
     /\ ActsOf(s[1])[s[2]].code = s[3]
     /\ Counts(s[1], s[2])}

RelSlots ==
  {s \in Keys \X Nat \X (Rels \X Int) :
     /\ s[2] \in DOMAIN ActsOf(s[1])
     /\ ActsOf(s[1])[s[2]].type = "relconst"
     /\ <<ActsOf(s[1])[s[2]].code, ActsOf(s[1])[s[2]].value>> = s[3]
     /\ Counts(s[1], s[2])}

TurboLabels == [i \in DOMAIN runTurbo |-> runTurbo[i].code]

RelLabels == [i \in DOMAIN runRelConst |-> <<runRelConst[i].code, runRelConst[i].value>>]

Timed(m) ==
  /\ m \in Maps
  /\ \E k \in Keys : \E i \in DOMAIN BaseBinds[m][k].actions :
       BaseBinds[m][k].actions[i].type \in {"turbo", "relconst"}

(* A map whose binds start timers is not left, nor entered while keys are   *)
(* down: it is one that the device starts in.  A release is looked up in    *)
(* the current map, so that elsewhere it stops nothing.                     *)
TimedMapsStay ==
  \A m \in Maps, k \in Keys : \A i \in DOMAIN BaseBinds[m][k].actions :
    BaseBinds[m][k].actions[i].type \in {"switchmap", "shiftmap"} =>
      ~Timed(m) /\ ~Timed(BaseBinds[m][k].actions[i].map)

(* What is left to do is the rest of the bind of the event's key.           *)
TodoIsRest ==
  /\ Len(todo) <= Len(ActsOf(event.code))
  /\ \A i \in DOMAIN todo : /\ Done + i \in DOMAIN ActsOf(event.code)
                            /\ todo[i] = ActsOf(event.code)[Done + i]

TodoIsUntimed ==
  /\ ~Timed(curmap)
  /\ \A i \in DOMAIN todo :
       /\ todo[i].type \notin {"turbo", "relconst"}
       /\ todo[i].type \in {"switchmap", "shiftmap"} => ~Timed(todo[i].map)

HoldInv ==
  /\ SightInv
  /\ keybinds = BaseBinds
  /\ \A i \in DOMAIN mapStack : ~Timed(mapStack[i].map)
  /\ Timed(curmap) => mapStack = <<>>
  /\ pc = "actions" => IF Timed(curmap) THEN TodoIsRest ELSE TodoIsUntimed
  /\ \A k : InHand(k, 1) => k \in held
  /\ \A k : InHand(k, 0) => k \notin held
  /\ HasSlots(TurboLabels, TurboSlots)
  /\ HasSlots(RelLabels, RelSlots)

LEMMA ActsOfType ==
  ASSUME TypeOK, NEW k \in Keys
  PROVE  ActsOf(k) \in Seq(BindAction)
<1>1. <<>> \in Seq(BindAction)
  OBVIOUS
<1>2. curmap \in Maps => keybinds[curmap][k] \in Bind
  BY DEF TypeOK, MapTypes
<1>3. QED
  BY <1>1, <1>2 DEF ActsOf, Bind

LEMMA SameSlots ==
  ASSUME \A k \in Keys : ActsOf(k)' = ActsOf(k),
         \A k \in Keys : \A j \in DOMAIN ActsOf(k) : Counts(k, j)' <=> Counts(k, j)
  PROVE  TurboSlots' = TurboSlots /\ RelSlots' = RelSlots
BY DEF TurboSlots, RelSlots

LEMMA NoSlots ==
  ASSUME TypeOK, keybinds = BaseBinds, ~Timed(curmap)
  PROVE  TurboSlots = {} /\ RelSlots = {}
<1>1. ASSUME NEW k \in Keys, NEW j \in DOMAIN ActsOf(k)
      PROVE  ActsOf(k)[j].type \notin {"turbo", "relconst"}
  <2>1. curmap \in Maps /\ ActsOf(k) = BaseBinds[curmap][k].actions
    BY <1>1 DEF ActsOf
  <2>2. QED
    BY <1>1, <2>1 DEF Timed
<1>2. QED
  BY <1>1 DEF TurboSlots, RelSlots

LEMMA NoSlotsNext ==
  ASSUME TypeOK', keybinds' = BaseBinds, ~Timed(curmap')
  PROVE  TurboSlots' = {} /\ RelSlots' = {}
<1>1. ASSUME NEW k \in Keys, NEW j \in DOMAIN (ActsOf(k)')
      PROVE  ActsOf(k)'[j].type \notin {"turbo", "relconst"}
  <2>1. curmap' \in Maps /\ ActsOf(k)' = BaseBinds[curmap'][k].actions
    BY <1>1 DEF ActsOf
  <2>2. QED
    BY <1>1, <2>1 DEF Timed
<1>2. QED
  BY <1>1 DEF TurboSlots, RelSlots

LEMMA UntimedHolds ==
  ASSUME HoldInv, TypeOK', keybinds' = keybinds, ~Timed(curmap), ~Timed(curmap'),
         TurboLabels' = TurboLabels, RelLabels' = RelLabels
  PROVE  HasSlots(TurboLabels, TurboSlots)' /\ HasSlots(RelLabels, RelSlots)'
<1>1. TurboSlots = {} /\ RelSlots = {}
  BY NoSlots DEF HoldInv, SightInv
<1>2. TurboSlots' = {} /\ RelSlots' = {}
  BY NoSlotsNext DEF HoldInv
<1>3. QED
  BY <1>1, <1>2 DEF HoldInv

LEMMA SameHolds ==
  ASSUME HoldInv, TurboLabels' = TurboLabels, RelLabels' = RelLabels,
         \A k \in Keys : ActsOf(k)' = ActsOf(k),
         \A k \in Keys : \A j \in DOMAIN ActsOf(k) : Counts(k, j)' <=> Counts(k, j)
  PROVE  HasSlots(TurboLabels, TurboSlots)' /\ HasSlots(RelLabels, RelSlots)'
BY SameSlots DEF HoldInv

(* Only the actions of binds start and stop timers.                         *)
LEMMA TimerLabels ==
  ASSUME TypeOK, [Next]_vars
  PROVE  /\ TurboLabels' = TurboLabels \/ ActTurboPress \/ ActTurboRelease
         /\ RelLabels' = RelLabels \/ ActRelConstPress \/ ActRelConstRelease
<1>1. /\ \A i \in DOMAIN runTurbo : runTurbo[i] \in Turbo
      /\ \A i \in DOMAIN runRelConst : runRelConst[i] \in RelConst
  BY Positions DEF TypeOK, TimerTypes
<1>2. UNCHANGED runTurbo => TurboLabels' = TurboLabels
  BY DEF TurboLabels
<1>3. UNCHANGED runRelConst => RelLabels' = RelLabels
  BY DEF RelLabels
<1>4. CASE Tick
  <2>1. /\ DOMAIN runTurbo' = DOMAIN runTurbo
        /\ \A i \in DOMAIN runTurbo : runTurbo'[i].code = runTurbo[i].code
    BY <1>1, <1>4 DEF Tick, Age, Turbo
  <2>2. /\ DOMAIN runRelConst' = DOMAIN runRelConst
        /\ \A i \in DOMAIN runRelConst : /\ runRelConst'[i].code = runRelConst[i].code
                                         /\ runRelConst'[i].value = runRelConst[i].value
    BY <1>1, <1>4 DEF Tick, Age, RelConst
  <2>3. QED
    BY <2>1, <2>2 DEF TurboLabels, RelLabels
<1>5. ASSUME NEW i \in DOMAIN runTurbo, FireTurbo(i)
      PROVE  TurboLabels' = TurboLabels /\ RelLabels' = RelLabels
  <2>1. runTurbo' = [runTurbo EXCEPT ![i] = Toggled(runTurbo[i])] /\ UNCHANGED runRelConst
    BY <1>5 DEF FireTurbo
  <2>2. /\ DOMAIN runTurbo' = DOMAIN runTurbo
        /\ \A j \in DOMAIN runTurbo : runTurbo'[j].code = runTurbo[j].code
    BY <2>1 DEF Toggled
  <2>3. QED
    BY <1>3, <2>1, <2>2 DEF TurboLabels
<1>6. ASSUME NEW i \in DOMAIN runRelConst, FireRelConst(i)
      PROVE  TurboLabels' = TurboLabels /\ RelLabels' = RelLabels
  <2>1. UNCHANGED runTurbo /\ runRelConst' = [runRelConst EXCEPT ![i].next = @ + runRelConst[i].delay]
    BY <1>6 DEF FireRelConst
  <2>2. /\ DOMAIN runRelConst' = DOMAIN runRelConst
        /\ \A j \in DOMAIN runRelConst : /\ runRelConst'[j].code = runRelConst[j].code
                                         /\ runRelConst'[j].value = runRelConst[j].value
    BY <1>1, <2>1 DEF RelConst
  <2>3. QED
    BY <1>2, <2>1, <2>2 DEF RelLabels
<1>7. CASE Timers
  <2>1. ASSUME NEW i \in DOMAIN runMacro, FireMacro(i) \/ PlayStep(i) \/ PlayWild(i)
        PROVE  UNCHANGED <<runTurbo, runRelConst>>
    BY <2>1 DEF FireMacro, PlayStep, PlayWild, timerVars
  <2>2. Cleanup => UNCHANGED <<runTurbo, runRelConst>>
    BY DEF Cleanup
  <2>3. QED
    BY <1>2, <1>3, <1>5, <1>6, <1>7, <2>1, <2>2 DEF Timers
<1>8. CASE Select \/ Input \/ Client \/ Rewire \/ UNCHANGED vars
  <2>1. UNCHANGED <<runTurbo, runRelConst>>
    BY <1>8, ClientKeepsAll DEF Select, Input, ReadKey, ReadRel, ReadOther, Rewire, Unshift,
       NoUnshift, TestMap, TestBind, Sees, RewireUnmapped, RewirePlain, RewireBound, RewireRel,
       RewireOther, RewireWild, Rewired, vars, timerVars
  <2>2. QED
    BY <1>2, <1>3, <2>1
<1>9. CASE Act
  BY <1>2, <1>3, <1>9 DEF Act, LookUpMap, Sees, ActKey, ActTurboPress, ActTurboRelease, ActRel, ActRelConstPress,
     ActRelConstRelease, ActSwitchMap, ActShiftMap, ActMacro, ActNothing, FinishEvent, Rewired,
     timerVars
<1>10. QED
  BY <1>4, <1>7, <1>8, <1>9 DEF Next, Thread

(* One action of the bind in hand is performed.                             *)
LEMMA ActCounts ==
  ASSUME TypeOK, TypeOK', TodoIsRest, UNCHANGED <<keybinds, curmap, held, event>>,
         pc = "actions", pc' = pc, todo # <<>>, todo' = Tail(todo)
  PROVE  \E c \in Keys, d \in Nat :
           /\ c = event.code /\ d + 1 \in DOMAIN ActsOf(c) /\ Now = ActsOf(c)[d + 1]
           /\ \A k \in Keys : ActsOf(k)' = ActsOf(k)
           /\ \A k \in Keys : \A j \in DOMAIN ActsOf(k) :
                k # c \/ j # d + 1 => (Counts(k, j)' <=> Counts(k, j))
           /\ event.value = 1 => ~Counts(c, d + 1) /\ Counts(c, d + 1)'
           /\ event.value = 0 => Counts(c, d + 1) /\ ~Counts(c, d + 1)'
           /\ event.value = 2 => (Counts(c, d + 1)' <=> Counts(c, d + 1))
           /\ TodoIsRest'
<1>1. PICK c \in Keys : c = event.code /\ event.type = "key"
  BY EventKinds DEF TypeOK, CtlTypes
<1>2. ActsOf(c) \in Seq(BindAction) /\ todo \in Seq(BindAction)
  BY <1>1, ActsOfType DEF TypeOK, CtlTypes
<1>3. PICK L \in Nat : L = Len(ActsOf(c)) /\ DOMAIN ActsOf(c) = 1..L
  BY <1>2, Positions
<1>4. PICK t \in Nat \ {0} : t = Len(todo) /\ DOMAIN todo = 1..t
  BY <1>2, EmptySeq, LenProperties
<1>5. /\ Len(todo') = t - 1 /\ DOMAIN todo' = 1..(t - 1)
      /\ \A i \in 1..(t - 1) : todo'[i] = todo[i + 1]
      /\ Now = todo[1]
  <2>1. Tail(todo) \in Seq(BindAction) /\ Len(Tail(todo)) = t - 1 /\ Now = todo[1]
    BY <1>2, <1>4, HeadTailProperties DEF Now
  <2>2. DOMAIN Tail(todo) = 1..(t - 1)
    BY <2>1, Positions
  <2>3. \A i \in 1..(t - 1) : Tail(todo)[i] = todo[i + 1]
    BY <1>2, <1>4, HeadTailProperties
  <2>4. QED
    BY <2>1, <2>2, <2>3
<1>6. \A k : ActsOf(k)' = ActsOf(k)
  BY DEF ActsOf
<1>7. t <= L
  BY <1>1, <1>3, <1>4 DEF TodoIsRest
<1>8. PICK d \in Nat : d = L - t
  BY <1>3, <1>4, <1>7
<1>9. Done = d /\ Done' = d + 1
  <2>1. Done = d
    BY <1>1, <1>3, <1>4, <1>8 DEF Done
  <2>2. Done' = L - (t - 1)
    BY <1>1, <1>3, <1>5, <1>6 DEF Done
  <2>3. QED
    BY <1>3, <1>4, <1>8, <2>1, <2>2
<1>10. \A i \in 1..t : d + i \in 1..L /\ todo[i] = ActsOf(c)[d + i]
  BY <1>1, <1>3, <1>4, <1>9 DEF TodoIsRest
<1>11. d + 1 \in DOMAIN ActsOf(c) /\ Now = ActsOf(c)[d + 1]
  BY <1>3, <1>4, <1>5, <1>10
<1>12. TodoIsRest'
  <2>1. t - 1 <= L
    BY <1>3, <1>4, <1>7
  <2>2. ASSUME NEW i \in 1..(t - 1)
        PROVE  (d + 1) + i \in 1..L /\ todo'[i] = ActsOf(c)[(d + 1) + i]
    <3>1. i + 1 \in 1..t /\ d + (i + 1) = (d + 1) + i
      BY <1>4, <1>8
    <3>2. QED
      BY <1>5, <1>10, <3>1
  <2>3. QED
    BY <1>1, <1>3, <1>5, <1>6, <1>9, <2>1, <2>2 DEF TodoIsRest
<1>13. /\ \A k : InHand(k, 1) <=> k = c /\ event.value = 1
       /\ \A k : InHand(k, 0) <=> k = c /\ event.value = 0
       /\ \A k : InHand(k, 1)' <=> k = c /\ event.value = 1
       /\ \A k : InHand(k, 0)' <=> k = c /\ event.value = 0
  BY <1>1 DEF InHand
<1>14. ASSUME NEW k \in Keys, NEW j \in Nat
       PROVE  /\ Counts(k, j) <=> IF k = c /\ event.value = 1 THEN j <= d
                                  ELSE IF k = c /\ event.value = 0 THEN j > d
                                  ELSE k \in held
              /\ Counts(k, j)' <=> IF k = c /\ event.value = 1 THEN j <= d + 1
                                   ELSE IF k = c /\ event.value = 0 THEN j > d + 1
                                   ELSE k \in held
  BY <1>9, <1>13 DEF Counts
<1>15. \A k \in Keys : DOMAIN ActsOf(k) \subseteq Nat
  BY ActsOfType, Positions
<1>16. \A k \in Keys : \A j \in DOMAIN ActsOf(k) :
         k # c \/ j # d + 1 => (Counts(k, j)' <=> Counts(k, j))
  <2>1. SUFFICES ASSUME NEW k \in Keys, NEW j \in Nat, k # c \/ j # d + 1
                 PROVE  Counts(k, j)' <=> Counts(k, j)
    BY <1>15
  <2>2. QED
    BY <1>14, <2>1
<1>17. /\ event.value = 1 => ~Counts(c, d + 1) /\ Counts(c, d + 1)'
       /\ event.value = 0 => Counts(c, d + 1) /\ ~Counts(c, d + 1)'
       /\ event.value = 2 => (Counts(c, d + 1)' <=> Counts(c, d + 1))
  BY <1>14
<1>18. QED
  BY <1>1, <1>6, <1>11, <1>12, <1>16, <1>17

(* What the slots become when the action at d + 1 of key c is performed.    *)
LEMMA ActTurboSlots ==
  ASSUME TypeOK, NEW c \in Keys, NEW d \in Nat, NEW act \in BindAction,
         d + 1 \in DOMAIN ActsOf(c), act = ActsOf(c)[d + 1],
         \A k \in Keys : ActsOf(k)' = ActsOf(k),
         \A k \in Keys : \A j \in DOMAIN ActsOf(k) :
           k # c \/ j # d + 1 => (Counts(k, j)' <=> Counts(k, j))
  PROVE  /\ act.type # "turbo" \/ (Counts(c, d + 1)' <=> Counts(c, d + 1)) => TurboSlots' = TurboSlots
         /\ act.type = "turbo" => LET s == <<c, d + 1, act.code>>
              IN  /\ ~Counts(c, d + 1) /\ Counts(c, d + 1)' =>
                       s \notin TurboSlots /\ TurboSlots' = TurboSlots \cup {s}
                  /\ Counts(c, d + 1) /\ ~Counts(c, d + 1)' => TurboSlots' = TurboSlots \ {s}
<1>1. ASSUME act.type # "turbo" \/ (Counts(c, d + 1)' <=> Counts(c, d + 1))
      PROVE  TurboSlots' = TurboSlots
  BY <1>1 DEF TurboSlots
<1>2. ASSUME act.type = "turbo"
      PROVE  LET s == <<c, d + 1, act.code>>
             IN  /\ ~Counts(c, d + 1) /\ Counts(c, d + 1)' =>
                      s \notin TurboSlots /\ TurboSlots' = TurboSlots \cup {s}
                 /\ Counts(c, d + 1) /\ ~Counts(c, d + 1)' => TurboSlots' = TurboSlots \ {s}
  <2> DEFINE s == <<c, d + 1, act.code>>
  <2>1. act.code \in Keys
    BY <1>2, ActionKinds DEF TurboAction
  <2>2. s \in Keys \X Nat \X Keys /\ s[1] = c /\ s[2] = d + 1 /\ s[3] = act.code
    BY <2>1
  <2>3. \A x \in Keys \X Nat \X Keys : x = s <=> x[1] = c /\ x[2] = d + 1 /\ x[3] = act.code
    BY <2>1
  <2> HIDE DEF s
  <2>4. ASSUME ~Counts(c, d + 1), Counts(c, d + 1)'
        PROVE  s \notin TurboSlots /\ TurboSlots' = TurboSlots \cup {s}
    BY <1>2, <2>2, <2>3, <2>4 DEF TurboSlots
  <2>5. ASSUME Counts(c, d + 1), ~Counts(c, d + 1)'
        PROVE  TurboSlots' = TurboSlots \ {s}
    BY <1>2, <2>2, <2>3, <2>5 DEF TurboSlots
  <2>6. QED
    BY <2>4, <2>5 DEF s
<1>3. QED
  BY <1>1, <1>2

LEMMA ActRelSlots ==
  ASSUME TypeOK, NEW c \in Keys, NEW d \in Nat, NEW act \in BindAction,
         d + 1 \in DOMAIN ActsOf(c), act = ActsOf(c)[d + 1],
         \A k \in Keys : ActsOf(k)' = ActsOf(k),
         \A k \in Keys : \A j \in DOMAIN ActsOf(k) :
           k # c \/ j # d + 1 => (Counts(k, j)' <=> Counts(k, j))
  PROVE  /\ act.type # "relconst" \/ (Counts(c, d + 1)' <=> Counts(c, d + 1)) => RelSlots' = RelSlots
         /\ act.type = "relconst" => LET s == <<c, d + 1, <<act.code, act.value>>>>
              IN  /\ ~Counts(c, d + 1) /\ Counts(c, d + 1)' =>
                       s \notin RelSlots /\ RelSlots' = RelSlots \cup {s}
                  /\ Counts(c, d + 1) /\ ~Counts(c, d + 1)' => RelSlots' = RelSlots \ {s}
<1>1. ASSUME act.type # "relconst" \/ (Counts(c, d + 1)' <=> Counts(c, d + 1))
      PROVE  RelSlots' = RelSlots
  BY <1>1 DEF RelSlots
<1>2. ASSUME act.type = "relconst"
      PROVE  LET s == <<c, d + 1, <<act.code, act.value>>>>
             IN  /\ ~Counts(c, d + 1) /\ Counts(c, d + 1)' =>
                      s \notin RelSlots /\ RelSlots' = RelSlots \cup {s}
                 /\ Counts(c, d + 1) /\ ~Counts(c, d + 1)' => RelSlots' = RelSlots \ {s}
  <2> DEFINE l == <<act.code, act.value>>
             s == <<c, d + 1, l>>
  <2>1. l \in Rels \X Int
    BY <1>2, ActionKinds DEF RelConstAction
  <2>2. l = <<ActsOf(c)[d + 1].code, ActsOf(c)[d + 1].value>>
    OBVIOUS
  <2> HIDE DEF l
  <2>3. s \in Keys \X Nat \X (Rels \X Int) /\ s[1] = c /\ s[2] = d + 1 /\ s[3] = l
    BY <2>1
  <2>4. \A x \in Keys \X Nat \X (Rels \X Int) : x = s <=> x[1] = c /\ x[2] = d + 1 /\ x[3] = l
    BY <2>1
  <2> HIDE DEF s
  <2>5. ASSUME ~Counts(c, d + 1), Counts(c, d + 1)'
        PROVE  s \notin RelSlots /\ RelSlots' = RelSlots \cup {s}
    BY <1>2, <2>2, <2>3, <2>4, <2>5 DEF RelSlots
  <2>6. ASSUME Counts(c, d + 1), ~Counts(c, d + 1)'
        PROVE  RelSlots' = RelSlots \ {s}
    BY <1>2, <2>2, <2>3, <2>4, <2>6 DEF RelSlots
  <2>7. QED
    BY <2>5, <2>6 DEF s, l
<1>3. QED
  BY <1>1, <1>2

(* The labels of the timers when one starts, or stops.                      *)
LEMMA TurboStarts ==
  ASSUME TypeOK, ActTurboPress
  PROVE  \E n \in Nat : /\ DOMAIN TurboLabels = 1..n /\ DOMAIN TurboLabels' = 1..(n + 1)
                        /\ \A i \in 1..n : TurboLabels'[i] = TurboLabels[i]
                        /\ TurboLabels'[n + 1] = Now.code
<1> DEFINE e == [code |-> Now.code, on |-> Now.on, off |-> Now.off, phase |-> TRUE, next |-> Now.on]
<1>1. e \in Turbo /\ runTurbo \in Seq(Turbo) /\ runTurbo' = Append(runTurbo, e) /\ e.code = Now.code
  BY PerformsType, ActionKinds DEF ActTurboPress, TurboAction, Turbo, TypeOK, TimerTypes
<1> HIDE DEF e
<1>2. PICK n \in Nat : n = Len(runTurbo)
  BY <1>1, Positions
<1>3. /\ DOMAIN runTurbo = 1..n /\ DOMAIN runTurbo' = 1..(n + 1)
      /\ \A i \in 1..n : runTurbo'[i] = runTurbo[i]
      /\ runTurbo'[n + 1] = e
  BY <1>1, <1>2, AppendProperties, Positions
<1>4. /\ DOMAIN TurboLabels = 1..n /\ DOMAIN TurboLabels' = 1..(n + 1)
      /\ \A i \in 1..n : TurboLabels'[i] = TurboLabels[i]
      /\ TurboLabels'[n + 1] = Now.code
  BY <1>1, <1>2, <1>3 DEF TurboLabels
<1>5. QED
  BY <1>4

LEMMA TurboStops ==
  ASSUME TypeOK, ActTurboRelease
  PROVE  \/ TurboLabels' = TurboLabels /\ \A i \in DOMAIN TurboLabels : TurboLabels[i] # Now.code
         \/ \E n \in Nat : \E i \in 1..n :
              /\ DOMAIN TurboLabels = 1..n /\ DOMAIN TurboLabels' = 1..(n - 1)
              /\ \A j \in 1..(n - 1) : TurboLabels'[j] = TurboLabels[IF j < i THEN j ELSE j + 1]
              /\ TurboLabels[i] = Now.code
<1>1. runTurbo \in Seq(Turbo)
  BY DEF TypeOK, TimerTypes
<1>2. CASE UNCHANGED runTurbo /\ \A i \in DOMAIN runTurbo : ~TurboSends(i, Now.code)
  BY <1>2 DEF TurboLabels, TurboSends
<1>3. ASSUME NEW i \in DOMAIN runTurbo, TurboSends(i, Now.code), runTurbo' = RemoveAt(runTurbo, i)
      PROVE  \E n \in Nat : \E x \in 1..n :
               /\ DOMAIN TurboLabels = 1..n /\ DOMAIN TurboLabels' = 1..(n - 1)
               /\ \A j \in 1..(n - 1) : TurboLabels'[j] = TurboLabels[IF j < x THEN j ELSE j + 1]
               /\ TurboLabels[x] = Now.code
  <2>1. PICK n \in Nat : n = Len(runTurbo) /\ DOMAIN runTurbo = 1..n
    BY <1>1, Positions
  <2>2. /\ runTurbo' \in Seq(Turbo) /\ Len(runTurbo') = n - 1
        /\ \A j \in 1..(n - 1) : runTurbo'[j] = IF j < i THEN runTurbo[j] ELSE runTurbo[j + 1]
    BY <1>1, <1>3, <2>1, RemoveAtProperties
  <2>3. DOMAIN runTurbo' = 1..(n - 1)
    BY <2>2, Positions
  <2>4. \A j \in 1..(n - 1) : TurboLabels'[j] = TurboLabels[IF j < i THEN j ELSE j + 1]
    <3>1. ASSUME NEW j \in 1..(n - 1)
          PROVE  TurboLabels'[j] = TurboLabels[IF j < i THEN j ELSE j + 1]
      <4>1. TurboLabels'[j] = runTurbo'[j].code
        BY <2>3 DEF TurboLabels
      <4>2. \A x \in 1..n : TurboLabels[x] = runTurbo[x].code
        BY <2>1 DEF TurboLabels
      <4>3. j \in 1..n /\ j + 1 \in 1..n
        OBVIOUS
      <4>4. QED
        BY <2>2, <4>1, <4>2, <4>3
    <3>2. QED
      BY <3>1
  <2>5. DOMAIN TurboLabels = 1..n /\ DOMAIN TurboLabels' = 1..(n - 1) /\ TurboLabels[i] = Now.code
    BY <1>3, <2>1, <2>3 DEF TurboLabels, TurboSends
  <2>6. QED
    BY <2>1, <2>4, <2>5
<1>4. QED
  BY <1>2, <1>3 DEF ActTurboRelease

LEMMA RelStarts ==
  ASSUME TypeOK, ActRelConstPress
  PROVE  \E n \in Nat : /\ DOMAIN RelLabels = 1..n /\ DOMAIN RelLabels' = 1..(n + 1)
                        /\ \A i \in 1..n : RelLabels'[i] = RelLabels[i]
                        /\ RelLabels'[n + 1] = <<Now.code, Now.value>>
<1> DEFINE e == [code |-> Now.code, value |-> Now.value, delay |-> Now.delay, next |-> Now.delay]
<1>1. /\ e \in RelConst /\ runRelConst \in Seq(RelConst) /\ runRelConst' = Append(runRelConst, e)
      /\ e.code = Now.code /\ e.value = Now.value
  BY PerformsType, ActionKinds DEF ActRelConstPress, RelConstAction, RelConst, TypeOK, TimerTypes
<1> HIDE DEF e
<1>2. PICK n \in Nat : n = Len(runRelConst)
  BY <1>1, Positions
<1>3. /\ DOMAIN runRelConst = 1..n /\ DOMAIN runRelConst' = 1..(n + 1)
      /\ \A i \in 1..n : runRelConst'[i] = runRelConst[i]
      /\ runRelConst'[n + 1] = e
  BY <1>1, <1>2, AppendProperties, Positions
<1>4. /\ \A i \in 1..n : RelLabels[i] = <<runRelConst[i].code, runRelConst[i].value>>
      /\ \A i \in 1..(n + 1) : RelLabels'[i] = <<runRelConst'[i].code, runRelConst'[i].value>>
      /\ DOMAIN RelLabels = 1..n /\ DOMAIN RelLabels' = 1..(n + 1)
  BY <1>3 DEF RelLabels
<1>5. \A i \in 1..n : i \in 1..(n + 1)
  OBVIOUS
<1>6. n + 1 \in 1..(n + 1)
  OBVIOUS
<1>7. RelLabels'[n + 1] = <<Now.code, Now.value>>
  BY <1>1, <1>3, <1>4, <1>6
<1>8. \A i \in 1..n : RelLabels'[i] = RelLabels[i]
  BY <1>3, <1>4, <1>5
<1>9. QED
  BY <1>4, <1>7, <1>8

LEMMA RelStops ==
  ASSUME TypeOK, ActRelConstRelease
  PROVE  \/ /\ RelLabels' = RelLabels
            /\ \A i \in DOMAIN RelLabels : RelLabels[i] # <<Now.code, Now.value>>
         \/ \E n \in Nat : \E i \in 1..n :
              /\ DOMAIN RelLabels = 1..n /\ DOMAIN RelLabels' = 1..(n - 1)
              /\ \A j \in 1..(n - 1) : RelLabels'[j] = RelLabels[IF j < i THEN j ELSE j + 1]
              /\ RelLabels[i] = <<Now.code, Now.value>>
<1>1. runRelConst \in Seq(RelConst)
  BY DEF TypeOK, TimerTypes
<1>2. CASE /\ UNCHANGED runRelConst
           /\ \A i \in DOMAIN runRelConst : ~Repeats(i, Now.code, Now.value)
  BY <1>2 DEF RelLabels, Repeats
<1>3. ASSUME NEW i \in DOMAIN runRelConst, Repeats(i, Now.code, Now.value),
             runRelConst' = RemoveAt(runRelConst, i)
      PROVE  \E n \in Nat : \E x \in 1..n :
               /\ DOMAIN RelLabels = 1..n /\ DOMAIN RelLabels' = 1..(n - 1)
               /\ \A j \in 1..(n - 1) : RelLabels'[j] = RelLabels[IF j < x THEN j ELSE j + 1]
               /\ RelLabels[x] = <<Now.code, Now.value>>
  <2>1. PICK n \in Nat : n = Len(runRelConst) /\ DOMAIN runRelConst = 1..n
    BY <1>1, Positions
  <2>2. /\ runRelConst' \in Seq(RelConst) /\ Len(runRelConst') = n - 1
        /\ \A j \in 1..(n - 1) :
             runRelConst'[j] = IF j < i THEN runRelConst[j] ELSE runRelConst[j + 1]
    BY <1>1, <1>3, <2>1, RemoveAtProperties
  <2>3. DOMAIN runRelConst' = 1..(n - 1)
    BY <2>2, Positions
  <2>4. ASSUME NEW j \in 1..(n - 1)
        PROVE  RelLabels'[j] = RelLabels[IF j < i THEN j ELSE j + 1]
    <3>1. RelLabels'[j] = <<runRelConst'[j].code, runRelConst'[j].value>>
      BY <2>3 DEF RelLabels
    <3>2. \A x \in 1..n : RelLabels[x] = <<runRelConst[x].code, runRelConst[x].value>>
      BY <2>1 DEF RelLabels
    <3>3. j \in 1..n /\ j + 1 \in 1..n
      OBVIOUS
    <3>4. QED
      BY <2>2, <3>1, <3>2, <3>3
  <2>5. /\ DOMAIN RelLabels = 1..n /\ DOMAIN RelLabels' = 1..(n - 1)
        /\ RelLabels[i] = <<Now.code, Now.value>>
    BY <1>3, <2>1, <2>3 DEF RelLabels, Repeats
  <2>6. QED
    BY <2>1, <2>4, <2>5
<1>4. QED
  BY <1>2, <1>3 DEF ActRelConstRelease

(* Performing an action of a bind that starts timers.                       *)
LEMMA HoldTurbos ==
  ASSUME TypeOK, [Next]_vars, HasSlots(TurboLabels, TurboSlots), event' = event,
         pc = "actions", todo # <<>>, todo' = Tail(todo),
         NEW c \in Keys, NEW d \in Nat, NEW act, act = Now,
         d + 1 \in DOMAIN ActsOf(c), act = ActsOf(c)[d + 1],
         \A k \in Keys : ActsOf(k)' = ActsOf(k),
         \A k \in Keys : \A j \in DOMAIN ActsOf(k) :
           k # c \/ j # d + 1 => (Counts(k, j)' <=> Counts(k, j)),
         event.value = 1 => ~Counts(c, d + 1) /\ Counts(c, d + 1)',
         event.value = 0 => Counts(c, d + 1) /\ ~Counts(c, d + 1)',
         event.value = 2 => (Counts(c, d + 1)' <=> Counts(c, d + 1)),
         act.type = "turbo" /\ event.value = 1 => ActTurboPress,
         act.type = "turbo" /\ event.value = 0 => ActTurboRelease
  PROVE  HasSlots(TurboLabels, TurboSlots)'
<1>1. act \in BindAction
  BY TodoType DEF TypeOK
<1>2. /\ act.type # "turbo" \/ (Counts(c, d + 1)' <=> Counts(c, d + 1)) => TurboSlots' = TurboSlots
      /\ act.type = "turbo" => LET s == <<c, d + 1, act.code>>
           IN  /\ ~Counts(c, d + 1) /\ Counts(c, d + 1)' =>
                    s \notin TurboSlots /\ TurboSlots' = TurboSlots \cup {s}
               /\ Counts(c, d + 1) /\ ~Counts(c, d + 1)' => TurboSlots' = TurboSlots \ {s}
  BY <1>1, ActTurboSlots
<1>3. TurboLabels' = TurboLabels \/ ActTurboPress \/ ActTurboRelease
  BY TimerLabels
<1>4. /\ ActTurboPress => act.type = "turbo" /\ event.value = 1
      /\ ActTurboRelease => act.type = "turbo" /\ event.value = 0
  BY DEF ActTurboPress, ActTurboRelease, Performs, Pressed, Released
<1> DEFINE s == <<c, d + 1, act.code>>
<1>5. s[3] = act.code
  OBVIOUS
<1>6. CASE ActTurboPress
  <2>1. s \notin TurboSlots /\ TurboSlots' = TurboSlots \cup {s}
    BY <1>2, <1>4, <1>6
  <2>2. PICK n \in Nat : /\ DOMAIN TurboLabels = 1..n /\ DOMAIN TurboLabels' = 1..(n + 1)
                         /\ \A i \in 1..n : TurboLabels'[i] = TurboLabels[i]
                         /\ TurboLabels'[n + 1] = act.code
    BY <1>6, TurboStarts
  <2> HIDE DEF s
  <2>3. HasSlots(TurboLabels', TurboSlots \cup {s})
    BY <1>5, <2>1, <2>2, SlotsGrow
  <2>4. QED
    BY <2>1, <2>3 DEF HasSlots
<1>7. CASE ActTurboRelease
  <2>1. TurboSlots' = TurboSlots \ {s}
    BY <1>2, <1>4, <1>7
  <2> HIDE DEF s
  <2>2. \/ TurboLabels' = TurboLabels /\ \A i \in DOMAIN TurboLabels : TurboLabels[i] # act.code
        \/ \E n \in Nat : \E i \in 1..n :
             /\ DOMAIN TurboLabels = 1..n /\ DOMAIN TurboLabels' = 1..(n - 1)
             /\ \A j \in 1..(n - 1) : TurboLabels'[j] = TurboLabels[IF j < i THEN j ELSE j + 1]
             /\ TurboLabels[i] = act.code
    BY <1>7, TurboStops
  <2>3. HasSlots(TurboLabels', TurboSlots \ {s})
    BY <1>5, <2>2, SlotsShrink, SlotUnused
  <2>4. QED
    BY <2>1, <2>3 DEF HasSlots
<1>8. CASE ~ActTurboPress /\ ~ActTurboRelease
  <2>1. event.value \notin {0, 1} \/ act.type # "turbo"
    BY <1>8
  <2>2. event.value \in 0..2
    BY EventKinds DEF TypeOK, CtlTypes
  <2>3. TurboSlots' = TurboSlots
    BY <1>2, <2>1, <2>2
  <2>4. QED
    BY <1>3, <1>8, <2>3 DEF HasSlots
<1>9. QED
  BY <1>6, <1>7, <1>8

LEMMA HoldRels ==
  ASSUME TypeOK, [Next]_vars, HasSlots(RelLabels, RelSlots), event' = event,
         pc = "actions", todo # <<>>, todo' = Tail(todo),
         NEW c \in Keys, NEW d \in Nat, NEW act, act = Now,
         d + 1 \in DOMAIN ActsOf(c), act = ActsOf(c)[d + 1],
         \A k \in Keys : ActsOf(k)' = ActsOf(k),
         \A k \in Keys : \A j \in DOMAIN ActsOf(k) :
           k # c \/ j # d + 1 => (Counts(k, j)' <=> Counts(k, j)),
         event.value = 1 => ~Counts(c, d + 1) /\ Counts(c, d + 1)',
         event.value = 0 => Counts(c, d + 1) /\ ~Counts(c, d + 1)',
         event.value = 2 => (Counts(c, d + 1)' <=> Counts(c, d + 1)),
         act.type = "relconst" /\ event.value = 1 => ActRelConstPress,
         act.type = "relconst" /\ event.value = 0 => ActRelConstRelease
  PROVE  HasSlots(RelLabels, RelSlots)'
<1>1. act \in BindAction
  BY TodoType DEF TypeOK
<1>2. /\ act.type # "relconst" \/ (Counts(c, d + 1)' <=> Counts(c, d + 1)) => RelSlots' = RelSlots
      /\ act.type = "relconst" => LET s == <<c, d + 1, <<act.code, act.value>>>>
           IN  /\ ~Counts(c, d + 1) /\ Counts(c, d + 1)' =>
                    s \notin RelSlots /\ RelSlots' = RelSlots \cup {s}
               /\ Counts(c, d + 1) /\ ~Counts(c, d + 1)' => RelSlots' = RelSlots \ {s}
  BY <1>1, ActRelSlots
<1>3. RelLabels' = RelLabels \/ ActRelConstPress \/ ActRelConstRelease
  BY TimerLabels
<1>4. /\ ActRelConstPress => act.type = "relconst" /\ event.value = 1
      /\ ActRelConstRelease => act.type = "relconst" /\ event.value = 0
  BY DEF ActRelConstPress, ActRelConstRelease, Performs, Pressed, Released
<1> DEFINE s == <<c, d + 1, <<act.code, act.value>>>>
<1>5. s[3] = <<act.code, act.value>>
  OBVIOUS
<1>6. CASE ActRelConstPress
  <2>1. s \notin RelSlots /\ RelSlots' = RelSlots \cup {s}
    BY <1>2, <1>4, <1>6
  <2>2. PICK n \in Nat : /\ DOMAIN RelLabels = 1..n /\ DOMAIN RelLabels' = 1..(n + 1)
                         /\ \A i \in 1..n : RelLabels'[i] = RelLabels[i]
                         /\ RelLabels'[n + 1] = <<act.code, act.value>>
    BY <1>6, RelStarts
  <2> HIDE DEF s
  <2>3. HasSlots(RelLabels', RelSlots \cup {s})
    BY <1>5, <2>1, <2>2, SlotsGrow
  <2>4. QED
    BY <2>1, <2>3 DEF HasSlots
<1>7. CASE ActRelConstRelease
  <2>1. RelSlots' = RelSlots \ {s}
    BY <1>2, <1>4, <1>7
  <2> HIDE DEF s
  <2>2. \/ RelLabels' = RelLabels /\ \A i \in DOMAIN RelLabels : RelLabels[i] # <<act.code, act.value>>
        \/ \E n \in Nat : \E i \in 1..n :
             /\ DOMAIN RelLabels = 1..n /\ DOMAIN RelLabels' = 1..(n - 1)
             /\ \A j \in 1..(n - 1) : RelLabels'[j] = RelLabels[IF j < i THEN j ELSE j + 1]
             /\ RelLabels[i] = <<act.code, act.value>>
    BY <1>7, RelStops
  <2>3. HasSlots(RelLabels', RelSlots \ {s})
    BY <1>5, <2>2, SlotsShrink, SlotUnused
  <2>4. QED
    BY <2>1, <2>3 DEF HasSlots
<1>8. CASE ~ActRelConstPress /\ ~ActRelConstRelease
  <2>1. event.value \notin {0, 1} \/ act.type # "relconst"
    BY <1>8
  <2>2. event.value \in 0..2
    BY EventKinds DEF TypeOK, CtlTypes
  <2>3. RelSlots' = RelSlots
    BY <1>2, <2>1, <2>2
  <2>4. QED
    BY <1>3, <1>8, <2>3 DEF HasSlots
<1>9. QED
  BY <1>6, <1>7, <1>8

LEMMA TailDiffers ==
  ASSUME TypeOK, todo # <<>>
  PROVE  Tail(todo) # todo
<1>1. todo \in Seq(BindAction)
  BY DEF TypeOK, CtlTypes
<1>2. PICK n \in Nat : n = Len(todo)
  BY <1>1, LenProperties
<1>3. Len(Tail(todo)) = n - 1
  BY <1>1, <1>2, HeadTailProperties
<1>4. Len(Tail(todo)) # Len(todo)
  BY <1>2, <1>3
<1>5. QED
  BY <1>4

(* Only the actions of a bind shorten what is left of it.                   *)
LEMMA ActPerforms ==
  ASSUME TypeOK, [Next]_vars, pc = "actions", pc' = pc, todo # <<>>, todo' = Tail(todo)
  PROVE  Act
<1>1. todo' # todo
  BY TailDiffers
<1>2. ~(Timers \/ Select \/ Tick \/ Client \/ Input \/ UNCHANGED vars)
  BY <1>1, ClientKeepsAll DEF Timers, FireTurbo, FireRelConst, FireMacro, PlayStep, PlayWild,
     Cleanup, TimedOut, Select, Tick, Input, ReadKey, ReadRel, ReadOther, At, vars, ctlVars
<1>3. ~Rewire
  BY DEF Rewire, Unshift, NoUnshift, TestMap, TestBind, RewireUnmapped, RewirePlain, RewireBound,
     RewireRel, RewireOther, RewireWild, At
<1>4. QED
  BY <1>2, <1>3 DEF Next, Thread

(* An action that has nothing to do was not to start or stop a timer.       *)
LEMMA HoldAct ==
  ASSUME HoldInv, [Next]_vars, Timed(curmap), UNCHANGED <<keybinds, curmap, held, event>>,
         pc = "actions", pc' = pc, todo # <<>>, todo' = Tail(todo)
  PROVE  HasSlots(TurboLabels, TurboSlots)' /\ HasSlots(RelLabels, RelSlots)' /\ TodoIsRest'
<1>1. TypeOK /\ TypeOK' /\ TodoIsRest
  BY NextType DEF HoldInv, SightInv
<1>2. PICK c \in Keys, d \in Nat :
           /\ c = event.code /\ d + 1 \in DOMAIN ActsOf(c) /\ Now = ActsOf(c)[d + 1]
           /\ \A k \in Keys : ActsOf(k)' = ActsOf(k)
           /\ \A k \in Keys : \A j \in DOMAIN ActsOf(k) :
                k # c \/ j # d + 1 => (Counts(k, j)' <=> Counts(k, j))
           /\ event.value = 1 => ~Counts(c, d + 1) /\ Counts(c, d + 1)'
           /\ event.value = 0 => Counts(c, d + 1) /\ ~Counts(c, d + 1)'
           /\ event.value = 2 => (Counts(c, d + 1)' <=> Counts(c, d + 1))
           /\ TodoIsRest'
  BY <1>1, ActCounts
<1>3. Act /\ ~FinishEvent
  <2>1. Act
    BY <1>1, ActPerforms
  <2>2. QED
    BY <2>1 DEF FinishEvent
<1>4. ~LookUpMap
  BY <1>1, TailDiffers DEF LookUpMap, Sees, ctlVars
<1>5. PICK act \in BindAction : act = Now
  BY <1>1, TodoType DEF TypeOK
<1>6. /\ act.type = "turbo" /\ event.value = 1 => ActTurboPress
      /\ act.type = "turbo" /\ event.value = 0 => ActTurboRelease
      /\ act.type = "relconst" /\ event.value = 1 => ActRelConstPress
      /\ act.type = "relconst" /\ event.value = 0 => ActRelConstRelease
  BY <1>3, <1>4, <1>5 DEF Act, ActKey, ActTurboPress, ActTurboRelease, ActRel, ActRelConstPress,
     ActRelConstRelease, ActSwitchMap, ActShiftMap, ActMacro, ActNothing, Performs, Pressed, Released
<1>7. HasSlots(TurboLabels, TurboSlots)'
  BY <1>1, <1>2, <1>5, <1>6, HoldTurbos DEF HoldInv
<1>8. HasSlots(RelLabels, RelSlots)'
  BY <1>1, <1>2, <1>5, <1>6, HoldRels DEF HoldInv
<1>9. QED
  BY <1>2, <1>7, <1>8

LEMMA TimersStay ==
  ASSUME TypeOK, [Next]_vars, pc' # pc \/ todo' = todo
  PROVE  TurboLabels' = TurboLabels /\ RelLabels' = RelLabels
<1>1. todo # <<>> => Tail(todo) # todo
  BY TailDiffers
<1>2. ~ActTurboPress /\ ~ActTurboRelease /\ ~ActRelConstPress /\ ~ActRelConstRelease
  BY <1>1 DEF ActTurboPress, ActTurboRelease, ActRelConstPress, ActRelConstRelease, Performs
<1>3. QED
  BY <1>2, TimerLabels

LEMMA UntimedTail ==
  ASSUME TypeOK, TodoIsUntimed, todo # <<>>, todo' = Tail(todo)
  PROVE  /\ \A i \in DOMAIN todo' :
              /\ todo'[i].type \notin {"turbo", "relconst"}
              /\ todo'[i].type \in {"switchmap", "shiftmap"} => ~Timed(todo'[i].map)
         /\ Now.type \notin {"turbo", "relconst"}
         /\ Now.type \in {"switchmap", "shiftmap"} => ~Timed(Now.map)
BY TodoEntries DEF TodoIsUntimed

(* A bind of a map that starts timers never leaves it.                      *)
LEMMA TimedStays ==
  ASSUME TimedMapsStay, TypeOK, keybinds = BaseBinds, Timed(curmap), TodoIsRest,
         todo # <<>>, pc = "actions"
  PROVE  Now.type \notin {"switchmap", "shiftmap"}
<1>1. 1 \in DOMAIN todo /\ Now = todo[1]
  BY TodoEntries
<1>2. event.code \in Keys /\ curmap \in Maps
  BY EventKinds DEF TypeOK, CtlTypes, Timed
<1>3. PICK i \in DOMAIN ActsOf(event.code) : Now = ActsOf(event.code)[i]
  BY <1>1 DEF TodoIsRest
<1>4. ActsOf(event.code) = BaseBinds[curmap][event.code].actions
  BY <1>3 DEF ActsOf
<1>5. QED
  BY <1>2, <1>3, <1>4 DEF TimedMapsStay

LEMMA HoldReadKey ==
  ASSUME HoldInv, [Next]_vars, NEW k \in Keys, NEW v \in 0..2, ReadKey(k, v)
  PROVE  HoldInv'
<1>1. /\ UNCHANGED <<keybinds, curmap, mapStack, runTurbo, runRelConst>> /\ pc = "sleep" /\ pc' = "event"
      /\ event' = [type |-> "key", code |-> k, value |-> v] /\ held' = Latch(held, k, v)
      /\ v = 1 => k \notin held
      /\ v # 1 => k \in held
  BY DEF ReadKey, At, mapVars, timerVars, Deliverable
<1>2. \A c, x : ~InHand(c, x) /\ (InHand(c, x)' <=> c = k /\ x = v)
  BY <1>1 DEF InHand
<1>3. \A c : c # k \/ v = 2 => (c \in held' <=> c \in held)
  BY <1>1 DEF Latch
<1>4. /\ v = 1 => k \in held'
      /\ v = 0 => k \notin held'
  BY <1>1 DEF Latch
<1>5. Done' = 0
  BY <1>1 DEF Done
<1>6. \A c \in Keys : ActsOf(c)' = ActsOf(c)
  BY <1>1 DEF ActsOf
<1>7. ASSUME NEW c \in Keys, NEW j \in DOMAIN ActsOf(c)
      PROVE  Counts(c, j)' <=> Counts(c, j)
  <2>1. j \in Nat /\ j >= 1
    BY <1>7, ActsOfType, Positions DEF HoldInv, SightInv
  <2>2. Counts(c, j) <=> c \in held
    BY <1>2 DEF Counts
  <2>3. Counts(c, j)' <=> IF c = k /\ v = 1 THEN j <= 0 ELSE IF c = k /\ v = 0 THEN j > 0 ELSE c \in held'
    BY <1>2, <1>5 DEF Counts
  <2>4. QED
    BY <1>1, <1>3, <2>1, <2>2, <2>3
<1>8. TurboLabels' = TurboLabels /\ RelLabels' = RelLabels
  BY <1>1 DEF TurboLabels, RelLabels
<1>9. HasSlots(TurboLabels, TurboSlots)' /\ HasSlots(RelLabels, RelSlots)'
  BY <1>6, <1>7, <1>8, SameHolds
<1>10. SightInv'
  BY SightStep DEF HoldInv
<1>11. QED
  BY <1>1, <1>2, <1>4, <1>9, <1>10 DEF HoldInv

LEMMA HoldUnshift ==
  ASSUME HoldInv, [Next]_vars, NEW i \in DOMAIN mapStack, Unshift(i)
  PROVE  HoldInv'
<1>1. /\ UNCHANGED <<keybinds, todo, event, held>> /\ pc = "event" /\ pc' = "rewire"
      /\ curmap' = mapStack[i].map
  BY DEF Unshift, keyVars, At
<1>2. TypeOK /\ TypeOK' /\ SightInv'
  BY SightStep DEF HoldInv, SightInv
<1>3. /\ i \in Nat /\ DOMAIN mapStack' = 1..i
      /\ \A j \in 1..(i - 1) : j \in DOMAIN mapStack /\ mapStack'[j] = mapStack[j]
      /\ Len(mapStack) \in DOMAIN mapStack
      /\ mapStack'[i] = mapStack[Len(mapStack)]
  BY <1>2, Popped
<1>4. \A j \in DOMAIN mapStack' : \E l \in DOMAIN mapStack : mapStack'[j] = mapStack[l]
  BY <1>3
<1>5. mapStack # <<>>
  BY <1>2, EmptySeq DEF TypeOK, MapTypes
<1>6. ~Timed(curmap) /\ ~Timed(curmap')
  BY <1>1, <1>5 DEF HoldInv
<1>7. TurboLabels' = TurboLabels /\ RelLabels' = RelLabels
  BY <1>1, <1>2, TimersStay
<1>8. HasSlots(TurboLabels, TurboSlots)' /\ HasSlots(RelLabels, RelSlots)'
  BY <1>1, <1>2, <1>6, <1>7, UntimedHolds
<1>9. \A k, v : InHand(k, v)' <=> InHand(k, v)
  BY <1>1 DEF InHand
<1>10. \A j \in DOMAIN mapStack' : ~Timed(mapStack'[j].map)
  BY <1>4 DEF HoldInv
<1>11. QED
  BY <1>1, <1>2, <1>6, <1>8, <1>9, <1>10 DEF HoldInv

LEMMA HoldRewireBound ==
  ASSUME TimedMapsStay, HoldInv, [Next]_vars, RewireBound
  PROVE  HoldInv'
<1>1. /\ UNCHANGED <<keybinds, curmap, mapStack, event, held>> /\ pc = "rewire" /\ pc' = "actions"
      /\ curmap \in Maps /\ event.type = "key" /\ Bound.doModify /\ todo' = Bound.actions
  BY DEF RewireBound, At, mapVars, keyVars, HoldInv, SightInv
<1>2. TypeOK /\ TypeOK' /\ SightInv' /\ keybinds = BaseBinds
  BY SightStep DEF HoldInv, SightInv
<1>3. PICK c \in Keys : c = event.code
  BY <1>1, <1>2, EventKinds DEF TypeOK, CtlTypes
<1>4. ActsOf(c) = todo' /\ todo' = BaseBinds[curmap][c].actions
  BY <1>1, <1>2, <1>3 DEF ActsOf, Bound
<1>5. \A k : ActsOf(k)' = ActsOf(k)
  BY <1>1 DEF ActsOf
<1>6. PICK n \in Nat : n = Len(todo') /\ DOMAIN todo' = 1..n
  BY <1>2, Positions DEF TypeOK, CtlTypes
<1>7. Done = 0 /\ Done' = 0
  BY <1>1, <1>3, <1>4, <1>5, <1>6 DEF Done
<1>8. \A k, v : InHand(k, v)' <=> InHand(k, v)
  BY <1>1 DEF InHand
<1>9. \A k, j : Counts(k, j)' <=> Counts(k, j)
  BY <1>1, <1>7, <1>8 DEF Counts
<1>10. TurboLabels' = TurboLabels /\ RelLabels' = RelLabels
  BY <1>1, <1>2, TimersStay
<1>11. HasSlots(TurboLabels, TurboSlots)' /\ HasSlots(RelLabels, RelSlots)'
  BY <1>5, <1>9, <1>10, SameHolds
<1>12. TodoIsRest'
  BY <1>1, <1>3, <1>4, <1>5, <1>6, <1>7 DEF TodoIsRest
<1>13. ASSUME ~Timed(curmap)
       PROVE  TodoIsUntimed'
  <2>1. \A i \in DOMAIN todo' :
          /\ todo'[i].type \notin {"turbo", "relconst"}
          /\ todo'[i].type \in {"switchmap", "shiftmap"} => ~Timed(todo'[i].map)
    BY <1>1, <1>4, <1>13 DEF Timed, TimedMapsStay
  <2>2. ~Timed(curmap')
    BY <1>1, <1>13
  <2>3. QED
    BY <2>1, <2>2 DEF TodoIsUntimed
<1>14. QED
  BY <1>1, <1>2, <1>8, <1>11, <1>12, <1>13 DEF HoldInv

LEMMA HoldChange ==
  ASSUME TimedMapsStay, HoldInv, [Next]_vars, ActShiftMap \/ ActSwitchMap
  PROVE  HoldInv'
<1>1. /\ UNCHANGED <<keybinds, event, held>> /\ pc = "actions" /\ pc' = pc
      /\ todo # <<>> /\ todo' = Tail(todo) /\ Now.type \in {"shiftmap", "switchmap"}
      /\ curmap' = Now.map
  BY GoesToNamed DEF ActShiftMap, ActSwitchMap, Performs, At, HoldInv, SightInv
<1>2. TypeOK /\ TypeOK' /\ SightInv' /\ keybinds = BaseBinds
  BY SightStep DEF HoldInv, SightInv
<1>3. ~Timed(curmap) /\ TodoIsUntimed
  BY <1>1, <1>2, TimedStays DEF HoldInv
<1>4. /\ \A i \in DOMAIN todo' :
           /\ todo'[i].type \notin {"turbo", "relconst"}
           /\ todo'[i].type \in {"switchmap", "shiftmap"} => ~Timed(todo'[i].map)
      /\ ~Timed(curmap')
  BY <1>1, <1>2, <1>3, UntimedTail
<1>5. TodoIsUntimed'
  BY <1>4 DEF TodoIsUntimed
<1>6. TurboLabels' = TurboLabels /\ RelLabels' = RelLabels
  BY <1>2, TimerLabels DEF ActShiftMap, ActSwitchMap, Performs, ActTurboPress, ActTurboRelease,
     ActRelConstPress, ActRelConstRelease
<1>7. HasSlots(TurboLabels, TurboSlots)' /\ HasSlots(RelLabels, RelSlots)'
  BY <1>1, <1>2, <1>3, <1>4, <1>6, UntimedHolds
<1>8. \A k, v : InHand(k, v)' <=> InHand(k, v)
  BY <1>1 DEF InHand
<1>9. \A j \in DOMAIN mapStack' : ~Timed(mapStack'[j].map)
  <2>1. CASE ActSwitchMap
    BY <2>1 DEF ActSwitchMap, HoldInv
  <2>2. CASE ActShiftMap
    <3>1. /\ \A i \in DOMAIN mapStack : mapStack'[i] = mapStack[i]
          /\ mapStack'[Len(mapStack) + 1].map = curmap
          /\ \A i \in DOMAIN mapStack' : i \in DOMAIN mapStack \/ i = Len(mapStack) + 1
      BY <1>2, <2>2, Pushed
    <3>2. QED
      BY <1>3, <3>1 DEF HoldInv
  <2>3. QED
    BY <2>1, <2>2
<1>10. QED
  BY <1>1, <1>2, <1>4, <1>5, <1>7, <1>8, <1>9 DEF HoldInv

LEMMA HoldTail ==
  ASSUME HoldInv, [Next]_vars,
         UNCHANGED <<keybinds, curmap, mapStack, held, event>>,
         pc = "actions", pc' = pc, todo # <<>>, todo' = Tail(todo)
  PROVE  HoldInv'
<1>1. TypeOK /\ TypeOK' /\ SightInv'
  BY SightStep DEF HoldInv, SightInv
<1>2. \A k, v : InHand(k, v)' <=> InHand(k, v)
  BY DEF InHand
<1>3. CASE Timed(curmap)
  <2>1. HasSlots(TurboLabels, TurboSlots)' /\ HasSlots(RelLabels, RelSlots)' /\ TodoIsRest'
    BY <1>3, HoldAct
  <2>2. QED
    BY <1>1, <1>2, <1>3, <2>1 DEF HoldInv
<1>4. CASE ~Timed(curmap)
  <2>1. TodoIsUntimed
    BY <1>4 DEF HoldInv
  <2>2. /\ \A i \in DOMAIN todo' :
             /\ todo'[i].type \notin {"turbo", "relconst"}
             /\ todo'[i].type \in {"switchmap", "shiftmap"} => ~Timed(todo'[i].map)
        /\ Now.type \notin {"turbo", "relconst"}
    BY <1>1, <2>1, UntimedTail
  <2>3. TurboLabels' = TurboLabels /\ RelLabels' = RelLabels
    BY <1>1, <2>2, TimerLabels DEF Performs, ActTurboPress, ActTurboRelease, ActRelConstPress,
       ActRelConstRelease
  <2>4. HasSlots(TurboLabels, TurboSlots)' /\ HasSlots(RelLabels, RelSlots)'
    BY <1>1, <1>4, <2>3, UntimedHolds
  <2>5. TodoIsUntimed'
    BY <1>4, <2>2 DEF TodoIsUntimed
  <2>6. QED
    BY <1>1, <1>2, <1>4, <2>4, <2>5 DEF HoldInv
<1>5. QED
  BY <1>3, <1>4

(* The event in hand has been worked on.                                    *)
LEMMA HoldDone ==
  ASSUME HoldInv, [Next]_vars,
         UNCHANGED <<keybinds, curmap, mapStack, held, event, todo>>,
         pc # "event", pc' \in {"select", "sleep", "macro", "cleanup"},
         pc = "actions" => todo = <<>>,
         pc = "rewire" /\ event.type = "key" /\ curmap \in Maps => ~Bound.doModify
  PROVE  HoldInv'
<1>1. TypeOK /\ TypeOK' /\ SightInv'
  BY SightStep DEF HoldInv, SightInv
<1>2. \A k, v : ~InHand(k, v)'
  BY DEF InHand
<1>3. \A k : ActsOf(k)' = ActsOf(k)
  BY DEF ActsOf
<1>4. TurboLabels' = TurboLabels /\ RelLabels' = RelLabels
  <2>1. UNCHANGED pc \/ pc' # pc
    OBVIOUS
  <2>2. QED
    BY <1>1, TimersStay
<1>5. ASSUME NEW k \in Keys, NEW j \in DOMAIN ActsOf(k)
      PROVE  Counts(k, j)' <=> Counts(k, j)
  <2>1. PICK n \in Nat : n = Len(ActsOf(k)) /\ DOMAIN ActsOf(k) = 1..n
    BY <1>1, ActsOfType, Positions
  <2>2. Counts(k, j)' <=> k \in held
    BY <1>2 DEF Counts
  <2>3. CASE ~InHand(k, 1) /\ ~InHand(k, 0)
    BY <2>2, <2>3 DEF Counts
  <2>4. CASE InHand(k, 1) \/ InHand(k, 0)
    <3>1. pc \in {"rewire", "actions"} /\ event.type = "key" /\ event.code = k
      BY <2>4 DEF InHand
    <3>2. pc # "rewire"
      <4>1. SUFFICES ASSUME pc = "rewire" PROVE FALSE
        OBVIOUS
      <4>2. ActsOf(k) = <<>>
        BY <3>1, <4>1 DEF ActsOf, Bound
      <4>3. DOMAIN ActsOf(k) = {}
        BY <4>2
      <4>4. QED
        BY <4>3
    <3>3. Done = n
      <4>1. Len(todo) = 0
        BY <3>1, <3>2
      <4>2. QED
        BY <2>1, <3>1, <3>2, <4>1 DEF Done
    <3>4. Counts(k, j) <=> InHand(k, 1)
      BY <2>1, <2>4, <3>3 DEF Counts
    <3>5. k \in held <=> InHand(k, 1)
      BY <2>4 DEF HoldInv
    <3>6. QED
      BY <2>2, <3>4, <3>5
  <2>5. QED
    BY <2>3, <2>4
<1>6. HasSlots(TurboLabels, TurboSlots)' /\ HasSlots(RelLabels, RelSlots)'
  BY <1>3, <1>4, <1>5, SameHolds
<1>7. QED
  BY <1>1, <1>2, <1>6 DEF HoldInv

(* A step that leaves alone the maps, the keys and what is left to do, on   *)
(* an event that stays or is of no key.                                     *)
LEMMA HoldStill ==
  ASSUME HoldInv, [Next]_vars,
         UNCHANGED <<keybinds, curmap, mapStack, held, todo>>,
         \A k, v : InHand(k, v)' <=> InHand(k, v),
         pc = "actions" => UNCHANGED <<pc, event>>,
         pc' = "actions" => pc = "actions"
  PROVE  HoldInv'
<1>1. TypeOK /\ TypeOK' /\ SightInv'
  BY SightStep DEF HoldInv, SightInv
<1>2. \A k : ActsOf(k)' = ActsOf(k)
  BY DEF ActsOf
<1>3. Done' = Done
  BY <1>2 DEF Done
<1>4. \A k, j : Counts(k, j)' <=> Counts(k, j)
  BY <1>3 DEF Counts
<1>5. TurboLabels' = TurboLabels /\ RelLabels' = RelLabels
  BY <1>1, TimersStay
<1>6. HasSlots(TurboLabels, TurboSlots)' /\ HasSlots(RelLabels, RelSlots)'
  BY <1>2, <1>4, <1>5, SameHolds
<1>7. pc' = "actions" => /\ TodoIsRest => TodoIsRest'
                         /\ TodoIsUntimed => TodoIsUntimed'
  BY <1>2, <1>3 DEF TodoIsRest, TodoIsUntimed
<1>8. QED
  BY <1>1, <1>6, <1>7 DEF HoldInv

LEMMA HoldStep ==
  ASSUME TimedMapsStay, HoldInv, [Next]_vars
  PROVE  HoldInv'
<1>1. TypeOK
  BY DEF HoldInv, SightInv
<1>2. CASE NoUnshift
  BY <1>2, HoldStill DEF NoUnshift, InHand, At, mapVars, keyVars
<1>3. CASE /\ pc = "sleep" /\ pc' = "event" /\ event'.type # "key"
           /\ UNCHANGED <<mappings, keybinds, curmap, mapStack, held, todo>>
  BY <1>3, HoldStill DEF InHand
<1>4. ASSUME UNCHANGED <<mappings, keybinds, curmap, mapStack, held, event, pc, todo>>
      PROVE  HoldInv'
  BY <1>4, HoldStill DEF InHand
<1>5. ASSUME UNCHANGED <<mappings, keybinds, curmap, mapStack, held, event>>,
             pc = "actions" /\ pc' = pc /\ todo # <<>> /\ todo' = Tail(todo)
      PROVE  HoldInv'
  BY <1>5, HoldTail
<1>6. ASSUME UNCHANGED <<mappings, keybinds, curmap, mapStack, held, event>>,
             pc # "event" /\ pc' \in {"select", "sleep", "macro", "cleanup"} /\ todo' = todo,
             pc = "actions" => todo = <<>>,
             pc = "rewire" /\ event.type = "key" /\ curmap \in Maps => ~Bound.doModify
      PROVE  HoldInv'
  BY <1>6, HoldDone
<1>7. QED
  BY <1>1, <1>2, <1>3, <1>4, <1>5, <1>6, StepShape, HoldReadKey, HoldUnshift, HoldRewireBound,
     HoldChange

LEMMA HoldInit == Init => HoldInv
<1>1. SUFFICES ASSUME Init PROVE HoldInv
  OBVIOUS
<1>2. DOMAIN TurboLabels = {} /\ DOMAIN RelLabels = {}
  BY <1>1 DEF Init, TurboLabels, RelLabels
<1>3. HasSlots(TurboLabels, TurboSlots) /\ HasSlots(RelLabels, RelSlots)
  <2>1. \A S : [i \in {} |-> 0] \in [{} -> S]
    OBVIOUS
  <2>2. QED
    BY <1>2, <2>1 DEF HasSlots
<1>4. QED
  BY <1>1, <1>3, SightInit DEF Init, InHand, HoldInv

(* While no bind of a map that starts timers leaves that map, and no bind   *)
(* enters it, a turbo runs for a key that is down and is bound to it,       *)
(* however many binds start turbos of one key, or start several: a release  *)
(* stops the first turbo of its code, which need not be its own, and yet    *)
(* there are never more of them than keys that are down account for.        *)
THEOREM TurbosAreHeld ==
  ASSUME TimedMapsStay
  PROVE  Spec => []TurboOnlyWhileHeld
<1>1. ASSUME HoldInv, Asleep, NEW i \in DOMAIN runTurbo
      PROVE  \E k \in held : \E act \in ActionsOf(curmap, k) :
               act.type = "turbo" /\ act.code = runTurbo[i].code
  <2>1. i \in DOMAIN TurboLabels /\ TurboLabels[i] = runTurbo[i].code
    BY <1>1 DEF TurboLabels
  <2>2. PICK s \in TurboSlots : s[3] = runTurbo[i].code
    BY <1>1, <2>1 DEF HoldInv, HasSlots
  <2>3. Counts(s[1], s[2]) => s[1] \in held
    BY <1>1 DEF Counts, InHand, Asleep
  <2>4. /\ s[2] \in DOMAIN ActsOf(s[1])
        /\ ActsOf(s[1])[s[2]].type = "turbo"
        /\ ActsOf(s[1])[s[2]].code = s[3]
        /\ s[1] \in held
    BY <2>2, <2>3 DEF TurboSlots
  <2>5. ActsOf(s[1])[s[2]] \in ActionsOf(curmap, s[1])
    BY <2>4 DEF ActsOf, ActionsOf
  <2>6. QED
    BY <2>2, <2>4, <2>5
<1>2. HoldInv => TurboOnlyWhileHeld
  BY <1>1 DEF TurboOnlyWhileHeld
<1>3. HoldInv /\ [Next]_vars => HoldInv'
  BY HoldStep
<1>4. QED
  BY HoldInit, <1>2, <1>3, PTL DEF Spec

(* The same for a repeated relative motion.                                 *)
THEOREM RepeatsAreHeld ==
  ASSUME TimedMapsStay
  PROVE  Spec => []RelConstOnlyWhileHeld
<1>1. ASSUME HoldInv, Asleep, NEW i \in DOMAIN runRelConst
      PROVE  \E k \in held : \E act \in ActionsOf(curmap, k) :
               /\ act.type = "relconst"
               /\ act.code = runRelConst[i].code
               /\ act.value = runRelConst[i].value
  <2>1. i \in DOMAIN RelLabels /\ RelLabels[i] = <<runRelConst[i].code, runRelConst[i].value>>
    BY <1>1 DEF RelLabels
  <2>2. PICK s \in RelSlots : s[3] = <<runRelConst[i].code, runRelConst[i].value>>
    BY <1>1, <2>1 DEF HoldInv, HasSlots
  <2>3. Counts(s[1], s[2]) => s[1] \in held
    BY <1>1 DEF Counts, InHand, Asleep
  <2>4. /\ s[2] \in DOMAIN ActsOf(s[1])
        /\ ActsOf(s[1])[s[2]].type = "relconst"
        /\ <<ActsOf(s[1])[s[2]].code, ActsOf(s[1])[s[2]].value>> = s[3]
        /\ s[1] \in held
    BY <2>2, <2>3 DEF RelSlots
  <2>5. /\ ActsOf(s[1])[s[2]].code = runRelConst[i].code
        /\ ActsOf(s[1])[s[2]].value = runRelConst[i].value
    BY <2>2, <2>4
  <2>6. ActsOf(s[1])[s[2]] \in ActionsOf(curmap, s[1])
    BY <2>4 DEF ActsOf, ActionsOf
  <2>7. QED
    BY <2>4, <2>5, <2>6
<1>2. HoldInv => RelConstOnlyWhileHeld
  BY <1>1 DEF RelConstOnlyWhileHeld
<1>3. HoldInv /\ [Next]_vars => HoldInv'
  BY HoldStep
<1>4. QED
  BY HoldInit, <1>2, <1>3, PTL DEF Spec
=============================================================================
