------------------------ MODULE DeviceControlProofs ------------------------
(***************************************************************************)
(* Theorems about clients that change the maps, binds, macros and profiles *)
(* of a device while its thread runs: types, the current map, what a       *)
(* client has to refrain from for nothing undefined to happen, and what a  *)
(* recording holds.                                                        *)
(***************************************************************************)
EXTENDS DeviceControl, DeviceProofs

-----------------------------------------------------------------------------
(* Types.                                                                   *)

LEMMA FreedTypes ==
  ASSUME NEW gone, NEW T, Dangling \in T, NEW p \in T
  PROVE  Freed(p, gone) \in T
BY DEF Freed

LEMMA ForgetMapsTypes ==
  ASSUME NEW gone,
         NEW stack \in Seq([map : Maps \cup {NULL, Dangling}, code : Keys])
  PROVE  /\ ForgetMaps(stack, gone) \in Seq([map : Maps \cup {NULL, Dangling}, code : Keys])
         /\ DOMAIN ForgetMaps(stack, gone) = DOMAIN stack
         /\ \A i \in DOMAIN stack :
              ForgetMaps(stack, gone)[i].map = Freed(stack[i].map, gone)
<1> DEFINE T == [map : Maps \cup {NULL, Dangling}, code : Keys]
<1>1. Len(stack) \in Nat /\ DOMAIN stack = 1..Len(stack) /\ \A i \in DOMAIN stack : stack[i] \in T
  BY Positions
<1>2. ASSUME NEW s \in T
      PROVE  /\ [s EXCEPT !.map = Freed(@, gone)] \in T
             /\ [s EXCEPT !.map = Freed(@, gone)].map = Freed(s.map, gone)
  BY DEF Freed
<1>3. ForgetMaps(stack, gone) \in [1..Len(stack) -> T]
  BY <1>1, <1>2 DEF ForgetMaps
<1>4. QED
  BY <1>1, <1>2, <1>3, FunctionIsSeq DEF ForgetMaps

LEMMA OtherMapsType ==
  ASSUME MapTypes, NEW m, Found(m)
  PROVE  OtherMaps(m) \in Seq(Maps)
BY FindMapFinds, RemoveAtProperties DEF MapTypes, OtherMaps

LEMMA HarmIsBoolean ==
  /\ SearchingMaps \in BOOLEAN
  /\ SearchingMacros \in BOOLEAN
  /\ \A m : Iterating(m) \in BOOLEAN /\ Touching(m) \in BOOLEAN
  /\ \A m, k : IteratingBind(m, k) \in BOOLEAN
BY DEF SearchingMaps, SearchingMacros, Performing, Iterating, IteratingBind, Touching, Replaying

LEMMA RacingType ==
  ASSUME NEW harm \in BOOLEAN, Racing(harm) \/ Hazardous(harm)
  PROVE  ub' \in BOOLEAN /\ (Careful => ~harm /\ ub' = FALSE)
BY DEF Racing, Hazardous

(* delmap leaves a map, and no profile is loaded meanwhile.                 *)
DeletesFromSome == deleting # NULL => loading = NULL /\ mappings # <<>>

LEMMA MapCommandType ==
  ASSUME ControlTypeOK, DeletesFromSome, MapCommand
  PROVE  ControlTypeOK'
<1>1. MapTypes /\ keybinds \in [Maps -> [Keys -> Bind]] /\ deleting \in {NULL} \cup Deletion
  BY DEF ControlTypeOK, TypeOK, MapTypes
<1>2. Unbound \in [Keys -> Bind]
  BY DEF Unbound, Bind
<1> DEFINE Goal == MapTypes' /\ ub' \in BOOLEAN /\ deleting' \in {NULL} \cup Deletion
<1>3. SUFFICES Goal
  <2>1. UNCHANGED <<keyVars, timerVars, recVars, ctlVars, seen, request, source, loading, early>>
    BY DEF MapCommand, NewMap, CopyMap, SwitchMap, DelMap, CompareMap, FreeMap, Deletes, OnMaps,
       Gives, controlVars
  <2>2. QED
    BY <2>1 DEF ControlTypeOK, TypeOK, KeyTypes, TimerTypes, RecTypes, CtlTypes, WindowTypes,
       keyVars, timerVars, recVars, ctlVars
<1>4. ASSUME NEW m \in Maps, NEW binds \in [Keys -> Bind], AddMap(m, binds), UNCHANGED deleting
      PROVE  Goal
  <2>1. ub' \in BOOLEAN
    BY <1>4, HarmIsBoolean, RacingType DEF AddMap
  <2>2. mappings' \in Seq(Maps) /\ keybinds' \in [Maps -> [Keys -> Bind]]
    BY <1>1, <1>4, AppendProperties DEF AddMap, MapTypes
  <2>3. QED
    BY <1>1, <1>4, <2>1, <2>2 DEF AddMap, MapTypes
<1>5. ASSUME NEW m \in Maps, NewMap(m) \/ SwitchMap(m)
      PROVE  Goal
  <2>1. CASE NewMap(m)
    BY <1>2, <1>4, <2>1 DEF NewMap, OnMaps, Gives, controlVars
  <2>2. CASE SwitchMap(m)
    BY <1>1, <2>2 DEF SwitchMap, OnMaps, Gives, controlVars, MapTypes, ControlTypeOK, TypeOK
  <2>3. QED
    BY <1>5, <2>1, <2>2
<1>6. ASSUME NEW src \in Maps, NEW dest \in Maps, CopyMap(src, dest)
      PROVE  Goal
  BY <1>1, <1>4, <1>6 DEF CopyMap, OnMaps, Gives, controlVars
<1>7. ASSUME NEW m \in Maps, DelMap(m)
      PROVE  Goal
  <2>1. OtherMaps(m) \in Seq(Maps)
    BY <1>1, <1>7, OtherMapsType DEF DelMap
  <2>2. ub' \in BOOLEAN
    BY <1>7, HarmIsBoolean, RacingType DEF DelMap
  <2>3. deleting' \in Deletion
    BY <1>7 DEF DelMap, Deletion
  <2>4. QED
    BY <1>1, <1>7, <2>1, <2>2, <2>3 DEF DelMap, MapTypes
<1>8. CASE CompareMap
  <2>1. Head(mappings) \in Maps
    BY <1>1, <1>8, HeadTailProperties DEF MapTypes, CompareMap, DeletesFromSome
  <2>2. deleting \in Deletion /\ deleting' = [deleting EXCEPT !.stage = "free"]
    BY <1>1, <1>8 DEF CompareMap
  <2>3. deleting' \in Deletion
    BY <2>2 DEF Deletion
  <2>4. UNCHANGED <<mappings, keybinds, mapStack>> /\ curmap' = Fallback(deleting.map)
        /\ ub' = (curmap \notin Maps)
    BY <1>8 DEF CompareMap
  <2>5. QED
    BY <1>1, <2>1, <2>3, <2>4 DEF Fallback, MapTypes
<1>9. CASE FreeMap
  <2>1. deleting \in Deletion /\ deleting.map \in Maps
    BY <1>1, <1>9 DEF FreeMap, Deletion
  <2>2. mapStack' \in Seq([map : Maps \cup {NULL, Dangling}, code : Keys])
    BY <1>1, <1>9, ForgetMapsTypes DEF FreeMap, MapTypes
  <2>3. keybinds' \in [Maps -> [Keys -> Bind]]
    BY <1>1, <1>2, <1>9 DEF FreeMap
  <2>4. curmap' \in Maps \cup {NULL, Dangling}
    BY <1>1, <1>9 DEF FreeMap, Freed, MapTypes
  <2>5. ub' \in BOOLEAN
    BY <1>9, HarmIsBoolean DEF FreeMap
  <2>6. QED
    BY <1>1, <1>9, <2>2, <2>3, <2>4, <2>5 DEF FreeMap, MapTypes
<1>10. QED
  BY <1>5, <1>6, <1>7, <1>8, <1>9 DEF MapCommand

LEMMA RebindType ==
  ASSUME ControlTypeOK, NEW command, NEW m \in Maps, NEW k \in Keys, NEW bind \in Bind,
         Rebind(command, m, k, bind)
  PROVE  ControlTypeOK'
<1>1. keybinds \in [Maps -> [Keys -> Bind]]
  BY DEF ControlTypeOK, TypeOK, MapTypes
<1>2. keybinds' = [keybinds EXCEPT ![m][k] = bind]
  BY DEF Rebind
<1>3. keybinds' \in [Maps -> [Keys -> Bind]]
  <2>1. [keybinds[m] EXCEPT ![k] = bind] \in [Keys -> Bind]
    BY <1>1
  <2>2. QED
    BY <1>1, <1>2, <2>1
<1>4. ub' \in BOOLEAN
  BY HarmIsBoolean, RacingType DEF Rebind
<1>5. UNCHANGED <<keyVars, timerVars, recVars, ctlVars, seen, request, controlVars>>
      /\ UNCHANGED <<mappings, curmap, mapStack>>
  BY DEF Rebind, OnMaps, Gives
<1>6. QED
  BY <1>3, <1>4, <1>5 DEF ControlTypeOK, TypeOK, MapTypes, KeyTypes, TimerTypes, RecTypes,
     CtlTypes, WindowTypes, keyVars, timerVars, recVars, ctlVars, controlVars

LEMMA BindCommandType ==
  ASSUME ControlTypeOK, BindCommand
  PROVE  ControlTypeOK'
<1>1. PICK m \in Maps, k \in Keys :
        \/ \E action \in ClientActions : AddAction(m, k, action)
        \/ \E i \in DOMAIN keybinds[m][k].actions : DelAction(m, k, i)
        \/ ClearActions(m, k)
        \/ \E dest \in Keys : CopyActions(m, k, dest)
  BY DEF BindCommand
<1>2. keybinds[m][k].actions \in Seq(BindAction)
  BY DEF ControlTypeOK, TypeOK, MapTypes, Bind
<1>3. \A b \in BOOLEAN, q \in Seq(BindAction) : [doModify |-> b, actions |-> q] \in Bind
  BY DEF Bind
<1>4. ASSUME NEW action \in ClientActions, AddAction(m, k, action)
      PROVE  ControlTypeOK'
  <2>1. Append(keybinds[m][k].actions, action) \in Seq(BindAction)
    BY <1>2, ControlIsTyped, AppendProperties
  <2>2. QED
    BY <1>3, <1>4, <2>1, RebindType DEF AddAction
<1>5. ASSUME NEW i \in DOMAIN keybinds[m][k].actions, DelAction(m, k, i)
      PROVE  ControlTypeOK'
  <2> DEFINE rest == RemoveAt(keybinds[m][k].actions, i)
  <2>1. rest \in Seq(BindAction)
    BY <1>2, RemoveAtProperties
  <2>2. Rebind("delaction", m, k, [doModify |-> rest # <<>>, actions |-> rest])
    BY <1>5 DEF DelAction
  <2> HIDE DEF rest
  <2>3. (rest # <<>>) \in BOOLEAN
    OBVIOUS
  <2>4. [doModify |-> rest # <<>>, actions |-> rest] \in Bind
    BY <2>1, <2>3 DEF Bind
  <2>5. QED
    BY <2>2, <2>4, RebindType
<1>6. ASSUME ClearActions(m, k)
      PROVE  ControlTypeOK'
  <2>1. <<>> \in Seq(BindAction)
    OBVIOUS
  <2>2. QED
    BY <1>3, <1>6, <2>1, RebindType DEF ClearActions
<1>7. ASSUME NEW dest \in Keys, CopyActions(m, k, dest)
      PROVE  ControlTypeOK'
  BY <1>2, <1>3, <1>7, RebindType DEF CopyActions
<1>8. QED
  BY <1>1, <1>4, <1>5, <1>6, <1>7

(* The commands on macros, other than recordmacro.                          *)
EditMacro ==
  \/ \E m \in MacroNames :
       \/ NewMacro(m)
       \/ \E step \in ClientSteps : InsMacroAct(m, step)
       \/ \E i \in DOMAIN macros[m] : DelMacroAct(m, i)
       \/ ClearMacro(m)
       \/ DelMacro(m)
  \/ \E src, dest \in MacroNames : CopyMacro(src, dest)

LEMMA MacroCommands ==
  ASSUME ControlTypeOK, MacroCommand
  PROVE  \/ EditMacro
         \/ /\ Client
            /\ UNCHANGED <<source, loading, deleting>>
            /\ early' = early \/ EndStart
<1>1. request # NULL => request.stopKey \in StopKeys
  BY DEF ControlTypeOK, TypeOK, WindowTypes, Request
<1>2. (GoOnRecording \/ EndStart) => Client /\ UNCHANGED <<source, loading, deleting>>
  BY <1>1 DEF Client, GoOnRecording, EndStart, StoreStopKey, StoreIgnored, controlVars
<1>3. ASSUME NEW m \in MacroNames, NEW s \in StopKeys, StartRecording(m, s)
      PROVE  Client /\ UNCHANGED <<source, loading, deleting, early>>
  BY <1>3 DEF Client, StartRecording, controlVars
<1>4. GoOnRecording => early' = early
  BY DEF GoOnRecording, controlVars
<1>5. QED
  BY <1>2, <1>3, <1>4 DEF MacroCommand, EditMacro

LEMMA EditMacroType ==
  ASSUME ControlTypeOK, EditMacro
  PROVE  ControlTypeOK'
<1>1. macros \in [MacroNames -> Seq(MacroStep)] /\ runMacro \in Seq(Playing)
  BY DEF ControlTypeOK, TypeOK, RecTypes, TimerTypes
<1>2. ub' \in BOOLEAN
  <2>1. \A src : (SearchingMacros \/ recording = src) \in BOOLEAN
                 /\ (SearchingMacros \/ Touching(src)) \in BOOLEAN
    OBVIOUS
  <2>2. QED
    BY <2>1, HarmIsBoolean, RacingType DEF EditMacro, NewMacro, CopyMacro, InsMacroAct,
       DelMacroAct, ClearMacro, DelMacro
<1>3. SUFFICES RecTypes' /\ runMacro' \in Seq(Playing)
  <2>1. UNCHANGED <<mapVars, keyVars, runTurbo, runRelConst, ctlVars, seen, request, controlVars>>
    BY DEF EditMacro, NewMacro, CopyMacro, InsMacroAct, DelMacroAct, ClearMacro, DelMacro,
       OnMacros, Gives
  <2>2. QED
    BY <1>2, <2>1 DEF ControlTypeOK, TypeOK, MapTypes, KeyTypes, TimerTypes, CtlTypes,
       WindowTypes, mapVars, keyVars, ctlVars, controlVars
<1>4. ASSUME NEW m \in MacroNames, NEW steps \in Seq(MacroStep), SetSteps(m, steps),
             liveMacros' \in SUBSET MacroNames,
             UNCHANGED <<recordStopKey, ignoreRecord, sinceLast>>
      PROVE  RecTypes' /\ runMacro' \in Seq(Playing)
  BY <1>1, <1>4 DEF SetSteps, RecTypes, ControlTypeOK, TypeOK
<1>5. liveMacros \in SUBSET MacroNames /\ <<>> \in Seq(MacroStep)
  BY DEF ControlTypeOK, TypeOK, RecTypes
<1>6. ASSUME NEW m \in MacroNames, NewMacro(m) \/ ClearMacro(m)
      PROVE  RecTypes' /\ runMacro' \in Seq(Playing)
  BY <1>4, <1>5, <1>6 DEF NewMacro, AddMacro, ClearMacro, OnMacros
<1>7. ASSUME NEW src \in MacroNames, NEW dest \in MacroNames, CopyMacro(src, dest)
      PROVE  RecTypes' /\ runMacro' \in Seq(Playing)
  BY <1>1, <1>4, <1>5, <1>7 DEF CopyMacro, AddMacro, OnMacros
<1>8. ASSUME NEW m \in MacroNames, NEW step \in ClientSteps, InsMacroAct(m, step)
      PROVE  RecTypes' /\ runMacro' \in Seq(Playing)
  <2>1. Append(macros[m], step) \in Seq(MacroStep)
    BY <1>1, ControlIsTyped, AppendProperties
  <2>2. QED
    BY <1>4, <1>5, <1>8, <2>1 DEF InsMacroAct, OnMacros
<1>9. ASSUME NEW m \in MacroNames, NEW i \in DOMAIN macros[m], DelMacroAct(m, i)
      PROVE  RecTypes' /\ runMacro' \in Seq(Playing)
  <2>1. RemoveAt(macros[m], i) \in Seq(MacroStep)
    BY <1>1, RemoveAtProperties
  <2>2. QED
    BY <1>4, <1>5, <1>9, <2>1 DEF DelMacroAct, OnMacros
<1>10. ASSUME NEW m \in MacroNames, DelMacro(m)
       PROVE  RecTypes' /\ runMacro' \in Seq(Playing)
  <2>1. macros' \in [MacroNames -> Seq(MacroStep)]
    BY <1>1, <1>5, <1>10 DEF DelMacro
  <2>2. recording' \in MacroNames \cup {NULL, Dangling}
    BY <1>10 DEF DelMacro, Freed, ControlTypeOK, TypeOK, RecTypes
  <2>3. runMacro' \in Seq(Playing)
    <3>1. Len(runMacro) \in Nat /\ DOMAIN runMacro = 1..Len(runMacro)
          /\ \A i \in DOMAIN runMacro : runMacro[i] \in Playing
      BY <1>1, Positions
    <3>2. \A p \in Playing : [p EXCEPT !.which = Freed(@, {m})] \in Playing
      BY DEF Freed, Playing
    <3>3. runMacro' = [i \in 1..Len(runMacro) |-> [runMacro[i] EXCEPT !.which = Freed(@, {m})]]
      BY <1>10, <3>1 DEF DelMacro
    <3>4. runMacro' \in [1..Len(runMacro) -> Playing]
      BY <3>1, <3>2, <3>3
    <3>5. QED
      BY <3>1, <3>4, FunctionIsSeq
  <2>4. QED
    BY <1>10, <2>1, <2>2, <2>3 DEF DelMacro, OnMacros, RecTypes, ControlTypeOK, TypeOK
<1>11. QED
  BY <1>6, <1>7, <1>8, <1>9, <1>10 DEF EditMacro

LEMMA MacroCommandType ==
  ASSUME ControlTypeOK, MacroCommand
  PROVE  ControlTypeOK'
<1>1. CASE EditMacro
  BY <1>1, EditMacroType
<1>2. CASE Client /\ UNCHANGED <<source, loading, deleting>> /\ (early' = early \/ EndStart)
  <2>1. TypeOK'
    BY <1>2, NextType DEF Next, ControlTypeOK
  <2>2. early' \in SUBSET Keys
    BY <1>2, <2>1 DEF EndStart, Recorded, Missed, ControlTypeOK, TypeOK, KeyTypes, RecTypes
  <2>3. QED
    BY <1>2, <2>1, <2>2 DEF ControlTypeOK
<1>3. QED
  BY <1>1, <1>2, MacroCommands

LEMMA ProfileCommandType ==
  ASSUME ControlTypeOK, ProfileCommand
  PROVE  ControlTypeOK'
<1>1. MapTypes /\ loading \in {NULL} \cup Load
  BY DEF ControlTypeOK, TypeOK
<1> DEFINE Goal == MapTypes' /\ ub' \in BOOLEAN /\ loading' \in {NULL} \cup Load
<1>2. SUFFICES Goal
  <2>1. UNCHANGED <<keyVars, timerVars, recVars, ctlVars, seen, request, source, deleting, early>>
    BY DEF ProfileCommand, StartLoad, FreeMaps, LoadMap, FinishLoad, Loads
  <2>2. QED
    BY <2>1 DEF ControlTypeOK, TypeOK, KeyTypes, TimerTypes, RecTypes, CtlTypes, WindowTypes,
       keyVars, timerVars, recVars, ctlVars
<1>3. ASSUME NEW profile \in Profiles, StartLoad(profile)
      PROVE  Goal
  <2>1. loading' \in Load
    BY <1>3, ControlIsTyped DEF StartLoad, Load
  <2>2. QED
    BY <1>1, <1>3, <2>1 DEF StartLoad, MapTypes, ControlTypeOK, TypeOK
<1>4. CASE FreeMaps
  <2>1. mapStack' \in Seq([map : Maps \cup {NULL, Dangling}, code : Keys])
    BY <1>1, <1>4, ForgetMapsTypes DEF FreeMaps, MapTypes
  <2>2. loading \in Load /\ loading' = [loading EXCEPT !.stage = "maps"]
    BY <1>1, <1>4 DEF FreeMaps
  <2>3. loading' \in Load
    BY <2>2 DEF Load
  <2>4. <<>> \in Seq(Maps) /\ curmap' \in Maps \cup {NULL, Dangling}
    BY <1>1, <1>4 DEF FreeMaps, Freed, MapTypes
  <2>5. ub' \in BOOLEAN
    BY <1>4 DEF FreeMaps
  <2>6. QED
    BY <1>1, <1>4, <2>1, <2>3, <2>4, <2>5 DEF FreeMaps, MapTypes
<1>5. CASE LoadMap
  <2> DEFINE rest == loading.rest
  <2>1. /\ loading \in Load /\ rest \in Profile /\ rest.maps \in Seq(Maps)
        /\ rest.binds \in [Maps -> [Keys -> Bind]]
        /\ rest.maps # <<>>
    BY <1>1, <1>5 DEF LoadMap, Load, Profile
  <2>2. Head(rest.maps) \in Maps /\ Tail(rest.maps) \in Seq(Maps)
    BY <2>1, HeadTailProperties
  <2>3. mappings' \in Seq(Maps)
    BY <1>1, <1>5, <2>2, AppendProperties DEF LoadMap, Loaded, MapTypes
  <2>4. keybinds' \in [Maps -> [Keys -> Bind]]
    BY <1>1, <1>5, <2>1, <2>2 DEF LoadMap, MapTypes
  <2>5. loading' \in Load
    BY <1>5, <2>1, <2>2 DEF LoadMap, Load, Profile
  <2>6. ub' \in BOOLEAN
    BY <1>5, HarmIsBoolean DEF LoadMap
  <2>7. QED
    BY <1>1, <1>5, <2>3, <2>4, <2>5, <2>6 DEF LoadMap, MapTypes
<1>6. CASE FinishLoad
  <2>1. loading.rest.curmap \in Maps
    BY <1>1, <1>6 DEF FinishLoad, Load, Profile
  <2>2. QED
    BY <1>1, <1>6, <2>1 DEF FinishLoad, MapTypes, ControlTypeOK, TypeOK
<1>7. QED
  BY <1>3, <1>4, <1>5, <1>6 DEF ProfileCommand

LEMMA ControlTypeStep ==
  ASSUME ControlTypeOK, DeletesFromSome, [ControlNext]_<<vars, controlVars>>
  PROVE  ControlTypeOK'
<1>1. CASE ThreadStep
  <2>1. TypeOK'
    BY <1>1, NextType DEF ThreadStep, Next, ControlTypeOK
  <2>2. source' \in Maps \cup {NULL, Dangling}
    BY <1>1, <2>1 DEF ThreadStep, ControlTypeOK, TypeOK, MapTypes
  <2>3. QED
    BY <1>1, <2>1, <2>2 DEF ThreadStep, ControlTypeOK
<1>2. CASE WhichKey
  BY <1>2 DEF WhichKey, ControlTypeOK, TypeOK, MapTypes, KeyTypes, TimerTypes, RecTypes,
     CtlTypes, WindowTypes, mapVars, timerVars, recVars, ctlVars, controlVars
<1>3. CASE UNCHANGED <<vars, controlVars>>
  <2>1. TypeOK'
    BY <1>3, NextType DEF ControlTypeOK
  <2>2. QED
    BY <1>3, <2>1 DEF ControlTypeOK, controlVars
<1>4. QED
  BY <1>1, <1>2, <1>3, MapCommandType, BindCommandType, MacroCommandType, ProfileCommandType
     DEF ControlNext, Command

LEMMA DeletesFromSomeStep ==
  ASSUME ControlTypeOK, DeletesFromSome, [ControlNext]_<<vars, controlVars>>
  PROVE  DeletesFromSome'
<1>1. CASE ThreadStep
  <2>1. mappings' = mappings /\ UNCHANGED <<loading, deleting>>
    BY <1>1, ThreadMaps DEF ThreadStep, mapVars, Unshift, ActSwitchMap, ActShiftMap, Performs
  <2>2. QED
    BY <2>1 DEF DeletesFromSome
<1>2. CASE \E m \in Maps : DelMap(m)
  <2>1. PICK m \in Maps : DelMap(m)
    BY <1>2
  <2>2. /\ MapTypes /\ Found(m) /\ Len(mappings) > 1
        /\ loading = NULL /\ loading' = loading /\ mappings' = OtherMaps(m)
    BY <2>1 DEF DelMap, Free, Deletes, ControlTypeOK, TypeOK
  <2>3. Len(OtherMaps(m)) = Len(mappings) - 1 /\ Len(mappings) \in Nat
    BY <2>2, FindMapFinds, RemoveAtProperties, Positions DEF MapTypes, OtherMaps
  <2>4. OtherMaps(m) # <<>>
    BY <2>2, <2>3
  <2>5. QED
    BY <2>2, <2>4 DEF DeletesFromSome
<1>3. CASE CompareMap \/ FreeMap
  BY <1>3 DEF CompareMap, FreeMap, Deletes, DeletesFromSome
<1>4. CASE ProfileCommand
  BY <1>4 DEF ProfileCommand, StartLoad, FreeMaps, LoadMap, FinishLoad, Free, Loads,
     DeletesFromSome
<1>5. CASE \/ \E m \in Maps : NewMap(m) \/ SwitchMap(m)
           \/ \E src, dest \in Maps : CopyMap(src, dest)
           \/ BindCommand \/ WhichKey \/ EditMacro
  <2> DEFINE Left == deleting = NULL /\ deleting' = deleting
  <2>1. ASSUME \E m \in Maps : NewMap(m) \/ SwitchMap(m)
        PROVE  Left
    BY <2>1 DEF NewMap, SwitchMap, OnMaps, Gives, Free, controlVars
  <2>2. ASSUME \E src, dest \in Maps : CopyMap(src, dest)
        PROVE  Left
    BY <2>2 DEF CopyMap, OnMaps, Gives, Free, controlVars
  <2>3. ASSUME BindCommand
        PROVE  Left
    BY <2>3 DEF BindCommand, AddAction, DelAction, ClearActions, CopyActions, Rebind, OnMaps,
       Gives, Free, controlVars
  <2>4. ASSUME WhichKey \/ EditMacro
        PROVE  Left
    BY <2>4 DEF WhichKey, EditMacro, NewMacro, CopyMacro, InsMacroAct, DelMacroAct,
       ClearMacro, DelMacro, OnMacros, Gives, Free, controlVars
  <2>5. Left
    BY <1>5, <2>1, <2>2, <2>3, <2>4
  <2>6. QED
    BY <2>5 DEF DeletesFromSome
<1>6. CASE MacroCommand
  <2>1. CASE Client /\ UNCHANGED <<source, loading, deleting>>
    <3>1. mappings' = mappings
      BY <2>1, ClientKeepsAll DEF mapVars
    <3>2. QED
      BY <2>1, <3>1 DEF DeletesFromSome
  <2>2. QED
    BY <1>5, <1>6, <2>1, MacroCommands
<1>7. CASE UNCHANGED <<vars, controlVars>>
  BY <1>7 DEF vars, mapVars, controlVars, DeletesFromSome
<1>8. QED
  BY <1>1, <1>2, <1>3, <1>4, <1>5, <1>6, <1>7 DEF ControlNext, Command, MapCommand

LEMMA ControlTypeInit == ControlInit => ControlTypeOK /\ DeletesFromSome
BY InitType DEF ControlInit, ControlTypeOK, DeletesFromSome

(* The thread and the commands keep every type whatever clients do, careful *)
(* or not: what they leave behind are maps, macros or pointers known not to *)
(* point to one.                                                            *)
THEOREM ControlTypes == ControlSpec => []ControlTypeOK
<1>1. /\ ControlTypeOK /\ DeletesFromSome /\ [ControlNext]_<<vars, controlVars>>
      => (ControlTypeOK /\ DeletesFromSome)'
  BY ControlTypeStep, DeletesFromSomeStep
<1>2. QED
  BY ControlTypeInit, <1>1, PTL DEF ControlSpec

-----------------------------------------------------------------------------
(* Clients that refrain from what the code cannot survive.                  *)

(* newmap and copymap refuse a name there is, and so do files they made.    *)
NamedOnce(q) == \A i, j \in DOMAIN q : q[i] = q[j] => i = j

Among(m, q) == \E i \in DOMAIN q : q[i] = m

(* The other entries stay, each once.                                       *)
LEMMA RemoveAtKeeps ==
  ASSUME NEW S, NEW q \in Seq(S), NEW i \in DOMAIN q
  PROVE  /\ \A k \in DOMAIN q \ {i} : \E j \in DOMAIN RemoveAt(q, i) : RemoveAt(q, i)[j] = q[k]
         /\ NamedOnce(q) => /\ NamedOnce(RemoveAt(q, i))
                            /\ \A j \in DOMAIN RemoveAt(q, i) : RemoveAt(q, i)[j] # q[i]
<1> DEFINE r == RemoveAt(q, i)
           n == Len(q)
<1>1. /\ n \in Nat /\ DOMAIN q = 1..n /\ i \in 1..n
      /\ DOMAIN r = 1..(n - 1)
      /\ \A j \in 1..(n - 1) : r[j] = IF j < i THEN q[j] ELSE q[j + 1]
  <2>1. n \in Nat /\ DOMAIN q = 1..n
    BY Positions
  <2>2. /\ r \in Seq(S) /\ Len(r) = n - 1
        /\ \A j \in 1..(n - 1) : r[j] = IF j < i THEN q[j] ELSE q[j + 1]
    BY RemoveAtProperties
  <2>3. DOMAIN r = 1..(n - 1)
    BY <2>2, Positions
  <2>4. QED
    BY <2>1, <2>2, <2>3
<1> HIDE DEF r, n
<1>2. ASSUME NEW k \in DOMAIN q \ {i}
      PROVE  \E j \in DOMAIN r : r[j] = q[k]
  <2>1. CASE k < i
    BY <1>1, <2>1
  <2>2. CASE k > i
    <3>1. k - 1 \in 1..(n - 1) /\ ~(k - 1 < i) /\ (k - 1) + 1 = k
      BY <1>1, <2>2
    <3>2. QED
      BY <1>1, <3>1
  <2>3. k < i \/ k > i
    BY <1>1
  <2>4. QED
    BY <2>1, <2>2, <2>3
<1>3. ASSUME NamedOnce(q)
      PROVE  NamedOnce(r) /\ \A j \in DOMAIN r : r[j] # q[i]
  <2>1. \A j \in 1..(n - 1) : \E k \in 1..n : k = (IF j < i THEN j ELSE j + 1) /\ k # i /\ r[j] = q[k]
    BY <1>1
  <2>2. \A j \in DOMAIN r : r[j] # q[i]
    BY <1>1, <1>3, <2>1 DEF NamedOnce
  <2>3. ASSUME NEW j \in 1..(n - 1), NEW l \in 1..(n - 1), r[j] = r[l]
        PROVE  j = l
    <3>1. PICK k \in 1..n : k = (IF j < i THEN j ELSE j + 1) /\ r[j] = q[k]
      BY <2>1
    <3>2. PICK o \in 1..n : o = (IF l < i THEN l ELSE l + 1) /\ r[l] = q[o]
      BY <2>1
    <3>3. k = o
      BY <1>1, <1>3, <2>3, <3>1, <3>2 DEF NamedOnce
    <3>4. QED
      BY <1>1, <3>1, <3>2, <3>3
  <2>4. QED
    BY <1>1, <2>2, <2>3 DEF NamedOnce
<1>4. QED
  BY <1>2, <1>3 DEF r

LEMMA OtherMapsAre ==
  ASSUME MapTypes, NamedOnce(mappings), NEW m, Found(m), Len(mappings) > 1
  PROVE  /\ NamedOnce(OtherMaps(m))
         /\ \A p : Found(p) /\ p # m => \E i \in DOMAIN OtherMaps(m) : OtherMaps(m)[i] = p
         /\ Head(OtherMaps(m)) # m
         /\ \E i \in DOMAIN OtherMaps(m) : OtherMaps(m)[i] = Head(OtherMaps(m))
<1> DEFINE x == FindMap(m)
<1>1. x \in DOMAIN mappings /\ mappings[x] = m /\ OtherMaps(m) = RemoveAt(mappings, x)
  BY FindMapFinds DEF OtherMaps
<1>2. mappings \in Seq(Maps)
  BY DEF MapTypes
<1> HIDE DEF x
<1>3. /\ NamedOnce(OtherMaps(m))
      /\ \A j \in DOMAIN OtherMaps(m) : OtherMaps(m)[j] # m
      /\ \A k \in DOMAIN mappings \ {x} :
           \E j \in DOMAIN OtherMaps(m) : OtherMaps(m)[j] = mappings[k]
  BY <1>1, <1>2, RemoveAtKeeps
<1>4. ASSUME NEW p, Found(p), p # m
      PROVE  \E i \in DOMAIN OtherMaps(m) : OtherMaps(m)[i] = p
  <2>1. PICK k \in DOMAIN mappings : mappings[k] = p
    BY <1>4, FoundIsMap
  <2>2. QED
    BY <1>1, <1>3, <1>4, <2>1
<1>5. 1 \in DOMAIN OtherMaps(m) /\ Head(OtherMaps(m)) = OtherMaps(m)[1]
  <2>1. OtherMaps(m) \in Seq(Maps) /\ Len(OtherMaps(m)) = Len(mappings) - 1
    BY <1>1, <1>2, RemoveAtProperties
  <2>2. Len(mappings) \in Nat
    BY <1>2, Positions
  <2>3. OtherMaps(m) # <<>> /\ DOMAIN OtherMaps(m) = 1..Len(OtherMaps(m))
    BY <2>1, <2>2, Positions
  <2>4. 1 \in DOMAIN OtherMaps(m)
    BY <2>1, <2>2, <2>3
  <2>5. QED
    BY <2>1, <2>3, <2>4, HeadTailProperties
<1>6. QED
  BY <1>3, <1>4, <1>5

(* A device starts with maps that have names of their own, one of which is  *)
(* current, and profiles are as saveProfile writes them; `recording' starts *)
(* as the null pointer that no constructor makes it.  The client refrains   *)
(* from what DeviceControl says a careful one does.                         *)
StartsCareful ==
  /\ Careful
  /\ NamedOnce(BaseMappings)
  /\ \A m \in StartMaps : Among(m, BaseMappings)
  /\ \A profile \in Profiles : NamedOnce(profile.maps) /\ Among(profile.curmap, profile.maps)
  /\ Dangling \notin RecordingInit

StackFound == \A i \in DOMAIN mapStack : Found(mapStack[i].map)

(* No command is at work: the current map and the ones to go back to exist. *)
WhileIdle == loading = NULL /\ deleting = NULL => Found(curmap) /\ StackFound

(* A profile loads: the thread neither has nor goes back to a map, and is   *)
(* not in the middle of anything it has a map for.                          *)
ThreadHasNoMap ==
  /\ curmap = NULL
  /\ mapStack = <<>>
  /\ pc # "actions"
  /\ pc = "rewire" => seen = Nothing

(* The maps that are loaded already and those that are still to load, one   *)
(* of which is the one that will be current.                                *)
LoadsApart(rest) ==
  /\ NamedOnce(rest.maps)
  /\ loading.stage = "maps" => \A i \in DOMAIN rest.maps : ~Found(rest.maps[i])
  /\ Among(rest.curmap, rest.maps) \/ (loading.stage = "maps" /\ Found(rest.curmap))

WhileLoading ==
  loading # NULL => /\ deleting = NULL
                    /\ ThreadHasNoMap
                    /\ LoadsApart(loading.rest)

(* A map is deleted: the thread has nothing to do with maps, and no shift   *)
(* goes back to it.                                                         *)
WhileDeleting ==
  deleting # NULL => /\ loading = NULL
                     /\ ~Handling
                     /\ StackFound
                     /\ ~Found(deleting.map)
                     /\ mappings # <<>>
                     /\ \/ Found(curmap)
                        \/ deleting.stage = "compare" /\ curmap = deleting.map

MapsKept == NamedOnce(mappings) /\ WhileIdle /\ WhileLoading /\ WhileDeleting

CareInv ==
  /\ ControlTypeOK
  /\ ~ub
  /\ PlaysWell
  /\ SeenHolds
  /\ MapsKept

(* What follows for the thread.                                             *)
LEMMA CareGives ==
  ASSUME CareInv
  PROVE  /\ TypeOK /\ MapTypes /\ ub = FALSE
         /\ curmap # Dangling
         /\ ShiftsAreSafe
         /\ pc = "actions" => loading = NULL /\ deleting = NULL /\ curmap \in Maps
         /\ deleting # NULL => deleting \in Deletion /\ deleting.map \in Maps /\ curmap \in Maps
         /\ loading # NULL => loading \in Load /\ loading.rest \in Profile
<1>1. /\ TypeOK /\ MapTypes /\ ub = FALSE
      /\ loading \in {NULL} \cup Load /\ deleting \in {NULL} \cup Deletion
  BY DEF CareInv, ControlTypeOK, TypeOK
<1>2. \A m : Found(m) => m \in Maps
  BY <1>1, FoundIsMap
<1>3. deleting # NULL => deleting \in Deletion /\ deleting.map \in Maps
  BY <1>1 DEF Deletion
<1>4. loading # NULL => loading \in Load /\ loading.rest \in Profile
  BY <1>1 DEF Load
<1>5. deleting # NULL => curmap \in Maps
  BY <1>2, <1>3 DEF CareInv, MapsKept, WhileDeleting
<1>6. StackFound \/ mapStack = <<>>
  BY DEF CareInv, MapsKept, WhileIdle, WhileLoading, WhileDeleting, ThreadHasNoMap
<1>7. ShiftsAreSafe
  BY <1>2, <1>6 DEF StackFound, ShiftsAreSafe
<1>8. loading # NULL => curmap = NULL
  BY DEF CareInv, MapsKept, WhileLoading, ThreadHasNoMap
<1>9. loading = NULL /\ deleting = NULL => curmap \in Maps
  BY <1>2 DEF CareInv, MapsKept, WhileIdle
<1>10. curmap # Dangling
  BY <1>5, <1>8, <1>9, PointersAreDistinct
<1>11. pc = "actions" => loading = NULL /\ deleting = NULL
  BY DEF CareInv, MapsKept, WhileLoading, WhileDeleting, ThreadHasNoMap, Handling
<1>12. QED
  BY <1>1, <1>3, <1>4, <1>5, <1>7, <1>9, <1>10, <1>11

(* The invariant of the maps in the next state, from what it is made of.    *)
LEMMA IdleKeeps ==
  ASSUME loading' = NULL, deleting' = NULL, NamedOnce(mappings'), Found(curmap)', StackFound'
  PROVE  MapsKept'
BY DEF MapsKept, WhileIdle, WhileLoading, WhileDeleting

LEMMA DeletingKeeps ==
  ASSUME deleting' # NULL, loading' = NULL, NamedOnce(mappings'), ~Handling', StackFound',
         ~Found(deleting.map)', mappings' # <<>>,
         Found(curmap)' \/ (deleting'.stage = "compare" /\ curmap' = deleting'.map)
  PROVE  MapsKept'
BY DEF MapsKept, WhileIdle, WhileLoading, WhileDeleting

LEMMA LoadingKeeps ==
  ASSUME loading' # NULL, deleting' = NULL, NamedOnce(mappings'), ThreadHasNoMap',
         LoadsApart(loading.rest)'
  PROVE  MapsKept'
BY DEF MapsKept, WhileIdle, WhileLoading, WhileDeleting

(* What a command or a step that leaves the maps alone keeps.               *)
LEMMA SameMapsKeep ==
  ASSUME UNCHANGED <<mappings, curmap, mapStack, loading, deleting>>
  PROVE  /\ NamedOnce(mappings) => NamedOnce(mappings')
         /\ \A m : Found(m) => \E i \in DOMAIN mappings' : mappings'[i] = m
         /\ Found(curmap) => Found(curmap)'
         /\ Found(deleting.map)' => Found(deleting.map)
         /\ StackFound => StackFound'
         /\ LoadsApart(loading.rest) => LoadsApart(loading.rest)'
BY DEF Found, StackFound, LoadsApart, NamedOnce, Among

LEMMA StillKeeps ==
  ASSUME MapsKept, UNCHANGED <<mapVars, ctlVars, seen, loading, deleting>>
  PROVE  MapsKept'
<1>1. UNCHANGED <<mappings, curmap, mapStack, loading, deleting, pc, seen>>
  BY DEF mapVars, ctlVars
<1>2. Handling' = Handling /\ (ThreadHasNoMap => ThreadHasNoMap')
  BY <1>1 DEF Handling, ThreadHasNoMap
<1>3. QED
  BY <1>1, <1>2, SameMapsKeep DEF MapsKept, WhileIdle, WhileLoading, WhileDeleting

LEMMA StillPlays ==
  ASSUME PlaysWell, UNCHANGED <<timerVars, recVars, ctlVars>>
  PROVE  PlaysWell'
BY DEF timerVars, recVars, ctlVars, PlaysWell, Finished

LEMMA StillSees ==
  ASSUME SeenHolds, UNCHANGED <<mappings, curmap, ctlVars, seen>>
  PROVE  SeenHolds'
BY DEF ctlVars, SeenHolds, Now, Pressed

-----------------------------------------------------------------------------
(* The thread among careful clients.                                        *)

(* Without a map it finds none.                                             *)
LEMMA NoMapThread ==
  ASSUME ThreadHasNoMap, Thread \/ Input \/ Tick
  PROVE  UNCHANGED mapVars /\ ThreadHasNoMap'
<1>1. curmap = NULL /\ curmap \notin Maps /\ mapStack = <<>> /\ pc # "actions"
  BY PointersAreDistinct DEF ThreadHasNoMap
<1>2. ~\E i \in DOMAIN mapStack : Unshift(i)
  BY <1>1
<1>3. ~ActSwitchMap /\ ~ActShiftMap
  BY <1>1 DEF ActSwitchMap, ActShiftMap, Performs, At
<1>4. UNCHANGED mapVars
  BY <1>2, <1>3, ThreadMaps
<1>5. SUFFICES pc' # "actions" /\ (pc' = "rewire" => seen' = Nothing)
  BY <1>1, <1>4 DEF ThreadHasNoMap, mapVars
<1>6. CASE Select \/ Timers \/ Input \/ Tick
  BY <1>1, <1>6 DEF Select, Timers, FireTurbo, FireRelConst, FireMacro, PlayStep, PlayWild,
     Cleanup, Input, ReadKey, ReadRel, ReadOther, Tick, At, ctlVars
<1>7. CASE Rewire
  <2>1. pc = "rewire" => seen = Nothing
    BY DEF ThreadHasNoMap
  <2>2. Nothing.what = "nothing"
    BY DEF Nothing
  <2>3. QED
    BY <1>1, <1>7, <2>1, <2>2 DEF Rewire, Unshift, NoUnshift, TestMap, TestBind, RewireUnmapped,
       RewirePlain, RewireBound, RewireRel, RewireOther, RewireWild, Rewired, Uses, At
<1>8. CASE Act
  BY <1>1, <1>8 DEF Act, ActKey, ActTurboPress, ActTurboRelease, ActRel, ActRelConstPress,
     ActRelConstRelease, LookUpMap, ActSwitchMap, ActShiftMap, ActMacro, ActNothing, FinishEvent,
     Performs, At
<1>9. QED
  BY <1>6, <1>7, <1>8 DEF Thread

(* With no event to handle it stays away from maps.                         *)
LEMMA QuietThread ==
  ASSUME ~Handling, Thread \/ Tick
  PROVE  UNCHANGED mapVars /\ ~Handling'
<1>1. pc \notin {"event", "rewire", "actions"}
  BY DEF Handling
<1>2. CASE Select \/ Timers \/ Tick
  BY <1>1, <1>2 DEF Select, Timers, FireTurbo, FireRelConst, FireMacro, PlayStep, PlayWild,
     Cleanup, Tick, At, ctlVars, Handling
<1>3. ~Rewire /\ ~Act
  BY <1>1 DEF Rewire, Unshift, NoUnshift, TestMap, TestBind, RewireUnmapped, RewirePlain,
     RewireBound, RewireRel, RewireOther, RewireWild, Act, ActKey, ActTurboPress, ActTurboRelease,
     ActRel, ActRelConstPress, ActRelConstRelease, LookUpMap, ActSwitchMap, ActShiftMap, ActMacro,
     ActNothing, FinishEvent, Performs, At
<1>4. QED
  BY <1>2, <1>3 DEF Thread

(* A shift ends: what is left of mapStack was there before.                 *)
LEMMA UnshiftShifts ==
  ASSUME MapTypes, StackFound, NEW i \in DOMAIN mapStack, Unshift(i)
  PROVE  StackFound' /\ Found(curmap)'
<1>1. mapStack \in Seq([map : Maps \cup {NULL, Dangling}, code : Keys])
  BY DEF MapTypes
<1>2. Len(mapStack) \in DOMAIN mapStack /\ \A j \in 1..i : j \in DOMAIN mapStack
  BY <1>1, Positions
<1>3. /\ mapStack' \in Seq([map : Maps \cup {NULL, Dangling}, code : Keys])
      /\ Len(mapStack') = i
      /\ \A j \in 1..i : mapStack'[j] = IF j < i THEN mapStack[j] ELSE mapStack[Len(mapStack)]
  BY <1>1, PopShiftProperties DEF Unshift
<1>4. DOMAIN mapStack' = 1..i
  BY <1>3, Positions
<1>5. \A j \in DOMAIN mapStack' : \E k \in DOMAIN mapStack : mapStack'[j] = mapStack[k]
  BY <1>2, <1>3, <1>4
<1>6. mappings' = mappings /\ curmap' = mapStack[i].map
  BY DEF Unshift
<1>7. StackFound'
  BY <1>5, <1>6 DEF StackFound, Found
<1>8. QED
  BY <1>6, <1>7 DEF StackFound, Found

LEMMA ShiftShifts ==
  ASSUME TypeOK, StackFound, Found(curmap), ActShiftMap
  PROVE  StackFound'
<1>1. /\ mapStack' = Append(mapStack, [map |-> curmap, code |-> event.code])
      /\ mappings' = mappings
  BY DEF ActShiftMap, Performs
<1>2. curmap \in Maps /\ mapStack \in Seq([map : Maps \cup {NULL, Dangling}, code : Keys])
  BY FoundIsMap DEF TypeOK, MapTypes
<1>3. [map |-> curmap, code |-> event.code] \in [map : Maps \cup {NULL, Dangling}, code : Keys]
  BY <1>2, PerformsType DEF ActShiftMap
<1>4. /\ DOMAIN mapStack' = 1..(Len(mapStack) + 1) /\ DOMAIN mapStack = 1..Len(mapStack)
      /\ Len(mapStack) \in Nat
      /\ \A i \in 1..Len(mapStack) : mapStack'[i] = mapStack[i]
      /\ mapStack'[Len(mapStack) + 1] = [map |-> curmap, code |-> event.code]
  BY <1>1, <1>2, <1>3, AppendProperties, Positions
<1>5. \A i \in DOMAIN mapStack' : i \in 1..Len(mapStack) \/ i = Len(mapStack) + 1
  BY <1>4
<1>6. \A i \in DOMAIN mapStack' : Found(mapStack'[i].map)
  BY <1>4, <1>5 DEF StackFound
<1>7. QED
  BY <1>1, <1>6 DEF StackFound, Found

LEMMA ThreadKeepsMaps ==
  ASSUME Careful, CareInv, ThreadStep
  PROVE  MapsKept'
<1>1. /\ TypeOK /\ MapTypes /\ SeenHolds /\ NamedOnce(mappings)
      /\ UNCHANGED <<loading, deleting>> /\ (Thread \/ Input \/ Tick)
  BY CareGives DEF CareInv, MapsKept, ThreadStep
<1>2. mappings' = mappings
  BY <1>1, ThreadMaps DEF mapVars, Unshift, ActSwitchMap, ActShiftMap, Performs
<1>3. NamedOnce(mappings')
  BY <1>1, <1>2
<1>4. CASE loading # NULL
  <2>1. deleting = NULL /\ ThreadHasNoMap /\ LoadsApart(loading.rest)
    BY <1>4 DEF CareInv, MapsKept, WhileLoading
  <2>2. UNCHANGED mapVars /\ ThreadHasNoMap'
    BY <1>1, <2>1, NoMapThread
  <2>3. LoadsApart(loading.rest)'
    BY <1>1, <2>1, <2>2, SameMapsKeep DEF mapVars
  <2>4. QED
    BY <1>1, <1>3, <1>4, <2>1, <2>2, <2>3, LoadingKeeps
<1>5. CASE deleting # NULL
  <2>1. /\ loading = NULL /\ ~Handling /\ StackFound /\ ~Found(deleting.map) /\ mappings # <<>>
        /\ Found(curmap) \/ (deleting.stage = "compare" /\ curmap = deleting.map)
    BY <1>5 DEF CareInv, MapsKept, WhileDeleting
  <2>2. Thread \/ Tick
    BY <1>5 DEF ThreadStep
  <2>3. UNCHANGED mapVars /\ ~Handling'
    BY <2>1, <2>2, QuietThread
  <2>4. UNCHANGED <<mappings, curmap, mapStack, loading, deleting>>
    BY <1>1, <2>3 DEF mapVars
  <2>5. /\ StackFound' /\ ~Found(deleting.map)'
        /\ Found(curmap)' \/ (deleting'.stage = "compare" /\ curmap' = deleting'.map)
    BY <2>1, <2>4, SameMapsKeep
  <2>6. QED
    BY <1>3, <1>5, <2>1, <2>3, <2>4, <2>5, DeletingKeeps
<1>6. CASE loading = NULL /\ deleting = NULL
  <2>1. Found(curmap) /\ StackFound
    BY <1>6 DEF CareInv, MapsKept, WhileIdle
  <2>2. SUFFICES Found(curmap)' /\ StackFound'
    BY <1>1, <1>3, <1>6, IdleKeeps
  <2>3. CASE UNCHANGED mapVars
    BY <1>1, <2>1, <2>3, SameMapsKeep DEF mapVars
  <2>4. CASE \E i \in DOMAIN mapStack : Unshift(i)
    BY <1>1, <2>1, <2>4, UnshiftShifts
  <2>5. CASE ActSwitchMap \/ ActShiftMap
    <3>1. Found(Now.map) /\ curmap' = Now.map
      BY <1>1, <2>5, GoesToNamed
    <3>2. Found(curmap)'
      BY <1>2, <3>1 DEF Found
    <3>3. ASSUME ActSwitchMap
          PROVE  StackFound'
      BY <1>2, <2>1, <3>3 DEF ActSwitchMap, StackFound, Found
    <3>4. QED
      BY <1>1, <2>1, <2>5, <3>2, <3>3, ShiftShifts
  <2>6. QED
    BY <1>1, <2>3, <2>4, <2>5, ThreadMaps
<1>7. QED
  BY <1>4, <1>5, <1>6

LEMMA CareThread ==
  ASSUME Careful, CareInv, ControlTypeOK', ThreadStep
  PROVE  CareInv'
<1>1. /\ TypeOK /\ TypeOK' /\ ~ub /\ PlaysWell /\ SeenHolds /\ ShiftsAreSafe
      /\ curmap # Dangling /\ (Thread \/ Input \/ Tick)
  BY CareGives DEF CareInv, ControlTypeOK, ThreadStep
<1>2. ~ub' /\ PlaysWell'
  BY <1>1, ThreadPlays
<1>3. SeenHolds'
  BY <1>1, ThreadSees
<1>4. MapsKept'
  BY ThreadKeepsMaps
<1>5. QED
  BY <1>2, <1>3, <1>4 DEF CareInv

-----------------------------------------------------------------------------
(* The commands of careful clients.                                         *)

LEMMA AddedMap ==
  ASSUME MapTypes, NEW m \in Maps, ~Found(m), mappings' = Append(mappings, m),
         NamedOnce(mappings)
  PROVE  /\ NamedOnce(mappings')
         /\ \A p : (p = m \/ Found(p)) <=> \E i \in DOMAIN mappings' : mappings'[i] = p
<1>1. /\ Len(mappings) \in Nat /\ DOMAIN mappings = 1..Len(mappings)
      /\ DOMAIN mappings' = 1..(Len(mappings) + 1)
      /\ \A i \in 1..Len(mappings) : mappings'[i] = mappings[i]
      /\ mappings'[Len(mappings) + 1] = m
  BY AppendProperties, Positions DEF MapTypes
<1>2. \A i \in DOMAIN mappings' : i \in DOMAIN mappings \/ i = Len(mappings) + 1
  BY <1>1
<1>3. \A i \in DOMAIN mappings : mappings[i] # m
  BY DEF Found
<1>4. NamedOnce(mappings')
  BY <1>1, <1>2, <1>3 DEF NamedOnce
<1>5. ASSUME NEW p, p = m \/ Found(p)
      PROVE  \E i \in DOMAIN mappings' : mappings'[i] = p
  BY <1>1, <1>5 DEF Found
<1>6. ASSUME NEW p, NEW i \in DOMAIN mappings', mappings'[i] = p
      PROVE  p = m \/ Found(p)
  BY <1>1, <1>2, <1>6 DEF Found
<1>7. QED
  BY <1>4, <1>5, <1>6

LEMMA CareAddMap ==
  ASSUME Careful, CareInv, ControlTypeOK', NEW m \in Maps, NEW binds, AddMap(m, binds),
         loading = NULL, deleting = NULL,
         UNCHANGED <<timerVars, recVars, ctlVars, seen, loading, deleting>>
  PROVE  CareInv'
<1>1. /\ MapTypes /\ PlaysWell /\ SeenHolds /\ NamedOnce(mappings) /\ Found(curmap) /\ StackFound
  BY CareGives DEF CareInv, MapsKept, WhileIdle
<1>2. /\ ~Found(m) /\ mappings' = Append(mappings, m) /\ UNCHANGED <<curmap, mapStack>>
      /\ ub' = FALSE /\ ~SearchingMaps
  BY HarmIsBoolean, RacingType DEF AddMap
<1>3. /\ NamedOnce(mappings')
      /\ \A p : Found(p) => \E i \in DOMAIN mappings' : mappings'[i] = p
  BY <1>1, <1>2, AddedMap
<1>4. Found(curmap)' /\ StackFound'
  BY <1>1, <1>2, <1>3 DEF Found, StackFound
<1>5. MapsKept'
  BY <1>3, <1>4, IdleKeeps
<1>6. SeenHolds'
  <2>1. seen.what # "place"
    BY <1>1, <1>2 DEF SeenHolds, SearchingMaps, Performing
  <2>2. QED
    BY <1>1, <1>2, <2>1 DEF SeenHolds, ctlVars
<1>7. PlaysWell'
  BY <1>1, StillPlays
<1>8. QED
  BY <1>2, <1>5, <1>6, <1>7 DEF CareInv

LEMMA CareDelMap ==
  ASSUME Careful, CareInv, ControlTypeOK', NEW m \in Maps, DelMap(m)
  PROVE  CareInv'
<1>1. /\ Found(m) /\ Len(mappings) > 1 /\ loading = NULL /\ deleting = NULL
      /\ ~Handling /\ ~ShiftsFrom({m}) /\ mappings' = OtherMaps(m)
      /\ deleting' = [map |-> m, stage |-> "compare"] /\ ub' = FALSE
      /\ UNCHANGED <<curmap, mapStack, timerVars, recVars, ctlVars, seen, loading>>
  BY HarmIsBoolean, RacingType DEF DelMap, Free, Deletes
<1>2. /\ MapTypes /\ PlaysWell /\ SeenHolds /\ NamedOnce(mappings) /\ Found(curmap) /\ StackFound
  BY <1>1, CareGives DEF CareInv, MapsKept, WhileIdle
<1>3. /\ NamedOnce(mappings') /\ mappings' # <<>>
      /\ \A p : Found(p) /\ p # m => \E i \in DOMAIN mappings' : mappings'[i] = p
      /\ ~\E i \in DOMAIN mappings' : mappings'[i] = m
  <2>1. FindMap(m) \in DOMAIN mappings /\ mappings[FindMap(m)] = m /\ mappings \in Seq(Maps)
    BY <1>1, <1>2, FindMapFinds DEF MapTypes
  <2>2. \A i \in DOMAIN mappings' : mappings'[i] # m
    BY <1>1, <1>2, <2>1, RemoveAtKeeps DEF OtherMaps
  <2>3. /\ NamedOnce(OtherMaps(m)) /\ \E i \in DOMAIN OtherMaps(m) : TRUE
        /\ \A p : Found(p) /\ p # m => \E i \in DOMAIN OtherMaps(m) : OtherMaps(m)[i] = p
    BY <1>1, <1>2, OtherMapsAre
  <2>4. OtherMaps(m) # <<>>
    BY <2>3
  <2>5. QED
    BY <1>1, <2>2, <2>3, <2>4
<1>4. deleting' # NULL /\ deleting'.map = m /\ deleting'.stage = "compare"
  <2>1. deleting'.map = m /\ deleting'.stage = "compare" /\ deleting' \in Deletion
    BY <1>1 DEF Deletion
  <2>2. QED
    BY <1>1, <2>1, NullIsNoCommand
<1>5. StackFound'
  <2>1. \A i \in DOMAIN mapStack : mapStack[i].map # m
    BY <1>1 DEF ShiftsFrom
  <2>2. QED
    BY <1>1, <1>2, <1>3, <2>1 DEF StackFound, Found
<1>6. ~Found(deleting.map)'
  BY <1>3, <1>4 DEF Found
<1>7. Found(curmap)' \/ (deleting'.stage = "compare" /\ curmap' = deleting'.map)
  BY <1>1, <1>2, <1>3, <1>4 DEF Found
<1>8. ~Handling'
  BY <1>1 DEF Handling, ctlVars
<1>9. MapsKept'
  BY <1>1, <1>3, <1>4, <1>5, <1>6, <1>7, <1>8, DeletingKeeps
<1>10. SeenHolds'
  BY <1>1, <1>2 DEF SeenHolds, Handling, ctlVars
<1>11. PlaysWell'
  BY <1>1, <1>2, StillPlays
<1>12. QED
  BY <1>1, <1>9, <1>10, <1>11 DEF CareInv

LEMMA CareCompareMap ==
  ASSUME CareInv, ControlTypeOK', CompareMap
  PROVE  CareInv'
<1>1. /\ deleting # NULL /\ deleting.stage = "compare" /\ ub' = (curmap \notin Maps)
      /\ curmap' = Fallback(deleting.map) /\ deleting' = [deleting EXCEPT !.stage = "free"]
      /\ UNCHANGED <<mappings, mapStack, timerVars, recVars, ctlVars, seen, loading>>
  BY DEF CompareMap, Deletes
<1>2. /\ MapTypes /\ PlaysWell /\ SeenHolds /\ NamedOnce(mappings) /\ loading = NULL
      /\ ~Handling /\ StackFound /\ ~Found(deleting.map) /\ mappings # <<>>
      /\ Found(curmap) \/ curmap = deleting.map
      /\ deleting \in Deletion /\ curmap \in Maps
  BY <1>1, CareGives DEF CareInv, MapsKept, WhileDeleting
<1>3. deleting' \in Deletion /\ deleting'.map = deleting.map /\ deleting' # NULL
  BY <1>1, <1>2, NullIsNoCommand DEF Deletion
<1>4. Found(curmap)'
  <2>1. Found(Head(mappings))
    <3>1. 1 \in DOMAIN mappings /\ Head(mappings) = mappings[1]
      BY <1>2, HeadTailProperties, EmptySeq, LenProperties DEF MapTypes
    <3>2. QED
      BY <3>1 DEF Found
  <2>2. Found(Fallback(deleting.map))
    BY <1>2, <2>1 DEF Fallback
  <2>3. QED
    BY <1>1, <2>2 DEF Found
<1>5. StackFound' /\ ~Found(deleting.map)' /\ NamedOnce(mappings')
  BY <1>1, <1>2, <1>3 DEF StackFound, Found
<1>6. ~Handling'
  BY <1>1, <1>2 DEF Handling, ctlVars
<1>7. MapsKept'
  BY <1>1, <1>2, <1>3, <1>4, <1>5, <1>6, DeletingKeeps
<1>8. SeenHolds' /\ PlaysWell'
  BY <1>1, <1>2, StillPlays DEF SeenHolds, Handling, ctlVars
<1>9. QED
  BY <1>1, <1>2, <1>7, <1>8 DEF CareInv

LEMMA CareFreeMap ==
  ASSUME CareInv, ControlTypeOK', FreeMap
  PROVE  CareInv'
<1>1. /\ deleting # NULL /\ deleting.stage = "free" /\ ub' = Iterating(deleting.map)
      /\ curmap' = Freed(curmap, {deleting.map}) /\ deleting' = NULL
      /\ mapStack' = ForgetMaps(mapStack, {deleting.map})
      /\ UNCHANGED <<mappings, timerVars, recVars, ctlVars, seen, loading>>
  BY DEF FreeMap, Deletes
<1>2. /\ MapTypes /\ PlaysWell /\ SeenHolds /\ NamedOnce(mappings) /\ loading = NULL
      /\ ~Handling /\ StackFound /\ ~Found(deleting.map) /\ Found(curmap)
  BY <1>1, CareGives DEF CareInv, MapsKept, WhileDeleting
<1>3. ~ub'
  BY <1>1, <1>2 DEF Iterating, Handling
<1>4. curmap' = curmap /\ Found(curmap)'
  BY <1>1, <1>2 DEF Freed, Found
<1>5. StackFound'
  <2>1. /\ DOMAIN mapStack' = DOMAIN mapStack
        /\ \A i \in DOMAIN mapStack : mapStack'[i].map = Freed(mapStack[i].map, {deleting.map})
    BY <1>1, <1>2, ForgetMapsTypes DEF MapTypes
  <2>2. \A i \in DOMAIN mapStack : mapStack'[i].map = mapStack[i].map
    BY <1>2, <2>1 DEF StackFound, Freed
  <2>3. QED
    BY <1>1, <1>2, <2>1, <2>2 DEF StackFound, Found
<1>6. MapsKept'
  BY <1>1, <1>2, <1>4, <1>5, IdleKeeps
<1>7. SeenHolds' /\ PlaysWell'
  BY <1>1, <1>2, StillPlays DEF SeenHolds, Handling, ctlVars
<1>8. QED
  BY <1>3, <1>6, <1>7 DEF CareInv

LEMMA CareMapCommand ==
  ASSUME Careful, CareInv, ControlTypeOK', MapCommand
  PROVE  CareInv'
<1>1. ASSUME NEW m \in Maps, NewMap(m)
      PROVE  CareInv'
  BY <1>1, CareAddMap DEF NewMap, OnMaps, Gives, Free, controlVars
<1>2. ASSUME NEW src \in Maps, NEW dest \in Maps, CopyMap(src, dest)
      PROVE  CareInv'
  BY <1>2, CareAddMap DEF CopyMap, OnMaps, Gives, Free, controlVars
<1>3. ASSUME NEW m \in Maps, SwitchMap(m)
      PROVE  CareInv'
  <2>1. /\ Found(m) /\ curmap' = m /\ loading = NULL /\ deleting = NULL
        /\ UNCHANGED <<mappings, mapStack, timerVars, recVars, ctlVars, seen, loading, deleting, ub>>
    BY <1>3 DEF SwitchMap, OnMaps, Gives, Free, controlVars
  <2>2. PlaysWell /\ SeenHolds /\ NamedOnce(mappings) /\ StackFound /\ ~ub
    BY <2>1 DEF CareInv, MapsKept, WhileIdle
  <2>3. Found(curmap)' /\ StackFound'
    BY <2>1, <2>2 DEF Found, StackFound
  <2>4. MapsKept'
    BY <2>1, <2>2, <2>3, IdleKeeps
  <2>5. SeenHolds'
    <3>1. curmap' \in Maps
      BY <1>3, <2>1
    <3>2. QED
      BY <2>1, <2>2, <3>1 DEF SeenHolds, Now, Pressed, ctlVars
  <2>6. QED
    BY <2>1, <2>2, <2>4, <2>5, StillPlays DEF CareInv
<1>4. QED
  BY <1>1, <1>2, <1>3, CareDelMap, CareCompareMap, CareFreeMap DEF MapCommand

(* What leaves the maps alone and keeps what plays.                         *)
LEMMA CareStill ==
  ASSUME CareInv, ControlTypeOK', ~ub', PlaysWell',
         UNCHANGED <<mappings, curmap, mapStack, ctlVars, seen, loading, deleting>>
  PROVE  CareInv'
<1>1. SeenHolds'
  BY StillSees DEF CareInv
<1>2. Handling' = Handling /\ (ThreadHasNoMap => ThreadHasNoMap')
  BY DEF Handling, ThreadHasNoMap, ctlVars
<1>3. MapsKept'
  BY <1>2, SameMapsKeep DEF CareInv, MapsKept, WhileIdle, WhileLoading, WhileDeleting
<1>4. QED
  BY <1>1, <1>3 DEF CareInv

LEMMA CareBindCommand ==
  ASSUME Careful, CareInv, ControlTypeOK', BindCommand \/ WhichKey
  PROVE  CareInv'
<1>1. ASSUME NEW command, NEW m, NEW k, NEW bind, Rebind(command, m, k, bind)
      PROVE  /\ ub' = FALSE
             /\ UNCHANGED <<mappings, curmap, mapStack, timerVars, recVars, ctlVars, seen,
                            loading, deleting>>
  BY <1>1, HarmIsBoolean, RacingType DEF Rebind, OnMaps, Gives, controlVars
<1>2. /\ ub' = FALSE
      /\ UNCHANGED <<mappings, curmap, mapStack, timerVars, recVars, ctlVars, seen,
                     loading, deleting>>
  <2>1. CASE BindCommand
    BY <1>1, <2>1 DEF BindCommand, AddAction, DelAction, ClearActions, CopyActions
  <2>2. CASE WhichKey
    BY <2>2 DEF WhichKey, CareInv, ControlTypeOK, TypeOK, mapVars, controlVars
  <2>3. QED
    BY <2>1, <2>2
<1>3. PlaysWell'
  BY <1>2, StillPlays DEF CareInv
<1>4. QED
  BY <1>2, <1>3, CareStill

LEMMA CareEditMacro ==
  ASSUME Careful, CareInv, ControlTypeOK', EditMacro
  PROVE  CareInv'
<1>1. RecTypes /\ TimerTypes /\ PlaysWell
  BY DEF CareInv, ControlTypeOK, TypeOK
<1>2. UNCHANGED <<mapVars, ctlVars, seen, loading, deleting>>
  BY DEF EditMacro, NewMacro, CopyMacro, InsMacroAct, DelMacroAct, ClearMacro, DelMacro, OnMacros,
     Gives, controlVars
<1>3. ub' = FALSE /\ pc' = pc
  <2>1. \A src : (SearchingMacros \/ recording = src) \in BOOLEAN
                 /\ (SearchingMacros \/ Touching(src)) \in BOOLEAN
    OBVIOUS
  <2>2. ub' = FALSE
    BY <2>1, HarmIsBoolean, RacingType DEF EditMacro, NewMacro, CopyMacro, InsMacroAct,
       DelMacroAct, ClearMacro, DelMacro
  <2>3. QED
    BY <1>2, <2>2 DEF ctlVars
<1>4. SUFFICES PlaysWell'
  BY <1>2, <1>3, CareStill DEF mapVars
<1>5. /\ \A m \in MacroNames : macros[m] \in Seq(MacroStep) /\ Len(macros[m]) \in Nat
      /\ \A i \in DOMAIN runMacro : /\ runMacro[i].which \in liveMacros
                                    /\ runMacro[i].which \in MacroNames
                                    /\ runMacro[i].index \in Nat
  <2>1. \A i \in DOMAIN runMacro : runMacro[i] \in Playing
    BY <1>1, Positions DEF TimerTypes
  <2>2. QED
    BY <1>1, <2>1, Positions DEF RecTypes, PlaysWell, Playing
(* What plays is left as it is, or its macro becomes longer.                *)
<1>6. ASSUME recording' # Dangling,
             UNCHANGED runMacro,
             \A i \in DOMAIN runMacro :
               /\ runMacro[i].which \in liveMacros'
               /\ Len(macros[runMacro[i].which]) <= Len(macros'[runMacro[i].which])
               /\ Len(macros'[runMacro[i].which]) \in Nat
      PROVE  PlaysWell'
  <2>1. ASSUME NEW i \in DOMAIN runMacro, Finished(runMacro[i])'
        PROVE  Finished(runMacro[i])
    <3>1. PICK x \in Nat, y \in Nat, z \in Nat :
            /\ x = runMacro[i].index
            /\ y = Len(macros[runMacro[i].which])
            /\ z = Len(macros'[runMacro[i].which])
      BY <1>5, <1>6
    <3>2. x > z /\ y <= z
      BY <1>6, <2>1, <3>1 DEF Finished
    <3>3. x > y
      BY <3>2
    <3>4. QED
      BY <1>5, <3>1, <3>3 DEF Finished
  <2>2. QED
    BY <1>1, <1>3, <1>6, <2>1 DEF PlaysWell
<1>7. ASSUME NEW m \in MacroNames, NEW steps, SetSteps(m, steps),
             \A i \in DOMAIN runMacro : runMacro[i].which # m,
             \A i \in DOMAIN runMacro : runMacro[i].which \in liveMacros'
      PROVE  PlaysWell'
  <2>1. macros' = [macros EXCEPT ![m] = steps] /\ UNCHANGED <<runMacro, recording>>
    BY <1>7 DEF SetSteps
  <2>2. \A i \in DOMAIN runMacro : macros'[runMacro[i].which] = macros[runMacro[i].which]
    BY <1>5, <1>7, <2>1
  <2>3. recording' # Dangling
    BY <1>1, <2>1 DEF PlaysWell
  <2>4. QED
    BY <1>5, <1>6, <1>7, <2>1, <2>2, <2>3
<1>8. ASSUME NEW m \in MacroNames, NEW steps, AddMacro(m, steps)
      PROVE  PlaysWell'
  BY <1>5, <1>7, <1>8 DEF AddMacro
<1>9. ASSUME NEW m \in MacroNames, NEW step \in ClientSteps, InsMacroAct(m, step)
      PROVE  PlaysWell'
  <2>1. /\ macros' = [macros EXCEPT ![m] = Append(macros[m], step)]
        /\ UNCHANGED <<runMacro, recording, liveMacros>>
    BY <1>9 DEF InsMacroAct, SetSteps
  <2>2. Len(Append(macros[m], step)) = Len(macros[m]) + 1
    BY <1>5, ControlIsTyped, AppendProperties
  <2>3. macros'[m] = Append(macros[m], step)
    BY <1>1, <2>1 DEF RecTypes
  <2>4. \A n \in MacroNames : n # m => macros'[n] = macros[n]
    BY <1>1, <2>1 DEF RecTypes
  <2>5. \A n \in MacroNames : Len(macros[n]) <= Len(macros'[n]) /\ Len(macros'[n]) \in Nat
    <3>1. ASSUME NEW n \in MacroNames
          PROVE  Len(macros[n]) <= Len(macros'[n]) /\ Len(macros'[n]) \in Nat
      <4>1. Len(macros[n]) \in Nat
        BY <1>5
      <4>2. CASE n = m
        <5>1. Len(macros'[n]) = Len(macros[n]) + 1
          BY <2>2, <2>3, <4>2
        <5>2. QED
          BY <4>1, <5>1
      <4>3. CASE n # m
        <5>1. Len(macros'[n]) = Len(macros[n])
          BY <2>4, <4>3
        <5>2. QED
          BY <4>1, <5>1
      <4>4. QED
        BY <4>2, <4>3
    <3>2. QED
      BY <3>1
  <2>6. recording' # Dangling
    BY <1>1, <2>1 DEF PlaysWell
  <2>7. QED
    BY <1>5, <1>6, <2>1, <2>5, <2>6
<1>10. ASSUME NEW m \in MacroNames, \/ ClearMacro(m)
                                    \/ \E i \in DOMAIN macros[m] : DelMacroAct(m, i)
       PROVE  PlaysWell'
  <2>1. PICK steps : SetSteps(m, steps) /\ ~InUse(m) /\ liveMacros' = liveMacros
    BY <1>10 DEF ClearMacro, DelMacroAct
  <2>2. QED
    BY <1>5, <1>7, <2>1 DEF InUse
<1>11. ASSUME NEW m \in MacroNames, DelMacro(m)
       PROVE  PlaysWell'
  <2>1. /\ ~InUse(m) /\ liveMacros' = liveMacros \ {m}
        /\ macros' = [macros EXCEPT ![m] = <<>>]
        /\ recording' = Freed(recording, {m})
        /\ runMacro' = [i \in DOMAIN runMacro |-> [runMacro[i] EXCEPT !.which = Freed(@, {m})]]
    BY <1>11 DEF DelMacro
  <2>2. recording' = recording
    BY <2>1 DEF InUse, Freed
  <2>3. runMacro' = runMacro
    <3>1. \A i \in DOMAIN runMacro : runMacro[i] \in Playing
      BY <1>1, Positions DEF TimerTypes
    <3>2. \A i \in DOMAIN runMacro : [runMacro[i] EXCEPT !.which = Freed(@, {m})] = runMacro[i]
      BY <2>1, <3>1 DEF InUse, Freed, Playing
    <3>3. runMacro = [i \in DOMAIN runMacro |-> runMacro[i]]
      <4>1. runMacro \in Seq(Playing)
        BY <1>1 DEF TimerTypes
      <4>2. QED
        BY <4>1
    <3>4. runMacro' = [i \in DOMAIN runMacro |-> runMacro[i]]
      BY <2>1, <3>2
    <3>5. QED
      BY <3>3, <3>4
  <2>4. SetSteps(m, <<>>)
    BY <2>1, <2>2, <2>3 DEF SetSteps
  <2>5. QED
    BY <1>5, <1>7, <2>1, <2>4 DEF InUse
<1>12. QED
  BY <1>8, <1>9, <1>10, <1>11 DEF EditMacro, NewMacro, CopyMacro

LEMMA CareMacroCommand ==
  ASSUME Careful, CareInv, ControlTypeOK', MacroCommand
  PROVE  CareInv'
<1>1. CASE Client /\ UNCHANGED <<source, loading, deleting>>
  <2>1. /\ UNCHANGED <<mapVars, timerVars, macros, liveMacros, ctlVars, seen, ub>>
        /\ recording' = recording \/ recording' \in MacroNames
    BY <1>1, ClientKeepsAll
  <2>2. PlaysWell'
    BY <2>1, PointersAreDistinct DEF CareInv, PlaysWell, Finished, timerVars, ctlVars
  <2>3. QED
    BY <1>1, <2>1, <2>2, CareStill DEF CareInv, mapVars
<1>2. QED
  BY <1>1, CareEditMacro, MacroCommands DEF CareInv

LEMMA CareStartLoad ==
  ASSUME StartsCareful, CareInv, ControlTypeOK', NEW profile \in Profiles, StartLoad(profile)
  PROVE  CareInv'
<1>1. /\ loading = NULL /\ deleting = NULL /\ ~UsingMap /\ ~ShiftsFrom(Maps)
      /\ curmap' = NULL /\ loading' = [stage |-> "free", rest |-> profile]
      /\ UNCHANGED <<mappings, mapStack, timerVars, recVars, ctlVars, seen, deleting, ub>>
  BY DEF StartLoad, Free, Loads, StartsCareful
<1>2. MapTypes /\ ~ub /\ PlaysWell /\ SeenHolds /\ NamedOnce(mappings) /\ ShiftsAreSafe
  BY CareGives DEF CareInv, MapsKept
<1>3. loading' # NULL /\ loading'.rest = profile /\ loading'.stage = "free"
  BY <1>1, NullIsNoCommand, ControlIsTyped DEF Load
<1>4. mapStack = <<>>
  <2>1. DOMAIN mapStack = {}
    BY <1>1, <1>2 DEF ShiftsFrom, ShiftsAreSafe
  <2>2. Len(mapStack) \in Nat /\ DOMAIN mapStack = 1..Len(mapStack)
    BY <1>2, Positions DEF MapTypes
  <2>3. Len(mapStack) = 0
    BY <2>1, <2>2
  <2>4. QED
    BY <1>2, <2>3, EmptySeq DEF MapTypes
<1>5. ThreadHasNoMap'
  BY <1>1, <1>4 DEF ThreadHasNoMap, UsingMap, ctlVars
<1>6. LoadsApart(loading.rest)'
  BY <1>3 DEF LoadsApart, StartsCareful
<1>7. MapsKept'
  BY <1>1, <1>2, <1>3, <1>5, <1>6, LoadingKeeps
<1>8. SeenHolds'
  BY <1>1, <1>2 DEF SeenHolds, UsingMap, Nothing, ctlVars
<1>9. QED
  BY <1>1, <1>2, <1>7, <1>8, StillPlays DEF CareInv

LEMMA CareFreeMaps ==
  ASSUME CareInv, ControlTypeOK', FreeMaps
  PROVE  CareInv'
<1>1. /\ loading # NULL /\ loading.stage = "free" /\ ub' = \E m \in Maps : Iterating(m)
      /\ curmap' = Freed(curmap, Maps) /\ mappings' = <<>>
      /\ mapStack' = ForgetMaps(mapStack, Maps)
      /\ loading' = [loading EXCEPT !.stage = "maps"]
      /\ UNCHANGED <<timerVars, recVars, ctlVars, seen, deleting>>
  BY DEF FreeMaps, Loads
<1>2. /\ PlaysWell /\ SeenHolds /\ deleting = NULL /\ ThreadHasNoMap /\ LoadsApart(loading.rest)
      /\ loading \in Load
  BY <1>1, CareGives DEF CareInv, MapsKept, WhileLoading
<1>3. ~ub'
  BY <1>1, <1>2 DEF Iterating, ThreadHasNoMap
<1>4. /\ loading' \in Load /\ loading'.rest = loading.rest /\ loading'.stage = "maps"
      /\ loading' # NULL
  BY <1>1, <1>2, NullIsNoCommand DEF Load
<1>5. curmap' = NULL /\ mapStack' = <<>>
  BY <1>1, <1>2, PointersAreDistinct DEF Freed, ForgetMaps, ThreadHasNoMap
<1>6. ThreadHasNoMap'
  BY <1>1, <1>2, <1>5 DEF ThreadHasNoMap, ctlVars
<1>7. LoadsApart(loading.rest)'
  BY <1>1, <1>2, <1>4 DEF LoadsApart, Found
<1>8. NamedOnce(mappings')
  BY <1>1 DEF NamedOnce
<1>9. MapsKept'
  BY <1>1, <1>2, <1>4, <1>6, <1>7, <1>8, LoadingKeeps
<1>10. SeenHolds'
  BY <1>1, <1>2 DEF SeenHolds, ThreadHasNoMap, Nothing, ctlVars
<1>11. QED
  BY <1>1, <1>2, <1>3, <1>9, <1>10, StillPlays DEF CareInv

(* One of the maps to load less.                                            *)
LEMMA TailKeeps ==
  ASSUME NEW q \in Seq(Maps), q # <<>>, NamedOnce(q)
  PROVE  /\ Head(q) \in Maps /\ Among(Head(q), q)
         /\ NamedOnce(Tail(q))
         /\ \A i \in DOMAIN Tail(q) : Among(Tail(q)[i], q) /\ Tail(q)[i] # Head(q)
         /\ \A m : Among(m, q) => m = Head(q) \/ Among(m, Tail(q))
<1>1. /\ Len(q) \in Nat \ {0} /\ DOMAIN q = 1..Len(q) /\ 1 \in DOMAIN q
      /\ Head(q) = q[1] /\ Head(q) \in Maps
      /\ DOMAIN Tail(q) = 1..(Len(q) - 1)
      /\ \A j \in 1..(Len(q) - 1) : Tail(q)[j] = q[j + 1] /\ j + 1 \in DOMAIN q
  <2>1. Len(q) \in Nat \ {0} /\ DOMAIN q = 1..Len(q)
    BY EmptySeq, LenProperties
  <2>2. Head(q) = q[1] /\ Head(q) \in Maps /\ 1 \in DOMAIN q
    BY <2>1, HeadTailProperties
  <2>3. Tail(q) \in Seq(Maps) /\ Len(Tail(q)) = Len(q) - 1
    BY HeadTailProperties
  <2>4. DOMAIN Tail(q) = 1..(Len(q) - 1)
    BY <2>3, Positions
  <2>5. \A j \in 1..(Len(q) - 1) : Tail(q)[j] = q[j + 1] /\ j + 1 \in DOMAIN q
    BY <2>1, HeadTailProperties
  <2>6. QED
    BY <2>1, <2>2, <2>4, <2>5
<1>2. ASSUME NEW i \in 1..(Len(q) - 1), NEW j \in 1..(Len(q) - 1), Tail(q)[i] = Tail(q)[j]
      PROVE  i = j
  <2>1. i + 1 = j + 1
    BY <1>1, <1>2 DEF NamedOnce
  <2>2. QED
    BY <1>1, <2>1
<1>3. ASSUME NEW j \in 1..(Len(q) - 1)
      PROVE  Among(Tail(q)[j], q) /\ Tail(q)[j] # Head(q)
  <2>1. j + 1 # 1 /\ Tail(q)[j] = q[j + 1] /\ j + 1 \in DOMAIN q
    BY <1>1
  <2>2. QED
    BY <1>1, <2>1 DEF NamedOnce, Among
<1>4. ASSUME NEW m, Among(m, q), m # Head(q)
      PROVE  Among(m, Tail(q))
  <2>1. PICK i \in DOMAIN q : q[i] = m
    BY <1>4 DEF Among
  <2>2. i - 1 \in 1..(Len(q) - 1) /\ (i - 1) + 1 = i
    BY <1>1, <1>4, <2>1
  <2>3. QED
    BY <1>1, <2>1, <2>2 DEF Among
<1>5. QED
  BY <1>1, <1>2, <1>3, <1>4 DEF NamedOnce, Among

LEMMA CareLoadMap ==
  ASSUME CareInv, ControlTypeOK', LoadMap
  PROVE  CareInv'
<1> DEFINE rest == loading.rest
           left == rest.maps
<1>1. /\ loading # NULL /\ loading.stage = "maps" /\ left # <<>>
      /\ ub' \in {FALSE, SearchingMaps} /\ mappings' = Append(mappings, Head(left))
      /\ loading' = [loading EXCEPT !.rest.maps = Tail(@)]
      /\ UNCHANGED <<curmap, mapStack, timerVars, recVars, ctlVars, seen, deleting>>
  BY DEF LoadMap, Loaded, Loads
<1>2. /\ MapTypes /\ PlaysWell /\ SeenHolds /\ deleting = NULL /\ ThreadHasNoMap
      /\ NamedOnce(mappings) /\ LoadsApart(rest)
      /\ loading \in Load /\ rest \in Profile /\ left \in Seq(Maps)
  BY <1>1, CareGives DEF CareInv, MapsKept, WhileLoading, Profile
<1>3. ~ub'
  BY <1>1, <1>2 DEF SearchingMaps, Performing, ThreadHasNoMap
<1>4. /\ loading' \in Load /\ loading'.stage = "maps" /\ loading'.rest.maps = Tail(left)
      /\ loading'.rest.curmap = rest.curmap /\ loading' # NULL
  <2>1. loading'.stage = "maps" /\ loading'.rest.maps = Tail(left)
        /\ loading'.rest.curmap = rest.curmap /\ loading' \in Load
    BY <1>1, <1>2, HeadTailProperties DEF Load, Profile
  <2>2. QED
    BY <2>1, NullIsNoCommand
<1>5. /\ NamedOnce(left) /\ \A i \in DOMAIN left : ~Found(left[i])
      /\ Among(rest.curmap, left) \/ Found(rest.curmap)
  BY <1>1, <1>2 DEF LoadsApart
<1> PICK m : m = Head(left)
  OBVIOUS
<1>6. /\ m \in Maps /\ Among(m, left) /\ NamedOnce(Tail(left))
      /\ \A i \in DOMAIN Tail(left) : Among(Tail(left)[i], left) /\ Tail(left)[i] # m
      /\ \A p : Among(p, left) => p = m \/ Among(p, Tail(left))
  BY <1>1, <1>2, <1>5, TailKeeps
<1> HIDE DEF left, rest
<1>7. ~Found(m)
  BY <1>5, <1>6 DEF Among
<1>8. /\ NamedOnce(mappings')
      /\ \A p : (p = m \/ Found(p)) <=> \E i \in DOMAIN mappings' : mappings'[i] = p
  BY <1>1, <1>2, <1>6, <1>7, AddedMap
<1>9. /\ \A i \in DOMAIN Tail(left) : ~\E j \in DOMAIN mappings' : mappings'[j] = Tail(left)[i]
      /\ \/ Among(rest.curmap, Tail(left))
         \/ \E j \in DOMAIN mappings' : mappings'[j] = rest.curmap
  BY <1>5, <1>6, <1>8 DEF Among
<1>10. LoadsApart(loading.rest)'
  BY <1>4, <1>6, <1>9 DEF LoadsApart, Found
<1>11. ThreadHasNoMap'
  BY <1>1, <1>2 DEF ThreadHasNoMap, ctlVars
<1>12. MapsKept'
  BY <1>1, <1>2, <1>4, <1>8, <1>10, <1>11, LoadingKeeps
<1>13. SeenHolds'
  BY <1>1, <1>2 DEF SeenHolds, ThreadHasNoMap, Nothing, ctlVars
<1>14. QED
  BY <1>1, <1>2, <1>3, <1>12, <1>13, StillPlays DEF CareInv

LEMMA CareFinishLoad ==
  ASSUME CareInv, ControlTypeOK', FinishLoad
  PROVE  CareInv'
<1> DEFINE rest == loading.rest
<1>1. /\ loading # NULL /\ loading.stage = "maps" /\ rest.maps = <<>> /\ loading' = NULL
      /\ UNCHANGED <<mappings, mapStack, timerVars, recVars, ctlVars, seen, deleting>>
  BY DEF FinishLoad, Loads
<1>2. /\ MapTypes /\ PlaysWell /\ SeenHolds /\ deleting = NULL /\ ThreadHasNoMap
      /\ NamedOnce(mappings) /\ LoadsApart(rest) /\ ub = FALSE
  BY <1>1, CareGives DEF CareInv, MapsKept, WhileLoading
<1>3. Found(rest.curmap)
  BY <1>1, <1>2 DEF LoadsApart, Among
<1>4. curmap' = rest.curmap /\ ub' = FALSE
  BY <1>2, <1>3 DEF FinishLoad
<1>5. Found(curmap)' /\ StackFound'
  BY <1>1, <1>2, <1>3, <1>4 DEF Found, StackFound, ThreadHasNoMap
<1>6. MapsKept'
  BY <1>1, <1>2, <1>5, IdleKeeps
<1>7. SeenHolds'
  BY <1>1, <1>2 DEF SeenHolds, ThreadHasNoMap, Nothing, ctlVars
<1>8. QED
  BY <1>1, <1>2, <1>4, <1>6, <1>7, StillPlays DEF CareInv

LEMMA CareInit ==
  ASSUME StartsCareful, ControlInit
  PROVE  CareInv
<1>1. ControlTypeOK
  BY ControlTypeInit
<1>2. /\ loading = NULL /\ deleting = NULL /\ mappings = BaseMappings /\ curmap \in StartMaps
      /\ mapStack = <<>> /\ runMacro = <<>> /\ recording # Dangling /\ ub = FALSE
      /\ seen = Nothing
  BY DEF ControlInit, Init, StartsCareful
<1>3. MapsKept
  BY <1>2 DEF StartsCareful, Among, Found, StackFound, MapsKept, WhileIdle, WhileLoading,
     WhileDeleting
<1>4. QED
  BY <1>1, <1>2, <1>3 DEF CareInv, PlaysWell, SeenHolds, Nothing

LEMMA CareStep ==
  ASSUME StartsCareful, CareInv, [ControlNext]_<<vars, controlVars>>
  PROVE  CareInv'
<1>1. Careful
  BY DEF StartsCareful
<1>2. ControlTypeOK'
  BY ControlTypeStep DEF CareInv, MapsKept, WhileDeleting, DeletesFromSome
<1>3. CASE UNCHANGED <<vars, controlVars>>
  <2>1. UNCHANGED <<mappings, curmap, mapStack, timerVars, recVars, ctlVars, seen, loading,
                    deleting, ub>>
    BY <1>3 DEF vars, mapVars, controlVars
  <2>2. PlaysWell' /\ ~ub'
    BY <2>1, StillPlays DEF CareInv
  <2>3. QED
    BY <1>2, <2>1, <2>2, CareStill
<1>4. CASE ProfileCommand
  BY <1>2, <1>4, CareStartLoad, CareFreeMaps, CareLoadMap, CareFinishLoad DEF ProfileCommand
<1>5. QED
  BY <1>1, <1>2, <1>3, <1>4, CareThread, CareMapCommand, CareBindCommand, CareMacroCommand
     DEF ControlNext, Command

LEMMA CareHolds ==
  ASSUME StartsCareful
  PROVE  ControlSpec => []CareInv
<1>1. ControlInit => CareInv
  BY CareInit
<1>2. CareInv /\ [ControlNext]_<<vars, controlVars>> => CareInv'
  BY CareStep
<1>3. QED
  BY <1>1, <1>2, PTL DEF ControlSpec

(* Whatever careful clients do to the maps and profiles of a device between *)
(* any two steps of its thread, the current map is one of the device's maps *)
(* - but for the map that delmap is about to replace, and for the time a    *)
(* profile takes to load, when there is none.                               *)
THEOREM CurrentMapStays ==
  ASSUME StartsCareful
  PROVE  ControlSpec => []CurrentMapExists
<1>1. CareInv => CurrentMapExists
  BY DEF CareInv, MapsKept, WhileIdle, WhileLoading, WhileDeleting, ThreadHasNoMap,
     CurrentMapExists
<1>2. ControlSpec => []CareInv
  BY CareHolds
<1>3. QED
  BY <1>1, <1>2, PTL

(* What a careful client refrains from is enough.  If it deletes a map only *)
(* while no event is handled and no shift goes back to it, with no event    *)
(* coming before the deletion is done, switches profiles only while the     *)
(* thread uses no map and no shift is in force, takes no step from a macro  *)
(* that plays or is recorded, and edits no bind, vector or macro that the   *)
(* thread goes through at that moment, then the thread - at every other     *)
(* point of its loop, between the steps of every command - reads no map, no *)
(* macro and no step of one that is gone, and records into none.  The code  *)
(* enforces nothing of this.                                                *)
THEOREM CarefulClientsAreSafe ==
  ASSUME StartsCareful
  PROVE  ControlSpec => []NoUndefined
<1>1. CareInv => NoUndefined
  BY DEF CareInv, NoUndefined
<1>2. ControlSpec => []CareInv
  BY CareHolds
<1>3. QED
  BY <1>1, <1>2, PTL

-----------------------------------------------------------------------------
(* What is recorded agrees with the keys.                                   *)

(* A bind sends the key's own code, once, and starts no turbo; it does not  *)
(* change the map, which releases keys unrecorded.                          *)
OwnActions(actions, k) ==
  /\ \A i \in DOMAIN actions :
       /\ actions[i].type \notin {"turbo", "switchmap", "shiftmap"}
       /\ actions[i].type = "key" => actions[i].code = k
  /\ \A i, j \in DOMAIN actions :
       actions[i].type = "key" /\ actions[j].type = "key" => i = j

SendsKey(actions) == \E i \in DOMAIN actions : actions[i].type = "key"

OwnBind(bind, k) == bind.doModify => OwnActions(bind.actions, k) /\ SendsKey(bind.actions)

(* A key is bound in every map or in none, so that it does not matter from  *)
(* which of them the thread takes the actions.                              *)
BoundAlike(binds) ==
  \A m, n \in Maps, k \in Keys : binds[m][k].doModify = BaseBinds[n][k].doModify

OwnBinds(binds) ==
  BoundAlike(binds) /\ \A m \in Maps, k \in Keys : OwnBind(binds[m][k], k)

(* Clients leave the binds of keys and the steps of macros alone, but for   *)
(* the macros they record.                                                  *)
RecordsOnly ==
  /\ Commands \cap {"addaction", "delaction", "clearactions", "copyactions", "newmap", "delmap",
                    "insmacroact", "delmacroact", "clearmacro"} = {}
  /\ OwnBinds(BaseBinds)
  /\ \A profile \in Profiles : OwnBinds(profile.binds)

(* The key event in hand has still to be sent.                              *)
Upcoming ==
  /\ event.type = "key"
  /\ \/ pc \in {"event", "rewire"}
     \/ pc = "actions" /\ SendsKey(todo)

(* The daemon holds down keys that are down physically, or are about to be  *)
(* released.                                                                *)
PressedAreHeld ==
  /\ \A c \in pressedKeys : c \in held \/ (Upcoming /\ event.code = c /\ event.value = 0)
  /\ Upcoming /\ event.value = 1 => event.code \in held \ pressedKeys

(* The thread has found the key it handles to be bound.                     *)
BindIsSeen ==
  seen.what = "bind" =>
    /\ pc = "rewire"
    /\ event.type = "key"
    /\ \A m \in Maps : BaseBinds[m][event.code].doModify

(* A key whose release is not to be recorded was down when the recording    *)
(* began, and still is.                                                     *)
Promised == Keys \ (early \cup {recordStopKey})

RecordsWell ==
  recording \in MacroNames =>
    /\ recording \in liveMacros
    /\ request = NULL =>
         \A c \in Promised :
           /\ c \in pressedKeys \ ignoreRecord => LastIsPress(recording, c)
           /\ c \notin pressedKeys \ ignoreRecord => ~LastIsPress(recording, c)
           /\ c \in ignoreRecord => c \in pressedKeys

OwnInv ==
  /\ ControlTypeOK
  /\ OwnBinds(keybinds)
  /\ loading # NULL => OwnBinds(loading.rest.binds)
  /\ deleting = NULL
  /\ BindIsSeen
  /\ runTurbo = <<>>
  /\ pc = "actions" => OwnActions(todo, event.code)
  /\ PressedAreHeld
  /\ RecordsWell

(* What a step appended to a macro changes of the last steps of keys.       *)
LEMMA RecordSteps ==
  ASSUME TypeOK, NEW m \in MacroNames, m = recording, NEW step \in MacroStep, Record(step)
  PROVE  \E n, N \in Nat :
           /\ n < N /\ DOMAIN macros[m] = 1..n /\ DOMAIN macros'[m] = 1..N
           /\ \A i \in 1..n : macros'[m][i] = macros[m][i]
           /\ \A i \in (n + 1)..(N - 1) : macros'[m][i].type = "wait"
           /\ macros'[m][N] = step
<1>1. macros[m] \in Seq(MacroStep) /\ <<step>> \in Seq(MacroStep)
  BY DEF TypeOK, RecTypes
<1>2. macros'[m] = (macros[m] \o Pause) \o <<step>>
  BY DEF Record, TypeOK, RecTypes
<1>3. PICK p \in Seq(MacroStep) : p = Pause
  BY PauseType DEF TypeOK
<1>4. /\ Len(p) \in Nat /\ Len(p) <= 1
      /\ \A i \in 1..Len(p) : p[i].type = "wait"
  <2>1. CASE sinceLast = NotYet
    BY <1>3, <2>1 DEF Pause
  <2>2. CASE sinceLast # NotYet
    <3>1. p = <<[type |-> "wait", time |-> sinceLast]>>
      BY <1>3, <2>2 DEF Pause
    <3>2. Len(p) = 1 /\ p[1].type = "wait"
      BY <3>1
    <3>3. QED
      BY <3>2
  <2>3. QED
    BY <2>1, <2>2
<1>5. PICK n \in Nat : n = Len(macros[m]) /\ DOMAIN macros[m] = 1..n
  BY <1>1, Positions
<1>6. PICK k \in Nat : k = Len(p)
  BY <1>4
<1>7. PICK q \in Seq(MacroStep) :
        /\ q = macros[m] \o p /\ Len(q) = n + k
        /\ \A i \in 1..(n + k) : q[i] = IF i <= n THEN macros[m][i] ELSE p[i - n]
  <2>1. PICK b \in Seq(MacroStep) : b = macros[m]
    BY <1>1
  <2>2. Len(b) = n /\ Len(p) = k
    BY <1>5, <1>6, <2>1
  <2>3. /\ b \o p \in Seq(MacroStep)
        /\ Len(b \o p) = Len(b) + Len(p)
        /\ \A i \in 1..(Len(b) + Len(p)) :
             (b \o p)[i] = IF i <= Len(b) THEN b[i] ELSE p[i - Len(b)]
    BY ConcatProperties
  <2>4. QED
    BY <2>1, <2>2, <2>3
<1>8. macros'[m] = Append(q, step)
  BY <1>2, <1>3, <1>7
<1>9. /\ Append(q, step) \in Seq(MacroStep) /\ Len(Append(q, step)) = n + k + 1
      /\ \A i \in 1..(n + k) : Append(q, step)[i] = q[i]
      /\ Append(q, step)[n + k + 1] = step
  <2>1. Len(q) = n + k
    BY <1>7
  <2>2. /\ Append(q, step) \in Seq(MacroStep) /\ Len(Append(q, step)) = Len(q) + 1
        /\ \A i \in 1..Len(q) : Append(q, step)[i] = q[i]
        /\ Append(q, step)[Len(q) + 1] = step
    BY AppendProperties
  <2>3. QED
    BY <2>1, <2>2
<1>10. DOMAIN macros'[m] = 1..(n + k + 1)
  BY <1>8, <1>9, Positions
<1>11. \A i \in 1..n : macros'[m][i] = macros[m][i]
  BY <1>6, <1>7, <1>8, <1>9
<1>12. \A i \in (n + 1)..(n + k) : macros'[m][i].type = "wait"
  <2>1. ASSUME NEW i \in (n + 1)..(n + k)
        PROVE  macros'[m][i].type = "wait"
    <3>1. i \in 1..(n + k) /\ ~(i <= n) /\ i - n \in 1..k
      OBVIOUS
    <3>2. macros'[m][i] = p[i - n]
      BY <1>7, <1>8, <1>9, <3>1
    <3>3. QED
      BY <1>4, <1>6, <3>1, <3>2
  <2>2. QED
    BY <2>1
<1>13. n + k + 1 \in Nat /\ n < n + k + 1 /\ (n + k + 1) - 1 = n + k
  BY <1>6
<1>14. QED
  BY <1>5, <1>8, <1>9, <1>10, <1>11, <1>12, <1>13

LEMMA LastAfter ==
  ASSUME NEW m, NEW c, NEW n \in Nat, NEW N \in Nat, NEW step,
         n < N, DOMAIN macros[m] = 1..n, DOMAIN macros'[m] = 1..N,
         \A i \in 1..n : macros'[m][i] = macros[m][i],
         \A i \in (n + 1)..(N - 1) : macros'[m][i].type = "wait",
         macros'[m][N] = step
  PROVE  IF step.type = "key" /\ step.code = c
           THEN LastIsPress(m, c)' <=> step.value = 1
           ELSE LastIsPress(m, c)' <=> LastIsPress(m, c)
<1>1. \A i \in 1..N : i \in 1..n \/ i \in (n + 1)..(N - 1) \/ i = N
  OBVIOUS
<1>2. N \in 1..N /\ N \notin 1..n /\ \A i \in 1..n : i \in 1..N
  OBVIOUS
<1>3. CASE step.type = "key" /\ step.code = c
  <2>1. N \in StepsOf(m, c)' /\ \A j \in StepsOf(m, c)' : j \in 1..N
    BY <1>2, <1>3 DEF StepsOf
  <2>2. \A i \in StepsOf(m, c)' : (\A j \in StepsOf(m, c)' : j <= i) => i = N
    BY <2>1
  <2>3. \A j \in StepsOf(m, c)' : j <= N
    BY <2>1
  <2>4. LastIsPress(m, c)' <=> macros'[m][N].value = 1
    BY <2>1, <2>2, <2>3 DEF LastIsPress
  <2>5. QED
    BY <1>3, <2>4
<1>4. CASE ~(step.type = "key" /\ step.code = c)
  <2>1. StepsOf(m, c)' = StepsOf(m, c)
    BY <1>1, <1>2, <1>4 DEF StepsOf
  <2>2. \A i \in StepsOf(m, c) : macros'[m][i] = macros[m][i]
    BY DEF StepsOf
  <2>3. LastIsPress(m, c)' <=> LastIsPress(m, c)
    BY <2>1, <2>2 DEF LastIsPress
  <2>4. QED
    BY <1>4, <2>3
<1>5. QED
  BY <1>3, <1>4

LEMMA RecordedLast ==
  ASSUME TypeOK, NEW m \in MacroNames, m = recording, NEW step \in MacroStep, Record(step), NEW c
  PROVE  IF step.type = "key" /\ step.code = c
           THEN LastIsPress(m, c)' <=> step.value = 1
           ELSE LastIsPress(m, c)' <=> LastIsPress(m, c)
BY RecordSteps, LastAfter

(* Sending a key, or something else, while recording.                       *)
LEMMA KeySent ==
  ASSUME TypeOK, RecordsWell, NEW c \in Keys, NEW v \in 0..2, v = 1 => c \notin pressedKeys,
         pressedKeys' = Latch(pressedKeys, c, v), RecordKey(c, v), UNCHANGED <<request, early>>
  PROVE  RecordsWell'
<1>1. CASE recording \notin MacroNames
  BY <1>1, PointersAreDistinct DEF RecordKey, RecordsWell, NoRecord, recVars, Record
<1>2. CASE recording \in MacroNames /\ request # NULL
  <2>1. recording' \in {recording, NULL} /\ liveMacros' = liveMacros
    BY <1>2, PointersAreDistinct DEF RecordKey, NoRecord, recVars, Record
  <2>2. QED
    BY <1>2, <2>1, PointersAreDistinct DEF RecordsWell
<1>3. CASE recording \in MacroNames /\ c = recordStopKey
  BY <1>3, PointersAreDistinct DEF RecordKey, RecordsWell, StopsRecording
<1>4. CASE recording \in MacroNames /\ request = NULL /\ c # recordStopKey
  <2>1. PICK m \in MacroNames : m = recording
    BY <1>4
  <2>2. m # NULL
    BY PointersAreDistinct
  <2>3. /\ m \in liveMacros
        /\ \A x \in Promised :
             /\ x \in pressedKeys \ ignoreRecord => LastIsPress(m, x)
             /\ x \notin pressedKeys \ ignoreRecord => ~LastIsPress(m, x)
             /\ x \in ignoreRecord => x \in pressedKeys
    BY <1>4, <2>1 DEF RecordsWell
  <2> DEFINE step == [type |-> "key", code |-> c, value |-> v]
  <2>4. recording' = m /\ recordStopKey' = recordStopKey /\ liveMacros' = liveMacros
    BY <1>4, <2>1, <2>2 DEF RecordKey, StopsRecording, NoRecord, Record, recVars
  <2>5. SUFFICES ASSUME NEW x \in Promised
                 PROVE  /\ x \in pressedKeys' \ ignoreRecord' => LastIsPress(m, x)'
                        /\ x \notin pressedKeys' \ ignoreRecord' => ~LastIsPress(m, x)'
                        /\ x \in ignoreRecord' => x \in pressedKeys'
    BY <2>3, <2>4 DEF RecordsWell, Promised
  <2>6. x # c => (x \in pressedKeys' <=> x \in pressedKeys)
    BY DEF Latch
  <2>7. CASE v = 2
    <3>1. UNCHANGED <<macros, ignoreRecord, pressedKeys>>
      BY <1>4, <2>1, <2>2, <2>7 DEF RecordKey, StopsRecording, NoRecord, recVars, Ignored, Latch
    <3>2. LastIsPress(m, x)' <=> LastIsPress(m, x)
      BY <3>1 DEF LastIsPress, StepsOf
    <3>3. QED
      BY <2>3, <3>1, <3>2
  <2>8. CASE Ignored(c, v)
    <3>1. UNCHANGED macros /\ ignoreRecord' = ignoreRecord \ {c} /\ pressedKeys' = pressedKeys \ {c}
          /\ c \in ignoreRecord
      BY <1>4, <2>1, <2>2, <2>8 DEF RecordKey, StopsRecording, Ignored, Latch
    <3>2. LastIsPress(m, x)' <=> LastIsPress(m, x)
      BY <3>1 DEF LastIsPress, StepsOf
    <3>3. QED
      BY <2>3, <3>1, <3>2
  <2>9. CASE v # 2 /\ ~Ignored(c, v)
    <3>1. Record(step) /\ ignoreRecord' = ignoreRecord
      BY <1>4, <2>1, <2>2, <2>9 DEF RecordKey, StopsRecording, Record
    <3>2. step \in MacroStep
      BY DEF MacroStep
    <3>3. IF step.type = "key" /\ step.code = x THEN LastIsPress(m, x)' <=> step.value = 1
          ELSE LastIsPress(m, x)' <=> LastIsPress(m, x)
      BY <2>1, <3>1, <3>2, RecordedLast
    <3>4. IF x = c THEN LastIsPress(m, x)' <=> v = 1 ELSE LastIsPress(m, x)' <=> LastIsPress(m, x)
      BY <3>3
    <3>5. CASE x # c
      BY <2>3, <2>6, <3>1, <3>4, <3>5
    <3>6. CASE x = c /\ v = 1
      <4>1. c \in pressedKeys' /\ c \notin ignoreRecord
        BY <2>3, <3>6 DEF Latch
      <4>2. QED
        BY <3>1, <3>4, <3>6, <4>1
    <3>7. CASE x = c /\ v = 0
      <4>1. c \notin pressedKeys' /\ c \notin ignoreRecord
        BY <2>9, <3>7 DEF Latch, Ignored
      <4>2. QED
        BY <3>1, <3>4, <3>7, <4>1
    <3>8. QED
      BY <2>9, <3>5, <3>6, <3>7
  <2>10. QED
    BY <2>7, <2>8, <2>9
<1>5. QED
  BY <1>1, <1>2, <1>3, <1>4

LEMMA Unrecorded ==
  ASSUME RecordsWell,
         UNCHANGED <<pressedKeys, macros, liveMacros, recording, recordStopKey, ignoreRecord,
                     request, early>>
  PROVE  RecordsWell'
BY DEF RecordsWell, Promised, LastIsPress, StepsOf

LEMMA RelSent ==
  ASSUME TypeOK, RecordsWell, NEW r \in Rels, NEW x \in Int, RecordRel(r, x),
         UNCHANGED <<pressedKeys, request, early>>
  PROVE  RecordsWell'
<1>1. CASE recording = NULL
  BY <1>1, Unrecorded DEF RecordRel, NoRecord, recVars
<1>2. CASE recording \notin MacroNames \cup {NULL}
  BY <1>2 DEF RecordRel, Record, RecordsWell
<1>3. CASE recording \in MacroNames
  <2> DEFINE step == [type |-> "rel", code |-> r, value |-> x]
  <2>1. PICK m \in MacroNames : m = recording
    BY <1>3
  <2>2. Record(step) /\ step \in MacroStep
    BY <2>1, PointersAreDistinct DEF RecordRel, MacroStep
  <2>3. step.type # "key"
    OBVIOUS
  <2>4. UNCHANGED <<recording, recordStopKey, ignoreRecord, liveMacros>>
    BY <2>2 DEF Record
  <2> HIDE DEF step
  <2>5. \A c : LastIsPress(m, c)' <=> LastIsPress(m, c)
    BY <2>1, <2>2, <2>3, RecordedLast
  <2>6. QED
    BY <2>1, <2>4, <2>5 DEF RecordsWell, Promised
<1>4. QED
  BY <1>1, <1>2, <1>3

LEMMA OwnTail ==
  ASSUME TypeOK, todo # <<>>, NEW k, OwnActions(todo, k)
  PROVE  /\ OwnActions(Tail(todo), k)
         /\ Now.type \notin {"turbo", "switchmap", "shiftmap"}
         /\ Now.type = "key" => Now.code = k /\ SendsKey(todo) /\ ~SendsKey(Tail(todo))
         /\ Now.type # "key" => (SendsKey(Tail(todo)) <=> SendsKey(todo))
<1>1. /\ 1 \in DOMAIN todo /\ Now = todo[1]
      /\ \A i \in DOMAIN Tail(todo) : i + 1 \in DOMAIN todo /\ Tail(todo)[i] = todo[i + 1]
      /\ \A i \in DOMAIN todo \ {1} : i - 1 \in DOMAIN Tail(todo) /\ Tail(todo)[i - 1] = todo[i]
  BY TodoEntries
<1>2. DOMAIN Tail(todo) \subseteq Nat \ {0}
  <2>1. Tail(todo) \in Seq(BindAction)
    BY TodoType DEF TypeOK
  <2>2. QED
    BY <2>1, Positions
<1>3. \A i, j \in DOMAIN Tail(todo) : i + 1 = j + 1 => i = j
  BY <1>2
<1>4. OwnActions(Tail(todo), k)
  BY <1>1, <1>3 DEF OwnActions
<1>5. Now.type = "key" => ~SendsKey(Tail(todo))
  <2>1. \A i \in DOMAIN Tail(todo) : i + 1 # 1
    BY <1>2
  <2>2. QED
    BY <1>1, <2>1 DEF SendsKey, OwnActions
<1>6. Now.type # "key" => (SendsKey(Tail(todo)) <=> SendsKey(todo))
  BY <1>1 DEF SendsKey
<1>7. QED
  BY <1>1, <1>4, <1>5, <1>6 DEF OwnActions, SendsKey

(* A step of the thread leaves the key event in hand alone, or sends it.    *)
SameEvent ==
  /\ UNCHANGED <<held, pressedKeys>>
  /\ Upcoming' <=> Upcoming
  /\ Upcoming => event' = event

SendsEvent ==
  /\ Upcoming /\ ~Upcoming'
  /\ UNCHANGED <<held, event>>
  /\ pressedKeys' = Latch(pressedKeys, event.code, event.value)
  /\ RecordKey(event.code, event.value)

SameRecording ==
  UNCHANGED <<macros, liveMacros, recording, recordStopKey, ignoreRecord>>

SendsRel == \E r \in Rels, x \in Int : RecordRel(r, x)

OwnOutcome ==
  /\ \/ \E k \in Keys, v \in 0..2 : ReadKey(k, v)
     \/ SameEvent /\ (SameRecording \/ SendsRel)
     \/ SendsEvent
  /\ runTurbo' = <<>>
  /\ pc' = "actions" => OwnActions(todo', event'.code)

(* No step of the thread meddles with a request.                            *)
LEMMA ThreadRequests ==
  ASSUME ThreadStep
  PROVE  UNCHANGED <<request, early>>
<1>1. CASE Looks
  BY <1>1, LooksChangeNothing DEF ThreadStep
<1>2. CASE ~Looks
  BY <1>2, UsesWhatItSees DEF ThreadStep, Uses, Input, ReadKey, ReadRel, ReadOther, Tick
<1>3. QED
  BY <1>1, <1>2

LEMMA ThreadSeesBind ==
  ASSUME TypeOK, OwnBinds(keybinds), BindIsSeen, ThreadStep
  PROVE  BindIsSeen'
<1>1. CASE TestMap \/ LookUpMap
  BY <1>1 DEF TestMap, LookUpMap, Sees, BindIsSeen
<1>2. CASE TestBind
  <2>1. /\ pc = "rewire" /\ event.type = "key" /\ curmap \in Maps /\ Bound.doModify
        /\ UNCHANGED <<pc, event>>
    BY <1>2 DEF TestBind, Sees, At, ctlVars
  <2>2. event.code \in Keys
    BY <2>1, BoundType DEF TypeOK
  <2>3. \A m \in Maps : BaseBinds[m][event.code].doModify
    BY <2>1, <2>2 DEF OwnBinds, BoundAlike, Bound
  <2>4. QED
    BY <2>1, <2>3 DEF BindIsSeen
<1>3. CASE Thread /\ ~Looks
  BY <1>3, UsesWhatItSees DEF Uses, Nothing, BindIsSeen
<1>4. CASE Input \/ Tick
  <2>1. seen' = seen /\ pc = "sleep"
    BY <1>4 DEF Input, ReadKey, ReadRel, ReadOther, Tick, At
  <2>2. QED
    BY <2>1 DEF BindIsSeen
<1>5. QED
  BY <1>1, <1>2, <1>3, <1>4 DEF ThreadStep, Looks

LEMMA AgeNone == Age(<<>>) = <<>>
<1>1. Age(<<>>) \in Seq(Turbo)
  <2>1. <<>> \in Seq(Turbo)
    OBVIOUS
  <2>2. \A q \in Seq(Turbo) : Age(q) \in Seq(Turbo)
    BY AgeTurbo
  <2>3. QED
    BY <2>1, <2>2
<1>2. DOMAIN Age(<<>>) = {}
  BY DEF Age
<1>3. QED
  BY <1>1, <1>2, EmptySeq, LenProperties

LEMMA OwnInput ==
  ASSUME OwnInv, Input \/ Tick \/ Select
  PROVE  OwnOutcome
<1>1. runTurbo = <<>>
  BY DEF OwnInv
<1>2. runTurbo' = <<>>
  BY <1>1, AgeNone DEF Input, ReadKey, ReadRel, ReadOther, Tick, Select, timerVars
<1>3. (\E k \in Keys, v \in 0..2 : ReadKey(k, v)) \/ (SameEvent /\ SameRecording)
  <2>1. CASE Tick \/ Select
    BY <2>1 DEF Tick, Select, At, SameEvent, SameRecording, Upcoming, keyVars, recVars, ctlVars
  <2>2. CASE ReadOther \/ \E r \in Rels : ReadRel(r)
    BY <2>2 DEF ReadOther, ReadRel, At, SameEvent, SameRecording, Upcoming, keyVars, recVars, NoEvent
  <2>3. QED
    BY <2>1, <2>2 DEF Input
<1>4. pc' # "actions"
  BY DEF Input, ReadKey, ReadRel, ReadOther, Tick, Select, At, ctlVars
<1>5. QED
  BY <1>2, <1>3, <1>4 DEF OwnOutcome

LEMMA OwnTimers ==
  ASSUME OwnInv, Timers
  PROVE  OwnOutcome
<1>1. runTurbo = <<>> /\ TypeOK
  BY DEF OwnInv, ControlTypeOK
<1>2. ASSUME NEW i \in DOMAIN runTurbo, FireTurbo(i)
      PROVE  OwnOutcome
  BY <1>1, <1>2
<1>3. ASSUME NEW i \in DOMAIN runRelConst, FireRelConst(i)
      PROVE  OwnOutcome
  <2>1. runRelConst[i] \in RelConst
    BY <1>1, Positions DEF TypeOK, TimerTypes
  <2>2. SendsRel
    BY <1>3, <2>1 DEF FireRelConst, SendsRel, RelConst
  <2>3. SameEvent /\ pc' = "select" /\ runTurbo' = runTurbo
    BY <1>3 DEF FireRelConst, SameEvent, Upcoming, TimedOut, At, keyVars
  <2>4. QED
    BY <1>1, <2>2, <2>3 DEF OwnOutcome
<1>4. CASE \/ \E i \in DOMAIN runMacro : FireMacro(i)
           \/ \E i \in DOMAIN runMacro : PlayStep(i) \/ PlayWild(i)
           \/ Cleanup
  <2>1. /\ UNCHANGED <<held, pressedKeys, event, runTurbo>>
        /\ pc \in {"sleep", "macro", "cleanup"} /\ pc' \in {"select", "macro", "cleanup"}
        /\ SameRecording
    BY <1>4 DEF FireMacro, PlayStep, PlayWild, Cleanup, TimedOut, At, keyVars, recVars, timerVars,
       ctlVars, SameRecording
  <2>2. SameEvent
    BY <2>1 DEF SameEvent, Upcoming
  <2>3. QED
    BY <1>1, <2>1, <2>2 DEF OwnOutcome
<1>5. QED
  BY <1>2, <1>3, <1>4 DEF Timers

LEMMA OwnRewire ==
  ASSUME OwnInv, Rewire
  PROVE  OwnOutcome
<1>1. TypeOK /\ OwnBinds(keybinds) /\ runTurbo = <<>> /\ NULL \notin Maps
  BY PointersAreDistinct DEF OwnInv, ControlTypeOK
<1>2. /\ event.type = "key" => event.code \in Keys /\ event.value \in 0..2
      /\ event.type = "rel" => event.code \in Rels /\ event.value \in Int
  BY <1>1, EventKinds DEF TypeOK, CtlTypes
<1>3. runTurbo' = <<>>
  BY <1>1 DEF Rewire, Unshift, NoUnshift, TestMap, TestBind, Sees, RewireUnmapped, RewirePlain,
     RewireBound, RewireRel, RewireOther, RewireWild, Rewired, timerVars
<1>4. CASE NoUnshift \/ \E i \in DOMAIN mapStack : Unshift(i)
  BY <1>3, <1>4 DEF NoUnshift, Unshift, At, keyVars, recVars, OwnOutcome, SameEvent,
     SameRecording, Upcoming
<1>5. CASE RewireBound
  <2>1. UNCHANGED <<held, pressedKeys, event>> /\ SameRecording /\ pc = "rewire" /\ pc' = "actions"
        /\ event.type = "key" /\ curmap \in Maps /\ seen.what = "bind" /\ todo' = Bound.actions
    BY <1>5 DEF RewireBound, At, keyVars, recVars, SameRecording
  <2>2. Bound.doModify
    BY <1>1, <1>2, <2>1 DEF OwnInv, BindIsSeen, OwnBinds, BoundAlike, Bound
  <2>3. OwnActions(todo', event.code) /\ SendsKey(todo')
    BY <1>1, <1>2, <2>1, <2>2 DEF OwnBinds, OwnBind, Bound
  <2>4. SameEvent
    BY <2>1, <2>3 DEF SameEvent, Upcoming
  <2>5. QED
    BY <1>3, <2>1, <2>3, <2>4 DEF OwnOutcome
<1>6. ASSUME Rewired, At("rewire"), event.type = "key",
             pressedKeys' = Latch(pressedKeys, event.code, event.value),
             RecordKey(event.code, event.value)
      PROVE  OwnOutcome
  BY <1>3, <1>6 DEF Rewired, At, SendsEvent, Upcoming, OwnOutcome
<1>7. ASSUME Rewired, At("rewire"), event.type # "key", UNCHANGED pressedKeys,
             \/ event.type = "rel" /\ RecordRel(event.code, event.value)
             \/ SameRecording
      PROVE  OwnOutcome
  <2>1. SameEvent /\ pc' = "select"
    BY <1>7 DEF SameEvent, Rewired, At, Upcoming
  <2>2. SameRecording \/ SendsRel
    BY <1>2, <1>7 DEF SendsRel
  <2>3. QED
    BY <1>3, <2>1, <2>2 DEF OwnOutcome
<1>8. CASE RewireUnmapped
  BY <1>6, <1>7, <1>8 DEF RewireUnmapped, NoRecord, recVars, SameRecording
<1>9. CASE RewirePlain
  BY <1>6, <1>9 DEF RewirePlain
<1>10. CASE RewireRel \/ RewireOther
  BY <1>7, <1>10 DEF RewireRel, RewireOther, keyVars, recVars, SameRecording
<1>11. CASE TestMap \/ TestBind \/ RewireWild
  <2>1. UNCHANGED <<held, pressedKeys, pc, event, todo>> /\ SameRecording /\ pc = "rewire"
    BY <1>11 DEF TestMap, TestBind, RewireWild, Sees, At, keyVars, recVars, ctlVars, SameRecording
  <2>2. SameEvent
    BY <2>1 DEF SameEvent, Upcoming
  <2>3. QED
    BY <1>3, <2>1, <2>2 DEF OwnOutcome
<1>12. QED
  BY <1>4, <1>5, <1>8, <1>9, <1>10, <1>11 DEF Rewire

LEMMA OwnAct ==
  ASSUME OwnInv, Act
  PROVE  OwnOutcome
<1>1. TypeOK /\ runTurbo = <<>> /\ (pc = "actions" => OwnActions(todo, event.code))
  BY DEF OwnInv, ControlTypeOK
<1>2. CASE FinishEvent
  BY <1>1, <1>2 DEF FinishEvent, At, Rewired, OwnOutcome, SameEvent, SameRecording, Upcoming,
     SendsKey, recVars, timerVars
<1>3. ASSUME NEW type, Performs(type)
      PROVE  /\ UNCHANGED <<held, event>> /\ pc = "actions" /\ pc' = pc /\ todo' = Tail(todo)
             /\ OwnActions(todo', event.code) /\ event.type = "key"
             /\ type \notin {"turbo", "switchmap", "shiftmap"}
             /\ type = "key" => Now.code = event.code /\ Upcoming /\ ~Upcoming'
             /\ type # "key" => (Upcoming' <=> Upcoming)
             /\ Now \in BindAction /\ Now.type = type
  <2>1. /\ UNCHANGED <<held, event>> /\ pc = "actions" /\ pc' = pc /\ todo # <<>>
        /\ todo' = Tail(todo) /\ Now.type = type /\ event.type = "key"
    BY <1>1, <1>3 DEF Performs, At, TypeOK, CtlTypes
  <2>2. Now \in BindAction
    BY <1>1, <2>1, TodoType DEF TypeOK
  <2>3. QED
    BY <1>1, <2>1, <2>2, OwnTail DEF Upcoming
<1>4. CASE ActKey
  <2>1. Performs("key") /\ pressedKeys' = Latch(pressedKeys, Now.code, event.value)
        /\ RecordKey(Now.code, event.value) /\ runTurbo' = runTurbo
    BY <1>4 DEF ActKey, timerVars
  <2>2. SendsEvent
    BY <1>3, <2>1 DEF SendsEvent
  <2>3. QED
    BY <1>1, <1>3, <2>1, <2>2 DEF OwnOutcome
<1>5. CASE ActTurboPress \/ ActTurboRelease \/ ActSwitchMap \/ ActShiftMap
  BY <1>3, <1>5 DEF ActTurboPress, ActTurboRelease, ActSwitchMap, ActShiftMap
<1>6. CASE ActRel \/ ActRelConstPress
  <2>1. PICK type \in {"rel", "relconst"} : Performs(type)
    BY <1>6 DEF ActRel, ActRelConstPress
  <2>2. SameEvent
    BY <1>3, <1>6, <2>1 DEF ActRel, ActRelConstPress, SameEvent
  <2>3. Now.code \in Rels /\ Now.value \in Int
    BY <1>3, <2>1, ActionKinds DEF RelAction, RelConstAction
  <2>4. SameRecording \/ SendsRel
    BY <1>6, <2>3 DEF ActRel, ActRelConstPress, SendsRel, SameRecording, NoRecord, recVars
  <2>5. runTurbo' = runTurbo
    BY <1>6 DEF ActRel, ActRelConstPress, timerVars
  <2>6. QED
    BY <1>1, <1>3, <2>1, <2>2, <2>4, <2>5 DEF OwnOutcome
<1>7. CASE ActRelConstRelease \/ ActMacro \/ ActNothing
  <2>1. PICK type \in {"relconst", "macro", "abs", "execute", "disable", "turbo", "switchmap",
                       "shiftmap"} : Performs(type)
    BY <1>7 DEF ActRelConstRelease, ActMacro, ActNothing
  <2>2. UNCHANGED <<pressedKeys, runTurbo>> /\ SameRecording
    BY <1>7 DEF ActRelConstRelease, ActMacro, ActNothing, NoRecord, recVars, timerVars, SameRecording
  <2>3. SameEvent
    BY <1>3, <2>1, <2>2 DEF SameEvent
  <2>4. QED
    BY <1>1, <1>3, <2>1, <2>2, <2>3 DEF OwnOutcome
<1>8. CASE LookUpMap
  <2>1. UNCHANGED <<held, pressedKeys, pc, event, todo, runTurbo>> /\ SameRecording
    BY <1>8 DEF LookUpMap, Sees, keyVars, recVars, timerVars, ctlVars, SameRecording
  <2>2. SameEvent
    BY <2>1 DEF SameEvent, Upcoming
  <2>3. QED
    BY <1>1, <2>1, <2>2 DEF OwnOutcome
<1>9. QED
  BY <1>2, <1>4, <1>5, <1>6, <1>7, <1>8 DEF Act

LEMMA OwnThread ==
  ASSUME OwnInv, ControlTypeOK', ThreadStep
  PROVE  OwnInv'
<1>1. TypeOK /\ TypeOK' /\ PressedAreHeld /\ RecordsWell
  BY DEF OwnInv, ControlTypeOK
<1>2. OwnOutcome
  BY OwnInput, OwnTimers, OwnRewire, OwnAct DEF ThreadStep, Thread
<1>3. keybinds' = keybinds /\ loading' = loading
  BY <1>1, ThreadMaps DEF ThreadStep, mapVars, Unshift, ActSwitchMap, ActShiftMap, Performs
<1>4. /\ OwnBinds(keybinds') /\ (loading' # NULL => OwnBinds(loading'.rest.binds))
      /\ BindIsSeen' /\ UNCHANGED <<request, early>> /\ deleting' = NULL
  BY <1>1, <1>3, ThreadSeesBind, ThreadRequests DEF OwnInv, ThreadStep
<1>5. CASE \E k \in Keys, v \in 0..2 : ReadKey(k, v)
  <2>1. PICK k \in Keys, v \in 0..2 : ReadKey(k, v)
    BY <1>5
  <2>2. /\ pc = "sleep" /\ pc' = "event" /\ SameRecording /\ UNCHANGED pressedKeys
        /\ event' = [type |-> "key", code |-> k, value |-> v]
        /\ held' = Latch(held, k, v)
        /\ v = 1 => k \notin held
    BY <2>1 DEF ReadKey, At, recVars, SameRecording, Deliverable
  <2>3. \A c \in pressedKeys : c \in held
    BY <1>1, <2>2 DEF PressedAreHeld, Upcoming
  <2>4. PressedAreHeld'
    BY <2>2, <2>3 DEF PressedAreHeld, Upcoming, Latch
  <2>5. RecordsWell'
    BY <1>1, <1>4, <2>2, Unrecorded DEF SameRecording
  <2>6. QED
    BY <1>2, <1>4, <2>4, <2>5 DEF OwnInv, OwnOutcome
<1>6. CASE SameEvent /\ (SameRecording \/ SendsRel)
  <2>1. PressedAreHeld'
    BY <1>1, <1>6 DEF SameEvent, PressedAreHeld
  <2>2. RecordsWell'
    BY <1>1, <1>4, <1>6, Unrecorded, RelSent DEF SameEvent, SameRecording, SendsRel
  <2>3. QED
    BY <1>2, <1>4, <2>1, <2>2 DEF OwnInv, OwnOutcome
<1>7. CASE SendsEvent
  <2>1. PICK c \in Keys, v \in 0..2 : c = event.code /\ v = event.value
    BY <1>1, <1>7, EventKinds DEF SendsEvent, Upcoming, TypeOK, CtlTypes
  <2>2. pressedKeys' = Latch(pressedKeys, c, v) /\ RecordKey(c, v) /\ Upcoming /\ ~Upcoming'
        /\ held' = held
    BY <1>7, <2>1 DEF SendsEvent
  <2>3. v = 1 => c \notin pressedKeys
    BY <1>1, <2>1, <2>2 DEF PressedAreHeld
  <2>4. RecordsWell'
    BY <1>1, <1>4, <2>2, <2>3, KeySent
  <2>5. v = 1 => c \in held
    BY <1>1, <2>1, <2>2 DEF PressedAreHeld
  <2>6. \A x \in pressedKeys' : x \in held
    BY <1>1, <2>1, <2>2, <2>5 DEF PressedAreHeld, Latch
  <2>7. PressedAreHeld'
    BY <2>2, <2>6 DEF PressedAreHeld
  <2>8. QED
    BY <1>2, <1>4, <2>4, <2>7 DEF OwnInv, OwnOutcome
<1>8. QED
  BY <1>2, <1>5, <1>6, <1>7 DEF OwnOutcome

(* The commands that are left do not touch what the thread sends.           *)
LEMMA OwnCommand ==
  ASSUME OwnInv, ControlTypeOK',
         UNCHANGED <<held, pressedKeys, event, pc, todo, seen>>,
         OwnBinds(keybinds'), loading' # NULL => OwnBinds(loading'.rest.binds),
         deleting' = NULL, runTurbo' = runTurbo, RecordsWell'
  PROVE  OwnInv'
<1>1. Upcoming' <=> Upcoming
  BY DEF Upcoming
<1>2. PressedAreHeld'
  BY <1>1 DEF OwnInv, PressedAreHeld
<1>3. BindIsSeen'
  BY DEF OwnInv, BindIsSeen
<1>4. QED
  BY <1>2, <1>3 DEF OwnInv

LEMMA OwnMapCommand ==
  ASSUME RecordsOnly, OwnInv, ControlTypeOK', MapCommand \/ BindCommand \/ WhichKey
  PROVE  OwnInv'
<1>1. /\ OwnBinds(keybinds) /\ RecordsWell /\ keybinds \in [Maps -> [Keys -> Bind]]
      /\ deleting = NULL /\ (loading # NULL => OwnBinds(loading.rest.binds))
  BY DEF OwnInv, ControlTypeOK, TypeOK, MapTypes
<1>2. \/ \E m \in Maps : SwitchMap(m)
      \/ \E src, dest \in Maps : CopyMap(src, dest)
      \/ WhichKey
  <2>1. ~CompareMap /\ ~FreeMap
    BY <1>1 DEF CompareMap, FreeMap
  <2>2. ASSUME NEW m \in Maps
        PROVE  ~NewMap(m) /\ ~DelMap(m)
    BY DEF RecordsOnly, NewMap, DelMap, OnMaps, Gives
  <2>3. ~BindCommand
    BY DEF RecordsOnly, BindCommand, AddAction, DelAction, ClearActions, CopyActions, Rebind,
       OnMaps, Gives
  <2>4. QED
    BY <2>1, <2>2, <2>3 DEF MapCommand
<1>3. UNCHANGED <<held, pressedKeys, timerVars, recVars, ctlVars, seen, request, controlVars>>
  BY <1>2 DEF SwitchMap, CopyMap, WhichKey, OnMaps, Gives, keyVars
<1>4. OwnBinds(keybinds')
  <2>1. ASSUME NEW src \in Maps, NEW dest \in Maps, CopyMap(src, dest)
        PROVE  OwnBinds(keybinds')
    <3>1. keybinds' = [keybinds EXCEPT ![dest] = keybinds[src]]
      BY <2>1 DEF CopyMap, AddMap
    <3>2. \A x \in Maps : \E y \in Maps : keybinds'[x] = keybinds[y]
      BY <1>1, <3>1
    <3>3. QED
      BY <1>1, <3>2 DEF OwnBinds, BoundAlike
  <2>2. keybinds' = keybinds => OwnBinds(keybinds')
    BY <1>1
  <2>3. QED
    BY <1>2, <2>1, <2>2 DEF SwitchMap, WhichKey, mapVars
<1>5. RecordsWell'
  BY <1>1, <1>3, Unrecorded DEF recVars, controlVars
<1>6. UNCHANGED <<held, pressedKeys, event, pc, todo, seen, loading, deleting, runTurbo>>
  BY <1>3 DEF ctlVars, controlVars, timerVars
<1>7. deleting' = NULL /\ (loading' # NULL => OwnBinds(loading'.rest.binds))
  BY <1>1, <1>6
<1>8. QED
  BY <1>4, <1>5, <1>6, <1>7, OwnCommand

(* Macros come, go and are copied; what is recorded changes only if it is   *)
(* deleted.                                                                 *)
LEMMA OwnMacroEdit ==
  ASSUME RecordsOnly, RecordsWell, RecTypes, EditMacro
  PROVE  RecordsWell'
<1>1. UNCHANGED <<pressedKeys, recordStopKey, ignoreRecord, request, early>>
  BY DEF EditMacro, NewMacro, CopyMacro, InsMacroAct, DelMacroAct, ClearMacro, DelMacro,
     OnMacros, Gives, keyVars, controlVars
<1>2. ASSUME recording' = recording,
             recording \in MacroNames => /\ recording \in liveMacros'
                                         /\ macros'[recording] = macros[recording]
      PROVE  RecordsWell'
  <2>1. recording \in MacroNames =>
          \A x : LastIsPress(recording, x)' <=> LastIsPress(recording, x)
    BY <1>2 DEF LastIsPress, StepsOf
  <2>2. QED
    BY <1>1, <1>2, <2>1 DEF RecordsWell, Promised
<1>3. ASSUME NEW m \in MacroNames, NEW steps, AddMacro(m, steps)
      PROVE  RecordsWell'
  <2>1. /\ recording' = recording /\ m \notin liveMacros /\ liveMacros' = liveMacros \cup {m}
        /\ macros' = [macros EXCEPT ![m] = steps]
    BY <1>3 DEF AddMacro, SetSteps
  <2>2. recording \in MacroNames => /\ recording \in liveMacros'
                                    /\ macros'[recording] = macros[recording]
    BY <2>1 DEF RecordsWell, RecTypes
  <2>3. QED
    BY <1>2, <2>1, <2>2
<1>4. ASSUME NEW m \in MacroNames, DelMacro(m)
      PROVE  RecordsWell'
  <2>1. /\ recording' = Freed(recording, {m}) /\ liveMacros' = liveMacros \ {m}
        /\ macros' = [macros EXCEPT ![m] = <<>>]
    BY <1>4 DEF DelMacro
  <2>2. CASE recording = m
    BY <2>1, <2>2, PointersAreDistinct DEF RecordsWell, Freed
  <2>3. CASE recording # m
    <3>1. recording' = recording
      BY <2>1, <2>3 DEF Freed
    <3>2. recording \in MacroNames => /\ recording \in liveMacros'
                                      /\ macros'[recording] = macros[recording]
      BY <2>1, <2>3 DEF RecordsWell, RecTypes
    <3>3. QED
      BY <1>2, <3>1, <3>2
  <2>4. QED
    BY <2>2, <2>3
<1>5. QED
  BY <1>3, <1>4 DEF RecordsOnly, EditMacro, NewMacro, CopyMacro, InsMacroAct, DelMacroAct,
     ClearMacro, OnMacros, Gives

(* The keys that recordmacro is late for are in early.                      *)
LEMMA OwnEndStart ==
  ASSUME RecordsWell, EndStart
  PROVE  RecordsWell'
<1>1. /\ UNCHANGED <<pressedKeys, macros, liveMacros, recording, recordStopKey>>
      /\ early' = Recorded \cup Missed(ignoreRecord')
  BY DEF EndStart, StoreIgnored, keyVars
<1>2. ASSUME recording \in MacroNames, NEW x \in Keys, x \notin early'
      PROVE  /\ ~LastIsPress(recording, x)'
             /\ x \in ignoreRecord' <=> x \in pressedKeys
  <2>1. x \notin Recorded /\ x \notin Missed(ignoreRecord')
    BY <1>1, <1>2
  <2>2. ~LastIsPress(recording, x)
    BY <1>2, <2>1 DEF Recorded
  <2>3. LastIsPress(recording, x)' <=> LastIsPress(recording, x)
    BY <1>1 DEF LastIsPress, StepsOf
  <2>4. QED
    BY <2>1, <2>2, <2>3 DEF Missed
<1>3. QED
  BY <1>1, <1>2 DEF RecordsWell, Promised

LEMMA OwnStart ==
  ASSUME ControlTypeOK, RecordsWell, MacroCommand, ~EditMacro
  PROVE  RecordsWell'
<1>1. ASSUME NEW m \in MacroNames, NEW s \in StopKeys, StartRecording(m, s)
      PROVE  RecordsWell'
  <2>1. /\ recording' = m /\ m \in liveMacros' /\ request' = [stage |-> "stopkey", stopKey |-> s]
    BY <1>1 DEF StartRecording, RecordMacro
  <2>2. request' \in Request
    BY <2>1 DEF Request
  <2>3. QED
    BY <2>1, <2>2, NullIsNoCommand DEF RecordsWell
<1>2. ASSUME GoOnRecording
      PROVE  RecordsWell'
  <2>1. /\ UNCHANGED <<recording, liveMacros>> /\ request # NULL
        /\ request' = [request EXCEPT !.stage = "ignore"]
    BY <1>2 DEF GoOnRecording, StoreStopKey
  <2>2. request' \in Request
    BY <2>1 DEF ControlTypeOK, TypeOK, WindowTypes, Request
  <2>3. QED
    BY <2>1, <2>2, NullIsNoCommand DEF RecordsWell
<1>3. QED
  BY <1>1, <1>2, OwnEndStart DEF MacroCommand, EditMacro

LEMMA OwnMacroCommand ==
  ASSUME RecordsOnly, OwnInv, ControlTypeOK', MacroCommand
  PROVE  OwnInv'
<1>1. /\ UNCHANGED <<held, pressedKeys, mapVars, ctlVars, seen, loading, deleting>>
      /\ runTurbo' = runTurbo
  <2>1. CASE EditMacro
    BY <2>1 DEF EditMacro, NewMacro, CopyMacro, InsMacroAct, DelMacroAct, ClearMacro, DelMacro,
       OnMacros, Gives, keyVars, controlVars
  <2>2. CASE Client /\ UNCHANGED <<source, loading, deleting>>
    BY <2>2 DEF Client, RecordMacro, StoreStopKey, StoreIgnored, keyVars, timerVars
  <2>3. QED
    BY <2>1, <2>2, MacroCommands DEF OwnInv
<1>2. RecordsWell'
  BY OwnMacroEdit, OwnStart DEF OwnInv, ControlTypeOK, TypeOK
<1>3. UNCHANGED <<held, pressedKeys, event, pc, todo, seen, keybinds, loading, deleting>>
  BY <1>1 DEF ctlVars, mapVars
<1>4. OwnBinds(keybinds') /\ deleting' = NULL /\ (loading' # NULL => OwnBinds(loading'.rest.binds))
  BY <1>3 DEF OwnInv
<1>5. QED
  BY <1>1, <1>2, <1>3, <1>4, OwnCommand

LEMMA OwnProfileCommand ==
  ASSUME RecordsOnly, OwnInv, ControlTypeOK', ProfileCommand
  PROVE  OwnInv'
<1>1. UNCHANGED <<held, pressedKeys, timerVars, recVars, ctlVars, seen, request, deleting, early>>
  BY DEF ProfileCommand, StartLoad, FreeMaps, LoadMap, FinishLoad, Loads, keyVars
<1>2. /\ OwnBinds(keybinds) /\ RecordsWell /\ keybinds \in [Maps -> [Keys -> Bind]]
      /\ deleting = NULL
      /\ loading # NULL => loading \in Load /\ OwnBinds(loading.rest.binds)
  BY DEF OwnInv, ControlTypeOK, TypeOK, MapTypes
<1>3. OwnBinds(keybinds') /\ (loading' # NULL => OwnBinds(loading'.rest.binds))
  <2>1. ASSUME NEW profile \in Profiles, StartLoad(profile)
        PROVE  OwnBinds(keybinds') /\ OwnBinds(loading'.rest.binds)
    <3>1. keybinds' = keybinds /\ loading'.rest = profile
      BY <2>1 DEF StartLoad
    <3>2. QED
      BY <1>2, <3>1 DEF RecordsOnly
  <2>2. CASE FreeMaps
    <3>1. keybinds' = keybinds /\ loading # NULL /\ loading' = [loading EXCEPT !.stage = "maps"]
      BY <2>2 DEF FreeMaps
    <3>2. loading'.rest = loading.rest
      BY <1>2, <3>1 DEF Load
    <3>3. QED
      BY <1>2, <3>1, <3>2
  <2>3. CASE LoadMap
    <3>1. /\ loading \in Load /\ OwnBinds(loading.rest.binds)
          /\ keybinds' = [keybinds EXCEPT ![Head(loading.rest.maps)] =
                            loading.rest.binds[Head(loading.rest.maps)]]
          /\ loading' = [loading EXCEPT !.rest.maps = Tail(@)]
      BY <1>2, <2>3 DEF LoadMap
    <3>2. loading'.rest.binds = loading.rest.binds
      BY <3>1 DEF Load, Profile
    <3>3. \A m \in Maps : keybinds'[m] \in {keybinds[m], loading.rest.binds[m]}
      BY <1>2, <3>1
    <3>4. OwnBinds(keybinds')
      BY <1>2, <3>1, <3>3 DEF OwnBinds, BoundAlike
    <3>5. QED
      BY <3>1, <3>2, <3>4
  <2>4. CASE FinishLoad
    BY <1>2, <2>4 DEF FinishLoad
  <2>5. QED
    BY <2>1, <2>2, <2>3, <2>4 DEF ProfileCommand
<1>4. RecordsWell'
  BY <1>1, <1>2, Unrecorded DEF recVars
<1>5. UNCHANGED <<held, pressedKeys, event, pc, todo, seen, runTurbo>> /\ deleting' = NULL
  BY <1>1, <1>2 DEF ctlVars, timerVars
<1>6. QED
  BY <1>3, <1>4, <1>5, OwnCommand

LEMMA OwnStep ==
  ASSUME RecordsOnly, OwnInv, [ControlNext]_<<vars, controlVars>>
  PROVE  OwnInv'
<1>1. ControlTypeOK'
  <2>1. DeletesFromSome
    BY DEF OwnInv, DeletesFromSome
  <2>2. QED
    BY <2>1, ControlTypeStep DEF OwnInv
<1>2. CASE UNCHANGED <<vars, controlVars>>
  <2>1. /\ UNCHANGED <<held, pressedKeys, event, pc, todo, seen, keybinds, loading, deleting,
                       runTurbo, recVars, request, early>>
    BY <1>2 DEF vars, keyVars, ctlVars, mapVars, timerVars, controlVars
  <2>2. RecordsWell'
    BY <2>1, Unrecorded DEF OwnInv, recVars
  <2>3. OwnBinds(keybinds') /\ deleting' = NULL
        /\ (loading' # NULL => OwnBinds(loading'.rest.binds))
    BY <2>1 DEF OwnInv
  <2>4. QED
    BY <1>1, <2>1, <2>2, <2>3, OwnCommand
<1>3. QED
  BY <1>1, <1>2, OwnThread, OwnMapCommand, OwnMacroCommand, OwnProfileCommand
     DEF ControlNext, Command

LEMMA OwnInit == RecordsOnly /\ ControlInit => OwnInv
<1>1. SUFFICES ASSUME RecordsOnly, ControlInit PROVE OwnInv
  OBVIOUS
<1>2. ControlTypeOK
  BY <1>1, ControlTypeInit
<1>3. /\ keybinds = BaseBinds /\ loading = NULL /\ deleting = NULL /\ runTurbo = <<>>
      /\ pc = "select" /\ seen = Nothing /\ pressedKeys = {} /\ recording \notin MacroNames
  BY <1>1, BaseIsTyped, PointersAreDistinct DEF ControlInit, Init
<1>4. QED
  BY <1>1, <1>2, <1>3
     DEF RecordsOnly, OwnInv, PressedAreHeld, Upcoming, RecordsWell, BindIsSeen, Nothing

(* A recording ends with the press of the keys that are held, as far as it  *)
(* saw them pressed, and with the release of the others, whatever profiles  *)
(* and maps are switched, macros played and recordings started meanwhile -  *)
(* in states between two steps of the thread too.  Nothing is claimed of a  *)
(* key that went down or up between the stores of recordmacro, which is in  *)
(* early.                                                                   *)
THEOREM RecordingsMatchKeys ==
  ASSUME RecordsOnly
  PROVE  ControlSpec => []RecordMatchesKeys
<1>1. OwnInv => RecordMatchesKeys
  BY DEF OwnInv, RecordsWell, RecordMatchesKeys, Promised
<1>2. OwnInv /\ [ControlNext]_<<vars, controlVars>> => OwnInv'
  BY OwnStep
<1>3. ControlInit => OwnInv
  BY OwnInit
<1>4. QED
  BY <1>1, <1>2, <1>3, PTL DEF ControlSpec
=============================================================================
