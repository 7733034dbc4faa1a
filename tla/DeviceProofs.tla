----------------------------- MODULE DeviceProofs -----------------------------
(***************************************************************************)
(* Theorems about the input thread, for every table of binds, every set of *)
(* keys and maps, and without the bounds the model checker needs: no proof *)
(* uses the values of MaxGap, MaxRecord, MaxBase, MaxTimers and MaxLate.   *)
(***************************************************************************)
EXTENDS Device, SequenceLemmas

-----------------------------------------------------------------------------
(* What the helpers of Device return.                                       *)

(* The type of an action tells which fields it has.                         *)
LEMMA ActionKinds ==
  ASSUME NEW act \in BindAction
  PROVE  /\ act.type = "key" => act \in KeyAction
         /\ act.type = "turbo" => act \in TurboAction
         /\ act.type = "rel" => act \in RelAction
         /\ act.type = "relconst" => act \in RelConstAction
         /\ act.type \in {"switchmap", "shiftmap"} => act \in MapAction
         /\ act.type = "macro" => act \in MacroAction
  BY DEF BindAction, KeyAction, TurboAction, RelAction, RelConstAction,
         StatelessAction, MapAction, MacroAction

LEMMA EventKinds ==
  ASSUME NEW e \in Event
  PROVE  /\ e.type = "key" => e \in [type : {"key"}, code : Keys, value : 0..2]
         /\ e.type = "rel" => e \in [type : {"rel"}, code : Rels, value : Int]
  BY DEF Event

LEMMA StepKinds ==
  ASSUME NEW step \in MacroStep
  PROVE  /\ step.type = "key" =>
              step \in [type : {"key"}, code : Keys, value : 0..2]
         /\ step.type = "rel" =>
              step \in [type : {"rel"}, code : Rels, value : Int]
         /\ step.type = "wait" => step \in [type : {"wait"}, time : Nat]
  BY DEF MacroStep

LEMMA LatchType ==
  ASSUME NEW bits \in SUBSET Keys, NEW code \in Keys, NEW value
  PROVE  Latch(bits, code, value) \in SUBSET Keys
  BY DEF Latch

(* Setting the deadline of a timer.                                         *)
LEMMA DeadlineTurbo ==
  ASSUME NEW t \in Turbo
  PROVE  [t EXCEPT !.next = @ - 1] \in Turbo
  BY DEF Turbo

LEMMA DeadlineRelConst ==
  ASSUME NEW t \in RelConst
  PROVE  [t EXCEPT !.next = @ - 1] \in RelConst
  BY DEF RelConst

LEMMA DeadlinePlaying ==
  ASSUME NEW t \in Playing
  PROVE  [t EXCEPT !.next = @ - 1] \in Playing
  BY DEF Playing

(* The next phase of a turbo, and the next step of a macro.                 *)
LEMMA ToggledType ==
  ASSUME NEW t \in Turbo
  PROVE  Toggled(t) \in Turbo
  BY DEF Toggled, Turbo, PhaseTime

LEMMA StepToType ==
  ASSUME NEW p \in Playing, NEW pause \in Nat
  PROVE  StepTo(p, pause) \in Playing
  BY DEF StepTo, Playing

(* Ageing keeps a queue of timers a queue of timers.                        *)
LEMMA AgeTurbo ==
  ASSUME NEW q \in Seq(Turbo)
  PROVE  Age(q) \in Seq(Turbo)
<1>1. Len(q) \in Nat /\ DOMAIN q = 1..Len(q) /\ \A i \in DOMAIN q : q[i] \in Turbo
  BY Positions
<1>2. \A i \in DOMAIN q : [q[i] EXCEPT !.next = @ - 1] \in Turbo
  BY <1>1, DeadlineTurbo
<1>3. Age(q) \in [1..Len(q) -> Turbo]
  BY <1>1, <1>2 DEF Age
<1>4. QED
  BY <1>1, <1>3, FunctionIsSeq

LEMMA AgeRelConst ==
  ASSUME NEW q \in Seq(RelConst)
  PROVE  Age(q) \in Seq(RelConst)
<1>1. Len(q) \in Nat /\ DOMAIN q = 1..Len(q) /\ \A i \in DOMAIN q : q[i] \in RelConst
  BY Positions
<1>2. \A i \in DOMAIN q : [q[i] EXCEPT !.next = @ - 1] \in RelConst
  BY <1>1, DeadlineRelConst
<1>3. Age(q) \in [1..Len(q) -> RelConst]
  BY <1>1, <1>2 DEF Age
<1>4. QED
  BY <1>1, <1>3, FunctionIsSeq

LEMMA AgePlaying ==
  ASSUME NEW q \in Seq(Playing)
  PROVE  Age(q) \in Seq(Playing)
<1>1. Len(q) \in Nat /\ DOMAIN q = 1..Len(q) /\ \A i \in DOMAIN q : q[i] \in Playing
  BY Positions
<1>2. \A i \in DOMAIN q : [q[i] EXCEPT !.next = @ - 1] \in Playing
  BY <1>1, DeadlinePlaying
<1>3. Age(q) \in [1..Len(q) -> Playing]
  BY <1>1, <1>2 DEF Age
<1>4. QED
  BY <1>1, <1>3, FunctionIsSeq

LEMMA AgeOfType ==
  ASSUME NEW t \in Nat \cup {NotYet}
  PROVE  AgeOf(t) \in Nat \cup {NotYet}
  BY BoundsAreTyped DEF AgeOf

(* The chain of comparisons names a kind of timer.                          *)
LEMMA ChoiceType == Choice.what \in {"turbo", "relconst", "macro"}
  BY DEF Choice, Consider

(* Erasing the middle of mapStack leaves entries it had.                    *)
LEMMA PopShiftProperties ==
  ASSUME NEW S, NEW stack \in Seq(S), NEW i \in DOMAIN stack
  PROVE  /\ PopShift(stack, i) \in Seq(S)
         /\ Len(PopShift(stack, i)) = i
         /\ \A j \in 1..i : PopShift(stack, i)[j] =
              IF j < i THEN stack[j] ELSE stack[Len(stack)]
<1>1. /\ Len(stack) \in Nat
      /\ i \in 1..Len(stack)
      /\ \A j \in 1..Len(stack) : stack[j] \in S
  BY Positions
<1> DEFINE left == SubSeq(stack, 1, i - 1)
           right == <<stack[Len(stack)]>>
<1>2. /\ left \in Seq(S)
      /\ Len(left) = i - 1
      /\ \A j \in 1..(i - 1) : left[j] = stack[j]
  <2>1. \A j \in 1..(i - 1) : stack[j] \in S
    BY <1>1
  <2>2. QED
    BY <2>1, <1>1, SubSeqProperties
<1>3. /\ right \in Seq(S)
      /\ Len(right) = 1
      /\ right[1] = stack[Len(stack)]
  BY <1>1
<1>4. PopShift(stack, i) = left \o right
  BY DEF PopShift
<1> HIDE DEF left, right
<1>5. /\ left \o right \in Seq(S)
      /\ Len(left \o right) = Len(left) + Len(right)
      /\ \A j \in 1..(Len(left) + Len(right)) : (left \o right)[j] =
           IF j <= Len(left) THEN left[j] ELSE right[j - Len(left)]
  BY <1>2, <1>3, ConcatProperties, Zenon
<1>6. \A j \in 1..i : (left \o right)[j] =
        IF j < i THEN stack[j] ELSE stack[Len(stack)]
  <2>1. SUFFICES ASSUME NEW j \in 1..i
                 PROVE  (left \o right)[j] =
                          IF j < i THEN stack[j] ELSE stack[Len(stack)]
    OBVIOUS
  <2>2. j \in 1..(Len(left) + Len(right))
    BY <1>1, <1>2, <1>3
  <2>3. CASE j < i
    BY <2>2, <2>3, <1>1, <1>2, <1>5
  <2>4. CASE j = i
    <3>1. (left \o right)[j] = right[1]
      <4>1. ~(j <= Len(left)) /\ j - Len(left) = 1
        BY <2>4, <1>1, <1>2
      <4>2. (left \o right)[j] = right[j - Len(left)]
        BY <2>2, <4>1, <1>5
      <4>3. QED
        BY <4>1, <4>2
    <3>2. ~(j < i)
      BY <2>4, <1>1
    <3>3. QED
      BY <3>1, <3>2, <1>3, Zenon
  <2>5. j < i \/ j = i
    BY <1>1
  <2>6. QED
    BY <2>3, <2>4, <2>5, Zenon
<1>7. QED
  BY <1>1, <1>2, <1>3, <1>4, <1>5, <1>6
-----------------------------------------------------------------------------
(* Recording keeps the recording well typed.                                *)

LEMMA PauseType ==
  ASSUME RecTypes
  PROVE  Pause \in Seq(MacroStep)
<1>1. CASE sinceLast = NotYet
  BY <1>1 DEF Pause
<1>2. CASE sinceLast # NotYet
  <2>1. [type |-> "wait", time |-> sinceLast] \in MacroStep
    BY <1>2 DEF RecTypes, MacroStep
  <2>2. QED
    BY <1>2, <2>1 DEF Pause
<1>3. QED
  BY <1>1, <1>2

LEMMA RecordType ==
  ASSUME RecTypes, ub \in BOOLEAN, NEW step \in MacroStep, Record(step)
  PROVE  RecTypes' /\ ub' \in BOOLEAN
<1>1. CASE recording \in MacroNames
  <2>1. (macros[recording] \o Pause) \o <<step>> \in Seq(MacroStep)
    <3>1. macros[recording] \in Seq(MacroStep)
      BY <1>1 DEF RecTypes
    <3>2. macros[recording] \o Pause \in Seq(MacroStep)
      BY <3>1, PauseType, ConcatProperties
    <3>3. QED
      BY <3>2, ConcatProperties
  <2>2. macros' \in [MacroNames -> Seq(MacroStep)]
    BY <2>1, <1>1 DEF RecTypes, Record
  <2>3. QED
    BY <2>2, <1>1 DEF RecTypes, Record
<1>2. CASE recording \notin MacroNames
  BY <1>2 DEF RecTypes, Record
<1>3. QED
  BY <1>1, <1>2

LEMMA RecordKeyType ==
  ASSUME RecTypes, ub \in BOOLEAN, NEW code \in Keys, NEW value \in 0..2,
         RecordKey(code, value)
  PROVE  RecTypes' /\ ub' \in BOOLEAN
<1> DEFINE step == [type |-> "key", code |-> code, value |-> value]
<1>1. step \in MacroStep
  BY DEF MacroStep
<1>2. CASE Record(step)
  BY <1>1, <1>2, RecordType
<1>3. CASE ~Record(step)
  BY <1>3 DEF RecordKey, RecTypes, recVars, NoRecord
<1>4. QED
  BY <1>2, <1>3

LEMMA RecordRelType ==
  ASSUME RecTypes, ub \in BOOLEAN, NEW code \in Rels, NEW value \in Int,
         RecordRel(code, value)
  PROVE  RecTypes' /\ ub' \in BOOLEAN
<1> DEFINE step == [type |-> "rel", code |-> code, value |-> value]
<1>1. step \in MacroStep
  BY DEF MacroStep
<1>2. CASE Record(step)
  BY <1>1, <1>2, RecordType
<1>3. CASE ~Record(step)
  BY <1>3 DEF RecordRel, RecTypes, recVars, NoRecord
<1>4. QED
  BY <1>2, <1>3

(* The action at the head of a list, and the rest of the list.              *)
LEMMA TodoType ==
  ASSUME CtlTypes, todo # <<>>
  PROVE  Now \in BindAction /\ Tail(todo) \in Seq(BindAction)
  BY HeadTailProperties DEF CtlTypes, Now

(* The entries of that list and of its rest.                                *)
LEMMA TodoEntries ==
  ASSUME TypeOK, todo # <<>>
  PROVE  /\ 1 \in DOMAIN todo /\ Now = todo[1]
         /\ \A i \in DOMAIN Tail(todo) :
              i + 1 \in DOMAIN todo /\ Tail(todo)[i] = todo[i + 1]
         /\ \A i \in DOMAIN todo \ {1} :
              i - 1 \in DOMAIN Tail(todo) /\ Tail(todo)[i - 1] = todo[i]
<1>1. todo \in Seq(BindAction)
  BY DEF TypeOK, CtlTypes
<1>2. /\ Len(todo) \in Nat \ {0}
      /\ DOMAIN todo = 1..Len(todo)
      /\ Tail(todo) \in Seq(BindAction)
      /\ Len(Tail(todo)) = Len(todo) - 1
      /\ \A i \in 1..(Len(todo) - 1) : Tail(todo)[i] = todo[i + 1]
  BY <1>1, EmptySeq, LenProperties, HeadTailProperties
<1>3. DOMAIN Tail(todo) = 1..(Len(todo) - 1)
  BY <1>2, LenProperties
<1>4. Now = todo[1]
  BY <1>1 DEF Now
<1>5. \A i \in DOMAIN todo \ {1} : i - 1 \in 1..(Len(todo) - 1) /\ (i - 1) + 1 = i
  BY <1>2
<1>6. QED
  BY <1>2, <1>3, <1>4, <1>5

-----------------------------------------------------------------------------
(* Type correctness.                                                        *)

LEMMA InitType == Init => TypeOK
<1>1. SUFFICES ASSUME Init PROVE TypeOK
  OBVIOUS
<1>2. MapTypes /\ KeyTypes
  BY <1>1, BaseIsTyped DEF Init, MapTypes, KeyTypes
<1>3. TimerTypes /\ RecTypes
  BY <1>1, BaseIsTyped DEF Init, TimerTypes, RecTypes
<1>4. CtlTypes /\ ub \in BOOLEAN
  <2>1. NoEvent \in Event
    BY DEF Event, NoEvent
  <2>2. event \in Event
    BY <1>1, <2>1 DEF Init
  <2>3. CtlTypes
    BY <1>1, <2>2 DEF Init, CtlTypes
  <2>4. QED
    BY <1>1, <2>3 DEF Init
<1>5. WindowTypes
  BY <1>1 DEF Init, WindowTypes, Nothing, Seen
<1>6. QED
  BY <1>2, <1>3, <1>4, <1>5 DEF TypeOK

(* The type invariant but for what has been looked up or is to be stored.   *)
StateTypes ==
  MapTypes /\ KeyTypes /\ TimerTypes /\ RecTypes /\ CtlTypes /\ ub \in BOOLEAN

(* The steps of the thread that look something up.                          *)
Looks == TestMap \/ TestBind \/ LookUpMap

LEMMA LooksChangeNothing ==
  ASSUME Looks
  PROVE  UNCHANGED <<mapVars, keyVars, timerVars, recVars, ctlVars, request, ub>>
BY DEF Looks, TestMap, TestBind, LookUpMap, Sees

LEMMA LooksType ==
  ASSUME TypeOK, Looks
  PROVE  StateTypes'
<1>1. UNCHANGED <<mapVars, keyVars, timerVars, recVars, ctlVars, request, ub>>
  BY LooksChangeNothing
<1>2. QED
  BY <1>1 DEF TypeOK, StateTypes, MapTypes, KeyTypes, TimerTypes, RecTypes, CtlTypes, mapVars,
     keyVars, timerVars, recVars, ctlVars

LEMMA TimersType ==
  ASSUME TypeOK, Timers
  PROVE  StateTypes'
<1> USE DEF TypeOK, StateTypes
<1>1. ASSUME NEW i \in DOMAIN runTurbo, FireTurbo(i)
      PROVE  StateTypes'
  <2>1. runTurbo[i] \in Turbo
    BY Positions DEF TimerTypes
  <2>2. Toggled(runTurbo[i]) \in Turbo
    BY <2>1, ToggledType
  <2>3. runTurbo' = [runTurbo EXCEPT ![i] = Toggled(runTurbo[i])]
    BY <1>1 DEF FireTurbo
  <2>4. TimerTypes'
    BY <1>1, <2>2, <2>3, ReplaceProperties DEF FireTurbo, TimerTypes
  <2>5. RecTypes' /\ ub' \in BOOLEAN
    <3>1. PhaseValue(~runTurbo[i].phase) \in 0..2
      BY DEF PhaseValue
    <3>2. QED
      BY <1>1, <2>1, <3>1, RecordKeyType DEF FireTurbo, Turbo
  <2>6. KeyTypes'
    BY <1>1, <2>1, LatchType
       DEF FireTurbo, KeyTypes, EmitUnlessStop, Emit, Turbo
  <2>7. MapTypes' /\ CtlTypes'
    BY <1>1 DEF FireTurbo, MapTypes, CtlTypes, mapVars
  <2>8. QED
    BY <2>4, <2>5, <2>6, <2>7
<1>2. ASSUME NEW i \in DOMAIN runRelConst, FireRelConst(i)
      PROVE  StateTypes'
  <2>1. runRelConst[i] \in RelConst
    BY Positions DEF TimerTypes
  <2> DEFINE next == [runRelConst[i] EXCEPT !.next = @ + runRelConst[i].delay]
  <2>2. next \in RelConst
    BY <2>1 DEF RelConst
  <2>3. runRelConst' = [runRelConst EXCEPT ![i] = next]
    BY <1>2, Positions DEF FireRelConst, TimerTypes
  <2>4. TimerTypes'
    BY <1>2, <2>2, <2>3, ReplaceProperties DEF FireRelConst, TimerTypes
  <2>5. RecTypes' /\ ub' \in BOOLEAN
    BY <1>2, <2>1, RecordRelType DEF FireRelConst, RelConst
  <2>6. MapTypes' /\ KeyTypes' /\ CtlTypes'
    BY <1>2 DEF FireRelConst, MapTypes, KeyTypes, CtlTypes, mapVars, keyVars
  <2>7. QED
    BY <2>4, <2>5, <2>6
<1>3. ASSUME NEW i \in DOMAIN runMacro, FireMacro(i) \/ PlayWild(i)
      PROVE  StateTypes'
  BY <1>3 DEF FireMacro, PlayWild, MapTypes, KeyTypes, TimerTypes, RecTypes,
     CtlTypes, mapVars, keyVars, timerVars, recVars, ctlVars
<1>4. ASSUME NEW i \in DOMAIN runMacro, PlayStep(i)
      PROVE  StateTypes'
  <2> DEFINE p == runMacro[i]
             step == macros[p.which][p.index]
  <2>1. p \in Playing
    BY Positions DEF TimerTypes
  <2>2. step \in MacroStep
    <3>1. p.which \in MacroNames /\ ~(p.index > Len(macros[p.which]))
      BY <1>4 DEF PlayStep, Sane, Finished
    <3>2. macros[p.which] \in Seq(MacroStep)
      BY <3>1 DEF RecTypes
    <3>3. p.index \in DOMAIN macros[p.which]
      BY <2>1, <3>1, <3>2, Positions DEF Playing
    <3>4. QED
      BY <3>2, <3>3, Positions
  <2>3. \A n \in Nat : StepTo(p, n) \in Playing
    BY <2>1, StepToType
  <2>4. \E n \in Nat : runMacro' = [runMacro EXCEPT ![i] = StepTo(p, n)]
    BY <1>4, <2>2, StepKinds DEF PlayStep
  <2>5. TimerTypes'
    BY <1>4, <2>3, <2>4, ReplaceProperties DEF PlayStep, TimerTypes
  <2>6. KeyTypes'
    BY <1>4, <2>2, StepKinds, LatchType DEF PlayStep, KeyTypes, Emit
  <2>7. MapTypes' /\ RecTypes' /\ CtlTypes' /\ ub' \in BOOLEAN
    BY <1>4 DEF PlayStep, MapTypes, RecTypes, CtlTypes, mapVars, recVars, At
  <2>8. QED
    BY <2>5, <2>6, <2>7
<1>5. ASSUME Cleanup
      PROVE  StateTypes'
  <2>1. runMacro' \in Seq(Playing)
    BY <1>5, RemoveAtProperties DEF Cleanup, TimerTypes
  <2>2. QED
    BY <1>5, <2>1 DEF Cleanup, MapTypes, KeyTypes, TimerTypes, RecTypes,
       CtlTypes, mapVars, keyVars, recVars
<1>6. QED
  BY <1>1, <1>2, <1>3, <1>4, <1>5 DEF Timers

LEMMA InputType ==
  ASSUME TypeOK, Input
  PROVE  StateTypes'
<1> USE DEF TypeOK, StateTypes
<1>1. ASSUME NEW k \in Keys, NEW v \in 0..2, ReadKey(k, v)
      PROVE  StateTypes'
  <2>1. event' \in Event
    BY <1>1 DEF ReadKey, Event
  <2>2. KeyTypes'
    BY <1>1, LatchType DEF ReadKey, KeyTypes
  <2>3. CtlTypes'
    BY <1>1, <2>1 DEF ReadKey, CtlTypes
  <2>4. MapTypes' /\ TimerTypes' /\ RecTypes' /\ ub' \in BOOLEAN
    BY <1>1 DEF ReadKey, MapTypes, TimerTypes, RecTypes, mapVars, timerVars,
       recVars
  <2>5. QED
    BY <2>2, <2>3, <2>4
<1>2. ASSUME NEW r \in Rels, ReadRel(r)
      PROVE  StateTypes'
  <2>1. event' \in Event
    BY <1>2 DEF ReadRel, Event
  <2>2. CtlTypes'
    BY <1>2, <2>1 DEF ReadRel, CtlTypes
  <2>3. QED
    BY <1>2, <2>2 DEF ReadRel, MapTypes, KeyTypes, TimerTypes, RecTypes,
       mapVars, keyVars, timerVars, recVars
<1>3. ASSUME ReadOther
      PROVE  StateTypes'
  <2>1. event' \in Event
    BY <1>3 DEF ReadOther, Event, NoEvent
  <2>2. CtlTypes'
    BY <1>3, <2>1 DEF ReadOther, CtlTypes
  <2>3. QED
    BY <1>3, <2>2 DEF ReadOther, MapTypes, KeyTypes, TimerTypes, RecTypes,
       mapVars, keyVars, timerVars, recVars
<1>4. QED
  BY <1>1, <1>2, <1>3 DEF Input

(* The current map has a bind for the key of the event.                     *)
LEMMA BoundType ==
  ASSUME MapTypes, CtlTypes, curmap \in Maps, event.type = "key"
  PROVE  Bound \in Bind /\ event.code \in Keys /\ event.value \in 0..2
<1>1. event \in [type : {"key"}, code : Keys, value : 0..2]
  BY EventKinds DEF CtlTypes
<1>2. QED
  BY <1>1 DEF MapTypes, Bound

LEMMA RewireType ==
  ASSUME TypeOK, Rewire
  PROVE  StateTypes'
<1> USE DEF TypeOK, StateTypes
<1>1. ASSUME NEW i \in DOMAIN mapStack, Unshift(i)
      PROVE  StateTypes'
  <2>1. mapStack[i] \in [map : Maps \cup {NULL, Dangling}, code : Keys]
    BY Positions DEF MapTypes
  <2>2. MapTypes'
    BY <1>1, <2>1, PopShiftProperties DEF Unshift, MapTypes
  <2>3. ub' \in BOOLEAN
    BY <1>1 DEF Unshift
  <2>4. QED
    BY <1>1, <2>2, <2>3 DEF Unshift, KeyTypes, TimerTypes, RecTypes, CtlTypes,
       keyVars, timerVars, recVars
<1>2. ASSUME NoUnshift \/ RewireOther \/ RewireWild
      PROVE  StateTypes'
  BY <1>2 DEF NoUnshift, RewireOther, RewireWild, Rewired, MapTypes,
     KeyTypes, TimerTypes, RecTypes, CtlTypes, mapVars, keyVars, timerVars,
     recVars, ctlVars
<1>3. ASSUME RewireUnmapped
      PROVE  StateTypes'
  <2>1. MapTypes' /\ TimerTypes' /\ CtlTypes'
    BY <1>3 DEF RewireUnmapped, Rewired, MapTypes, TimerTypes, CtlTypes,
       mapVars, timerVars
  <2>2. CASE event.type = "key"
    <3>1. event.code \in Keys /\ event.value \in 0..2
      BY <2>2, EventKinds DEF CtlTypes
    <3>2. RecTypes' /\ ub' \in BOOLEAN
      BY <1>3, <2>2, <3>1, RecordKeyType DEF RewireUnmapped
    <3>3. KeyTypes'
      BY <1>3, <2>2, <3>1, LatchType
         DEF RewireUnmapped, Rewired, KeyTypes, Emit, LastKey
    <3>4. QED
      BY <2>1, <3>2, <3>3
  <2>3. CASE event.type = "rel"
    <3>1. event.code \in Rels /\ event.value \in Int
      BY <2>3, EventKinds DEF CtlTypes
    <3>2. RecTypes' /\ ub' \in BOOLEAN
      BY <1>3, <2>3, <3>1, RecordRelType DEF RewireUnmapped
    <3>3. KeyTypes'
      BY <1>3, <2>3 DEF RewireUnmapped, Rewired, KeyTypes
    <3>4. QED
      BY <2>1, <3>2, <3>3
  <2>4. CASE event.type = "other"
    BY <1>3, <2>1, <2>4 DEF RewireUnmapped, Rewired, NoRecord, KeyTypes,
       RecTypes, recVars
  <2>5. QED
    BY <1>3, <2>2, <2>3, <2>4 DEF RewireUnmapped
<1>4. ASSUME RewirePlain
      PROVE  StateTypes'
  <2>1. event.code \in Keys /\ event.value \in 0..2
    BY <1>4, BoundType DEF RewirePlain
  <2>2. RecTypes' /\ ub' \in BOOLEAN
    BY <1>4, <2>1, RecordKeyType DEF RewirePlain
  <2>3. KeyTypes'
    BY <1>4, <2>1, LatchType
       DEF RewirePlain, Rewired, KeyTypes, EmitUnlessStop, Emit, LastKey
  <2>4. QED
    BY <1>4, <2>2, <2>3 DEF RewirePlain, Rewired, MapTypes, TimerTypes,
       CtlTypes, mapVars, timerVars
<1>5. ASSUME RewireBound
      PROVE  StateTypes'
  <2>1. todo' \in Seq(BindAction)
    BY <1>5, BoundType DEF RewireBound, Bind
  <2>2. CtlTypes'
    BY <1>5, <2>1 DEF RewireBound, CtlTypes
  <2>3. QED
    BY <1>5, <2>2 DEF RewireBound, MapTypes, KeyTypes, TimerTypes, RecTypes,
       mapVars, keyVars, timerVars, recVars
<1>6. ASSUME RewireRel
      PROVE  StateTypes'
  <2>1. event.code \in Rels /\ event.value \in Int
    BY <1>6, EventKinds DEF RewireRel, CtlTypes
  <2>2. RecTypes' /\ ub' \in BOOLEAN
    BY <1>6, <2>1, RecordRelType DEF RewireRel
  <2>3. QED
    BY <1>6, <2>2 DEF RewireRel, Rewired, MapTypes, KeyTypes, TimerTypes,
       CtlTypes, mapVars, timerVars
<1>7. QED
  BY <1>1, <1>2, <1>3, <1>4, <1>5, <1>6, LooksType DEF Rewire, Looks

(* What every action of a bind does to the control of the thread.           *)
LEMMA PerformsType ==
  ASSUME TypeOK, NEW type, Performs(type)
  PROVE  /\ CtlTypes'
         /\ Now \in BindAction
         /\ Now.type = type
         /\ event.code \in Keys
         /\ event.value \in 0..2
<1>1. Now \in BindAction /\ Tail(todo) \in Seq(BindAction)
  BY TodoType DEF TypeOK, Performs
<1>2. event \in [type : {"key"}, code : Keys, value : 0..2]
  BY EventKinds DEF TypeOK, CtlTypes, Performs, At
<1>3. CtlTypes'
  BY <1>1 DEF TypeOK, CtlTypes, Performs, ctlVars
<1>4. QED
  BY <1>1, <1>2, <1>3 DEF Performs

LEMMA NoRecordType ==
  ASSUME RecTypes, ub \in BOOLEAN, NoRecord
  PROVE  RecTypes' /\ ub' \in BOOLEAN
  BY DEF RecTypes, NoRecord, recVars

LEMMA FoundIsMap ==
  ASSUME MapTypes, NEW m, Found(m)
  PROVE  m \in Maps /\ \E i \in DOMAIN mappings : mappings[i] = m
BY Positions DEF MapTypes, Found

(* findMap returns where a name comes first.                                *)
LEMMA FindMapFinds ==
  ASSUME MapTypes, NEW m, Found(m)
  PROVE  FindMap(m) \in DOMAIN mappings /\ mappings[FindMap(m)] = m
<1> DEFINE T == {i \in DOMAIN mappings : mappings[i] = m}
<1>1. DOMAIN mappings = 1..Len(mappings) /\ Len(mappings) \in Nat
  BY Positions DEF MapTypes
<1>2. T \in SUBSET Nat /\ T # {}
  BY <1>1, FoundIsMap
<1>3. PICK x \in T : \A y \in T : x <= y
  BY <1>2, LeastNumber
<1>4. x \in DOMAIN mappings /\ mappings[x] = m /\ \A j \in 1..(x - 1) : mappings[j] # m
  <2>1. ASSUME NEW j \in 1..(x - 1), mappings[j] = m
        PROVE  FALSE
    <3>1. j \in T
      BY <1>1, <1>3, <2>1
    <3>2. QED
      BY <1>1, <1>3, <3>1
  <2>2. QED
    BY <1>3, <2>1
<1>5. QED
  BY <1>4 DEF FindMap

LEMMA GoToPlaceType ==
  ASSUME MapTypes, RecTypes, GoToPlace
  PROVE  RecTypes' /\ ub' \in BOOLEAN /\ curmap' \in Maps \cup {NULL, Dangling}
<1>1. \A i \in DOMAIN mappings : mappings[i] \in Maps
  BY Positions DEF MapTypes
<1>2. QED
  BY <1>1 DEF GoToPlace, RecTypes, recVars

LEMMA ActType ==
  ASSUME TypeOK, Act
  PROVE  StateTypes'
<1> USE DEF TypeOK, StateTypes
<1>1. ASSUME ActKey
      PROVE  StateTypes'
  <2>1. CtlTypes' /\ Now.code \in Keys /\ event.value \in 0..2
    BY <1>1, PerformsType, ActionKinds DEF ActKey, KeyAction
  <2>2. RecTypes' /\ ub' \in BOOLEAN
    BY <1>1, <2>1, RecordKeyType DEF ActKey
  <2>3. KeyTypes'
    BY <1>1, <2>1, LatchType
       DEF ActKey, Performs, KeyTypes, EmitUnlessStop, Emit
  <2>4. QED
    BY <1>1, <2>1, <2>2, <2>3 DEF ActKey, Performs, MapTypes, TimerTypes,
       timerVars
<1>2. ASSUME ActTurboPress
      PROVE  StateTypes'
  <2>1. CtlTypes' /\ Now \in TurboAction
    BY <1>2, PerformsType, ActionKinds DEF ActTurboPress
  <2>2. Now.code \in Keys /\ Now.on \in Nat /\ Now.off \in Nat
    BY <2>1 DEF TurboAction
  <2>3. RecTypes' /\ ub' \in BOOLEAN
    BY <1>2, <2>2, RecordKeyType DEF ActTurboPress
  <2>4. KeyTypes'
    BY <1>2, <2>2, LatchType
       DEF ActTurboPress, Performs, KeyTypes, EmitUnlessStop, Emit
  <2>5. [code |-> Now.code, on |-> Now.on, off |-> Now.off,
         phase |-> TRUE, next |-> Now.on] \in Turbo
    BY <2>2 DEF Turbo
  <2>6. TimerTypes'
    BY <1>2, <2>5, AppendProperties DEF ActTurboPress, TimerTypes
  <2>7. QED
    BY <1>2, <2>1, <2>3, <2>4, <2>6 DEF ActTurboPress, Performs, MapTypes
<1>3. ASSUME ActTurboRelease
      PROVE  StateTypes'
  <2>1. CtlTypes' /\ Now.code \in Keys
    BY <1>3, PerformsType, ActionKinds DEF ActTurboRelease, TurboAction
  <2>2. RecTypes' /\ ub' \in BOOLEAN
    BY <1>3, <2>1, RecordKeyType, NoRecordType DEF ActTurboRelease
  <2>3. KeyTypes'
    BY <1>3, <2>1, LatchType DEF ActTurboRelease, Performs, KeyTypes, Emit
  <2>4. TimerTypes'
    BY <1>3, RemoveAtProperties DEF ActTurboRelease, TimerTypes
  <2>5. QED
    BY <1>3, <2>1, <2>2, <2>3, <2>4 DEF ActTurboRelease, Performs, MapTypes
<1>4. ASSUME ActRel
      PROVE  StateTypes'
  <2>1. CtlTypes' /\ Now.code \in Rels /\ Now.value \in Int
    BY <1>4, PerformsType, ActionKinds DEF ActRel, RelAction
  <2>2. RecTypes' /\ ub' \in BOOLEAN
    BY <1>4, <2>1, RecordRelType, NoRecordType DEF ActRel
  <2>3. QED
    BY <1>4, <2>1, <2>2 DEF ActRel, Performs, MapTypes, KeyTypes, TimerTypes,
       timerVars
<1>5. ASSUME ActRelConstPress
      PROVE  StateTypes'
  <2>1. CtlTypes' /\ Now \in RelConstAction
    BY <1>5, PerformsType, ActionKinds DEF ActRelConstPress
  <2>2. Now.code \in Rels /\ Now.value \in Int /\ Now.delay \in Nat
    BY <2>1 DEF RelConstAction
  <2>3. RecTypes' /\ ub' \in BOOLEAN
    BY <1>5, <2>2, RecordRelType DEF ActRelConstPress
  <2>4. [code |-> Now.code, value |-> Now.value, delay |-> Now.delay,
         next |-> Now.delay] \in RelConst
    BY <2>2 DEF RelConst
  <2>5. TimerTypes'
    BY <1>5, <2>4, AppendProperties DEF ActRelConstPress, TimerTypes
  <2>6. QED
    BY <1>5, <2>1, <2>3, <2>5 DEF ActRelConstPress, Performs, MapTypes, KeyTypes
<1>6. ASSUME ActRelConstRelease
      PROVE  StateTypes'
  <2>1. CtlTypes'
    BY <1>6, PerformsType DEF ActRelConstRelease
  <2>2. RecTypes' /\ ub' \in BOOLEAN
    BY <1>6, NoRecordType DEF ActRelConstRelease
  <2>3. TimerTypes'
    BY <1>6, RemoveAtProperties DEF ActRelConstRelease, TimerTypes
  <2>4. QED
    BY <1>6, <2>1, <2>2, <2>3 DEF ActRelConstRelease, Performs, MapTypes,
       KeyTypes
<1>7. ASSUME ActSwitchMap
      PROVE  StateTypes'
  <2>1. CtlTypes'
    BY <1>7, PerformsType DEF ActSwitchMap
  <2>2. RecTypes' /\ ub' \in BOOLEAN /\ curmap' \in Maps \cup {NULL, Dangling}
    BY <1>7, GoToPlaceType DEF ActSwitchMap
  <2>3. QED
    BY <1>7, <2>1, <2>2 DEF ActSwitchMap, Performs, ReleaseKeys, MapTypes,
       KeyTypes, TimerTypes, timerVars
<1>8. ASSUME ActShiftMap
      PROVE  StateTypes'
  <2>1. CtlTypes' /\ event.code \in Keys
    BY <1>8, PerformsType DEF ActShiftMap
  <2>2. RecTypes' /\ ub' \in BOOLEAN /\ curmap' \in Maps \cup {NULL, Dangling}
    BY <1>8, GoToPlaceType DEF ActShiftMap
  <2>3. [map |-> curmap, code |-> event.code]
          \in [map : Maps \cup {NULL, Dangling}, code : Keys]
    BY <2>1 DEF MapTypes
  <2>4. MapTypes'
    BY <1>8, <2>2, <2>3, AppendProperties DEF ActShiftMap, Performs, MapTypes
  <2>5. QED
    BY <1>8, <2>1, <2>2, <2>4 DEF ActShiftMap, Performs, ReleaseKeys, KeyTypes,
       TimerTypes, timerVars
<1>9. ASSUME ActMacro
      PROVE  StateTypes'
  <2>1. CtlTypes' /\ Now.macro \in MacroNames
    BY <1>9, PerformsType, ActionKinds DEF ActMacro, MacroAction
  <2>2. RecTypes' /\ ub' \in BOOLEAN
    BY <1>9, NoRecordType DEF ActMacro
  <2>3. [which |-> Now.macro, index |-> 1, next |-> 0] \in Playing
    BY <2>1 DEF Playing
  <2>4. TimerTypes'
    BY <1>9, <2>3, AppendProperties DEF ActMacro, TimerTypes
  <2>5. QED
    BY <1>9, <2>1, <2>2, <2>4 DEF ActMacro, Performs, MapTypes, KeyTypes
<1>10. ASSUME ActNothing
       PROVE  StateTypes'
  <2>1. PICK type : Performs(type)
    BY <1>10 DEF ActNothing
  <2>2. CtlTypes'
    BY <2>1, PerformsType
  <2>3. RecTypes' /\ ub' \in BOOLEAN
    BY <1>10, NoRecordType DEF ActNothing
  <2>4. QED
    BY <1>10, <2>1, <2>2, <2>3 DEF ActNothing, Performs, MapTypes, KeyTypes,
       TimerTypes, timerVars
<1>11. ASSUME FinishEvent
       PROVE  StateTypes'
  <2>1. event.code \in Keys
    BY <1>11, EventKinds DEF FinishEvent, At, CtlTypes
  <2>2. QED
    BY <1>11, <2>1 DEF FinishEvent, Rewired, LastKey, MapTypes, KeyTypes,
       TimerTypes, RecTypes, CtlTypes, mapVars, timerVars, recVars
<1>12. QED
  BY <1>1, <1>2, <1>3, <1>4, <1>5, <1>6, <1>7, <1>8, <1>9, <1>10, <1>11, LooksType
     DEF Act, Looks

LEMMA ClientType ==
  ASSUME TypeOK, Client
  PROVE  StateTypes'
<1> USE DEF TypeOK, StateTypes
<1>1. UNCHANGED <<mapVars, keyVars, timerVars, ctlVars, macros, liveMacros, ub>>
  BY DEF Client, RecordMacro, StoreStopKey, StoreIgnored
<1>2. MapTypes' /\ KeyTypes' /\ TimerTypes' /\ CtlTypes' /\ ub' \in BOOLEAN
  BY <1>1 DEF MapTypes, KeyTypes, TimerTypes, CtlTypes, mapVars, keyVars, timerVars, ctlVars
<1>3. ASSUME NEW m \in MacroNames, NEW s \in StopKeys, RecordMacro(m, s)
      PROVE  RecTypes'
  BY <1>3 DEF RecordMacro, RecTypes
<1>4. ASSUME StoreStopKey
      PROVE  RecTypes'
  <2>1. request.stopKey \in Keys
    BY <1>4, BaseIsTyped DEF StoreStopKey, WindowTypes, Request
  <2>2. QED
    BY <1>4, <2>1 DEF StoreStopKey, RecTypes
<1>5. ASSUME StoreIgnored
      PROVE  RecTypes'
  <2>1. UnderWay \in SUBSET Keys
    <3>1. event.type = "key" => event.code \in Keys
      BY EventKinds DEF CtlTypes
    <3>2. todo # <<>> => Now \in BindAction
      BY TodoType
    <3>3. todo # <<>> /\ Now.type \in {"key", "turbo"} => Now.code \in Keys
      BY <3>2, ActionKinds DEF KeyAction, TurboAction
    <3>4. QED
      BY <3>1, <3>3 DEF UnderWay
  <2>2. Copies \subseteq SUBSET Keys
    BY <2>1, LatchType DEF Copies, KeyTypes
  <2>3. QED
    BY <1>5, <2>2 DEF StoreIgnored, RecTypes
<1>6. QED
  BY <1>2, <1>3, <1>4, <1>5 DEF Client

(* Every other step of the thread forgets what was looked up.               *)
LEMMA UsesWhatItSees ==
  ASSUME Thread, ~Looks
  PROVE  Uses
<1>1. CASE Select \/ Timers
  BY <1>1 DEF Select, Timers, FireTurbo, FireRelConst, FireMacro, PlayStep, PlayWild, Cleanup
<1>2. CASE Rewire
  BY <1>2 DEF Rewire, Looks, Unshift, NoUnshift, RewireUnmapped, RewirePlain, RewireBound,
     RewireRel, RewireOther, RewireWild, Rewired
<1>3. CASE Act
  BY <1>3 DEF Act, Looks, ActKey, ActTurboPress, ActTurboRelease, ActRel, ActRelConstPress,
     ActRelConstRelease, ActSwitchMap, ActShiftMap, ActMacro, ActNothing, FinishEvent, Rewired,
     Performs
<1>4. QED
  BY <1>1, <1>2, <1>3 DEF Thread

(* What is looked up is a place, and what recordmacro stores next is known. *)
LEMMA WindowType ==
  ASSUME TypeOK, [Next]_vars
  PROVE  WindowTypes'
<1> USE DEF TypeOK, WindowTypes
<1>1. Nothing \in Seen /\ \A what \in {"map", "bind", "place"}, x \in Nat :
                             [what |-> what, place |-> x] \in Seen
  BY DEF Nothing, Seen
<1>2. CASE Looks
  <2>1. UNCHANGED request
    BY <1>2, LooksChangeNothing
  <2>2. LookUpMap => FindMap(Now.map) \in Nat
    <3>1. LookUpMap => FindMap(Now.map) \in DOMAIN mappings
      BY FindMapFinds DEF LookUpMap
    <3>2. QED
      BY <3>1, Positions DEF MapTypes
  <2>3. seen' \in Seen
    BY <1>1, <1>2, <2>2 DEF Looks, TestMap, TestBind, LookUpMap, Sees
  <2>4. QED
    BY <2>1, <2>3
<1>3. CASE Thread /\ ~Looks
  BY <1>1, <1>3, UsesWhatItSees DEF Uses
<1>6. CASE Input \/ Tick
  BY <1>6 DEF Input, ReadKey, ReadRel, ReadOther, Tick
<1>7. CASE Client
  <2>1. UNCHANGED seen
    BY <1>7 DEF Client, RecordMacro, StoreStopKey, StoreIgnored
  <2>2. request' \in {NULL} \cup Request
    BY <1>7 DEF Client, RecordMacro, StoreStopKey, StoreIgnored, Request
  <2>3. QED
    BY <2>1, <2>2
<1>8. CASE UNCHANGED vars
  BY <1>8 DEF vars
<1>9. QED
  BY <1>2, <1>3, <1>6, <1>7, <1>8 DEF Next

LEMMA NextType == TypeOK /\ [Next]_vars => TypeOK'
<1>1. SUFFICES ASSUME TypeOK, [Next]_vars PROVE TypeOK'
  OBVIOUS
<1>2. SUFFICES StateTypes'
  BY <1>1, WindowType DEF TypeOK, StateTypes
<1> USE DEF TypeOK, StateTypes
<1>3. CASE Select
  BY <1>1, <1>3, ChoiceType DEF Select, MapTypes, KeyTypes, TimerTypes,
     RecTypes, CtlTypes, mapVars, keyVars, timerVars, recVars
<1>4. CASE Tick
  <2>1. TimerTypes'
    BY <1>1, <1>4, AgeTurbo, AgeRelConst, AgePlaying DEF Tick, TimerTypes
  <2>2. RecTypes'
    BY <1>1, <1>4, AgeOfType DEF Tick, RecTypes
  <2>3. QED
    BY <1>1, <1>4, <2>1, <2>2 DEF Tick, MapTypes, KeyTypes, CtlTypes, mapVars,
       keyVars, ctlVars
<1>5. CASE UNCHANGED vars
  BY <1>1, <1>5 DEF vars, MapTypes, KeyTypes, TimerTypes, RecTypes, CtlTypes,
     mapVars, keyVars, timerVars, recVars, ctlVars
<1>6. QED
  BY <1>1, <1>3, <1>4, <1>5, TimersType, RewireType, ActType, InputType, ClientType
     DEF Next, Thread

(* The thread's state is well typed whatever the binds, the input and the   *)
(* clients do: pointers point to maps and macros, positions are positions   *)
(* and every queue holds timers of its kind.                                *)
THEOREM TypeCorrect == Spec => []TypeOK
<1>1. QED
  BY InitType, NextType, PTL DEF Spec

-----------------------------------------------------------------------------
(* The timer the thread sleeps on exists.                                   *)

LEMMA ChosenExists ==
  /\ Choice.what = "turbo" /\ ~Idle => runTurbo # <<>>
  /\ Choice.what = "relconst" => runRelConst # <<>>
  /\ Choice.what = "macro" => runMacro # <<>>
  BY DEF Choice, Consider, Idle

LEMMA AgeEmpty ==
  ASSUME NEW S, NEW q \in Seq(S), q # <<>>
  PROVE  Age(q) # <<>>
<1>1. Len(q) \in Nat \ {0} /\ DOMAIN q = 1..Len(q)
  BY EmptySeq, LenProperties
<1>2. 1 \in DOMAIN Age(q)
  BY <1>1 DEF Age
<1>3. QED
  BY <1>2

LEMMA TimerTargetStep ==
  ASSUME TypeOK, TimerTargetExists, [Next]_vars
  PROVE  TimerTargetExists'
<1> USE DEF TimerTargetExists, Asleep
<1>1. CASE Select
  <2>1. /\ doWhat' = Choice.what
        /\ runTurbo' = runTurbo
        /\ runRelConst' = runRelConst
        /\ runMacro' = runMacro
    BY <1>1 DEF Select, timerVars
  <2>2. doWhat' \in {"turbo", "relconst", "macro"}
    BY <2>1, ChoiceType
  <2>3. Idle' <=> Idle
    BY <2>1 DEF Idle
  <2>4. QED
    BY <2>1, <2>2, <2>3, ChosenExists DEF Chosen
<1>2. CASE Tick
  <2>1. /\ runTurbo # <<>> => Age(runTurbo) # <<>>
        /\ runRelConst # <<>> => Age(runRelConst) # <<>>
        /\ runMacro # <<>> => Age(runMacro) # <<>>
    BY AgeEmpty DEF TypeOK, TimerTypes
  <2>2. Age(<<>>) = <<>>
    BY DEF Age
  <2>3. ~Idle' => ~Idle
    BY <1>2, <2>2 DEF Tick, Idle
  <2>4. Chosen # <<>> => Chosen' # <<>>
    BY <1>2, <2>1 DEF Tick, Chosen, ctlVars
  <2>5. QED
    BY <1>2, <2>3, <2>4 DEF Tick, At
<1>3. CASE Timers \/ Rewire \/ Act \/ Input
  <2>1. pc' # "sleep" \/ UNCHANGED <<pc, doWhat, timerVars>>
    BY <1>3 DEF Timers, FireTurbo, FireRelConst, FireMacro, PlayStep, PlayWild,
       Cleanup, Rewire, TestMap, TestBind, LookUpMap, Sees, Unshift, NoUnshift, RewireUnmapped,
       RewirePlain, RewireBound, RewireRel, RewireOther, RewireWild, Rewired, Act, ActKey,
       ActTurboPress, ActTurboRelease, ActRel, ActRelConstPress,
       ActRelConstRelease, ActSwitchMap, ActShiftMap, ActMacro, ActNothing,
       FinishEvent, Performs, At, Input, ReadKey, ReadRel, ReadOther, ctlVars
  <2>2. QED
    BY <2>1 DEF Chosen, Idle, timerVars
<1>4. CASE Client \/ UNCHANGED vars
  BY <1>4 DEF Client, RecordMacro, StoreStopKey, StoreIgnored, vars, Chosen, Idle, timerVars, ctlVars
<1>5. QED
  BY <1>1, <1>2, <1>3, <1>4 DEF Next, Thread

(* Whenever a timer is armed, the thread sleeps on one that exists, so the  *)
(* branches that log "smallest is a nihil!" are never taken.                *)
THEOREM TimerTarget == Spec => []TimerTargetExists
<1>1. Init => TimerTargetExists
  BY DEF Init, TimerTargetExists, Asleep
<1>2. TypeOK /\ TimerTargetExists /\ [Next]_vars => TimerTargetExists'
  BY TimerTargetStep
<1>3. QED
  BY TypeCorrect, <1>1, <1>2, PTL DEF Spec

-----------------------------------------------------------------------------
(* No undefined behaviour, as long as nobody frees what the thread uses.    *)

(* The thread records into a macro that exists, and every macro that plays  *)
(* exists and has a next step, but for the one that has just ended.         *)
PlaysWell ==
  /\ recording # Dangling
  /\ \A i \in DOMAIN runMacro : runMacro[i].which \in liveMacros
  /\ \A i, j \in DOMAIN runMacro :
       Finished(runMacro[i]) /\ Finished(runMacro[j]) => i = j /\ pc = "cleanup"

ShiftsAreSafe == \A i \in DOMAIN mapStack : mapStack[i].map \in Maps

(* What the thread has looked up still is so.                               *)
SeenHolds ==
  /\ seen.what \in {"map", "bind"} => pc = "rewire" /\ curmap \in Maps
  /\ seen.what = "place" => /\ pc = "actions" /\ todo # <<>>
                            /\ Now.type \in {"switchmap", "shiftmap"} /\ Pressed
                            /\ seen.place \in DOMAIN mappings
                            /\ mappings[seen.place] = Now.map

(* What a step that may record does.                                        *)
RecordsOn ==
  /\ ~ub' /\ recording' # Dangling /\ liveMacros' = liveMacros
  /\ \A m \in MacroNames : Len(macros[m]) <= Len(macros'[m])

LEMMA RecordOn ==
  ASSUME RecTypes, ~ub, recording # Dangling, recording # NULL,
         NEW step \in MacroStep, Record(step)
  PROVE  RecordsOn
<1>1. recording \in MacroNames /\ macros[recording] \in Seq(MacroStep) /\ <<step>> \in Seq(MacroStep)
  BY DEF RecTypes
<1>2. macros' = [macros EXCEPT ![recording] = (@ \o Pause) \o <<step>>]
      /\ UNCHANGED <<ub, recording, liveMacros>>
  BY <1>1 DEF Record
<1> DEFINE q == macros[recording] \o Pause
<1>3. q \in Seq(MacroStep) /\ Len(macros[recording]) <= Len(q)
  <2>1. Pause \in Seq(MacroStep) /\ Len(Pause) \in Nat /\ Len(macros[recording]) \in Nat
    BY <1>1, PauseType, Positions
  <2>2. q \in Seq(MacroStep) /\ Len(q) = Len(macros[recording]) + Len(Pause)
    BY <1>1, <2>1, ConcatProperties
  <2>3. QED
    BY <2>1, <2>2
<1>4. Len(q) <= Len(q \o <<step>>)
  <2> HIDE DEF q
  <2>1. Len(q) \in Nat /\ Len(q \o <<step>>) = Len(q) + Len(<<step>>) /\ Len(<<step>>) = 1
    BY <1>1, <1>3, ConcatProperties, Positions
  <2>2. QED
    BY <2>1
<1>5. Len(macros[recording]) \in Nat /\ Len(q) \in Nat /\ Len(q \o <<step>>) \in Nat
  BY <1>1, <1>3, ConcatProperties, Positions
<1>6. macros'[recording] = q \o <<step>>
  BY <1>1, <1>2 DEF RecTypes
<1> HIDE DEF q
<1>7. Len(macros[recording]) <= Len(macros'[recording])
  BY <1>3, <1>4, <1>5, <1>6
<1>8. ASSUME NEW m \in MacroNames
      PROVE  Len(macros[m]) <= Len(macros'[m])
  <2>1. CASE m = recording
    BY <1>7, <2>1
  <2>2. CASE m # recording
    <3>1. macros'[m] = macros[m] /\ Len(macros[m]) \in Nat
      BY <1>2, <2>2, Positions DEF RecTypes
    <3>2. QED
      BY <3>1
  <2>3. QED
    BY <2>1, <2>2
<1>9. QED
  BY <1>2, <1>8 DEF RecordsOn

LEMMA QuietRecord ==
  ASSUME RecTypes, ~ub, recording # Dangling, UNCHANGED <<ub, liveMacros, macros>>,
         recording' \in {recording, NULL}
  PROVE  RecordsOn
<1>1. \A m \in MacroNames : Len(macros[m]) \in Nat
  BY Positions DEF RecTypes
<1>2. QED
  BY <1>1, PointersAreDistinct DEF RecordsOn

LEMMA RecordKeyOn ==
  ASSUME RecTypes, ~ub, recording # Dangling,
         NEW code \in Keys, NEW value \in 0..2, RecordKey(code, value)
  PROVE  RecordsOn
<1> DEFINE step == [type |-> "key", code |-> code, value |-> value]
<1>1. step \in MacroStep
  BY DEF MacroStep
<1>2. CASE recording # NULL /\ Record(step)
  BY <1>1, <1>2, RecordOn
<1>3. CASE ~(recording # NULL /\ Record(step))
  BY <1>3, QuietRecord DEF RecordKey, NoRecord, recVars
<1>4. QED
  BY <1>2, <1>3

LEMMA RecordRelOn ==
  ASSUME RecTypes, ~ub, recording # Dangling,
         NEW code \in Rels, NEW value \in Int, RecordRel(code, value)
  PROVE  RecordsOn
<1> DEFINE step == [type |-> "rel", code |-> code, value |-> value]
<1>1. step \in MacroStep
  BY DEF MacroStep
<1>2. CASE recording # NULL /\ Record(step)
  BY <1>1, <1>2, RecordOn
<1>3. CASE recording = NULL
  BY <1>3, QuietRecord DEF RecordRel, NoRecord, recVars
<1>4. QED
  BY <1>2, <1>3 DEF RecordRel

(* Nothing but the deadlines of the macros that play changes.               *)
SamePlays ==
  /\ DOMAIN runMacro' = DOMAIN runMacro
  /\ \A i \in DOMAIN runMacro : /\ runMacro'[i].which = runMacro[i].which
                                /\ runMacro'[i].index = runMacro[i].index

LEMMA PlaysOn ==
  ASSUME TypeOK, TypeOK', PlaysWell, RecordsOn, SamePlays, pc # "cleanup" \/ pc' = pc
  PROVE  PlaysWell'
<1>1. \A i \in DOMAIN runMacro : runMacro[i].which \in MacroNames /\ runMacro[i].index \in Nat
  <2>1. \A i \in DOMAIN runMacro : runMacro[i] \in Playing
    BY Positions DEF TypeOK, TimerTypes
  <2>2. QED
    BY <2>1 DEF TypeOK, RecTypes, PlaysWell, Playing
<1>2. RecTypes
  BY DEF TypeOK
<1>3. ASSUME NEW i \in DOMAIN runMacro, Finished(runMacro[i])'
      PROVE  Finished(runMacro[i])
  <2> DEFINE m == runMacro[i].which
             x == runMacro[i].index
  <2>1. m \in MacroNames /\ x \in Nat /\ x > Len(macros'[m])
    BY <1>1, <1>3 DEF Finished, SamePlays
  <2>2. Len(macros[m]) <= Len(macros'[m])
    BY <2>1 DEF RecordsOn
  <2>3. Len(macros[m]) \in Nat /\ Len(macros'[m]) \in Nat
    BY <1>2, <2>1, Positions DEF TypeOK, RecTypes
  <2>4. x > Len(macros[m])
    BY <2>1, <2>2, <2>3
  <2>5. QED
    BY <2>1, <2>4 DEF Finished
<1>4. QED
  BY <1>3 DEF PlaysWell, RecordsOn, SamePlays

LEMMA QuietPlays ==
  ASSUME TypeOK, ~ub, PlaysWell, UNCHANGED <<ub, recVars>>
  PROVE  RecordsOn
BY QuietRecord DEF TypeOK, PlaysWell, recVars

LEMMA TimersPlay ==
  ASSUME TypeOK, TypeOK', ~ub, PlaysWell, Timers
  PROVE  ~ub' /\ PlaysWell'
<1>1. /\ RecTypes /\ recording # Dangling
      /\ \A i \in DOMAIN runMacro :
           /\ runMacro[i] \in Playing /\ Sane(runMacro[i])
           /\ runMacro[i].index \in Nat /\ macros[runMacro[i].which] \in Seq(MacroStep)
      /\ pc # "cleanup" => \A i \in DOMAIN runMacro : ~Finished(runMacro[i])
  <2>1. \A i \in DOMAIN runMacro : runMacro[i] \in Playing
    BY Positions DEF TypeOK, TimerTypes
  <2>2. RecTypes /\ recording # Dangling
    BY DEF TypeOK, PlaysWell
  <2>3. \A i \in DOMAIN runMacro : Sane(runMacro[i])
    BY <2>2 DEF RecTypes, PlaysWell, Sane
  <2>4. \A i \in DOMAIN runMacro :
          runMacro[i].index \in Nat /\ macros[runMacro[i].which] \in Seq(MacroStep)
    BY <2>1, <2>2, <2>3 DEF Playing, Sane, RecTypes
  <2>5. pc # "cleanup" => \A i \in DOMAIN runMacro : ~Finished(runMacro[i])
    BY DEF PlaysWell
  <2>6. QED
    BY <2>1, <2>2, <2>3, <2>4, <2>5
<1>2. ASSUME NEW i \in DOMAIN runTurbo, FireTurbo(i)
      PROVE  ~ub' /\ PlaysWell'
  <2>1. runTurbo[i] \in Turbo
    BY Positions DEF TypeOK, TimerTypes
  <2>2. runTurbo[i].code \in Keys /\ PhaseValue(~runTurbo[i].phase) \in 0..2
    BY <2>1 DEF Turbo, PhaseValue
  <2>3. RecordsOn
    BY <1>1, <1>2, <2>2, RecordKeyOn DEF FireTurbo
  <2>4. SamePlays /\ pc # "cleanup"
    BY <1>2 DEF FireTurbo, TimedOut, At, SamePlays
  <2>5. QED
    BY <2>3, <2>4, PlaysOn DEF RecordsOn
<1>3. ASSUME NEW i \in DOMAIN runRelConst, FireRelConst(i)
      PROVE  ~ub' /\ PlaysWell'
  <2>1. runRelConst[i] \in RelConst
    BY Positions DEF TypeOK, TimerTypes
  <2>2. runRelConst[i].code \in Rels /\ runRelConst[i].value \in Int
    BY <2>1 DEF RelConst
  <2>3. RecordsOn
    BY <1>1, <1>3, <2>2, RecordRelOn DEF FireRelConst
  <2>4. SamePlays /\ pc # "cleanup"
    BY <1>3 DEF FireRelConst, TimedOut, At, SamePlays
  <2>5. QED
    BY <2>3, <2>4, PlaysOn DEF RecordsOn
<1>4. ASSUME NEW i \in DOMAIN runMacro, FireMacro(i)
      PROVE  ~ub' /\ PlaysWell'
  <2>1. RecordsOn /\ SamePlays /\ pc # "cleanup"
    BY <1>4, QuietPlays DEF FireMacro, TimedOut, At, SamePlays, timerVars
  <2>2. QED
    BY <2>1, PlaysOn DEF RecordsOn
<1>5. ASSUME NEW i \in DOMAIN runMacro, PlayWild(i)
      PROVE  FALSE
  BY <1>1, <1>5 DEF PlayWild, At
<1>6. ASSUME NEW i \in DOMAIN runMacro, PlayStep(i)
      PROVE  ~ub' /\ PlaysWell'
  <2> DEFINE p == runMacro[i]
             n == Len(macros[p.which])
  <2>1. /\ pc = "macro" /\ UNCHANGED <<ub, recVars>>
        /\ \E pause : runMacro' = [runMacro EXCEPT ![i] = StepTo(p, pause)]
        /\ pc' = "cleanup" \/ p.index < n
    BY <1>6 DEF PlayStep, At
  <2>2. /\ DOMAIN runMacro' = DOMAIN runMacro
        /\ \A j \in DOMAIN runMacro : j # i => runMacro'[j] = runMacro[j]
        /\ runMacro'[i].which = p.which /\ runMacro'[i].index = p.index + 1
    BY <2>1 DEF StepTo
  <2>3. /\ macros' = macros /\ liveMacros' = liveMacros /\ recording' = recording
        /\ n \in Nat /\ p.index \in Nat
    BY <1>1, <2>1, Positions DEF recVars
  <2>4. \A j \in DOMAIN runMacro : runMacro'[j].which \in liveMacros
    BY <2>2 DEF PlaysWell
  <2>5. \A j \in DOMAIN runMacro : j # i => ~Finished(runMacro[j])'
    BY <1>1, <2>1, <2>2, <2>3 DEF Finished
  <2>6. pc' # "cleanup" => ~Finished(runMacro[i])'
    <3>1. p.index < n => ~(p.index + 1 > n)
      BY <2>3
    <3>2. QED
      BY <2>1, <2>2, <2>3, <3>1 DEF Finished
  <2>7. PlaysWell'
    BY <1>1, <2>2, <2>3, <2>4, <2>5, <2>6 DEF PlaysWell
  <2>8. QED
    BY <2>1, <2>7
<1>7. CASE Cleanup
  <2>1. pc = "cleanup" /\ UNCHANGED recVars
    BY <1>7 DEF Cleanup, At
  <2>2. macros' = macros /\ liveMacros' = liveMacros /\ recording' = recording
    BY <2>1 DEF recVars
  <2>3. ASSUME NEW i \in DOMAIN runMacro, Finished(runMacro[i]),
               runMacro' = RemoveAt(runMacro, i)
        PROVE  PlaysWell'
    <3>1. runMacro \in Seq(Playing)
      BY DEF TypeOK, TimerTypes
    <3>2. \A j \in DOMAIN runMacro' : \E k \in DOMAIN runMacro : k # i /\ runMacro'[j] = runMacro[k]
      BY <2>3, <3>1, RemoveAtEntries
    <3>3. \A k \in DOMAIN runMacro : k # i => ~Finished(runMacro[k])
      BY <2>3 DEF PlaysWell
    <3>4. ASSUME NEW j \in DOMAIN runMacro'
          PROVE  runMacro'[j].which \in liveMacros /\ ~Finished(runMacro[j])'
      <4>1. PICK k \in DOMAIN runMacro : k # i /\ runMacro'[j] = runMacro[k]
        BY <3>2
      <4>2. QED
        BY <2>2, <3>3, <4>1 DEF PlaysWell, Finished
    <3>5. QED
      BY <1>1, <2>2, <3>4 DEF PlaysWell
  <2>4. CASE /\ \A i \in DOMAIN runMacro : Sane(runMacro[i]) /\ ~Finished(runMacro[i])
             /\ UNCHANGED <<runMacro, ub>>
    <3>1. \A i \in DOMAIN runMacro : ~Finished(runMacro[i])'
      BY <2>2, <2>4 DEF Finished
    <3>2. QED
      BY <1>1, <2>2, <2>4, <3>1 DEF PlaysWell
  <2>5. QED
    BY <1>1, <1>7, <2>3, <2>4 DEF Cleanup
<1>8. QED
  BY <1>2, <1>3, <1>4, <1>5, <1>6, <1>7 DEF Timers

LEMMA RewirePlays ==
  ASSUME TypeOK, TypeOK', ~ub, PlaysWell, ShiftsAreSafe, SeenHolds, Rewire
  PROVE  ~ub' /\ PlaysWell'
<1>1. RecTypes /\ recording # Dangling
  BY DEF TypeOK, PlaysWell
<1>2. SamePlays /\ pc # "cleanup"
  BY DEF Rewire, Unshift, NoUnshift, TestMap, TestBind, Sees, RewireUnmapped, RewirePlain,
     RewireBound, RewireRel, RewireOther, RewireWild, Rewired, At, SamePlays, timerVars
<1>3. event.type = "key" => event.code \in Keys /\ event.value \in 0..2
  BY EventKinds DEF TypeOK, CtlTypes
<1>4. event.type = "rel" => event.code \in Rels /\ event.value \in Int
  BY EventKinds DEF TypeOK, CtlTypes
<1>5. RecordsOn
  <2>1. CASE NoUnshift \/ RewireBound \/ RewireOther \/ TestMap \/ TestBind
    <3>1. UNCHANGED <<ub, recVars>>
      BY <2>1 DEF NoUnshift, RewireBound, RewireOther, TestMap, TestBind, Sees
    <3>2. QED
      BY <3>1, QuietPlays
  <2>6. ASSUME NEW i \in DOMAIN mapStack, Unshift(i)
        PROVE  RecordsOn
    <3>1. UNCHANGED recVars /\ ub' = FALSE
      BY <2>6 DEF Unshift, ShiftsAreSafe
    <3>2. ub = FALSE
      BY DEF TypeOK
    <3>3. QED
      BY <3>1, <3>2, QuietPlays
  <2>2. CASE RewirePlain
    BY <1>1, <1>3, <2>2, RecordKeyOn DEF RewirePlain
  <2>3. CASE RewireRel
    BY <1>1, <1>4, <2>3, RecordRelOn DEF RewireRel
  <2>4. CASE RewireUnmapped
    <3>1. CASE event.type = "key"
      BY <1>1, <1>3, <2>4, <3>1, RecordKeyOn DEF RewireUnmapped
    <3>2. CASE event.type = "rel"
      BY <1>1, <1>4, <2>4, <3>2, RecordRelOn DEF RewireUnmapped
    <3>3. CASE NoRecord
      BY <3>3, QuietPlays DEF NoRecord
    <3>4. QED
      BY <2>4, <3>1, <3>2, <3>3 DEF RewireUnmapped
  <2>7. ~RewireWild
    BY DEF RewireWild, SeenHolds
  <2>5. QED
    BY <2>1, <2>2, <2>3, <2>4, <2>6, <2>7 DEF Rewire
<1>6. QED
  BY <1>2, <1>5, PlaysOn DEF RecordsOn

LEMMA ActPlays ==
  ASSUME TypeOK, TypeOK', ~ub, PlaysWell, SeenHolds, Act
  PROVE  ~ub' /\ PlaysWell'
<1>1. RecTypes /\ recording # Dangling
  BY DEF TypeOK, PlaysWell
<1>2. RecordsOn
  <2>1. CASE ActKey
    BY <1>1, <2>1, PerformsType, ActionKinds, RecordKeyOn DEF ActKey, KeyAction
  <2>2. CASE ActTurboPress
    BY <1>1, <2>2, PerformsType, ActionKinds, RecordKeyOn DEF ActTurboPress, TurboAction
  <2>3. CASE ActTurboRelease
    <3>1. Now.code \in Keys
      BY <2>3, PerformsType, ActionKinds DEF ActTurboRelease, TurboAction
    <3>2. NoRecord \/ RecordKey(Now.code, 0)
      BY <2>3 DEF ActTurboRelease
    <3>3. CASE NoRecord
      BY <3>3, QuietPlays DEF NoRecord
    <3>4. CASE RecordKey(Now.code, 0)
      BY <1>1, <3>1, <3>4, RecordKeyOn
    <3>5. QED
      BY <3>2, <3>3, <3>4
  <2>4. CASE ActRel \/ ActRelConstPress
    <3>1. Performs("rel") \/ Performs("relconst")
      BY <2>4 DEF ActRel, ActRelConstPress
    <3>2. Now.code \in Rels /\ Now.value \in Int
      BY <3>1, PerformsType, ActionKinds DEF RelAction, RelConstAction
    <3>3. NoRecord \/ RecordRel(Now.code, Now.value)
      BY <2>4 DEF ActRel, ActRelConstPress
    <3>4. CASE NoRecord
      BY <3>4, QuietPlays DEF NoRecord
    <3>5. CASE RecordRel(Now.code, Now.value)
      BY <1>1, <3>2, <3>5, RecordRelOn
    <3>6. QED
      BY <3>3, <3>4, <3>5
  <2>5. CASE ActRelConstRelease \/ ActMacro \/ ActNothing \/ FinishEvent \/ LookUpMap
    BY <2>5, QuietPlays DEF ActRelConstRelease, ActMacro, ActNothing,
       FinishEvent, NoRecord, LookUpMap, Sees
  <2>6. CASE ActSwitchMap \/ ActShiftMap
    <3>1. UNCHANGED recVars /\ ub' = FALSE
      BY <2>6 DEF ActSwitchMap, ActShiftMap, GoToPlace, SeenHolds
    <3>2. ub = FALSE
      BY DEF TypeOK
    <3>3. QED
      BY <3>1, <3>2, QuietPlays
  <2>7. QED
    BY <2>1, <2>2, <2>3, <2>4, <2>5, <2>6 DEF Act
<1>3. CASE ActMacro
  <2> DEFINE m == Now.macro
             p == [which |-> m, index |-> 1, next |-> 0]
  <2>1. /\ m \in liveMacros /\ macros[m] # <<>> /\ pc = "actions"
        /\ runMacro' = Append(runMacro, p) /\ UNCHANGED recVars
    BY <1>3 DEF ActMacro, Playable, Performs, At, NoRecord
  <2>2. m \in MacroNames /\ Len(macros[m]) >= 1
    <3>1. m \in MacroNames /\ macros[m] \in Seq(MacroStep)
      BY <1>1, <2>1 DEF RecTypes
    <3>2. Len(macros[m]) \in Nat \ {0}
      BY <2>1, <3>1, EmptySeq, LenProperties
    <3>3. QED
      BY <3>1, <3>2
  <2>3. /\ Len(runMacro) \in Nat /\ DOMAIN runMacro = 1..Len(runMacro)
        /\ DOMAIN runMacro' = 1..(Len(runMacro) + 1)
        /\ \A i \in 1..Len(runMacro) : runMacro'[i] = runMacro[i]
        /\ runMacro'[Len(runMacro) + 1] = p
    <3>1. runMacro \in Seq(Playing) /\ p \in Playing
      BY <2>2 DEF TypeOK, TimerTypes, Playing
    <3>2. QED
      BY <2>1, <3>1, AppendProperties, Positions
  <2>4. macros' = macros /\ liveMacros' = liveMacros /\ recording' = recording
    BY <2>1 DEF recVars
  <2>5. ASSUME NEW i \in DOMAIN runMacro'
        PROVE  runMacro'[i].which \in liveMacros /\ ~Finished(runMacro[i])'
    <3>1. CASE i \in DOMAIN runMacro
      BY <2>1, <2>3, <2>4, <3>1 DEF PlaysWell, Finished
    <3>2. CASE i = Len(runMacro) + 1
      <4>1. Len(macros[m]) \in Nat
        BY <1>1, <2>2, Positions DEF RecTypes
      <4>2. ~(1 > Len(macros[m]))
        BY <2>2, <4>1
      <4>3. QED
        BY <2>1, <2>3, <2>4, <3>2, <4>2 DEF Finished
    <3>3. QED
      BY <2>3, <3>1, <3>2
  <2>6. QED
    BY <1>1, <1>2, <2>4, <2>5 DEF PlaysWell, RecordsOn
<1>4. CASE ~ActMacro
  <2>1. SamePlays /\ pc # "cleanup"
    BY <1>4 DEF Act, LookUpMap, Sees, ActKey, ActTurboPress, ActTurboRelease, ActRel, ActRelConstPress,
       ActRelConstRelease, ActSwitchMap, ActShiftMap, ActNothing, FinishEvent, Rewired,
       Performs, At, SamePlays, timerVars
  <2>2. QED
    BY <1>2, <2>1, PlaysOn DEF RecordsOn
<1>5. QED
  BY <1>3, <1>4

LEMMA ThreadPlays ==
  ASSUME TypeOK, TypeOK', ~ub, PlaysWell, ShiftsAreSafe, SeenHolds, Thread \/ Input \/ Tick
  PROVE  ~ub' /\ PlaysWell'
<1>1. CASE Select \/ Input
  <2>1. RecordsOn /\ SamePlays /\ pc # "cleanup"
    BY <1>1, QuietPlays DEF Select, Input, ReadKey, ReadRel, ReadOther, At, SamePlays, timerVars
  <2>2. QED
    BY <2>1, PlaysOn DEF RecordsOn
<1>2. CASE Tick
  <2>1. RecordsOn
    BY <1>2, QuietRecord DEF Tick, TypeOK, PlaysWell
  <2>2. SamePlays
    <3>1. \A i \in DOMAIN runMacro : runMacro[i] \in Playing
      BY Positions DEF TypeOK, TimerTypes
    <3>2. QED
      BY <1>2, <3>1 DEF Tick, Age, SamePlays, Playing
  <2>3. QED
    BY <1>2, <2>1, <2>2, PlaysOn DEF RecordsOn, Tick, At
<1>3. QED
  BY <1>1, <1>2, TimersPlay, RewirePlays, ActPlays DEF Thread

(* What the thread does to the maps.                                        *)
LEMMA ThreadMaps ==
  ASSUME Thread \/ Input \/ Tick
  PROVE  \/ /\ UNCHANGED mapVars
            /\ pc' = "actions" /\ todo' # <<>> =>
                 \/ pc = "actions" /\ todo # <<>>
                 \/ pc = "rewire" /\ curmap \in Maps
         \/ \E i \in DOMAIN mapStack : Unshift(i)
         \/ ActSwitchMap \/ ActShiftMap
<1>1. CASE Select \/ Timers \/ Input \/ Tick
  BY <1>1 DEF Select, Timers, FireTurbo, FireRelConst, FireMacro, PlayStep, PlayWild, Cleanup,
     Input, ReadKey, ReadRel, ReadOther, Tick, At, ctlVars
<1>2. CASE Rewire
  BY <1>2 DEF Rewire, NoUnshift, TestMap, TestBind, Sees, RewireUnmapped, RewirePlain,
     RewireBound, RewireRel, RewireOther, RewireWild, Rewired, At, mapVars, ctlVars
<1>3. CASE Act
  BY <1>3 DEF Act, LookUpMap, Sees, ActKey, ActTurboPress, ActTurboRelease, ActRel,
     ActRelConstPress, ActRelConstRelease, ActMacro, ActNothing, FinishEvent, Rewired, Performs,
     At, mapVars, ctlVars
<1>4. QED
  BY <1>1, <1>2, <1>3 DEF Thread

LEMMA ThreadShifts ==
  ASSUME TypeOK, ShiftsAreSafe, pc = "actions" /\ todo # <<>> => curmap \in Maps,
         Thread \/ Input \/ Tick
  PROVE  ShiftsAreSafe'
<1>1. mapStack \in Seq([map : Maps \cup {NULL, Dangling}, code : Keys])
  BY DEF TypeOK, MapTypes
<1>2. CASE UNCHANGED mapVars \/ ActSwitchMap
  <2>1. mapStack' = mapStack
    BY <1>2 DEF mapVars, ActSwitchMap
  <2>2. QED
    BY <2>1 DEF ShiftsAreSafe
<1>3. ASSUME NEW i \in DOMAIN mapStack, Unshift(i)
      PROVE  ShiftsAreSafe'
  <2>1. Len(mapStack) \in DOMAIN mapStack /\ \A j \in 1..i : j \in DOMAIN mapStack
    BY <1>1, Positions
  <2>2. /\ mapStack' \in Seq([map : Maps \cup {NULL, Dangling}, code : Keys])
        /\ Len(mapStack') = i
        /\ \A j \in 1..i : mapStack'[j] = IF j < i THEN mapStack[j] ELSE mapStack[Len(mapStack)]
    BY <1>1, <1>3, PopShiftProperties DEF Unshift
  <2>3. DOMAIN mapStack' = 1..i
    BY <2>2, Positions
  <2>4. QED
    BY <2>1, <2>2, <2>3 DEF ShiftsAreSafe
<1>4. CASE ActShiftMap
  <2>1. /\ pc = "actions" /\ todo # <<>>
        /\ mapStack' = Append(mapStack, [map |-> curmap, code |-> event.code])
    BY <1>4 DEF ActShiftMap, Performs, At
  <2>2. [map |-> curmap, code |-> event.code] \in [map : Maps \cup {NULL, Dangling}, code : Keys]
    BY <1>4, <2>1, PerformsType DEF ActShiftMap
  <2>3. /\ DOMAIN mapStack' = 1..(Len(mapStack) + 1) /\ DOMAIN mapStack = 1..Len(mapStack)
        /\ Len(mapStack) \in Nat
        /\ \A i \in 1..Len(mapStack) : mapStack'[i] = mapStack[i]
        /\ mapStack'[Len(mapStack) + 1] = [map |-> curmap, code |-> event.code]
    BY <1>1, <2>1, <2>2, AppendProperties, Positions
  <2>4. \A i \in DOMAIN mapStack' : i \in 1..Len(mapStack) \/ i = Len(mapStack) + 1
    BY <2>3
  <2>5. QED
    BY <2>1, <2>3, <2>4 DEF ShiftsAreSafe
<1>5. QED
  BY <1>2, <1>3, <1>4, ThreadMaps

(* Nothing comes between what the thread looks up and the step that uses it *)
(* but a command: without one, it still holds.                              *)
LEMMA ThreadSees ==
  ASSUME TypeOK, curmap # Dangling, SeenHolds, Thread \/ Input \/ Tick
  PROVE  SeenHolds'
<1>1. CASE Looks
  <2>1. CASE TestMap
    BY <2>1 DEF TestMap, Sees, SeenHolds, At, TypeOK, MapTypes, mapVars, ctlVars
  <2>2. CASE TestBind
    BY <2>2 DEF TestBind, Sees, SeenHolds, At, mapVars, ctlVars
  <2>3. CASE LookUpMap
    <3>1. FindMap(Now.map) \in DOMAIN mappings /\ mappings[FindMap(Now.map)] = Now.map
      BY <2>3, FindMapFinds DEF LookUpMap, TypeOK
    <3>2. /\ seen' = [what |-> "place", place |-> FindMap(Now.map)]
          /\ UNCHANGED <<mappings, pc, event, todo>>
      BY <2>3 DEF LookUpMap, Sees, mapVars, ctlVars
    <3>3. /\ pc = "actions" /\ todo # <<>> /\ Now.type \in {"switchmap", "shiftmap"}
          /\ Pressed
      BY <2>3 DEF LookUpMap, At
    <3>4. Now' = Now /\ Pressed' = Pressed
      BY <3>2 DEF Now, Pressed
    <3>5. QED
      BY <3>1, <3>2, <3>3, <3>4 DEF SeenHolds
  <2>4. QED
    BY <1>1, <2>1, <2>2, <2>3 DEF Looks
<1>2. CASE seen' = Nothing
  BY <1>2 DEF SeenHolds, Nothing
<1>3. CASE Input \/ Tick
  BY <1>3 DEF Input, ReadKey, ReadRel, ReadOther, Tick, At, SeenHolds
<1>4. Thread /\ ~Looks => seen' = Nothing
  BY UsesWhatItSees DEF Uses
<1>5. QED
  BY <1>1, <1>2, <1>3, <1>4

LEMMA ClientKeepsAll ==
  ASSUME Client
  PROVE  /\ UNCHANGED <<mapVars, keyVars, timerVars, macros, liveMacros, ctlVars, seen, ub>>
         /\ recording' = recording \/ recording' \in MacroNames
BY DEF Client, RecordMacro, StoreStopKey, StoreIgnored

(* Everything the thread looks up, goes back to or takes actions from       *)
(* exists, and the bind it found is the one whose actions it takes.         *)
SightInv ==
  /\ TypeOK
  /\ ShiftsAreSafe
  /\ SeenHolds
  /\ curmap # Dangling
  /\ pc = "actions" /\ todo # <<>> => curmap \in Maps
  /\ seen.what = "bind" => Bound.doModify

LEMMA GoesToNamed ==
  ASSUME TypeOK, SeenHolds, ActSwitchMap \/ ActShiftMap
  PROVE  /\ Now.map \in Maps /\ curmap' = Now.map /\ Found(Now.map)
         /\ ub' = FALSE /\ Pressed
<1>1. Now.map \in Maps /\ curmap' = Now.map /\ ub' = FALSE /\ Pressed
  BY PerformsType, ActionKinds DEF ActSwitchMap, ActShiftMap, GoToPlace, SeenHolds, MapAction
<1>2. Found(Now.map)
  BY DEF ActSwitchMap, ActShiftMap, SeenHolds, Found
<1>3. QED
  BY <1>1, <1>2

LEMMA SightStep ==
  ASSUME SightInv, [Next]_vars
  PROVE  SightInv'
<1>1. TypeOK'
  BY NextType DEF SightInv
<1>2. CASE Client \/ UNCHANGED vars
  <2>1. UNCHANGED <<mapVars, ctlVars, seen>>
    BY <1>2, ClientKeepsAll DEF vars
  <2>2. QED
    BY <1>1, <2>1 DEF SightInv, ShiftsAreSafe, SeenHolds, Now, Pressed, Bound, mapVars, ctlVars
<1>3. CASE Thread \/ Input \/ Tick
  <2>1. ShiftsAreSafe' /\ SeenHolds'
    BY <1>3, ThreadShifts, ThreadSees DEF SightInv
  <2>2. (seen.what = "bind" => Bound.doModify)'
    <3>1. CASE TestBind
      BY <3>1 DEF TestBind, Sees, Bound, mapVars, ctlVars
    <3>2. CASE TestMap \/ LookUpMap
      BY <3>2 DEF TestMap, LookUpMap, Sees
    <3>3. CASE Thread /\ ~Looks
      BY <3>3, UsesWhatItSees DEF Uses, Nothing
    <3>4. CASE Input \/ Tick
      BY <3>4 DEF Input, ReadKey, ReadRel, ReadOther, Tick, At, SightInv, SeenHolds
    <3>5. QED
      BY <1>3, <3>1, <3>2, <3>3, <3>4 DEF Looks
  <2>3. ASSUME NEW i \in DOMAIN mapStack, Unshift(i)
        PROVE  pc' # "actions" /\ curmap' \in Maps
    BY <2>3 DEF Unshift, SightInv, ShiftsAreSafe
  <2>4. CASE ActSwitchMap \/ ActShiftMap
    BY <1>1, <2>1, <2>2, <2>4, GoesToNamed, PointersAreDistinct DEF SightInv
  <2>5. CASE UNCHANGED mapVars
    BY <1>1, <1>3, <2>1, <2>2, <2>3, <2>4, <2>5, ThreadMaps, PointersAreDistinct
       DEF SightInv, mapVars
  <2>6. QED
    BY <1>1, <1>3, <2>1, <2>2, <2>3, <2>4, <2>5, ThreadMaps, PointersAreDistinct DEF SightInv
<1>4. QED
  BY <1>2, <1>3 DEF Next

LEMMA SightInit == Init => SightInv
BY InitType, BaseIsTyped, PointersAreDistinct DEF Init, SightInv, ShiftsAreSafe, SeenHolds, Nothing

LEMMA ThreadSeesWell == Spec => []SightInv
BY SightInit, SightStep, PTL DEF Spec

(* The thread is safe: it plays, records and goes back to what exists, and  *)
(* performs the actions of a map.                                           *)
SafeInv == SightInv /\ ~ub /\ PlaysWell

LEMMA SafeStep ==
  ASSUME SafeInv, [Next]_vars
  PROVE  SafeInv'
<1>1. SightInv' /\ TypeOK'
  BY SightStep DEF SafeInv, SightInv
<1>2. CASE UNCHANGED vars
  BY <1>1, <1>2 DEF SafeInv, PlaysWell, Finished, vars, mapVars, timerVars, recVars, ctlVars
<1>3. CASE Client
  <2>1. recording' # Dangling
    BY <1>3, ClientKeepsAll, PointersAreDistinct DEF SafeInv, PlaysWell
  <2>2. UNCHANGED <<timerVars, macros, liveMacros, ctlVars, ub>>
    BY <1>3, ClientKeepsAll
  <2>3. QED
    BY <1>1, <2>1, <2>2 DEF SafeInv, PlaysWell, Finished, timerVars, ctlVars
<1>4. CASE Thread \/ Input \/ Tick
  BY <1>1, <1>4, ThreadPlays DEF SafeInv, SightInv
<1>5. QED
  BY <1>2, <1>3, <1>4 DEF Next

(* A device whose maps and macros nobody touches while its thread runs, be  *)
(* it recorded from or not and with a current map or without, executes no   *)
(* undefined behaviour: a macro that plays is taken from the queue before   *)
(* the step behind its last is read, and a shift only goes back to a map    *)
(* that was current.                                                        *)
THEOREM ThreadIsSafe ==
  ASSUME Dangling \notin RecordingInit
  PROVE  Spec => []NoUndefined
<1>1. SafeInv => NoUndefined
  BY DEF SafeInv, NoUndefined
<1>2. Init => SafeInv
  BY SightInit, PointersAreDistinct DEF Init, SafeInv, PlaysWell
<1>3. SafeInv /\ [Next]_vars => SafeInv'
  BY SafeStep
<1>4. QED
  BY <1>1, <1>2, <1>3, PTL DEF Spec
=============================================================================
