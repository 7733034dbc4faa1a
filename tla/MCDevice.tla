------------------------------ MODULE MCDevice ------------------------------
(***************************************************************************)
(* Tables of binds for the model checker: each run gives BaseBinds one of  *)
(* them.                                                                   *)
(***************************************************************************)
EXTENDS Device

CONSTANTS a, b, c, x, home, alt, base, upper, timed, m1, wheel

Plain == [doModify |-> FALSE, actions |-> <<>>]
On(actions) == [doModify |-> TRUE, actions |-> actions]

Key(code) == [type |-> "key", code |-> code]
TurboOf(code, on, off) == [type |-> "turbo", code |-> code, on |-> on, off |-> off]
Rel(code, value) == [type |-> "rel", code |-> code, value |-> value]
RelConstOf(code, value, delay) ==
  [type |-> "relconst", code |-> code, value |-> value, delay |-> delay]
SwitchTo(m) == [type |-> "switchmap", map |-> m]
ShiftTo(m) == [type |-> "shiftmap", map |-> m]
Play(m) == [type |-> "macro", macro |-> m]
Disable == [type |-> "disable"]
Execute == [type |-> "execute"]
Abs == [type |-> "abs"]

(* A device that starts in home or alt stays in them, one that starts in    *)
(* base goes to upper and back, and one that starts in timed stays there.   *)
(* home: a sends c and b, b switches to alt after sending c, c is itself.   *)
(* alt: a is itself, b goes home, c is dead.                                *)
(* base: a and b shift to upper and send themselves, c is itself.           *)
(* upper: c is dead, a and b are themselves.                                *)
(* timed: a plays a macro, b is a turbo, c repeats a motion and is another  *)
(* turbo of the same key.                                                   *)
KeyBinds ==
  [m \in Maps |-> [k \in Keys |->
    CASE m = home /\ k = a -> On(<<Key(c), Key(b)>>)
      [] m = home /\ k = b -> On(<<Key(c), SwitchTo(alt)>>)
      [] m = alt /\ k = b -> On(<<Abs, SwitchTo(home)>>)
      [] m = alt /\ k = c -> On(<<Disable, Execute>>)
      [] m = base /\ k \in {a, b} -> On(<<ShiftTo(upper), Key(k)>>)
      [] m = upper /\ k = c -> On(<<Disable>>)
      [] m = timed /\ k = a -> On(<<Play(m1)>>)
      [] m = timed /\ k = b -> On(<<TurboOf(c, 1, 2)>>)
      [] m = timed /\ k = c ->
           On(<<Rel(wheel, 1), RelConstOf(wheel, 1, 2), TurboOf(c, 1, 1)>>)
      [] OTHER -> Plain]]

(* home: a is a turbo, b switches to alt, where a and b are themselves.     *)
TurboSwitchBinds ==
  [m \in Maps |-> [k \in Keys |->
    CASE m = home /\ k = a -> On(<<TurboOf(x, 1, 1)>>)
      [] m = home /\ k = b -> On(<<SwitchTo(alt)>>)
      [] OTHER -> Plain]]

(* Shifts only, so that the map the device starts in is where it belongs.   *)
OnlyShiftBinds ==
  [m \in Maps |-> [k \in Keys |->
    CASE m = home /\ k = a -> On(<<ShiftTo(alt)>>)
      [] m = alt /\ k = b -> On(<<ShiftTo(alt)>>)
      [] OTHER -> Plain]]

NoMacros == [m \in MacroNames |-> <<>>]

Step(code, value) == [type |-> "key", code |-> code, value |-> value]
Wait(time) == [type |-> "wait", time |-> time]
Move(code, value) == [type |-> "rel", code |-> code, value |-> value]

TapMacro ==
  [m \in MacroNames |-> <<Step(a, 1), Wait(1), Step(a, 0), Move(wheel, 1), Wait(0)>>]

OneMap == <<home>>
TwoMaps == <<home, alt>>
AllMaps == <<home, alt, base, upper, timed>>
=============================================================================
