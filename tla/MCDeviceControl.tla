-------------------------- MODULE MCDeviceControl --------------------------
(***************************************************************************)
(* Tables, profiles and client inputs for the model checker.               *)
(***************************************************************************)
EXTENDS DeviceControl

CONSTANTS a, b, c, home, alt, m1, m2, wheel

Plain == [doModify |-> FALSE, actions |-> <<>>]
On(actions) == [doModify |-> TRUE, actions |-> actions]

(* home: a shifts to alt, b plays the first macro; alt: a plays both, b is  *)
(* itself.                                                                  *)
ClientBinds ==
  [m \in Maps |-> [k \in Keys |->
    CASE m = home /\ k = a -> On(<<[type |-> "shiftmap", map |-> alt]>>)
      [] m = home /\ k = b -> On(<<[type |-> "macro", macro |-> m1]>>)
      [] m = alt /\ k = a -> On(<<[type |-> "macro", macro |-> m1],
                                 [type |-> "macro", macro |-> m2]>>)
      [] OTHER -> Plain]]

TwoMacros ==
  [m \in MacroNames |->
    IF m = m1 THEN <<[type |-> "wait", time |-> 0],
                     [type |-> "key", code |-> a, value |-> 0]>>
              ELSE <<[type |-> "wait", time |-> 0]>>]

(* m1 is played, m2 is to be recorded.                                      *)
OneMacro ==
  [m \in MacroNames |->
    IF m = m1 THEN <<[type |-> "wait", time |-> 0],
                     [type |-> "key", code |-> a, value |-> 0]>>
              ELSE <<>>]

NoMacros == [m \in MacroNames |-> <<>>]

(* a plays a macro.                                                         *)
EditBinds ==
  [m \in Maps |-> [k \in Keys |->
    On(<<[type |-> "macro", macro |-> m1]>>)]]

(* Every key sends its own code, with or without a map: a is bound in no    *)
(* map, b in all of them, and plays the first macro in home.                *)
RecordBinds ==
  [m \in Maps |-> [k \in Keys |->
    CASE m = home /\ k = b -> On(<<[type |-> "macro", macro |-> m1],
                                  [type |-> "key", code |-> b]>>)
      [] m = alt /\ k = b -> On(<<[type |-> "key", code |-> b]>>)
      [] OTHER -> Plain]]

PlayTwo == [type |-> "macro", macro |-> m2]

OneBind == {PlayTwo}
OneStep == {[type |-> "key", code |-> a, value |-> 0]}

(* A profile with one map, and one with two that starts in the second.      *)
TwoProfiles ==
  {[maps |-> <<alt>>, binds |-> ClientBinds, curmap |-> alt],
   [maps |-> <<home, alt>>, binds |-> ClientBinds, curmap |-> alt]}

AltProfile == {[maps |-> <<home, alt>>, binds |-> RecordBinds, curmap |-> alt]}

OneMap == <<home>>
TwoMaps == <<home, alt>>
=============================================================================
