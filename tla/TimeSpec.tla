------------------------------ MODULE TimeSpec ------------------------------
(***************************************************************************)
(* Time as time.cpp computes with it, in seconds and fractions of a second,*)
(* and the use that the loops of the daemon make of it: a deadline is set  *)
(* some time from now, and what is left of it is how long to sleep.        *)
(* Periods are typed by users, and shown to them.                          *)
(***************************************************************************)
EXTENDS Integers, SequencesExt

CONSTANTS
  Digits,   \* decimal digits of a fraction: 9 in the code
  Giga,     \* fractions in a second: 10^Digits
  MaxTime,  \* seconds at which the model stops
  Texts,    \* what users type: digits before and after the point
  Lapses    \* times that pass between two looks at the clock

pow10[n \in 0..Digits] == IF n = 0 THEN 1 ELSE 10 * pow10[n - 1]

ASSUME TimeIsTyped ==
  /\ Digits \in Nat \ {0}
  /\ Giga = pow10[Digits]
  /\ MaxTime \in Nat
  /\ Lapses \subseteq [tv_sec : Nat, tv_nsec : 0..(Giga - 1)]

(* stots refuses a text without digits before the point, and reads outside  *)
(* of its table of powers with more digits after it than a fraction has.    *)
ASSUME TextsAreReadable ==
  \A text \in Texts :
    /\ text \in [upper : Seq(0..9), lower : Seq(0..9)]
    /\ text.upper # <<>>
    /\ Len(text.lower) <= Digits

VARIABLES
  now,       \* what the clock says
  deadline,  \* the next of a timer
  period,    \* the time between two of them
  ctime      \* how long to sleep

timeVars == <<now, deadline, period, ctime>>

mkts(sec, nsec) == [tv_sec |-> sec, tv_nsec |-> nsec]

Normal == [tv_sec : Int, tv_nsec : 0..(Giga - 1)]

Value(ts) == ts.tv_sec * Giga + ts.tv_nsec

-----------------------------------------------------------------------------
(* The operators.                                                           *)

Less(l, r) ==
  \/ l.tv_sec = r.tv_sec /\ l.tv_nsec < r.tv_nsec
  \/ l.tv_sec < r.tv_sec

BadBorrow(sec, nsec) == mkts(sec, nsec % Giga)

Borrow(sec, nsec) ==
  IF nsec < 0 THEN mkts(sec + nsec \div Giga, nsec % Giga) ELSE mkts(sec, nsec)

Minus(l, r) == Borrow(l.tv_sec - r.tv_sec, l.tv_nsec - r.tv_nsec)

BadCarry(sec, nsec) ==
  IF nsec > Giga THEN mkts(sec + nsec \div Giga, nsec % Giga) ELSE mkts(sec, nsec)

Carry(sec, nsec) ==
  IF nsec >= Giga THEN mkts(sec + nsec \div Giga, nsec % Giga) ELSE mkts(sec, nsec)

Plus(l, r) == Carry(l.tv_sec + r.tv_sec, l.tv_nsec + r.tv_nsec)

-----------------------------------------------------------------------------
(* Texts.                                                                   *)

Number(digits) ==
  LET upTo[i \in 0..Len(digits)] ==
        IF i = 0 THEN 0 ELSE 10 * upTo[i - 1] + digits[i]
  IN  upTo[Len(digits)]

stots(text) ==
  mkts(Number(text.upper), Number(text.lower) * pow10[Digits - Len(text.lower)])

(* A number without its last k digits, and its last digits.                 *)
Drop(n, k) ==
  LET rest[i \in 0..k] == IF i = 0 THEN n ELSE rest[i - 1] \div 10
  IN  rest[k]

DigitsOf(n, count) == [i \in 1..count |-> Drop(n, count - i) % 10]

BadTrimmed(digits) == SelectSeq(digits, LAMBDA d : d # 0)

(* Zeros are erased from the end, but for the first digit.                  *)
Trimmed(digits) ==
  SubSeq(digits, 1, Max({1} \cup {i \in DOMAIN digits : digits[i] # 0}))

(* std::to_string writes no leading zeros.                                  *)
Whole(n) == DigitsOf(n, Min({k \in 1..(n + 1) : Drop(n, k) = 0}))

tstos(ts) ==
  [upper |-> Whole(ts.tv_sec), lower |-> Trimmed(DigitsOf(ts.tv_nsec, Digits))]

-----------------------------------------------------------------------------
TimeInit ==
  /\ now = mkts(0, 0)
  /\ deadline = now
  /\ period = mkts(0, 0)
  /\ ctime = mkts(0, 0)

(* addaction and insmacroact                                                *)
SetPeriod(text) ==
  /\ period' = stots(text)
  /\ UNCHANGED <<now, deadline, ctime>>

(* A timer is set, or set again.                                            *)
SetTimer(from) ==
  /\ from.tv_sec + period.tv_sec < MaxTime
  /\ deadline' = Plus(from, period)
  /\ UNCHANGED <<now, period, ctime>>

(* How long to sleep: not at all if the deadline has passed.                *)
Compute ==
  LET left == Minus(deadline, now)
  IN  /\ ctime' = IF Less(left, mkts(0, 0)) THEN mkts(0, 0) ELSE left
      /\ UNCHANGED <<now, deadline, period>>

TimePasses(lapse) ==
  /\ now.tv_sec + lapse.tv_sec < MaxTime
  /\ now' = Plus(now, lapse)
  /\ UNCHANGED <<deadline, period, ctime>>

TimeNext ==
  \/ \E text \in Texts : SetPeriod(text)
  \/ SetTimer(now) \/ SetTimer(deadline)
  \/ Compute
  \/ \E lapse \in Lapses : TimePasses(lapse)

TimeSpecification == TimeInit /\ [][TimeNext]_timeVars

-----------------------------------------------------------------------------
(* Every time there is, computed or read, has a fraction below a second.    *)
TimesAreNormal == {now, deadline, period, ctime} \subseteq Normal

(* The computed sleep ends at the deadline, or at once if that has passed;  *)
(* and a deadline is one period after the time it is counted from, across   *)
(* carries and borrows.                                                     *)
SleepsAreExact ==
  [][/\ Compute => Value(ctime') = Max({0, Value(deadline) - Value(now)})
     /\ \A from \in {now, deadline} :
          SetTimer(from) => Value(deadline') = Value(from) + Value(period)]_timeVars

(* A period is shown as something that reads as the same period.            *)
PeriodsReadBack == stots(tstos(period)) = period

=============================================================================
