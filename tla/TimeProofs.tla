------------------------------ MODULE TimeProofs ------------------------------
(***************************************************************************)
(* Theorems about time, for fractions of any number of digits, whatever    *)
(* texts users type and however long the clock runs: MaxTime is not used.  *)
(*                                                                         *)
(* What the recursive functions of TimeSpec compute is proved from their   *)
(* equations, by induction over sets of numbers.                           *)
(***************************************************************************)
EXTENDS TimeSpec, SequenceLemmas

-----------------------------------------------------------------------------
(* The recursive functions satisfy their equations.                         *)

Agree(f, g, n) == \A i \in 0..n : f[i] = g[i]

StepAlike(f, g, n) ==
  f[0] = g[0] /\ \A i \in 1..n : f[i - 1] = g[i - 1] => f[i] = g[i]

LEMMA SameRecursion ==
  ASSUME NEW n \in Nat, NEW f, NEW g, StepAlike(f, g, n)
  PROVE  Agree(f, g, n)
<1> USE DEF StepAlike, Agree
<1> DEFINE T == {i \in Nat : i <= n => f[i] = g[i]}
<1>1. 0 \in T
  OBVIOUS
<1>2. ASSUME NEW i \in Nat, i \in T
      PROVE  i + 1 \in T
  <2>1. SUFFICES ASSUME i + 1 <= n PROVE f[i + 1] = g[i + 1]
    OBVIOUS
  <2>2. f[i] = g[i] /\ i + 1 \in 1..n /\ (i + 1) - 1 = i
    BY <1>2, <2>1
  <2>3. QED
    BY <2>2
<1>3. \A i \in Nat : i \in T
  <2> HIDE DEF T
  <2>1. QED
    BY <1>1, <1>2, NumbersByInduction
<1>4. QED
  BY <1>3

LEMMA PowersOfTen ==
  /\ pow10[0] = 1
  /\ \A i \in 1..Digits : pow10[i] = 10 * pow10[i - 1]
  /\ \A i \in 0..Digits : pow10[i] \in Nat \ {0}
<1> DEFINE Eq(f) == f = [n \in 0..Digits |-> IF n = 0 THEN 1 ELSE 10 * f[n - 1]]
           step == [x \in Nat \X (Nat \ {0}) |-> 10 * x[2]]
<1>1. Digits \in Nat
  BY TimeIsTyped
<1>2. PICK f \in [0..Digits -> Nat \ {0}] :
        f[0] = 1 /\ \A i \in 1..Digits : f[i] = step[<<i, f[i - 1]>>]
  <2> DEFINE S == Nat \ {0}
             one == 1
  <2>1. one \in S /\ step \in [Nat \X S -> S]
    OBVIOUS
  <2> HIDE DEF step, S, one
  <2>2. \E f \in [0..Digits -> S] : Recurs(f, Digits, one, step)
    BY <1>1, <2>1, RecursionExists
  <2>3. QED
    BY <2>2 DEF S, one, Recurs
<1>3. \A i \in 1..Digits : f[i] = 10 * f[i - 1]
  <2>1. TAKE i \in 1..Digits
  <2>2. f[i - 1] \in Nat \ {0} /\ i \in Nat
    BY <1>1
  <2>3. QED
    BY <1>2, <2>2
<1>4. Eq(f)
  <2>1. \A i \in 0..Digits : f[i] = IF i = 0 THEN 1 ELSE 10 * f[i - 1]
    BY <1>1, <1>2, <1>3
  <2>2. f = [i \in 0..Digits |-> f[i]]
    OBVIOUS
  <2>3. QED
    BY <2>1, <2>2
<1>5. Eq(pow10)
  <2>1. pow10 = CHOOSE g : Eq(g)
    BY DEF pow10
  <2> HIDE DEF Eq
  <2>2. QED
    BY <1>4, <2>1
<1>6. \A i \in 0..Digits : pow10[i] = f[i]
  <2>1. pow10[0] = f[0]
    BY <1>1, <1>2, <1>5
  <2>2. ASSUME NEW i \in 1..Digits, pow10[i - 1] = f[i - 1]
        PROVE  pow10[i] = f[i]
    <3>1. i \in 0..Digits /\ i # 0
      BY <1>1
    <3>2. pow10[i] = 10 * pow10[i - 1]
      BY <1>5, <3>1
    <3>3. QED
      BY <1>3, <2>2, <3>2
  <2>3. \A i \in 1..Digits : pow10[i - 1] = f[i - 1] => pow10[i] = f[i]
    BY <2>2
  <2>4. StepAlike(pow10, f, Digits)
    BY <2>1, <2>3 DEF StepAlike
  <2>5. Agree(pow10, f, Digits)
    BY <1>1, <2>4, SameRecursion
  <2>6. QED
    BY <2>5 DEF Agree
<1>7. QED
  BY <1>1, <1>2, <1>3, <1>6

LEMMA NumberIsRecursive ==
  ASSUME NEW q \in Seq(0..9)
  PROVE  \E f \in [0..Len(q) -> Nat] :
           /\ f[0] = 0
           /\ \A i \in 1..Len(q) : f[i] = 10 * f[i - 1] + q[i]
           /\ Number(q) = f[Len(q)]
<1> DEFINE Eq(f) == f = [i \in 0..Len(q) |-> IF i = 0 THEN 0 ELSE 10 * f[i - 1] + q[i]]
           upTo == CHOOSE f : Eq(f)
           step == [x \in Nat \X Nat |-> IF x[1] \in 1..Len(q) THEN 10 * x[2] + q[x[1]] ELSE 0]
<1>1. Len(q) \in Nat /\ \A i \in 1..Len(q) : q[i] \in 0..9
  BY Positions
<1>2. PICK f \in [0..Len(q) -> Nat] :
        f[0] = 0 /\ \A i \in 1..Len(q) : f[i] = step[<<i, f[i - 1]>>]
  <2> DEFINE zero == 0
             n == Len(q)
  <2>1. zero \in Nat /\ step \in [Nat \X Nat -> Nat] /\ n \in Nat
    BY <1>1
  <2> HIDE DEF step, zero, n
  <2>2. \E f \in [0..n -> Nat] : Recurs(f, n, zero, step)
    BY <2>1, RecursionExists
  <2>3. QED
    BY <2>2 DEF zero, Recurs, n
<1>3. \A i \in 1..Len(q) : f[i] = 10 * f[i - 1] + q[i]
  <2>1. TAKE i \in 1..Len(q)
  <2>2. f[i - 1] \in Nat /\ i \in Nat
    BY <1>1
  <2>3. QED
    BY <1>2, <2>2
<1>4. Eq(f)
  <2>1. \A i \in 0..Len(q) : f[i] = IF i = 0 THEN 0 ELSE 10 * f[i - 1] + q[i]
    BY <1>1, <1>2, <1>3
  <2>2. f = [i \in 0..Len(q) |-> f[i]]
    OBVIOUS
  <2>3. QED
    BY <2>1, <2>2
<1>5. Eq(upTo)
  <2> HIDE DEF Eq
  <2>1. QED
    BY <1>4
<1>6. Number(q) = upTo[Len(q)]
  BY DEF Number
<1> HIDE DEF upTo
<1>7. upTo[0] = 0 /\ \A i \in 1..Len(q) : upTo[i] = 10 * upTo[i - 1] + q[i]
  BY <1>1, <1>5
<1>8. \A i \in 0..Len(q) : upTo[i] = f[i]
  <2>1. upTo[0] = f[0] /\ \A i \in 1..Len(q) : upTo[i - 1] = f[i - 1] => upTo[i] = f[i]
    BY <1>2, <1>3, <1>7
  <2>2. StepAlike(upTo, f, Len(q))
    BY <2>1 DEF StepAlike
  <2>3. Agree(upTo, f, Len(q))
    BY <1>1, <2>2, SameRecursion
  <2>4. QED
    BY <2>3 DEF Agree
<1>9. QED
  BY <1>1, <1>2, <1>3, <1>6, <1>8

LEMMA DropIsRecursive ==
  ASSUME NEW n \in Nat, NEW k \in Nat
  PROVE  \E f \in [0..k -> Nat] :
           /\ f[0] = n
           /\ \A i \in 1..k : f[i] = f[i - 1] \div 10
           /\ Drop(n, k) = f[k]
<1> DEFINE Eq(f) == f = [i \in 0..k |-> IF i = 0 THEN n ELSE f[i - 1] \div 10]
           rest == CHOOSE f : Eq(f)
           step == [x \in Nat \X Nat |-> x[2] \div 10]
<1>1. PICK f \in [0..k -> Nat] :
        f[0] = n /\ \A i \in 1..k : f[i] = step[<<i, f[i - 1]>>]
  <2>1. step \in [Nat \X Nat -> Nat]
    OBVIOUS
  <2> HIDE DEF step
  <2>2. \E f \in [0..k -> Nat] : Recurs(f, k, n, step)
    BY <2>1, RecursionExists
  <2>3. QED
    BY <2>2 DEF Recurs
<1>2. \A i \in 1..k : f[i] = f[i - 1] \div 10
  <2>1. TAKE i \in 1..k
  <2>2. f[i - 1] \in Nat /\ i \in Nat
    OBVIOUS
  <2>3. QED
    BY <1>1, <2>2
<1>3. Eq(f)
  <2>1. \A i \in 0..k : f[i] = IF i = 0 THEN n ELSE f[i - 1] \div 10
    BY <1>1, <1>2
  <2>2. f = [i \in 0..k |-> f[i]]
    OBVIOUS
  <2>3. QED
    BY <2>1, <2>2
<1>4. Eq(rest)
  <2> HIDE DEF Eq
  <2>1. QED
    BY <1>3
<1>5. Drop(n, k) = rest[k]
  BY DEF Drop
<1> HIDE DEF rest
<1>6. rest[0] = n /\ \A i \in 1..k : rest[i] = rest[i - 1] \div 10
  BY <1>4
<1>7. \A i \in 0..k : rest[i] = f[i]
  <2>1. rest[0] = f[0] /\ \A i \in 1..k : rest[i - 1] = f[i - 1] => rest[i] = f[i]
    BY <1>1, <1>2, <1>6
  <2>2. StepAlike(rest, f, k)
    BY <2>1 DEF StepAlike
  <2>3. Agree(rest, f, k)
    BY <2>2, SameRecursion
  <2>4. QED
    BY <2>3 DEF Agree
<1>8. QED
  BY <1>1, <1>2, <1>5, <1>7

(* Dropping one digit more.                                                 *)
LEMMA DropOneMore ==
  ASSUME NEW n \in Nat
  PROVE  /\ Drop(n, 0) = n
         /\ \A k \in Nat : Drop(n, k) \in Nat /\ Drop(n, k + 1) = Drop(n, k) \div 10
<1>1. Drop(n, 0) = n
  BY DropIsRecursive
<1>2. ASSUME NEW k \in Nat
      PROVE  Drop(n, k) \in Nat /\ Drop(n, k + 1) = Drop(n, k) \div 10
  <2>1. PICK f \in [0..k -> Nat] :
          f[0] = n /\ (\A i \in 1..k : f[i] = f[i - 1] \div 10) /\ Drop(n, k) = f[k]
    BY DropIsRecursive
  <2>2. PICK g \in [0..(k + 1) -> Nat] :
          /\ g[0] = n
          /\ \A i \in 1..(k + 1) : g[i] = g[i - 1] \div 10
          /\ Drop(n, k + 1) = g[k + 1]
    <3>1. k + 1 \in Nat
      OBVIOUS
    <3>2. QED
      BY <3>1, DropIsRecursive, Zenon
  <2>3. \A i \in 0..k : f[i] = g[i]
    <3>1. f[0] = g[0]
      BY <2>1, <2>2
    <3>2. \A i \in 1..k : i \in 1..(k + 1)
      OBVIOUS
    <3>3. \A i \in 1..k : f[i - 1] = g[i - 1] => f[i] = g[i]
      BY <2>1, <2>2, <3>2
    <3>4. StepAlike(f, g, k)
      BY <3>1, <3>3 DEF StepAlike
    <3>5. Agree(f, g, k)
      BY <3>4, SameRecursion
    <3>6. QED
      BY <3>5 DEF Agree
  <2>4. g[k + 1] = g[k] \div 10
    <3>1. k + 1 \in 1..(k + 1) /\ (k + 1) - 1 = k
      OBVIOUS
    <3>2. QED
      BY <2>2, <3>1
  <2>5. QED
    BY <2>1, <2>2, <2>3, <2>4
<1>3. QED
  BY <1>1, <1>2

-----------------------------------------------------------------------------
(* Arithmetic.                                                              *)
LEMMA Division ==
  ASSUME NEW n \in Int, NEW d \in Nat \ {0}
  PROVE  /\ n \div d \in Int /\ n % d \in 0..(d - 1)
         /\ n = d * (n \div d) + (n % d)
  OBVIOUS

LEMMA Scaled ==
  ASSUME NEW a \in Int, NEW b \in Int, NEW p \in Nat, a <= b
  PROVE  a * p <= b * p
  OBVIOUS

LEMMA Distributed ==
  ASSUME NEW a \in Int, NEW b \in Int, NEW p \in Nat
  PROVE  (a - b) * p = a * p - b * p
  OBVIOUS

LEMMA Quotient ==
  ASSUME NEW d \in Nat \ {0}, NEW n \in Int, NEW x \in Int, NEW r \in 0..(d - 1),
         n = d * x + r
  PROVE  n \div d = x /\ n % d = r
  OBVIOUS

LEMMA GigaIsPositive == Giga \in Nat \ {0} /\ Digits \in Nat /\ Giga = pow10[Digits]
  BY TimeIsTyped, PowersOfTen

(* Carrying and borrowing make normal times, and lose nothing.              *)
LEMMA CarryIsExact ==
  ASSUME NEW sec \in Int, NEW nsec \in Nat
  PROVE  /\ Carry(sec, nsec) \in Normal
         /\ sec \in Nat => Carry(sec, nsec).tv_sec \in Nat
         /\ Value(Carry(sec, nsec)) = sec * Giga + nsec
<1> DEFINE q == nsec \div Giga
           r == nsec % Giga
<1>1. q \in Int /\ r \in 0..(Giga - 1) /\ nsec = Giga * q + r
  <2>1. nsec \in Int
    OBVIOUS
  <2>2. QED
    BY <2>1, GigaIsPositive, Division
<1>2. q \in Nat
  <2>1. SUFFICES ASSUME q <= -1 PROVE FALSE
    BY <1>1
  <2> HIDE DEF q, r
  <2>2. q * Giga <= (-1) * Giga
    BY <1>1, <2>1, GigaIsPositive, Scaled
  <2>3. QED
    BY <1>1, <2>2, GigaIsPositive
<1>3. q \in Nat /\ r \in 0..(Giga - 1) /\ nsec = Giga * q + r
  BY <1>1, <1>2
<1>4. CASE nsec >= Giga
  <2>1. Carry(sec, nsec) = [tv_sec |-> sec + q, tv_nsec |-> r]
    BY <1>4 DEF Carry, mkts
  <2> HIDE DEF q, r
  <2>2. (sec + q) * Giga + r = sec * Giga + nsec
    BY <1>3, GigaIsPositive
  <2>3. QED
    BY <1>3, <2>1, <2>2 DEF Normal, Value
<1>5. CASE nsec < Giga
  <2>1. Carry(sec, nsec) = [tv_sec |-> sec, tv_nsec |-> nsec]
    BY <1>5, GigaIsPositive DEF Carry, mkts
  <2>2. QED
    BY <1>5, <2>1, GigaIsPositive DEF Normal, Value
<1>6. QED
  BY <1>4, <1>5, GigaIsPositive

LEMMA BorrowIsExact ==
  ASSUME NEW sec \in Int, NEW nsec \in Int, nsec < Giga
  PROVE  /\ Borrow(sec, nsec) \in Normal
         /\ Value(Borrow(sec, nsec)) = sec * Giga + nsec
<1> DEFINE q == nsec \div Giga
           r == nsec % Giga
<1>1. q \in Int /\ r \in 0..(Giga - 1) /\ nsec = Giga * q + r
  BY GigaIsPositive, Division
<1>2. CASE nsec < 0
  <2>1. Borrow(sec, nsec) = [tv_sec |-> sec + q, tv_nsec |-> r]
    BY <1>2 DEF Borrow, mkts
  <2> HIDE DEF q, r
  <2>2. (sec + q) * Giga + r = sec * Giga + nsec
    BY <1>1, GigaIsPositive
  <2>3. QED
    BY <1>1, <2>1, <2>2 DEF Normal, Value
<1>3. CASE nsec >= 0
  <2>1. Borrow(sec, nsec) = [tv_sec |-> sec, tv_nsec |-> nsec]
    BY <1>3 DEF Borrow, mkts
  <2>2. QED
    BY <1>3, <2>1, GigaIsPositive DEF Normal, Value
<1>4. QED
  BY <1>2, <1>3

LEMMA PlusIsExact ==
  ASSUME NEW l \in Normal, NEW r \in Normal
  PROVE  /\ Plus(l, r) \in Normal
         /\ (l.tv_sec \in Nat /\ r.tv_sec \in Nat) => Plus(l, r).tv_sec \in Nat
         /\ Value(Plus(l, r)) = Value(l) + Value(r)
<1> DEFINE sec == l.tv_sec + r.tv_sec
           nsec == l.tv_nsec + r.tv_nsec
<1>1. /\ l.tv_sec \in Int /\ r.tv_sec \in Int /\ sec \in Int
      /\ l.tv_nsec \in Nat /\ r.tv_nsec \in Nat /\ nsec \in Nat
  BY GigaIsPositive DEF Normal
<1>2. Plus(l, r) = Carry(sec, nsec)
  BY DEF Plus
<1>3. sec * Giga + nsec = Value(l) + Value(r)
  BY <1>1, GigaIsPositive DEF Value
<1>4. (l.tv_sec \in Nat /\ r.tv_sec \in Nat) => sec \in Nat
  OBVIOUS
<1> HIDE DEF sec, nsec
<1>5. QED
  BY <1>1, <1>2, <1>3, <1>4, CarryIsExact

LEMMA MinusIsExact ==
  ASSUME NEW l \in Normal, NEW r \in Normal
  PROVE  /\ Minus(l, r) \in Normal
         /\ Value(Minus(l, r)) = Value(l) - Value(r)
<1> DEFINE sec == l.tv_sec - r.tv_sec
           nsec == l.tv_nsec - r.tv_nsec
<1>1. /\ l.tv_sec \in Int /\ r.tv_sec \in Int /\ sec \in Int
      /\ l.tv_nsec \in Nat /\ r.tv_nsec \in Nat /\ nsec \in Int /\ nsec < Giga
  BY GigaIsPositive DEF Normal
<1>2. Minus(l, r) = Borrow(sec, nsec)
  BY DEF Minus
<1>3. sec * Giga + nsec = Value(l) - Value(r)
  <2>1. sec * Giga = l.tv_sec * Giga - r.tv_sec * Giga
    BY <1>1, GigaIsPositive, Distributed
  <2>2. l.tv_sec * Giga \in Int /\ r.tv_sec * Giga \in Int
    BY <1>1, GigaIsPositive
  <2>3. QED
    BY <1>1, <2>1, <2>2 DEF Value
<1> HIDE DEF sec, nsec
<1>4. QED
  BY <1>1, <1>2, <1>3, BorrowIsExact

(* A time is negative just when its seconds are.                            *)
LEMMA LessThanNothing ==
  ASSUME NEW ts \in Normal
  PROVE  /\ Value(ts) \in Int
         /\ Less(ts, mkts(0, 0)) <=> Value(ts) < 0
<1>1. ts.tv_sec \in Int /\ ts.tv_nsec \in 0..(Giga - 1)
  BY DEF Normal
<1>2. Less(ts, mkts(0, 0)) <=> ts.tv_sec < 0
  BY <1>1, GigaIsPositive DEF Less, mkts
<1>3. PICK s \in Int, n \in 0..(Giga - 1) : s = ts.tv_sec /\ n = ts.tv_nsec
  BY <1>1
<1>4. CASE s < 0
  <2>1. s * Giga <= (-1) * Giga
    BY <1>4, GigaIsPositive, Scaled
  <2>2. QED
    BY <1>2, <1>3, <1>4, <2>1, GigaIsPositive DEF Value
<1>5. CASE s >= 0
  <2>1. 0 * Giga <= s * Giga
    BY <1>5, GigaIsPositive, Scaled
  <2>2. QED
    BY <1>2, <1>3, <1>5, <2>1, GigaIsPositive DEF Value
<1>6. QED
  BY <1>4, <1>5

-----------------------------------------------------------------------------
(* What is read from a text.                                                *)
LEMMA NumberIsNat ==
  ASSUME NEW q \in Seq(0..9)
  PROVE  Number(q) \in Nat
<1>1. Len(q) \in Nat /\ Len(q) \in 0..Len(q)
  BY Positions
<1>2. QED
  BY <1>1, NumberIsRecursive

LEMMA FractionIsBelowASecond ==
  ASSUME NEW q \in Seq(0..9), Len(q) <= Digits
  PROVE  Number(q) * pow10[Digits - Len(q)] \in 0..(Giga - 1)
<1>1. Len(q) \in Nat /\ \A i \in 1..Len(q) : q[i] \in 0..9
  BY Positions
<1>2. PICK f \in [0..Len(q) -> Nat] :
        /\ f[0] = 0
        /\ \A i \in 1..Len(q) : f[i] = 10 * f[i - 1] + q[i]
        /\ Number(q) = f[Len(q)]
  BY NumberIsRecursive
<1> DEFINE T == {i \in Nat : i <= Len(q) => (f[i] + 1) * pow10[Digits - i] <= Giga}
<1>3. 0 \in T
  <2>1. Digits - 0 = Digits /\ (0 + 1) * Giga = Giga
    BY GigaIsPositive
  <2>2. QED
    BY <1>2, <2>1, GigaIsPositive
<1>4. ASSUME NEW i \in Nat, i \in T
      PROVE  i + 1 \in T
  <2>1. SUFFICES ASSUME i + 1 <= Len(q)
                 PROVE  (f[i + 1] + 1) * pow10[Digits - (i + 1)] <= Giga
    OBVIOUS
  <2>2. i + 1 \in 1..Len(q) /\ (i + 1) - 1 = i
    BY <1>1, <2>1
  <2>3. PICK a \in Nat, b \in Nat, d \in 0..9 :
          a = f[i] /\ b = f[i + 1] /\ d = q[i + 1]
    BY <1>1, <2>1, <2>2
  <2>4. b = 10 * a + d
    BY <1>2, <2>2, <2>3
  <2>5. PICK p \in Nat : /\ p = pow10[Digits - (i + 1)]
                         /\ pow10[Digits - i] = 10 * p
    <3>1. Digits - i \in 1..Digits /\ (Digits - i) - 1 = Digits - (i + 1)
      BY <1>1, <2>1, GigaIsPositive
    <3>2. Digits - (i + 1) \in 0..Digits
      BY <1>1, <2>1, GigaIsPositive
    <3>3. pow10[Digits - (i + 1)] \in Nat
      BY <3>2, PowersOfTen
    <3>4. pow10[Digits - i] = 10 * pow10[Digits - (i + 1)]
      BY <3>1, PowersOfTen
    <3>5. QED
      BY <3>3, <3>4
  <2>6. (a + 1) * (10 * p) <= Giga
    BY <1>4, <2>1, <2>3, <2>5
  <2>7. (b + 1) * p <= (10 * (a + 1)) * p
    BY <2>4, Scaled
  <2>8. (10 * (a + 1)) * p = (a + 1) * (10 * p)
    OBVIOUS
  <2>9. (b + 1) * p <= Giga
    <3>1. PICK u \in Nat, v \in Nat : u = (b + 1) * p /\ v = (a + 1) * (10 * p)
      OBVIOUS
    <3>2. u <= v
      BY <2>7, <2>8, <3>1
    <3>3. QED
      BY <2>6, <3>1, <3>2, GigaIsPositive
  <2>10. QED
    BY <2>3, <2>5, <2>9
<1>5. Len(q) \in T
  <2> HIDE DEF T
  <2>1. QED
    BY <1>1, <1>3, <1>4, NumbersByInduction
<1>6. PICK a \in Nat, p \in Nat \ {0} :
        a = Number(q) /\ p = pow10[Digits - Len(q)] /\ (a + 1) * p <= Giga
  <2>1. Digits - Len(q) \in 0..Digits
    BY <1>1, GigaIsPositive
  <2>2. pow10[Digits - Len(q)] \in Nat \ {0}
    BY <2>1, PowersOfTen
  <2>3. QED
    BY <1>1, <1>2, <1>5, <2>2
<1>7. PICK m \in Nat : m = a * p /\ (a + 1) * p = m + p
  OBVIOUS
<1>8. m \in 0..(Giga - 1)
  <2>1. m + p <= Giga /\ p >= 1
    BY <1>6, <1>7
  <2>2. QED
    BY <2>1, GigaIsPositive
<1>9. QED
  BY <1>6, <1>7, <1>8

LEMMA TextsAreTimes ==
  ASSUME NEW text \in [upper : Seq(0..9), lower : Seq(0..9)],
         Len(text.lower) <= Digits
  PROVE  stots(text) \in [tv_sec : Nat, tv_nsec : 0..(Giga - 1)]
<1>1. text.upper \in Seq(0..9) /\ text.lower \in Seq(0..9)
  OBVIOUS
<1>2. /\ Number(text.upper) \in Nat
      /\ Number(text.lower) * pow10[Digits - Len(text.lower)] \in 0..(Giga - 1)
  BY <1>1, NumberIsNat, FractionIsBelowASecond
<1>3. QED
  BY <1>2 DEF stots, mkts

-----------------------------------------------------------------------------
(* What is shown of a number.                                               *)
LEMMA DropVanishes ==
  ASSUME NEW n \in Nat
  PROVE  Drop(n, n + 1) = 0
<1> DEFINE T == {k \in Nat : Drop(n, k) = 0 \/ Drop(n, k) + k <= n}
<1>1. 0 \in T
  BY DropOneMore
<1>2. ASSUME NEW k \in Nat, k \in T
      PROVE  k + 1 \in T
  <2>1. PICK x \in Nat : x = Drop(n, k) /\ Drop(n, k + 1) = x \div 10
    BY DropOneMore
  <2>2. x = 0 \/ x + k <= n
    BY <1>2, <2>1
  <2>3. x \div 10 = 0 \/ (x \div 10) + (k + 1) <= n
    BY <2>2
  <2>4. QED
    BY <2>1, <2>3
<1>3. n + 1 \in T
  <2>1. n + 1 \in Nat
    OBVIOUS
  <2> HIDE DEF T
  <2>2. QED
    BY <1>1, <1>2, <2>1, NumbersByInduction
<1>4. Drop(n, n + 1) \in Nat
  <2>1. n + 1 \in Nat
    OBVIOUS
  <2>2. QED
    BY <2>1, DropOneMore
<1>5. QED
  BY <1>3, <1>4

(* A number below ten to the k has no more than k digits.                   *)
LEMMA DropAll ==
  ASSUME NEW n \in Nat, n < Giga
  PROVE  Drop(n, Digits) = 0
<1> DEFINE T == {k \in Nat : k <= Digits => Drop(n, k) * pow10[k] <= n}
<1>1. 0 \in T
  <2>1. Drop(n, 0) = n /\ pow10[0] = 1 /\ n * 1 = n
    BY DropOneMore, PowersOfTen
  <2>2. QED
    BY <2>1
<1>2. ASSUME NEW k \in Nat, k \in T
      PROVE  k + 1 \in T
  <2>1. SUFFICES ASSUME k + 1 <= Digits
                 PROVE  Drop(n, k + 1) * pow10[k + 1] <= n
    OBVIOUS
  <2>2. PICK x \in Nat : x = Drop(n, k) /\ Drop(n, k + 1) = x \div 10
    BY DropOneMore
  <2>3. PICK p \in Nat : p = pow10[k] /\ pow10[k + 1] = 10 * p
    <3>1. k \in 0..Digits /\ k + 1 \in 1..Digits /\ (k + 1) - 1 = k
      BY <2>1, GigaIsPositive
    <3>2. QED
      BY <3>1, PowersOfTen
  <2>4. x * p <= n
    <3>1. k <= Digits
      BY <2>1, GigaIsPositive
    <3>2. Drop(n, k) * pow10[k] <= n
      BY <1>2, <3>1
    <3>3. QED
      BY <2>2, <2>3, <3>2
  <2>5. PICK y \in Nat : y = x \div 10 /\ 10 * y <= x
    OBVIOUS
  <2>6. (10 * y) * p <= x * p
    BY <2>5, Scaled
  <2>7. y * (10 * p) = (10 * y) * p
    OBVIOUS
  <2>8. QED
    BY <2>2, <2>3, <2>4, <2>5, <2>6, <2>7
<1>3. Digits \in T
  <2> HIDE DEF T
  <2>1. QED
    BY <1>1, <1>2, GigaIsPositive, NumbersByInduction
<1>4. PICK x \in Nat : x = Drop(n, Digits) /\ x * Giga <= n
  BY <1>3, GigaIsPositive, DropOneMore
<1>5. x >= 1 => 1 * Giga <= x * Giga
  BY GigaIsPositive, Scaled
<1>6. QED
  BY <1>4, <1>5, GigaIsPositive

LEMMA DigitsAreDigits ==
  ASSUME NEW n \in Nat, NEW count \in Nat
  PROVE  /\ DigitsOf(n, count) \in Seq(0..9)
         /\ Len(DigitsOf(n, count)) = count
         /\ \A i \in 1..count : DigitsOf(n, count)[i] = Drop(n, count - i) % 10
<1>1. \A i \in 1..count : Drop(n, count - i) % 10 \in 0..9
  <2>1. TAKE i \in 1..count
  <2>2. count - i \in Nat
    OBVIOUS
  <2>3. Drop(n, count - i) \in Nat
    BY <2>2, DropOneMore
  <2>4. QED
    BY <2>3
<1>2. DigitsOf(n, count) \in [1..count -> 0..9]
  BY <1>1 DEF DigitsOf
<1>3. QED
  BY <1>2, FunctionIsSeq DEF DigitsOf

(* The digits of a number are read as that number, if they are all of them. *)
LEMMA DigitsReadBack ==
  ASSUME NEW n \in Nat, NEW count \in Nat, Drop(n, count) = 0
  PROVE  Number(DigitsOf(n, count)) = n
<1>1. PICK q \in Seq(0..9) :
        /\ q = DigitsOf(n, count) /\ Len(q) = count
        /\ \A i \in 1..count : q[i] = Drop(n, count - i) % 10
  BY DigitsAreDigits
<1>2. PICK f \in [0..count -> Nat] :
        /\ f[0] = 0
        /\ \A i \in 1..count : f[i] = 10 * f[i - 1] + q[i]
        /\ Number(q) = f[count]
  <2>1. \E f \in [0..Len(q) -> Nat] :
          /\ f[0] = 0
          /\ \A i \in 1..Len(q) : f[i] = 10 * f[i - 1] + q[i]
          /\ Number(q) = f[Len(q)]
    BY NumberIsRecursive
  <2>2. QED
    BY <1>1, <2>1
<1> DEFINE T == {i \in Nat : i <= count => f[i] = Drop(n, count - i)}
<1>3. 0 \in T
  BY <1>2
<1>4. ASSUME NEW i \in Nat, i \in T
      PROVE  i + 1 \in T
  <2>1. SUFFICES ASSUME i + 1 <= count
                 PROVE  f[i + 1] = Drop(n, count - (i + 1))
    OBVIOUS
  <2>2. PICK k \in Nat : k = count - (i + 1) /\ k + 1 = count - i
    BY <2>1
  <2>3. PICK x \in Nat : x = Drop(n, k) /\ Drop(n, k + 1) = x \div 10
    <3>1. Drop(n, k) \in Nat /\ Drop(n, k + 1) = Drop(n, k) \div 10
      BY DropOneMore
    <3>2. QED
      BY <3>1
  <2>4. f[i] = x \div 10
    BY <1>4, <2>1, <2>2, <2>3
  <2>5. i + 1 \in 1..count /\ (i + 1) - 1 = i
    BY <2>1
  <2>6. q[i + 1] = x % 10
    BY <1>1, <2>2, <2>3, <2>5
  <2>7. f[i + 1] = 10 * (x \div 10) + (x % 10)
    BY <1>2, <2>4, <2>5, <2>6
  <2>8. x = 10 * (x \div 10) + (x % 10)
    BY Division
  <2>9. QED
    BY <2>2, <2>3, <2>7, <2>8
<1>5. count \in T
  <2> HIDE DEF T
  <2>1. QED
    BY <1>3, <1>4, NumbersByInduction
<1>6. Drop(n, count - count) = n
  BY DropOneMore
<1>7. QED
  BY <1>1, <1>2, <1>5, <1>6

(* std::to_string: the shortest text of a number that is all of it.         *)
LEMMA WholeReadsBack ==
  ASSUME NEW n \in Nat
  PROVE  Whole(n) \in Seq(0..9) /\ Number(Whole(n)) = n
<1> DEFINE S == {k \in 1..(n + 1) : Drop(n, k) = 0}
<1>1. n + 1 \in S
  BY DropVanishes
<1>2. PICK x \in S : \A y \in S : x <= y
  <2>1. S \in SUBSET Nat /\ S # {}
    BY <1>1
  <2> HIDE DEF S
  <2>2. QED
    BY <2>1, LeastNumber
<1>3. Min(S) \in S
  <2> HIDE DEF S
  <2>1. QED
    BY <1>2 DEF Min
<1>4. PICK k \in Nat : k = Min(S) /\ Drop(n, k) = 0
  BY <1>3
<1>5. Whole(n) = DigitsOf(n, k)
  BY <1>4 DEF Whole
<1>6. QED
  BY <1>4, <1>5, DigitsAreDigits, DigitsReadBack

(* Zeros at the end of a fraction may be left out.                          *)
LEMMA TrimmedReadsBack ==
  ASSUME NEW q \in Seq(0..9), Len(q) = Digits
  PROVE  /\ Trimmed(q) \in Seq(0..9)
         /\ Len(Trimmed(q)) \in 1..Digits
         /\ Number(Trimmed(q)) * pow10[Digits - Len(Trimmed(q))] = Number(q)
<1> DEFINE S == {1} \cup {i \in DOMAIN q : q[i] # 0}
<1>1. /\ Digits \in Nat \ {0} /\ DOMAIN q = 1..Digits
      /\ \A i \in 1..Digits : q[i] \in 0..9
  BY Positions, TimeIsTyped
<1>2. PICK m \in 1..Digits : m = Max(S) /\ \A i \in 1..Digits : i > m => q[i] = 0
  <2> DEFINE R == {j \in 0..Digits : Digits - j \in S}
  <2>1. S \subseteq 1..Digits /\ 1 \in S
    BY <1>1
  <2>2. R \in SUBSET Nat /\ Digits - 1 \in R
    BY <1>1, <2>1
  <2>3. PICK j \in R : \A y \in R : j <= y
    <3> HIDE DEF R
    <3>1. QED
      BY <2>2, LeastNumber
  <2>4. Digits - j \in S /\ \A y \in S : Digits - j >= y
    <3>1. \A y \in S : Digits - y \in R
      BY <1>1, <2>1
    <3>2. j \in 0..Digits /\ \A y \in S : j <= Digits - y /\ y \in 1..Digits
      BY <2>1, <2>3, <3>1
    <3>3. \A y \in S : Digits - j >= y
      BY <1>1, <3>2
    <3>4. QED
      BY <2>3, <3>3
  <2>5. Max(S) \in S /\ \A y \in S : Max(S) >= y
    <3> HIDE DEF S, R
    <3>1. QED
      BY <2>4 DEF Max
  <2>6. \A i \in 1..Digits : i > Max(S) => q[i] = 0
    BY <1>1, <2>1, <2>5
  <2>7. QED
    BY <2>1, <2>5, <2>6
<1>3. /\ Trimmed(q) \in Seq(0..9) /\ Len(Trimmed(q)) = m
      /\ \A i \in 1..m : Trimmed(q)[i] = q[i]
  <2>1. Trimmed(q) = SubSeq(q, 1, m)
    BY <1>2 DEF Trimmed
  <2>2. \A i \in 1..m : q[i] \in 0..9
    BY <1>1
  <2>3. QED
    BY <1>1, <2>1, <2>2, SubSeqProperties
<1>4. PICK t \in Seq(0..9) : t = Trimmed(q) /\ Len(t) = m /\ \A i \in 1..m : t[i] = q[i]
  BY <1>3
<1>5. PICK f \in [0..Digits -> Nat] :
        /\ f[0] = 0
        /\ \A i \in 1..Digits : f[i] = 10 * f[i - 1] + q[i]
        /\ Number(q) = f[Digits]
  <2>1. \E f \in [0..Len(q) -> Nat] :
          /\ f[0] = 0
          /\ \A i \in 1..Len(q) : f[i] = 10 * f[i - 1] + q[i]
          /\ Number(q) = f[Len(q)]
    BY NumberIsRecursive
  <2>2. QED
    BY <2>1
<1>6. PICK g \in [0..m -> Nat] :
        /\ g[0] = 0
        /\ \A i \in 1..m : g[i] = 10 * g[i - 1] + t[i]
        /\ Number(t) = g[m]
  <2>1. \E g \in [0..Len(t) -> Nat] :
          /\ g[0] = 0
          /\ \A i \in 1..Len(t) : g[i] = 10 * g[i - 1] + t[i]
          /\ Number(t) = g[Len(t)]
    BY NumberIsRecursive
  <2>2. QED
    BY <1>4, <2>1
<1>7. f[m] = g[m]
  <2>1. \A i \in 1..m : i \in 1..Digits
    BY <1>1
  <2>2. \A i \in 1..m : g[i - 1] = f[i - 1] => g[i] = f[i]
    BY <1>4, <1>5, <1>6, <2>1
  <2>3. StepAlike(g, f, m)
    BY <1>5, <1>6, <2>2 DEF StepAlike
  <2>4. m \in Nat /\ m \in 0..m
    BY <1>1
  <2>5. Agree(g, f, m)
    BY <2>3, <2>4, SameRecursion
  <2>6. QED
    BY <2>4, <2>5 DEF Agree
<1> DEFINE T == {j \in Nat : m + j <= Digits => f[m + j] = f[m] * pow10[j]}
<1>8. 0 \in T
  <2>1. m + 0 = m /\ pow10[0] = 1 /\ f[m] \in Nat
    BY <1>1, PowersOfTen
  <2>2. QED
    BY <2>1
<1>9. ASSUME NEW j \in Nat, j \in T
      PROVE  j + 1 \in T
  <2>1. SUFFICES ASSUME m + (j + 1) <= Digits
                 PROVE  f[m + (j + 1)] = f[m] * pow10[j + 1]
    OBVIOUS
  <2>2. PICK k \in 1..Digits : k = m + (j + 1) /\ k - 1 = m + j /\ k > m
    BY <1>1, <2>1
  <2>3. q[k] = 0
    BY <1>2, <2>2
  <2>4. PICK a \in Nat, b \in Nat, c \in Nat :
          a = f[m] /\ b = f[m + j] /\ c = f[m + (j + 1)]
    BY <1>1, <2>1, <2>2
  <2>5. c = 10 * b
    BY <1>5, <2>2, <2>3, <2>4
  <2>6. PICK p \in Nat : p = pow10[j] /\ pow10[j + 1] = 10 * p
    <3>1. j \in 0..Digits /\ j + 1 \in 1..Digits /\ (j + 1) - 1 = j
      BY <1>1, <2>1
    <3>2. QED
      BY <3>1, PowersOfTen
  <2>7. b = a * p
    <3>1. m + j <= Digits
      BY <1>1, <2>1
    <3>2. QED
      BY <1>9, <2>4, <2>6, <3>1
  <2>8. 10 * (a * p) = a * (10 * p)
    OBVIOUS
  <2>9. QED
    BY <2>4, <2>5, <2>6, <2>7, <2>8
<1>10. PICK j \in Nat : j = Digits - m /\ m + j = Digits
  BY <1>1
<1>11. j \in T
  <2> HIDE DEF T
  <2>1. QED
    BY <1>8, <1>9, NumbersByInduction
<1>12. f[Digits] = f[m] * pow10[Digits - m]
  <2>1. m + j <= Digits
    BY <1>1, <1>10
  <2>2. QED
    BY <1>10, <1>11, <2>1
<1>13. QED
  BY <1>2, <1>4, <1>5, <1>6, <1>7, <1>12

LEMMA ShownTimesReadBack ==
  ASSUME NEW ts \in [tv_sec : Nat, tv_nsec : 0..(Giga - 1)]
  PROVE  stots(tstos(ts)) = ts
<1>1. PICK sec \in Nat, nsec \in 0..(Giga - 1) :
        /\ sec = ts.tv_sec /\ nsec = ts.tv_nsec
        /\ ts = [tv_sec |-> sec, tv_nsec |-> nsec]
  OBVIOUS
<1>2. nsec \in Nat /\ nsec < Giga
  BY GigaIsPositive
<1>3. PICK q \in Seq(0..9) :
        q = DigitsOf(nsec, Digits) /\ Len(q) = Digits /\ Number(q) = nsec
  BY <1>2, GigaIsPositive, DropAll, DigitsAreDigits, DigitsReadBack
<1>4. /\ tstos(ts).upper = Whole(sec)
      /\ tstos(ts).lower = Trimmed(q)
  BY <1>1, <1>3 DEF tstos
<1>5. Number(tstos(ts).upper) = sec
  BY <1>4, WholeReadsBack
<1>6. Number(Trimmed(q)) * pow10[Digits - Len(Trimmed(q))] = nsec
  BY <1>3, TrimmedReadsBack
<1>7. QED
  BY <1>1, <1>4, <1>5, <1>6 DEF stots, mkts

-----------------------------------------------------------------------------
(* The times that are set from texts and from the clock have no negative    *)
(* seconds; a sleep is what is left, and not negative because of Less.      *)
Future == [tv_sec : Nat, tv_nsec : 0..(Giga - 1)]

TimeInv == {now, deadline, period} \subseteq Future /\ ctime \in Normal

LEMMA FuturesAreNormal == Future \subseteq Normal
  BY DEF Future, Normal

LEMMA NothingIsATime == mkts(0, 0) \in Future /\ Value(mkts(0, 0)) = 0
  BY GigaIsPositive DEF Future, mkts, Value

LEMMA SumsAreFuture ==
  ASSUME NEW l \in Future, NEW r \in Future
  PROVE  Plus(l, r) \in Future /\ Value(Plus(l, r)) = Value(l) + Value(r)
<1>1. l \in Normal /\ r \in Normal /\ l.tv_sec \in Nat /\ r.tv_sec \in Nat
  BY FuturesAreNormal DEF Future
<1>2. /\ Plus(l, r) \in Normal /\ Plus(l, r).tv_sec \in Nat
      /\ Value(Plus(l, r)) = Value(l) + Value(r)
  BY <1>1, PlusIsExact
<1>3. QED
  BY <1>2 DEF Normal, Future

LEMMA TimeInvHolds == TimeSpecification => []TimeInv
<1>1. TimeInit => TimeInv
  BY NothingIsATime, FuturesAreNormal DEF TimeInit, TimeInv
<1>2. TimeInv /\ [TimeNext]_timeVars => TimeInv'
  <2> SUFFICES ASSUME TimeInv, [TimeNext]_timeVars
               PROVE  TimeInv'
    OBVIOUS
  <2>1. now \in Future /\ deadline \in Future /\ period \in Future /\ ctime \in Normal
    BY DEF TimeInv
  <2>2. ASSUME NEW text \in Texts, SetPeriod(text)
        PROVE  TimeInv'
    <3>1. stots(text) \in Future
      BY TextsAreReadable, TextsAreTimes DEF Future
    <3>2. QED
      BY <2>1, <2>2, <3>1 DEF SetPeriod, TimeInv
  <2>3. ASSUME NEW from \in {now, deadline}, SetTimer(from)
        PROVE  TimeInv'
    <3>1. Plus(from, period) \in Future
      BY <2>1, SumsAreFuture
    <3>2. QED
      BY <2>1, <2>3, <3>1 DEF SetTimer, TimeInv
  <2>4. CASE Compute
    <3>1. Minus(deadline, now) \in Normal /\ mkts(0, 0) \in Normal
      BY <2>1, FuturesAreNormal, NothingIsATime, MinusIsExact
    <3>2. QED
      BY <2>1, <2>4, <3>1 DEF Compute, TimeInv
  <2>5. ASSUME NEW lapse \in Lapses, TimePasses(lapse)
        PROVE  TimeInv'
    <3>1. lapse \in Future
      BY TimeIsTyped DEF Future
    <3>2. Plus(now, lapse) \in Future
      BY <2>1, <3>1, SumsAreFuture
    <3>3. QED
      BY <2>1, <2>5, <3>2 DEF TimePasses, TimeInv
  <2>6. CASE UNCHANGED timeVars
    BY <2>1, <2>6 DEF timeVars, TimeInv
  <2>7. QED
    BY <2>2, <2>3, <2>4, <2>5, <2>6 DEF TimeNext
<1>3. QED
  BY <1>1, <1>2, PTL DEF TimeSpecification

(* Every time that is computed or read has a fraction below a second, with  *)
(* which pselect and timerfd_settime accept it.                             *)
THEOREM TimesStayNormal == TimeSpecification => []TimesAreNormal
<1>1. TimeInv => TimesAreNormal
  BY FuturesAreNormal DEF TimeInv, TimesAreNormal
<1>2. QED
  BY <1>1, TimeInvHolds, PTL

(* What addaction reads is what `show' writes, for every period.            *)
THEOREM ShownPeriodsReadBack == TimeSpecification => []PeriodsReadBack
<1>1. TimeInv => PeriodsReadBack
  BY ShownTimesReadBack DEF TimeInv, PeriodsReadBack, Future
<1>2. QED
  BY <1>1, TimeInvHolds, PTL

LEMMA LargerOfTwo ==
  ASSUME NEW x \in Int
  PROVE  Max({0, x}) = IF x < 0 THEN 0 ELSE x
<1> DEFINE m == IF x < 0 THEN 0 ELSE x
<1>1. m \in {0, x} /\ \A y \in {0, x} : m >= y
  OBVIOUS
<1>2. PICK n \in {0, x} : n = Max({0, x}) /\ \A y \in {0, x} : n >= y
  BY <1>1 DEF Max
<1>3. QED
  BY <1>1, <1>2

(* A sleep ends at the deadline, or at once; a timer comes one period after *)
(* what it is counted from.                                                 *)
THEOREM SleepsStayExact == TimeSpecification => SleepsAreExact
<1>1. ASSUME TimeInv, [TimeNext]_timeVars
      PROVE  [/\ Compute => Value(ctime') = Max({0, Value(deadline) - Value(now)})
              /\ \A from \in {now, deadline} :
                   SetTimer(from) => Value(deadline') = Value(from) + Value(period)]_timeVars
  <2>1. now \in Future /\ deadline \in Future /\ period \in Future
    BY <1>1 DEF TimeInv
  <2>2. ASSUME Compute
        PROVE  Value(ctime') = Max({0, Value(deadline) - Value(now)})
    <3>1. PICK left \in Normal : /\ left = Minus(deadline, now)
                                 /\ Value(left) = Value(deadline) - Value(now)
      BY <2>1, FuturesAreNormal, MinusIsExact
    <3>2. Value(left) \in Int /\ (Less(left, mkts(0, 0)) <=> Value(left) < 0)
      BY LessThanNothing
    <3>3. ctime' = IF Less(left, mkts(0, 0)) THEN mkts(0, 0) ELSE left
      BY <2>2, <3>1 DEF Compute
    <3>4. Value(ctime') = IF Value(left) < 0 THEN 0 ELSE Value(left)
      BY <3>2, <3>3, NothingIsATime
    <3>5. QED
      BY <3>1, <3>2, <3>4, LargerOfTwo
  <2>3. ASSUME NEW from \in {now, deadline}, SetTimer(from)
        PROVE  Value(deadline') = Value(from) + Value(period)
    <3>1. deadline' = Plus(from, period)
      BY <2>3 DEF SetTimer
    <3>2. Value(Plus(from, period)) = Value(from) + Value(period)
      BY <2>1, SumsAreFuture
    <3>3. QED
      BY <3>1, <3>2
  <2>4. QED
    BY <2>2, <2>3
<1>2. QED
  BY <1>1, TimeInvHolds, PTL DEF TimeSpecification, SleepsAreExact
=============================================================================
