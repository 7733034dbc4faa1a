---------------------------- MODULE SequenceLemmas ----------------------------
(***************************************************************************)
(* Facts about sequences the proofs of the project rest on: removing,      *)
(* replacing and mapping entries of the daemon's vectors.                  *)
(***************************************************************************)
EXTENDS Integers, Sequences, SequencesExt, Subsequences, SequenceTheorems,
        WellFoundedInduction, TLAPS

(* A function over 1..n is a sequence.                                      *)
LEMMA FunctionIsSeq ==
  ASSUME NEW S, NEW n \in Nat, NEW f \in [1..n -> S]
  PROVE  /\ f \in Seq(S)
         /\ Len(f) = n
  OBVIOUS

(* The positions of a sequence.                                             *)
LEMMA Positions ==
  ASSUME NEW S, NEW q \in Seq(S)
  PROVE  /\ Len(q) \in Nat
         /\ DOMAIN q = 1..Len(q)
         /\ \A i \in DOMAIN q : q[i] \in S
  BY LenProperties, ElementOfSeq

(* vector::erase of one entry: the entries behind it move up.               *)
LEMMA RemoveAtProperties ==
  ASSUME NEW S, NEW q \in Seq(S), NEW i \in DOMAIN q
  PROVE  /\ RemoveAt(q, i) \in Seq(S)
         /\ Len(RemoveAt(q, i)) = Len(q) - 1
         /\ \A j \in 1..(Len(q) - 1) :
              RemoveAt(q, i)[j] = IF j < i THEN q[j] ELSE q[j + 1]
<1>1. /\ Len(q) \in Nat
      /\ DOMAIN q = 1..Len(q)
      /\ i \in 1..Len(q)
      /\ \A j \in 1..Len(q) : q[j] \in S
  BY Positions
<1> DEFINE left == SubSeq(q, 1, i - 1)
           right == SubSeq(q, i + 1, Len(q))
<1>2. /\ left \in Seq(S)
      /\ Len(left) = i - 1
      /\ \A j \in 1..(i - 1) : left[j] = q[j]
  <2>1. \A j \in 1..(i - 1) : q[j] \in S
    BY <1>1
  <2>2. QED
    BY <2>1, <1>1, SubSeqProperties
<1>3. /\ right \in Seq(S)
      /\ Len(right) = Len(q) - i
      /\ \A j \in 1..(Len(q) - i) : right[j] = q[i + j]
  <2>1. \A j \in (i + 1)..Len(q) : q[j] \in S
    BY <1>1
  <2>2. QED
    BY <2>1, <1>1, SubSeqProperties
<1>4. RemoveAt(q, i) = left \o right
  BY DEF RemoveAt
<1> HIDE DEF left, right
<1>5. /\ left \o right \in Seq(S)
      /\ Len(left \o right) = Len(left) + Len(right)
      /\ \A j \in 1..(Len(left) + Len(right)) : (left \o right)[j] =
           IF j <= Len(left) THEN left[j] ELSE right[j - Len(left)]
  BY <1>2, <1>3, ConcatProperties, Zenon
<1>6. \A j \in 1..(Len(q) - 1) :
        (left \o right)[j] = IF j < i THEN q[j] ELSE q[j + 1]
  <2>1. SUFFICES ASSUME NEW j \in 1..(Len(q) - 1)
                 PROVE  (left \o right)[j] = IF j < i THEN q[j] ELSE q[j + 1]
    OBVIOUS
  <2>2. j \in 1..(Len(left) + Len(right))
    BY <1>1, <1>2, <1>3
  <2>3. CASE j < i
    BY <2>2, <2>3, <1>1, <1>2, <1>5
  <2>4. CASE j >= i
    <3>1. (left \o right)[j] = right[j - (i - 1)]
      BY <2>2, <2>4, <1>1, <1>2, <1>5
    <3>2. j - (i - 1) \in 1..(Len(q) - i)
      BY <2>4, <1>1
    <3>3. right[j - (i - 1)] = q[i + (j - (i - 1))]
      BY <3>2, <1>3
    <3>4. i + (j - (i - 1)) = j + 1
      BY <1>1
    <3>5. QED
      BY <3>1, <3>3, <3>4, <2>4, <1>1
  <2>5. j < i \/ j >= i
    BY <1>1
  <2>6. QED
    BY <2>3, <2>4, <2>5, Zenon
<1>7. QED
  BY <1>1, <1>2, <1>3, <1>4, <1>5, <1>6

(* Every entry that is left was there before.                               *)
LEMMA RemoveAtEntries ==
  ASSUME NEW S, NEW q \in Seq(S), NEW i \in DOMAIN q,
         NEW j \in DOMAIN RemoveAt(q, i)
  PROVE  \E k \in DOMAIN q : k # i /\ RemoveAt(q, i)[j] = q[k]
<1>1. /\ Len(q) \in Nat
      /\ i \in 1..Len(q)
      /\ DOMAIN q = 1..Len(q)
      /\ j \in 1..(Len(q) - 1)
  BY RemoveAtProperties, Positions
<1>2. RemoveAt(q, i)[j] = IF j < i THEN q[j] ELSE q[j + 1]
  BY <1>1, RemoveAtProperties
<1>3. QED
  BY <1>1, <1>2

(* Replacing one entry.                                                     *)
LEMMA ReplaceProperties ==
  ASSUME NEW S, NEW q \in Seq(S), NEW i \in DOMAIN q, NEW e \in S
  PROVE  /\ [q EXCEPT ![i] = e] \in Seq(S)
         /\ Len([q EXCEPT ![i] = e]) = Len(q)
  BY ExceptSeq, LenProperties

-----------------------------------------------------------------------------
(* Induction, of which the library's theorems take an operator: here it is  *)
(* about a set of numbers.                                                  *)
LEMMA LeastNumber ==
  ASSUME NEW T \in SUBSET Nat, T # {}
  PROVE  \E x \in T : \A y \in T : x <= y
<1> DEFINE R == {ss \in Nat \X Nat : ss[1] < ss[2]}
<1>1. IsWellFoundedOn(R, Nat)
  BY NatLessThanWellFounded DEF OpToRel
<1>2. \A x, y \in Nat : ~(<<y, x>> \in R) => x <= y
  OBVIOUS
<1> HIDE DEF R
<1>3. \E x \in T : \A y \in T : ~(<<y, x>> \in R)
  BY <1>1, WFMin
<1>4. QED
  BY <1>2, <1>3

LEMMA NumbersByInduction ==
  ASSUME NEW T, 0 \in T, \A n \in Nat : n \in T => n + 1 \in T
  PROVE  \A n \in Nat : n \in T
<1> SUFFICES ASSUME Nat \ T # {}
             PROVE  FALSE
  OBVIOUS
<1>1. PICK x \in Nat \ T : \A y \in Nat \ T : x <= y
  BY LeastNumber
<1>2. x - 1 \in Nat /\ x - 1 \in T
  BY <1>1
<1>3. QED
  BY <1>2

(* A function on the prefixes of a sequence that is defined by recursion    *)
(* exists.                                                                  *)
Recurs(f, n, base, step) ==
  f[0] = base /\ \A i \in 1..n : f[i] = step[<<i, f[i - 1]>>]

LEMMA RecursionExists ==
  ASSUME NEW S, NEW base \in S, NEW step \in [Nat \X S -> S], NEW n \in Nat
  PROVE  \E f \in [0..n -> S] : Recurs(f, n, base, step)
<1> USE DEF Recurs
<1> DEFINE Good(k, f) == Recurs(f, k, base, step)
           T == {k \in Nat : \E f \in [0..k -> S] : Good(k, f)}
<1>1. 0 \in T
  <2>1. [i \in 0..0 |-> base] \in [0..0 -> S] /\ Good(0, [i \in 0..0 |-> base])
    OBVIOUS
  <2>2. QED
    BY <2>1
<1>2. ASSUME NEW k \in Nat, k \in T
      PROVE  k + 1 \in T
  <2>1. PICK f \in [0..k -> S] : Good(k, f)
    BY <1>2
  <2> DEFINE g == [i \in 0..(k + 1) |-> IF i = k + 1 THEN step[<<k + 1, f[k]>>] ELSE f[i]]
  <2>2. g \in [0..(k + 1) -> S]
    OBVIOUS
  <2>3. g[0] = base
    BY <2>1
  <2>4. ASSUME NEW i \in 1..(k + 1)
        PROVE  g[i] = step[<<i, g[i - 1]>>]
    <3>1. CASE i = k + 1
      <4>1. g[k + 1] = step[<<k + 1, f[k]>>] /\ g[k] = f[k]
        OBVIOUS
      <4>2. i - 1 = k
        BY <3>1
      <4> HIDE DEF g
      <4>3. QED
        BY <3>1, <4>1, <4>2
    <3>2. CASE i # k + 1
      BY <3>2, <2>1
    <3>3. QED
      BY <3>1, <3>2
  <2>5. Good(k + 1, g)
    BY <2>3, <2>4
  <2>6. QED
    <3> HIDE DEF g
    <3>1. QED
      BY <2>2, <2>5
<1>3. \A k \in Nat : k \in T
  <2> HIDE DEF T
  <2>1. QED
    BY <1>1, <1>2, NumbersByInduction
<1>4. QED
  BY <1>3

(* What of a vector of T is kept that is in S.                              *)
LEMMA OnlyIsRecursive ==
  ASSUME NEW T, NEW q \in Seq(T), NEW S
  PROVE  \E f : /\ f[0] = <<>>
                /\ \A i \in 1..Len(q) :
                     f[i] = IF q[i] \in S THEN Append(f[i - 1], q[i]) ELSE f[i - 1]
                /\ Only(q, S) = f[Len(q)]
<1> DEFINE Eq(f) == f = [i \in 0..Len(q) |->
                          IF i = 0 THEN <<>>
                          ELSE IF q[i] \in S THEN Append(f[i - 1], q[i]) ELSE f[i - 1]]
           upTo == CHOOSE f : Eq(f)
           step == [x \in Nat \X Seq(T) |->
                      IF x[1] \in 1..Len(q)
                        THEN IF q[x[1]] \in S THEN Append(x[2], q[x[1]]) ELSE x[2]
                        ELSE x[2]]
<1>1. Len(q) \in Nat /\ \A i \in 1..Len(q) : q[i] \in T
  BY Positions
<1>2. step \in [Nat \X Seq(T) -> Seq(T)]
  BY <1>1
<1>3. <<>> \in Seq(T)
  OBVIOUS
<1>4. PICK f \in [0..Len(q) -> Seq(T)] :
         f[0] = <<>> /\ \A i \in 1..Len(q) : f[i] = step[<<i, f[i - 1]>>]
  <2> DEFINE Q == Seq(T)
             empty == <<>>
  <2> HIDE DEF step, Q, empty
  <2>1. empty \in Q /\ step \in [Nat \X Q -> Q]
    BY <1>2, <1>3 DEF Q, empty
  <2>2. \E f \in [0..Len(q) -> Q] : Recurs(f, Len(q), empty, step)
    BY <1>1, <2>1, RecursionExists
  <2>3. QED
    BY <2>2 DEF Q, empty, Recurs
<1>5. \A i \in 1..Len(q) :
        f[i] = IF q[i] \in S THEN Append(f[i - 1], q[i]) ELSE f[i - 1]
  <2>1. TAKE i \in 1..Len(q)
  <2>2. i - 1 \in 0..Len(q) /\ f[i - 1] \in Seq(T) /\ i \in Nat
    BY <1>1
  <2>3. step[<<i, f[i - 1]>>] =
          IF q[i] \in S THEN Append(f[i - 1], q[i]) ELSE f[i - 1]
    BY <2>2
  <2>4. QED
    BY <1>4, <2>3
<1>6. Eq(f)
  <2>1. f = [i \in 0..Len(q) |-> f[i]]
    OBVIOUS
  <2>2. \A i \in 0..Len(q) :
          f[i] = IF i = 0 THEN <<>>
                 ELSE IF q[i] \in S THEN Append(f[i - 1], q[i]) ELSE f[i - 1]
    <3>1. TAKE i \in 0..Len(q)
    <3>2. CASE i = 0
      BY <3>2, <1>4
    <3>3. CASE i # 0
      <4>1. i \in 1..Len(q)
        BY <3>3, <1>1
      <4>2. QED
        BY <3>3, <4>1, <1>5
    <3>4. QED
      BY <3>2, <3>3
  <2>3. QED
    BY <2>1, <2>2
<1>7. Eq(upTo)
  <2> HIDE DEF Eq
  <2>1. QED
    BY <1>6
<1>8. Only(q, S) = upTo[Len(q)]
  BY DEF Only
<1>9. /\ upTo[0] = <<>>
      /\ \A i \in 1..Len(q) :
           upTo[i] = IF q[i] \in S THEN Append(upTo[i - 1], q[i]) ELSE upTo[i - 1]
  <2> HIDE DEF upTo
  <2>1. upTo = [i \in 0..Len(q) |->
                  IF i = 0 THEN <<>>
                  ELSE IF q[i] \in S THEN Append(upTo[i - 1], q[i]) ELSE upTo[i - 1]]
    BY <1>7
  <2>2. upTo[0] = <<>>
    BY <1>1, <2>1
  <2>3. \A i \in 1..Len(q) :
          upTo[i] = IF q[i] \in S THEN Append(upTo[i - 1], q[i]) ELSE upTo[i - 1]
    <3>1. TAKE i \in 1..Len(q)
    <3>2. i \in 0..Len(q) /\ i # 0
      BY <1>1
    <3>3. QED
      BY <2>1, <3>2
  <2>4. QED
    BY <2>2, <2>3
<1>10. QED
  <2> HIDE DEF upTo
  <2>1. QED
    BY <1>8, <1>9

(* Its entries are those of the vector that are in S, at positions that     *)
(* stay apart.                                                              *)
KeptUpTo(f, m, q, S) ==
  /\ \A i \in 1..Len(f) : \E k \in 1..m : q[k] \in S /\ f[i] = q[k]
  /\ \A k \in 1..m : q[k] \in S => \E i \in 1..Len(f) : f[i] = q[k]
  /\ \A i, j \in 1..Len(f) :
       i < j => \E k, l \in 1..m : k < l /\ f[i] = q[k] /\ f[j] = q[l]

LEMMA OnlyProperties ==
  ASSUME NEW T, NEW q \in Seq(T), NEW S
  PROVE  /\ Only(q, S) \in Seq(T)
         /\ \A i \in DOMAIN Only(q, S) : \E k \in DOMAIN q : q[k] \in S /\ Only(q, S)[i] = q[k]
         /\ \A k \in DOMAIN q : q[k] \in S => \E i \in DOMAIN Only(q, S) : Only(q, S)[i] = q[k]
         /\ \A i, j \in DOMAIN Only(q, S) :
              i < j => \E k, l \in DOMAIN q :
                         k < l /\ Only(q, S)[i] = q[k] /\ Only(q, S)[j] = q[l]
<1>1. Len(q) \in Nat /\ DOMAIN q = 1..Len(q) /\ \A i \in 1..Len(q) : q[i] \in T
  BY Positions
<1>2. PICK f : /\ f[0] = <<>>
               /\ \A i \in 1..Len(q) :
                    f[i] = IF q[i] \in S THEN Append(f[i - 1], q[i]) ELSE f[i - 1]
               /\ Only(q, S) = f[Len(q)]
  BY OnlyIsRecursive
<1> DEFINE Good(m) == m <= Len(q) => f[m] \in Seq(T) /\ KeptUpTo(f[m], m, q, S)
           R == {m \in Nat : Good(m)}
<1>3. 0 \in R
  <2>1. f[0] \in Seq(T) /\ Len(f[0]) = 0
    BY <1>2
  <2>2. QED
    BY <2>1 DEF KeptUpTo
<1>4. ASSUME NEW m \in Nat, m \in R
      PROVE  m + 1 \in R
  <2> SUFFICES ASSUME m + 1 <= Len(q)
               PROVE  f[m + 1] \in Seq(T) /\ KeptUpTo(f[m + 1], m + 1, q, S)
    OBVIOUS
  <2> DEFINE old == f[m]
             new == f[m + 1]
  <2>1. old \in Seq(T) /\ KeptUpTo(old, m, q, S)
    BY <1>1, <1>4
  <2>2. m + 1 \in 1..Len(q) /\ q[m + 1] \in T
    BY <1>1
  <2>3. new = IF q[m + 1] \in S THEN Append(old, q[m + 1]) ELSE old
    <3>1. (m + 1) - 1 = m
      OBVIOUS
    <3>2. QED
      BY <1>2, <2>2, <3>1
  <2>4. CASE q[m + 1] \notin S
    <3> HIDE DEF old, new
    <3>1. new = old
      BY <2>3, <2>4
    <3>2. KeptUpTo(old, m + 1, q, S)
      BY <2>1, <2>4 DEF KeptUpTo
    <3>3. QED
      BY <2>1, <3>1, <3>2 DEF old, new
  <2>5. CASE q[m + 1] \in S
    <3> HIDE DEF old, new
    <3> DEFINE n == Len(old)
    <3>1. /\ n \in Nat
          /\ new \in Seq(T) /\ Len(new) = n + 1 /\ new[n + 1] = q[m + 1]
          /\ \A i \in 1..n : new[i] = old[i]
      BY <2>1, <2>2, <2>3, <2>5
    <3> HIDE DEF n
    <3>2. \A i \in 1..(n + 1) : i \in 1..n \/ i = n + 1
      BY <3>1
    <3>3. \A k \in 1..(m + 1) : k \in 1..m \/ k = m + 1
      OBVIOUS
    <3>4. \A i \in 1..n : \E k \in 1..m : q[k] \in S /\ old[i] = q[k]
      BY <2>1 DEF KeptUpTo, n
    <3>5. \A i \in 1..(n + 1) : \E k \in 1..(m + 1) : q[k] \in S /\ new[i] = q[k]
      BY <2>5, <3>1, <3>2, <3>4
    <3>6. \A k \in 1..m : q[k] \in S => \E i \in 1..n : old[i] = q[k]
      BY <2>1 DEF KeptUpTo, n
    <3>7. \A k \in 1..(m + 1) : q[k] \in S => \E i \in 1..(n + 1) : new[i] = q[k]
      BY <3>1, <3>3, <3>6
    <3>8. \A i, j \in 1..n :
            i < j => \E k, l \in 1..m : k < l /\ old[i] = q[k] /\ old[j] = q[l]
      BY <2>1 DEF KeptUpTo, n
    <3>9. ASSUME NEW i \in 1..(n + 1), NEW j \in 1..(n + 1), i < j
          PROVE  \E k, l \in 1..(m + 1) : k < l /\ new[i] = q[k] /\ new[j] = q[l]
      <4>1. i \in 1..n
        BY <3>1, <3>9
      <4>2. CASE j \in 1..n
        <5>1. PICK k \in 1..m, l \in 1..m : k < l /\ old[i] = q[k] /\ old[j] = q[l]
          BY <4>1, <4>2, <3>8, <3>9
        <5>2. k \in 1..(m + 1) /\ l \in 1..(m + 1)
          OBVIOUS
        <5>3. QED
          BY <4>1, <4>2, <3>1, <5>1, <5>2
      <4>3. CASE j = n + 1
        <5>1. PICK k \in 1..m : old[i] = q[k]
          BY <4>1, <3>4
        <5>2. k < m + 1 /\ k \in 1..(m + 1) /\ m + 1 \in 1..(m + 1)
          OBVIOUS
        <5>3. QED
          BY <4>1, <4>3, <3>1, <5>1, <5>2
      <4>4. QED
        BY <3>2, <4>2, <4>3
    <3>10. KeptUpTo(new, m + 1, q, S)
      BY <3>1, <3>5, <3>7, <3>9 DEF KeptUpTo
    <3>11. QED
      BY <3>1, <3>10 DEF new
  <2>6. QED
    BY <2>4, <2>5
<1>5. Len(q) \in R
  <2> HIDE DEF R
  <2>1. \A m \in Nat : m \in R
    BY <1>3, <1>4, NumbersByInduction
  <2>2. QED
    BY <1>1, <2>1
<1>6. Only(q, S) \in Seq(T) /\ KeptUpTo(Only(q, S), Len(q), q, S)
  BY <1>1, <1>2, <1>5
<1>7. DOMAIN Only(q, S) = 1..Len(Only(q, S))
  BY <1>6, Positions
<1>8. QED
  <2> DEFINE g == Only(q, S)
             n == Len(q)
             m == Len(g)
  <2>1. KeptUpTo(g, n, q, S) /\ g \in Seq(T) /\ DOMAIN g = 1..m /\ DOMAIN q = 1..n
    BY <1>1, <1>6, <1>7
  <2> HIDE DEF g, n
  <2>2. \A i \in DOMAIN g : \E k \in DOMAIN q : q[k] \in S /\ g[i] = q[k]
    BY <2>1 DEF KeptUpTo
  <2>3. \A k \in DOMAIN q : q[k] \in S => \E i \in DOMAIN g : g[i] = q[k]
    BY <2>1 DEF KeptUpTo
  <2>4. \A i, j \in DOMAIN g :
          i < j => \E k, l \in DOMAIN q : k < l /\ g[i] = q[k] /\ g[j] = q[l]
    <3>1. \A i, j \in 1..m :
            i < j => \E k, l \in 1..n : k < l /\ g[i] = q[k] /\ g[j] = q[l]
      BY <2>1, Zenon DEF KeptUpTo
    <3>2. DOMAIN g = 1..m /\ DOMAIN q = 1..n
      BY <2>1
    <3>3. TAKE i, j \in DOMAIN g
    <3>4. HAVE i < j
    <3>5. PICK k \in 1..n, l \in 1..n : k < l /\ g[i] = q[k] /\ g[j] = q[l]
      BY <3>1, <3>2, <3>4
    <3>6. k \in DOMAIN q /\ l \in DOMAIN q
      BY <3>2
    <3>7. QED
      BY <3>5, <3>6
  <2>5. QED
    BY <2>1, <2>2, <2>3, <2>4 DEF g
=============================================================================
