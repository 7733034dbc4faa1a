--------------------------- MODULE SessionProofs ---------------------------
(***************************************************************************)
(* However many daemons start, and whatever clients do meanwhile, those    *)
(* that give up leave one that answers.  To the clients of cli.c a session *)
(* is a sequence of calls, and to all of them "Ready." is honest.          *)
(***************************************************************************)
EXTENDS Session, SequenceLemmas, FiniteSetTheorems

(* The socket at the path is that of a daemon that listens or is about to,  *)
(* or stale, and then nobody has given up on its account.                   *)
PathIsOwned ==
  /\ path \in Daemons => stage[path] \in {"listen", "serving"}
  /\ path = Stale => \A d \in Daemons : stage[d] # "lost"

(* When the path is free somebody is about to bind it, or nobody has        *)
(* started.                                                                 *)
FreePathIsBound ==
  path = NULL => \/ \E d \in Daemons : stage[d] = "bind"
                 \/ \A d \in Daemons : stage[d] = "off"

StartInv == StartTypeOK /\ PathIsOwned /\ FreePathIsBound

LEMMA StartInvInit == StartInit => StartInv
BY SocketsAreDistinct
   DEF StartInit, StartInv, StartTypeOK, PathIsOwned, FreePathIsBound, Stages, Trying

LEMMA StartInvStep == StartInv /\ [StartNext]_startVars => StartInv'
<1> SUFFICES ASSUME StartInv, [StartNext]_startVars
             PROVE  StartInv'
  OBVIOUS
<1> USE SocketsAreDistinct DEF StartInv, StartTypeOK, PathIsOwned, FreePathIsBound,
    Stages, Trying, Goes
<1>1. ASSUME NEW d \in Daemons, Start(d)
      PROVE  StartInv'
  BY <1>1 DEF Start
<1>2. ASSUME NEW d \in Daemons, Bind(d)
      PROVE  StartInv'
  <2>1. CASE path = NULL
    BY <1>2, <2>1 DEF Bind
  <2>2. CASE path # NULL
    BY <1>2, <2>2 DEF Bind
  <2>3. QED
    BY <2>1, <2>2
<1>3. ASSUME NEW d \in Daemons, Connect(d)
      PROVE  StartInv'
  BY <1>3 DEF Connect, Answers, Refusal
<1>4. ASSUME NEW d \in Daemons, Unlink(d)
      PROVE  StartInv'
  BY <1>4 DEF Unlink, Retry
<1>5. ASSUME NEW d \in Daemons, Listen(d)
      PROVE  StartInv'
  BY <1>5 DEF Listen
<1>6. ASSUME NEW d \in Daemons, Kill(d)
      PROVE  StartInv'
  BY <1>6, StartsAreSpared DEF Kill
<1>7. CASE UNCHANGED startVars
  BY <1>7 DEF startVars
<1>8. QED
  BY <1>1, <1>2, <1>3, <1>4, <1>5, <1>6, <1>7 DEF StartNext, Settles

LEMMA OwnerAnswers == StartInv => SomeoneAnswers
BY DEF StartInv, StartTypeOK, PathIsOwned, FreePathIsBound, SomeoneAnswers, Answers,
   Trying

(* To the daemons, what clients do is a stutter.                            *)
LEMMA SessionStarts ==
  [SessionNext]_<<startVars, sessionVars>> => [StartNext]_startVars
BY DEF SessionNext, StartNext, Killed, startVars

(* Of any number of daemons that start at once, unlink each other's sockets *)
(* and are killed once they serve, not all give up: when one has, and none  *)
(* is still trying, a connection to the path is accepted.                   *)
THEOREM SomeoneIsLeft == SessionSpec => []SomeoneAnswers
<1>1. SessionInit => StartInv
  BY StartInvInit DEF SessionInit
<1>2. StartInv /\ [SessionNext]_<<startVars, sessionVars>> => StartInv'
  BY StartInvStep, SessionStarts
<1>3. QED
  BY <1>1, <1>2, OwnerAnswers, PTL DEF SessionSpec

-----------------------------------------------------------------------------
(* The streams.                                                             *)

Ends(q) == Cardinality({i \in 1..Len(q) : q[i] = "end"})

LEMMA EndsAreCounted ==
  ASSUME NEW q \in Seq(Pieces)
  PROVE  /\ Ends(q) \in Nat
         /\ Ends(q) = 0 <=> \A i \in DOMAIN q : q[i] # "end"
<1> DEFINE E == {i \in 1..Len(q) : q[i] = "end"}
<1>1. Len(q) \in Nat /\ DOMAIN q = 1..Len(q)
  BY Positions
<1>2. IsFiniteSet(1..Len(q)) /\ E \in SUBSET (1..Len(q))
  BY <1>1, FS_Interval
<1>3. IsFiniteSet(E) /\ Ends(q) = Cardinality(E)
  BY <1>2, FS_Subset DEF Ends
<1>4. Cardinality(E) \in Nat /\ (Cardinality(E) = 0 <=> E = {})
  BY <1>3, FS_CardinalityType, FS_EmptySet
<1>5. QED
  BY <1>1, <1>3, <1>4

LEMMA EndsAddUp ==
  ASSUME NEW p \in Seq(Pieces), NEW q \in Seq(Pieces), NEW r, r = p \o q
  PROVE  Ends(r) = Ends(p) + Ends(q)
<1> DEFINE n == Len(p)
           m == Len(q)
           A == {i \in 1..n : p[i] = "end"}
           B == {i \in 1..m : q[i] = "end"}
           C == {i \in (n + 1)..(n + m) : r[i] = "end"}
<1>1. n \in Nat /\ m \in Nat /\ Len(r) = n + m
  BY Positions
<1>2. \A i \in 1..(n + m) : r[i] = IF i <= n THEN p[i] ELSE q[i - n]
  OBVIOUS
<1> HIDE DEF n, m
<1>3. /\ \A i \in 1..n : i \in 1..(n + m) /\ r[i] = p[i]
      /\ \A i \in 1..m : i + n \in (n + 1)..(n + m) /\ r[i + n] = q[i]
      /\ \A i \in (n + 1)..(n + m) : i - n \in 1..m /\ r[i] = q[i - n] /\ (i - n) + n = i
  <2>1. \A i \in 1..n : i \in 1..(n + m) /\ r[i] = p[i]
    BY <1>1, <1>2
  <2>2. ASSUME NEW i \in (n + 1)..(n + m)
        PROVE  i - n \in 1..m /\ r[i] = q[i - n] /\ (i - n) + n = i
    BY <1>1, <1>2
  <2>3. ASSUME NEW i \in 1..m
        PROVE  i + n \in (n + 1)..(n + m) /\ r[i + n] = q[i]
    <3>1. i + n \in (n + 1)..(n + m) /\ (i + n) - n = i
      BY <1>1
    <3>2. QED
      BY <2>2, <3>1
  <2>4. QED
    BY <2>1, <2>2, <2>3
<1>4. {i \in 1..Len(r) : r[i] = "end"} = A \cup C /\ A \cap C = {}
  <2>1. /\ \A i \in 1..(n + m) : i \in 1..n \/ i \in (n + 1)..(n + m)
        /\ \A i \in (n + 1)..(n + m) : i \in 1..(n + m) /\ i \notin 1..n
    BY <1>1
  <2>2. QED
    BY <1>1, <1>3, <2>1
<1>5. IsFiniteSet(A) /\ IsFiniteSet(B) /\ IsFiniteSet(C)
  <2>1. IsFiniteSet(1..n) /\ IsFiniteSet(1..m) /\ IsFiniteSet((n + 1)..(n + m))
    <3>1. 1 \in Int /\ n \in Int /\ m \in Int /\ n + 1 \in Int /\ n + m \in Int
      BY <1>1
    <3>2. QED
      BY <3>1, FS_Interval
  <2>2. A \in SUBSET (1..n) /\ B \in SUBSET (1..m) /\ C \in SUBSET ((n + 1)..(n + m))
    OBVIOUS
  <2> HIDE DEF A, B, C
  <2>3. QED
    BY <2>1, <2>2, FS_Subset
<1>6. Cardinality(B) = Cardinality(C)
  <2> DEFINE f == [i \in B |-> i + n]
  <2>1. f \in [B -> C]
    BY <1>3
  <2>2. \A i, j \in B : f[i] = f[j] => i = j
    BY <1>1
  <2>3. \A k \in C : \E i \in B : f[i] = k
    <3>1. ASSUME NEW k \in C
          PROVE  k - n \in B /\ f[k - n] = k
      BY <1>3
    <3>2. QED
      BY <3>1
  <2> HIDE DEF f, B, C
  <2>4. f \in Bijection(B, C)
    BY <2>1, <2>2, <2>3 DEF Bijection, Injection, Surjection, IsInjective
  <2>5. ExistsBijection(B, C)
    BY <2>4 DEF ExistsBijection
  <2>6. QED
    BY <1>5, <2>5, FS_Bijection
<1>7. Cardinality(A \cup C) = Cardinality(A) + Cardinality(C)
  <2> HIDE DEF A, C
  <2>1. /\ Cardinality(A \cup C) = Cardinality(A) + Cardinality(C) - Cardinality(A \cap C)
        /\ Cardinality(A) \in Nat /\ Cardinality(C) \in Nat
    BY <1>5, FS_Union, FS_CardinalityType
  <2>2. Cardinality(A \cap C) = 0
    <3>1. A \cap C = {}
      BY <1>4
    <3>2. QED
      BY <3>1, FS_EmptySet
  <2>3. QED
    BY <2>1, <2>2
<1>8. QED
  BY <1>4, <1>6, <1>7 DEF Ends, n, m

LEMMA AppendConcat ==
  ASSUME NEW T, NEW p \in Seq(T), NEW q \in Seq(T), NEW x \in T, NEW s,
         s = Append(q, x)
  PROVE  p \o s = Append(p \o q, x)
OBVIOUS

(* What is written by the daemon.                                           *)
LEMMA EndsOfWrites ==
  /\ <<>> \in Seq(Pieces) /\ Ends(<<>>) = 0
  /\ <<"hello">> \in Seq(Pieces) /\ Ends(<<"hello">>) = 0
  /\ <<"text">> \in Seq(Pieces) /\ Ends(<<"text">>) = 0
  /\ Ready \in Seq(Pieces) /\ Ends(Ready) = 1
<1>1. /\ <<>> \in Seq(Pieces) /\ <<"hello">> \in Seq(Pieces)
      /\ <<"text">> \in Seq(Pieces) /\ Ready \in Seq(Pieces)
  BY DEF Pieces, Ready
<1>2. Ends(<<>>) = 0 /\ Ends(<<"hello">>) = 0 /\ Ends(<<"text">>) = 0
  <2>1. \A i \in DOMAIN <<>> : <<>>[i] # "end"
    OBVIOUS
  <2>2. \A i \in DOMAIN <<"hello">> : <<"hello">>[i] # "end"
    OBVIOUS
  <2>3. \A i \in DOMAIN <<"text">> : <<"text">>[i] # "end"
    OBVIOUS
  <2>4. QED
    BY <1>1, <2>1, <2>2, <2>3, EndsAreCounted
<1>3. {i \in 1..Len(Ready) : Ready[i] = "end"} = {2}
  BY DEF Ready
<1>4. QED
  BY <1>1, <1>2, <1>3, FS_Singleton DEF Ends

(* What a read takes.                                                       *)
LEMMA StreamIsCut ==
  ASSUME NEW T, NEW q \in Seq(T), NEW n \in 0..Len(q)
  PROVE  /\ SubSeq(q, 1, n) \in Seq(T) /\ Len(SubSeq(q, 1, n)) = n
         /\ SubSeq(q, n + 1, Len(q)) \in Seq(T)
         /\ q = SubSeq(q, 1, n) \o SubSeq(q, n + 1, Len(q))
<1> DEFINE m == Len(q)
           p == SubSeq(q, 1, n)
           r == SubSeq(q, n + 1, m)
<1>1. m \in Nat /\ n \in 0..m /\ \A i \in 1..m : q[i] \in T
  BY Positions
<1>2. p \in Seq(T) /\ Len(p) = n /\ \A i \in 1..n : p[i] = q[i]
  <2>1. \A i \in 1..n : q[i] \in T
    BY <1>1
  <2>2. QED
    BY <1>1, <2>1, SubSeqProperties
<1>3. r \in Seq(T) /\ Len(r) = m - n /\ \A i \in 1..(m - n) : r[i] = q[n + i]
  <2>1. \A i \in (n + 1)..m : q[i] \in T
    BY <1>1
  <2>2. QED
    BY <1>1, <2>1, SubSeqProperties
<1> HIDE DEF p, r
<1>4. p \o r \in Seq(T) /\ Len(p \o r) = m
  BY <1>1, <1>2, <1>3, ConcatProperties
<1>5. \A i \in 1..m : (p \o r)[i] = q[i]
  <2>1. TAKE i \in 1..m
  <2>2. (p \o r)[i] = IF i <= n THEN p[i] ELSE r[i - n]
    BY <1>1, <1>2, <1>3
  <2>3. CASE i <= n
    BY <1>1, <1>2, <2>2, <2>3
  <2>4. CASE ~(i <= n)
    <3>1. i - n \in 1..(m - n) /\ n + (i - n) = i
      BY <1>1, <2>4
    <3>2. QED
      BY <1>3, <2>2, <2>4, <3>1
  <2>5. QED
    BY <2>3, <2>4
<1>6. q = p \o r
  BY <1>1, <1>4, <1>5, SeqEqual
<1>7. QED
  BY <1>2, <1>3, <1>6 DEF p, r

LEMMA AnswersEnd ==
  ASSUME NEW chunk \in Seq(Pieces), EndsAnswer(chunk)
  PROVE  Ends(chunk) > 0
<1> DEFINE n == Len(chunk)
           r == Reverse(Ready)
           b == Reverse(chunk)
<1>1. n \in Nat /\ DOMAIN chunk = 1..n
  BY Positions
<1>2. r = <<"end", "ready">>
  BY DEF Ready, Reverse
<1>3. Len(b) = n /\ b \in Seq(Pieces) /\ \A i \in 1..n : b[i] = chunk[n - i + 1]
  <2>1. b = [i \in 1..n |-> chunk[n - i + 1]]
    BY DEF Reverse
  <2>2. \A i \in 1..n : n - i + 1 \in 1..n /\ chunk[n - i + 1] \in Pieces
    BY <1>1, Positions
  <2>3. b \in [1..n -> Pieces]
    BY <2>1, <2>2
  <2>4. QED
    BY <1>1, <2>1, <2>3, FunctionIsSeq
<1>4. Len(r) <= n /\ SubSeq(r, 1, Len(r)) = SubSeq(b, 1, Len(r))
  BY <1>3 DEF EndsAnswer, IsSuffix, IsPrefix
<1> HIDE DEF n, r, b
<1>5. 2 <= n /\ Len(r) = 2 /\ r[1] = "end"
  BY <1>2, <1>4
<1>6. b[1] = "end"
  <2>1. SubSeq(r, 1, 2)[1] = r[1]
    BY <1>2
  <2>2. SubSeq(b, 1, 2)[1] = b[1]
    BY <1>3, <1>5
  <2>3. QED
    BY <1>4, <1>5, <2>1, <2>2
<1>7. n \in DOMAIN chunk /\ chunk[n] = "end"
  <2>1. 1 \in 1..n /\ n - 1 + 1 = n /\ n \in 1..n
    BY <1>1, <1>5
  <2>2. QED
    BY <1>1, <1>3, <1>6, <2>1
<1>8. QED
  BY <1>7, EndsAreCounted

-----------------------------------------------------------------------------
(* Types.                                                                   *)

LEMMA ReadTyped ==
  ASSUME SessionTypeOK, NEW c \in Clients
  PROVE  /\ ReadSize(c) \in 0..Len(toClient[c])
         /\ toClient[c] \in Seq(Pieces)
<1>1. toClient[c] \in Seq(Pieces) /\ Len(toClient[c]) \in Nat
  BY Positions DEF SessionTypeOK
<1>2. \A a, b \in Nat : Min({a, b}) \in {a, b} /\ Min({a, b}) <= a /\ Min({a, b}) <= b
  <2>1. TAKE a, b \in Nat
  <2>2. \E x \in {a, b} : \A y \in {a, b} : x <= y
    <3>1. CASE a <= b
      BY <3>1
    <3>2. CASE b <= a
      BY <3>2
    <3>3. QED
      BY <3>1, <3>2
  <2>3. Min({a, b}) \in {a, b} /\ \A y \in {a, b} : Min({a, b}) <= y
    BY <2>2 DEF Min
  <2>4. QED
    BY <2>3
<1>3. Cap \in Nat
  BY SessionIsTyped
<1>4. Min({Cap, Len(toClient[c])}) \in 0..Len(toClient[c])
  BY <1>1, <1>2, <1>3
<1>5. QED
  BY <1>1, <1>4 DEF ReadSize

LEMMA WritesTyped ==
  ASSUME SessionTypeOK, NEW c \in Clients, NEW pieces \in Seq(Pieces), Writes(c, pieces)
  PROVE  toClient' \in [Clients -> Seq(Pieces)]
<1>1. toClient[c] \o pieces \in Seq(Pieces)
  BY DEF SessionTypeOK
<1>2. QED
  BY <1>1, EndsOfWrites DEF SessionTypeOK, Writes

LEMMA HangsUpTyped ==
  ASSUME SessionTypeOK, StartTypeOK', NEW c \in Clients, HangsUp(c)
  PROVE  SessionTypeOK'
BY SessionIsTyped DEF HangsUp, SessionTypeOK

LEMMA ServesTyped ==
  ASSUME SessionTypeOK, StartTypeOK', NEW c \in Clients, Serves(c)
  PROVE  SessionTypeOK'
<1>1. CASE Greets(c)
  <2>1. toClient' \in [Clients -> Seq(Pieces)]
    BY <1>1, WritesTyped, EndsOfWrites DEF Greets
  <2>2. QED
    BY <1>1, <2>1 DEF Greets, SessionTypeOK, logVars
<1>2. CASE Says(c)
  <2>1. toClient' \in [Clients -> Seq(Pieces)]
    BY <1>2, WritesTyped, EndsOfWrites DEF Says
  <2>2. toSay' \in [Clients -> 0..MaxText]
    BY <1>2, SessionIsTyped DEF Says, SessionTypeOK
  <2>3. QED
    BY <1>2, <2>1, <2>2 DEF Says, SessionTypeOK, logVars
<1>3. CASE SaysReady(c)
  <2>1. toClient' \in [Clients -> Seq(Pieces)]
    BY <1>3, WritesTyped, EndsOfWrites DEF SaysReady, AnswerEnd
  <2>2. QED
    BY <1>3, <2>1 DEF SaysReady, SessionTypeOK, logVars
<1>4. CASE Closes(c)
  BY <1>4, HangsUpTyped DEF Closes
<1>5. ASSUME NEW n \in 0..MaxText, ReadsCommand(c, n)
      PROVE  SessionTypeOK'
  <2>1. Parsed(toDaemon[c]) \in Commands \cup {Garbled}
    BY <1>5 DEF Parsed, SessionTypeOK
  <2>2. executed' \in [Clients -> Seq(Commands \cup {Garbled})]
    BY <1>5, <2>1 DEF ReadsCommand, SessionTypeOK
  <2>3. toDaemon' \in [Clients -> Seq(Commands)]
    BY <1>5 DEF ReadsCommand, SessionTypeOK
  <2>4. QED
    BY <1>5, <2>2, <2>3 DEF ReadsCommand, SessionTypeOK
<1>6. QED
  BY <1>1, <1>2, <1>3, <1>4, <1>5 DEF Serves

LEMMA ListensTyped ==
  ASSUME SessionTypeOK, StartTypeOK', NEW c \in Clients, Listens(c)
  PROVE  SessionTypeOK'
<1>1. CASE Reads(c)
  <2> DEFINE n == ReadSize(c)
             chunk == SubSeq(toClient[c], 1, n)
             E == {i \in 1..n : chunk[i] = "end"}
  <2>1. n \in 0..Len(toClient[c]) /\ toClient[c] \in Seq(Pieces)
    BY ReadTyped
  <2>2. SubSeq(toClient[c], n + 1, Len(toClient[c])) \in Seq(Pieces)
    BY <2>1, StreamIsCut
  <2>3. Cardinality(E) \in Nat
    <3>1. IsFiniteSet(1..n) /\ E \in SUBSET (1..n)
      BY <2>1, FS_Interval
    <3>2. QED
      BY <3>1, FS_Subset, FS_CardinalityType
  <2>4. /\ toClient' = [toClient EXCEPT ![c] = SubSeq(@, n + 1, Len(@))]
        /\ full' = [full EXCEPT ![c] = @ \/ n < Len(toClient[c])]
        /\ answered' = [answered EXCEPT ![c] = @ + Cardinality(E)]
        /\ ui' = [ui EXCEPT ![c] = IF @ = "greet" \/ EndsAnswer(chunk) THEN "prompt" ELSE @]
        /\ UNCHANGED <<worker, peer, toSay, toDaemon, typed, executed>>
    BY <1>1 DEF Reads, Quantify
  <2> HIDE DEF n, chunk, E
  <2>5. toClient' \in [Clients -> Seq(Pieces)]
    BY <2>2, <2>4 DEF SessionTypeOK
  <2>6. full' \in [Clients -> BOOLEAN]
    <3>1. (full[c] \/ n < Len(toClient[c])) \in BOOLEAN
      OBVIOUS
    <3>2. full' = [full EXCEPT ![c] = (full[c] \/ n < Len(toClient[c]))]
      BY <2>4 DEF SessionTypeOK
    <3>3. QED
      BY <3>1, <3>2 DEF SessionTypeOK
  <2>7. answered' \in [Clients -> Nat]
    BY <2>3, <2>4 DEF SessionTypeOK
  <2>8. ui' \in [Clients -> {"gone", "greet", "prompt", "waiting"}]
    BY <2>4 DEF SessionTypeOK
  <2>9. QED
    BY <2>4, <2>5, <2>6, <2>7, <2>8 DEF SessionTypeOK
<1>2. CASE IsOrphaned(c)
  BY <1>2, HangsUpTyped DEF IsOrphaned
<1>3. QED
  BY <1>1, <1>2 DEF Listens

LEMMA UsesTyped ==
  ASSUME SessionTypeOK, StartTypeOK', NEW c \in Clients, Uses(c)
  PROVE  SessionTypeOK'
<1>1. CASE Connects(c)
  <2>1. path \in Daemons
    BY <1>1 DEF Connects, Answers
  <2>2. QED
    BY <1>1, <2>1 DEF Connects, SessionTypeOK, logVars
<1>2. CASE Leaves(c)
  BY <1>2, EndsOfWrites DEF Leaves, SessionTypeOK, logVars
<1>3. ASSUME NEW command \in Commands, Types(c, command)
      PROVE  SessionTypeOK'
  <2>1. typed' \in [Clients -> Seq(Commands)] /\ toDaemon' \in [Clients -> Seq(Commands)]
    BY <1>3 DEF Types, SessionTypeOK
  <2>2. ui' \in [Clients -> {"gone", "greet", "prompt", "waiting"}]
    BY <1>3 DEF Types, AfterTyping, SessionTypeOK
  <2>3. QED
    BY <1>3, <2>1, <2>2 DEF Types, SessionTypeOK
<1>4. QED
  BY <1>1, <1>2, <1>3 DEF Uses

LEMMA SessionTypeStep ==
  ASSUME SessionTypeOK, StartTypeOK', [SessionNext]_<<startVars, sessionVars>>
  PROVE  SessionTypeOK'
<1>1. CASE UNCHANGED sessionVars
  BY <1>1 DEF SessionTypeOK, sessionVars, lineVars, logVars
<1>2. ASSUME NEW d \in Daemons, Killed(d)
      PROVE  SessionTypeOK'
  <2>1. worker' \in [Clients -> {"none", "greeting", "reading", "working", "dead"}]
    BY <1>2 DEF Killed, SessionTypeOK
  <2>2. peer' \in [Clients -> Daemons \cup {NULL}]
    BY <1>2 DEF Killed, SessionTypeOK
  <2>3. toDaemon' \in [Clients -> Seq(Commands)]
    <3>1. <<>> \in Seq(Commands)
      OBVIOUS
    <3>2. QED
      BY <1>2, <3>1 DEF Killed, SessionTypeOK
  <2>4. QED
    BY <1>2, <2>1, <2>2, <2>3 DEF Killed, SessionTypeOK, logVars
<1>3. QED
  BY <1>1, <1>2, ServesTyped, ListensTyped, UsesTyped DEF SessionNext

-----------------------------------------------------------------------------
(* What holds of each client.                                               *)

(* A command is executed for one or more that were typed, and if for one    *)
(* each then as they were typed.                                            *)
CommandsPass(c) ==
  /\ Len(executed[c]) + Len(toDaemon[c]) <= Len(typed[c])
  /\ Len(executed[c]) + Len(toDaemon[c]) = Len(typed[c]) =>
       executed[c] \o toDaemon[c] = typed[c]

(* There is one end of an answer, read or not, for each command executed,   *)
(* but for the one at work.                                                 *)
Pending(c) == IF worker[c] = "working" THEN 1 ELSE 0

AnswersFollow(c) ==
  answered[c] + Ends(toClient[c]) + Pending(c) <= Len(executed[c])

OverIsEmpty(c) == worker[c] = "none" => ui[c] = "gone" /\ typed[c] = <<>>

(* A client of cli.c is at most one answer behind, and none when it types;  *)
(* nothing it typed was joined.                                             *)
Waits(c) ==
  /\ Len(typed[c]) <= answered[c] + 1
  /\ ui[c] \in {"greet", "prompt"} => answered[c] = Len(typed[c])
  /\ worker[c] # "dead" => Len(executed[c]) + Len(toDaemon[c]) = Len(typed[c])

ClientInv(c) ==
  /\ CommandsPass(c)
  /\ AnswersFollow(c)
  /\ OverIsEmpty(c)
  /\ c \in Patient => Waits(c)

SessionInv ==
  /\ StartInv
  /\ SessionTypeOK
  /\ \A c \in Clients : ClientInv(c)

(* The provers reason about numbers more easily than about lengths.         *)
LEMMA Sums ==
  ASSUME NEW l \in Nat, NEW m \in Nat, NEW t \in Nat, l + m <= t
  PROVE  l <= t /\ (l = t => m = 0)
OBVIOUS

LEMMA ClientTyped ==
  ASSUME SessionTypeOK, NEW c \in Clients
  PROVE  /\ typed[c] \in Seq(Commands) /\ toDaemon[c] \in Seq(Commands)
         /\ executed[c] \in Seq(Commands \cup {Garbled})
         /\ toClient[c] \in Seq(Pieces)
         /\ Len(typed[c]) \in Nat /\ Len(toDaemon[c]) \in Nat /\ Len(executed[c]) \in Nat
         /\ answered[c] \in Nat /\ Ends(toClient[c]) \in Nat /\ Pending(c) \in {0, 1}
         /\ typed[c] = <<>> <=> Len(typed[c]) = 0
         /\ toDaemon[c] = <<>> <=> Len(toDaemon[c]) = 0
         /\ executed[c] = <<>> <=> Len(executed[c]) = 0
<1>1. /\ typed[c] \in Seq(Commands) /\ toDaemon[c] \in Seq(Commands)
      /\ executed[c] \in Seq(Commands \cup {Garbled})
      /\ toClient[c] \in Seq(Pieces) /\ answered[c] \in Nat
  BY DEF SessionTypeOK
<1>2. Ends(toClient[c]) \in Nat
  BY <1>1, EndsAreCounted
<1>3. Pending(c) \in {0, 1}
  BY DEF Pending
<1>4. QED
  BY <1>1, <1>2, <1>3

(* A step that concerns one client leaves what holds of the others.         *)
SameFor(c) ==
  /\ ui'[c] = ui[c] /\ worker'[c] = worker[c]
  /\ toDaemon'[c] = toDaemon[c] /\ toClient'[c] = toClient[c]
  /\ typed'[c] = typed[c] /\ executed'[c] = executed[c] /\ answered'[c] = answered[c]

LEMMA SameClient ==
  ASSUME NEW c \in Clients, ClientInv(c), SameFor(c)
  PROVE  ClientInv(c)'
<1>1. CommandsPass(c)'
  BY DEF ClientInv, SameFor, CommandsPass
<1>2. AnswersFollow(c)'
  BY DEF ClientInv, SameFor, AnswersFollow, Pending
<1>3. OverIsEmpty(c)' /\ (c \in Patient => Waits(c)')
  BY DEF ClientInv, SameFor, OverIsEmpty, Waits
<1>4. QED
  BY <1>1, <1>2, <1>3 DEF ClientInv

LEMMA OneClient ==
  ASSUME SessionInv, StartInv', SessionTypeOK', NEW c \in Clients,
         \A b \in Clients : b # c => SameFor(b),
         ClientInv(c)'
  PROVE  SessionInv'
<1>1. ASSUME NEW b \in Clients
      PROVE  ClientInv(b)'
  <2>1. CASE b = c
    BY <2>1
  <2>2. CASE b # c
    BY <2>2, SameClient DEF SessionInv
  <2>3. QED
    BY <2>1, <2>2
<1>2. QED
  BY <1>1 DEF SessionInv

LEMMA HangsUpKeeps ==
  ASSUME SessionInv, StartInv', SessionTypeOK', NEW c \in Clients, HangsUp(c)
  PROVE  SessionInv'
<1>1. \A b \in Clients : b # c => SameFor(b)
  BY DEF HangsUp, SessionInv, SessionTypeOK, SameFor
<1>2. /\ ui'[c] = "gone" /\ worker'[c] = "none"
      /\ toDaemon'[c] = <<>> /\ toClient'[c] = <<>>
      /\ typed'[c] = <<>> /\ executed'[c] = <<>> /\ answered'[c] = 0
  BY DEF HangsUp, SessionInv, SessionTypeOK
<1>3. CommandsPass(c)' /\ OverIsEmpty(c)' /\ Waits(c)'
  BY <1>2 DEF CommandsPass, OverIsEmpty, Waits
<1>4. AnswersFollow(c)'
  BY <1>2, EndsOfWrites DEF AnswersFollow, Pending
<1>5. QED
  BY <1>1, <1>3, <1>4, OneClient DEF ClientInv

(* A write reaches a client that is still there.                            *)
LEMMA WritesReach ==
  ASSUME SessionTypeOK, NEW c \in Clients, NEW pieces \in Seq(Pieces), Writes(c, pieces)
  PROVE  /\ Ends(toClient'[c]) <= Ends(toClient[c]) + Ends(pieces)
         /\ Ends(toClient'[c]) \in Nat /\ Ends(pieces) \in Nat
         /\ \A b \in Clients : b # c => toClient'[b] = toClient[b]
<1>1. toClient[c] \in Seq(Pieces) /\ Ends(toClient[c]) \in Nat /\ Ends(pieces) \in Nat
  BY ClientTyped, EndsAreCounted
<1>2. toClient'[c] = IF ui[c] = "gone" THEN <<>> ELSE toClient[c] \o pieces
  BY DEF Writes, SessionTypeOK
<1>3. CASE ui[c] = "gone"
  BY <1>1, <1>2, <1>3, EndsOfWrites DEF Writes, SessionTypeOK
<1>4. CASE ui[c] # "gone"
  <2>1. Ends(toClient'[c]) = Ends(toClient[c]) + Ends(pieces)
    BY <1>1, <1>2, <1>4, EndsAddUp
  <2>2. QED
    BY <1>1, <2>1 DEF Writes, SessionTypeOK
<1>5. QED
  BY <1>3, <1>4

LEMMA ServesKeeps ==
  ASSUME SessionInv, StartInv', SessionTypeOK', NEW c \in Clients, Serves(c)
  PROVE  SessionInv'
<1>1. SessionTypeOK /\ ClientInv(c)
  BY DEF SessionInv
<1>2. /\ Len(typed[c]) \in Nat /\ Len(toDaemon[c]) \in Nat /\ Len(executed[c]) \in Nat
      /\ answered[c] \in Nat /\ Ends(toClient[c]) \in Nat /\ Pending(c) \in {0, 1}
  BY <1>1, ClientTyped
<1>3. ASSUME NEW pieces \in Seq(Pieces), Writes(c, pieces),
             worker[c] # "none", worker[c] # "dead",
             worker' = [worker EXCEPT ![c] = worker'[c]],
             worker'[c] \notin {"none", "dead"},
             UNCHANGED <<ui, toDaemon, typed, executed, answered>>,
             Ends(pieces) + Pending(c)' <= Pending(c)
      PROVE  SessionInv'
  <2>1. /\ Ends(toClient'[c]) <= Ends(toClient[c]) + Ends(pieces)
        /\ Ends(toClient'[c]) \in Nat /\ Ends(pieces) \in Nat
        /\ \A b \in Clients : b # c => toClient'[b] = toClient[b]
    BY <1>1, <1>3, WritesReach
  <2>2. \A b \in Clients : b # c => SameFor(b)
    BY <1>1, <1>3, <2>1 DEF SameFor, SessionTypeOK
  <2>3. CommandsPass(c)' /\ OverIsEmpty(c)' /\ (c \in Patient => Waits(c)')
    BY <1>1, <1>3 DEF ClientInv, CommandsPass, OverIsEmpty, Waits
  <2>4. AnswersFollow(c)'
    <3>1. Pending(c)' \in {0, 1}
      BY DEF Pending
    <3>2. answered[c] + Ends(toClient[c]) + Pending(c) <= Len(executed[c])
      BY <1>1 DEF ClientInv, AnswersFollow
    <3>3. answered[c] + Ends(toClient'[c]) + Pending(c)' <= Len(executed[c])
      BY <1>2, <1>3, <2>1, <3>1, <3>2
    <3>4. QED
      BY <1>3, <3>3 DEF AnswersFollow
  <2>5. QED
    BY <2>2, <2>3, <2>4, OneClient DEF ClientInv
<1>4. CASE Greets(c)
  <2>1. worker'[c] = "reading"
    BY <1>1, <1>4 DEF Greets, SessionTypeOK
  <2>2. Pending(c) = 0 /\ Pending(c)' = 0
    BY <1>4, <2>1 DEF Greets, Pending
  <2>3. /\ worker' = [worker EXCEPT ![c] = worker'[c]]
        /\ UNCHANGED <<ui, toDaemon, typed, executed, answered>>
    BY <1>4, <2>1 DEF Greets, logVars
  <2>4. Ends(<<"hello">>) + Pending(c)' <= Pending(c)
    BY <2>2, EndsOfWrites
  <2>5. QED
    BY <1>3, <1>4, <2>1, <2>3, <2>4, EndsOfWrites DEF Greets
<1>5. CASE Says(c)
  <2>1. worker' = [worker EXCEPT ![c] = worker'[c]] /\ Pending(c)' = Pending(c)
    BY <1>1, <1>5 DEF Says, SessionTypeOK, Pending
  <2>2. Ends(<<"text">>) + Pending(c)' <= Pending(c)
    BY <1>2, <2>1, EndsOfWrites
  <2>3. QED
    BY <1>3, <1>5, <2>1, <2>2, EndsOfWrites DEF Says, logVars
<1>6. CASE SaysReady(c)
  <2>1. worker'[c] = "reading"
    BY <1>1, <1>6 DEF SaysReady, SessionTypeOK
  <2>2. Pending(c) = 1 /\ Pending(c)' = 0
    BY <1>6, <2>1 DEF SaysReady, Pending
  <2>3. /\ worker' = [worker EXCEPT ![c] = worker'[c]]
        /\ UNCHANGED <<ui, toDaemon, typed, executed, answered>>
    BY <1>6, <2>1 DEF SaysReady, logVars
  <2>4. Ends(Ready) + Pending(c)' <= Pending(c)
    BY <2>2, EndsOfWrites
  <2>5. QED
    BY <1>3, <1>6, <2>1, <2>3, <2>4, EndsOfWrites DEF SaysReady, AnswerEnd
<1>7. CASE Closes(c)
  BY <1>7, HangsUpKeeps DEF Closes
<1>8. ASSUME NEW n \in 0..MaxText, ReadsCommand(c, n)
      PROVE  SessionInv'
  <2> DEFINE read == Parsed(toDaemon[c])
             done == executed[c]
  <2>1. /\ worker[c] = "reading" /\ worker'[c] = "working"
        /\ executed'[c] = Append(done, read) /\ toDaemon'[c] = <<>>
        /\ toDaemon[c] # <<>>
        /\ UNCHANGED <<ui, toClient, typed, answered>>
    BY <1>1, <1>8 DEF ReadsCommand, SessionTypeOK
  <2>2. \A b \in Clients : b # c => SameFor(b)
    BY <1>1, <1>8 DEF ReadsCommand, SameFor, SessionTypeOK
  <2>3. /\ done \in Seq(Commands \cup {Garbled}) /\ toDaemon[c] \in Seq(Commands)
        /\ read \in Commands \cup {Garbled}
        /\ Len(done) \in Nat /\ Len(toDaemon[c]) \in Nat \ {0}
    BY <1>1, <2>1, ClientTyped DEF Parsed
  <2> HIDE DEF done
  <2>4. Len(executed'[c]) = Len(done) + 1 /\ Len(toDaemon'[c]) = 0
    BY <2>1, <2>3
  <2>5. /\ Len(done) + Len(toDaemon[c]) <= Len(typed[c])
        /\ Len(done) + Len(toDaemon[c]) = Len(typed[c]) => done \o toDaemon[c] = typed[c]
        /\ answered[c] + Ends(toClient[c]) + Pending(c) <= Len(done)
    BY <1>1 DEF ClientInv, CommandsPass, AnswersFollow, done
  (* A single command is read as it is.                                     *)
  <2>6. Len(toDaemon[c]) = 1 => executed'[c] \o toDaemon'[c] = done \o toDaemon[c]
    <3>1. ASSUME Len(toDaemon[c]) = 1
          PROVE  executed'[c] \o toDaemon'[c] = done \o toDaemon[c]
      <4>1. read = toDaemon[c][1] /\ toDaemon[c] = <<toDaemon[c][1]>>
        BY <2>3, <3>1 DEF Parsed
      <4>2. executed'[c] = Append(done, toDaemon[c][1]) /\ toDaemon'[c] = <<>>
        BY <2>1, <4>1
      <4>3. \A x \in Commands \cup {Garbled} : Append(done, x) \o <<>> = done \o <<x>>
        BY <2>3
      <4>4. toDaemon[c][1] \in Commands \cup {Garbled}
        BY <2>3, <4>1
      <4>5. QED
        BY <4>1, <4>2, <4>3, <4>4
    <3>2. QED
      BY <3>1
  <2> HIDE DEF read
  <2>7. CommandsPass(c)'
    <3>1. Len(executed'[c]) + Len(toDaemon'[c]) <= Len(typed[c])
      BY <1>2, <2>3, <2>4, <2>5
    <3>2. ASSUME Len(executed'[c]) + Len(toDaemon'[c]) = Len(typed[c])
          PROVE  executed'[c] \o toDaemon'[c] = typed[c]
      <4>1. Len(toDaemon[c]) = 1 /\ Len(done) + Len(toDaemon[c]) = Len(typed[c])
        <5>1. \A l, m, t \in Nat : m # 0 /\ l + m <= t /\ l + 1 = t => m = 1 /\ l + m = t
          OBVIOUS
        <5>2. Len(done) + 1 = Len(typed[c])
          BY <2>3, <2>4, <3>2
        <5>3. QED
          BY <1>2, <2>3, <2>5, <5>1, <5>2
      <4>2. QED
        BY <2>5, <2>6, <4>1
    <3>3. QED
      BY <2>1, <3>1, <3>2 DEF CommandsPass
  <2>8. AnswersFollow(c)'
    <3>1. Pending(c) = 0 /\ Pending(c)' = 1
      BY <2>1 DEF Pending
    <3>2. QED
      BY <1>2, <2>1, <2>3, <2>4, <2>5, <3>1 DEF AnswersFollow
  <2>9. OverIsEmpty(c)'
    BY <2>1 DEF OverIsEmpty
  <2>10. ASSUME c \in Patient
         PROVE  Waits(c)'
    <3>1. /\ Len(typed[c]) <= answered[c] + 1
          /\ ui[c] \in {"greet", "prompt"} => answered[c] = Len(typed[c])
          /\ Len(done) + Len(toDaemon[c]) = Len(typed[c])
      BY <1>1, <2>1, <2>10 DEF ClientInv, Waits, done
    <3>2. Len(toDaemon[c]) = 1
      <4>1. answered[c] <= Len(done)
        BY <1>2, <2>3, <2>5
      <4>2. \A a, l, m, t \in Nat : m # 0 /\ l + m = t /\ t <= a + 1 /\ a <= l => m = 1
        OBVIOUS
      <4>3. QED
        BY <1>2, <2>3, <3>1, <4>1, <4>2
    <3>3. QED
      BY <2>1, <2>3, <2>4, <3>1, <3>2 DEF Waits
  <2>11. QED
    BY <2>2, <2>7, <2>8, <2>9, <2>10, OneClient DEF ClientInv
<1>9. QED
  BY <1>4, <1>5, <1>6, <1>7, <1>8 DEF Serves

(* The ends in a chunk that was read are the answers the user is told of.   *)
LEMMA ReadsTell ==
  ASSUME SessionTypeOK, NEW c \in Clients, Reads(c)
  PROVE  \E chunk \in Seq(Pieces), rest \in Seq(Pieces) :
           /\ toClient[c] = chunk \o rest /\ toClient'[c] = rest
           /\ Ends(toClient[c]) = Ends(chunk) + Ends(rest)
           /\ Ends(chunk) \in Nat /\ Ends(rest) \in Nat
           /\ answered'[c] = answered[c] + Ends(chunk)
           /\ ui'[c] = IF ui[c] = "greet" \/ EndsAnswer(chunk) THEN "prompt" ELSE ui[c]
<1> DEFINE n == ReadSize(c)
           q == toClient[c]
           chunk == SubSeq(q, 1, n)
           rest == SubSeq(q, n + 1, Len(q))
<1>1. n \in 0..Len(q) /\ q \in Seq(Pieces)
  BY ReadTyped
<1>2. /\ chunk \in Seq(Pieces) /\ rest \in Seq(Pieces) /\ Len(chunk) = n
      /\ q = chunk \o rest
  BY <1>1, StreamIsCut
<1>3. /\ toClient'[c] = rest
      /\ answered'[c] = answered[c] + Cardinality({i \in 1..n : chunk[i] = "end"})
      /\ ui'[c] = IF ui[c] = "greet" \/ EndsAnswer(chunk) THEN "prompt" ELSE ui[c]
  BY DEF Reads, Quantify, SessionTypeOK
<1> HIDE DEF n, chunk, rest
<1>4. answered'[c] = answered[c] + Ends(chunk)
  BY <1>2, <1>3 DEF Ends
<1>5. Ends(q) = Ends(chunk) + Ends(rest)
  BY <1>2, EndsAddUp
<1>6. Ends(chunk) \in Nat /\ Ends(rest) \in Nat
  BY <1>2, EndsAreCounted
<1>7. QED
  BY <1>2, <1>3, <1>4, <1>5, <1>6

LEMMA ListensKeeps ==
  ASSUME SessionInv, StartInv', SessionTypeOK', NEW c \in Clients, Listens(c)
  PROVE  SessionInv'
<1>1. SessionTypeOK /\ ClientInv(c)
  BY DEF SessionInv
<1>2. /\ Len(typed[c]) \in Nat /\ Len(toDaemon[c]) \in Nat /\ Len(executed[c]) \in Nat
      /\ answered[c] \in Nat /\ Pending(c) \in {0, 1}
  BY <1>1, ClientTyped
<1>3. CASE Reads(c)
  <2>1. PICK chunk \in Seq(Pieces), rest \in Seq(Pieces) :
           /\ toClient[c] = chunk \o rest /\ toClient'[c] = rest
           /\ Ends(toClient[c]) = Ends(chunk) + Ends(rest)
           /\ Ends(chunk) \in Nat /\ Ends(rest) \in Nat
           /\ answered'[c] = answered[c] + Ends(chunk)
           /\ ui'[c] = IF ui[c] = "greet" \/ EndsAnswer(chunk) THEN "prompt" ELSE ui[c]
    BY <1>1, <1>3, ReadsTell
  <2>2. /\ UNCHANGED <<worker, toDaemon, typed, executed>>
        /\ \A b \in Clients : b # c => SameFor(b)
    BY <1>1, <1>3 DEF Reads, SameFor, SessionTypeOK
  <2>3. CommandsPass(c)'
    BY <1>1, <2>2 DEF ClientInv, CommandsPass
  <2>4. answered[c] + Ends(chunk) + Ends(rest) + Pending(c) <= Len(executed[c])
    BY <1>1, <1>2, <2>1 DEF ClientInv, AnswersFollow
  <2>5. AnswersFollow(c)'
    <3>1. Pending(c)' = Pending(c)
      BY <2>2 DEF Pending
    <3>2. answered'[c] + Ends(rest) + Pending(c) <= Len(executed[c])
      BY <1>2, <2>1, <2>4
    <3>3. QED
      BY <2>1, <2>2, <3>1, <3>2 DEF AnswersFollow
  <2>6. OverIsEmpty(c)'
    <3>1. ui[c] # "gone"
      BY <1>3 DEF Reads, Clients
    <3>2. QED
      BY <1>1, <2>2, <3>1 DEF ClientInv, OverIsEmpty
  <2>7. ASSUME c \in Patient
        PROVE  Waits(c)'
    <3>1. /\ Len(typed[c]) <= answered[c] + 1
          /\ ui[c] \in {"greet", "prompt"} => answered[c] = Len(typed[c])
          /\ Len(executed[c]) + Len(toDaemon[c]) <= Len(typed[c])
          /\ ui[c] \in {"greet", "waiting"}
      BY <1>1, <1>3, <2>7 DEF ClientInv, Waits, CommandsPass, Reads
    <3>2. Len(typed[c]) <= answered'[c] + 1 /\ answered'[c] <= Len(typed[c])
      <4>1. answered'[c] <= Len(executed[c])
        BY <1>2, <2>1, <2>4
      <4>2. Len(executed[c]) <= Len(typed[c])
        BY <1>2, <3>1, Sums
      <4>3. answered[c] <= answered'[c] /\ answered'[c] \in Nat
        BY <1>2, <2>1
      <4>4. QED
        BY <1>2, <3>1, <4>1, <4>2, <4>3
    <3>3. ASSUME ui'[c] \in {"greet", "prompt"}
          PROVE  answered'[c] = Len(typed[c])
      <4>1. CASE ui[c] = "greet"
        BY <1>2, <2>1, <3>1, <3>2, <4>1
      <4>2. CASE EndsAnswer(chunk)
        <5>1. Ends(chunk) > 0
          BY <2>1, <4>2, AnswersEnd
        <5>2. QED
          BY <1>2, <2>1, <3>1, <3>2, <5>1
      <4>3. QED
        BY <2>1, <3>1, <3>3, <4>1, <4>2
    <3>4. worker'[c] # "dead" => Len(executed'[c]) + Len(toDaemon'[c]) = Len(typed'[c])
      BY <1>1, <2>2, <2>7 DEF ClientInv, Waits
    <3>5. QED
      BY <2>2, <3>2, <3>3, <3>4 DEF Waits
  <2>8. QED
    BY <2>2, <2>3, <2>5, <2>6, <2>7, OneClient DEF ClientInv
<1>4. CASE IsOrphaned(c)
  BY <1>4, HangsUpKeeps DEF IsOrphaned
<1>5. QED
  BY <1>3, <1>4 DEF Listens

LEMMA UsesKeeps ==
  ASSUME SessionInv, StartInv', SessionTypeOK', NEW c \in Clients, Uses(c)
  PROVE  SessionInv'
<1>1. SessionTypeOK /\ ClientInv(c)
  BY DEF SessionInv
<1>2. /\ Len(typed[c]) \in Nat /\ Len(toDaemon[c]) \in Nat /\ Len(executed[c]) \in Nat
      /\ answered[c] \in Nat /\ Ends(toClient[c]) \in Nat /\ Pending(c) \in {0, 1}
  BY <1>1, ClientTyped
<1>3. /\ Len(executed[c]) + Len(toDaemon[c]) <= Len(typed[c])
      /\ answered[c] + Ends(toClient[c]) + Pending(c) <= Len(executed[c])
  BY <1>1 DEF ClientInv, CommandsPass, AnswersFollow
<1>4. PICK t \in Nat, d \in Nat, x \in Nat, a \in Nat, e \in Nat, p \in Nat :
        /\ t = Len(typed[c]) /\ d = Len(toDaemon[c]) /\ x = Len(executed[c])
        /\ a = answered[c] /\ e = Ends(toClient[c]) /\ p = Pending(c)
  BY <1>2
<1>5. x + d <= t /\ a + e + p <= x
  BY <1>3, <1>4
<1>6. CASE Connects(c)
  <2>1. /\ worker[c] = "none" /\ worker'[c] = "greeting"
        /\ UNCHANGED <<toDaemon, toClient, typed, executed, answered>>
        /\ \A b \in Clients : b # c => SameFor(b)
    BY <1>1, <1>6 DEF Connects, IsOver, SameFor, SessionTypeOK, logVars
  <2>2. Len(typed[c]) = 0
    BY <1>1, <2>1 DEF ClientInv, OverIsEmpty
  <2>3. Len(executed[c]) = 0 /\ Len(toDaemon[c]) = 0 /\ answered[c] = 0
    <3>1. t = 0
      BY <1>4, <2>2
    <3>2. x = 0 /\ d = 0 /\ a = 0
      BY <1>5, <3>1
    <3>3. QED
      BY <1>4, <3>2
  <2>4. CommandsPass(c)'
    BY <1>1, <2>1 DEF ClientInv, CommandsPass
  <2>5. AnswersFollow(c)'
    <3>1. Pending(c)' = 0 /\ Pending(c) = 0
      BY <2>1 DEF Pending
    <3>2. QED
      BY <1>3, <2>1, <3>1 DEF AnswersFollow
  <2>6. OverIsEmpty(c)' /\ Waits(c)'
    BY <2>1, <2>2, <2>3 DEF OverIsEmpty, Waits
  <2>7. QED
    BY <2>1, <2>4, <2>5, <2>6, OneClient DEF ClientInv
<1>7. CASE Leaves(c)
  <2>1. /\ ui'[c] = "gone" /\ toClient'[c] = <<>>
        /\ UNCHANGED <<worker, toDaemon, typed, executed, answered>>
        /\ \A b \in Clients : b # c => SameFor(b)
    BY <1>1, <1>7 DEF Leaves, SameFor, SessionTypeOK, logVars
  <2>2. CommandsPass(c)' /\ OverIsEmpty(c)' /\ (c \in Patient => Waits(c)')
    BY <1>1, <2>1 DEF ClientInv, CommandsPass, OverIsEmpty, Waits
  <2>3. AnswersFollow(c)'
    <3>1. Pending(c)' = Pending(c)
      BY <2>1 DEF Pending
    <3>2. answered[c] + 0 + Pending(c) <= Len(executed[c])
      BY <1>2, <1>3
    <3>3. QED
      BY <2>1, <3>1, <3>2, EndsOfWrites DEF AnswersFollow
  <2>4. QED
    BY <2>1, <2>2, <2>3, OneClient DEF ClientInv
<1>8. ASSUME NEW command \in Commands, Types(c, command)
      PROVE  SessionInv'
  <2>1. /\ ui[c] = "prompt" /\ worker[c] # "dead" /\ ui'[c] = AfterTyping(c)
        /\ typed'[c] = Append(typed[c], command)
        /\ toDaemon'[c] = Append(toDaemon[c], command)
        /\ UNCHANGED <<worker, toClient, executed, answered>>
        /\ \A b \in Clients : b # c => SameFor(b)
    BY <1>1, <1>8 DEF Types, SameFor, SessionTypeOK
  <2>2. Len(typed'[c]) = Len(typed[c]) + 1 /\ Len(toDaemon'[c]) = Len(toDaemon[c]) + 1
    BY <1>1, <2>1, ClientTyped
  <2>3. CommandsPass(c)'
    <3>1. Len(executed[c]) + Len(toDaemon'[c]) <= Len(typed'[c])
      <4>1. x + (d + 1) <= t + 1
        BY <1>5
      <4>2. QED
        BY <1>4, <2>2, <4>1
    <3>2. ASSUME Len(executed[c]) + Len(toDaemon'[c]) = Len(typed'[c])
          PROVE  executed[c] \o toDaemon'[c] = typed'[c]
      <4>1. executed[c] \o toDaemon[c] = typed[c]
        <5>1. Len(executed[c]) + Len(toDaemon[c]) = Len(typed[c])
          <6>1. x + (d + 1) = t + 1
            BY <1>4, <2>2, <3>2
          <6>2. x + d = t
            BY <6>1
          <6>3. QED
            BY <1>4, <6>2
        <5>2. QED
          BY <1>1, <5>1 DEF ClientInv, CommandsPass
      <4>2. /\ toDaemon[c] \in Seq(Commands \cup {Garbled})
            /\ executed[c] \in Seq(Commands \cup {Garbled})
            /\ command \in Commands \cup {Garbled}
        BY <1>1, ClientTyped
      <4>3. executed[c] \o toDaemon'[c] = Append(executed[c] \o toDaemon[c], command)
        <5> DEFINE T == Commands \cup {Garbled}
                   run == executed[c]
                   q == toDaemon[c]
                   s == toDaemon'[c]
        <5>1. run \in Seq(T) /\ q \in Seq(T) /\ command \in T /\ s = Append(q, command)
          BY <2>1, <4>2
        <5> HIDE DEF T, run, q, s
        <5>2. run \o s = Append(run \o q, command)
          BY <5>1, AppendConcat
        <5>3. QED
          BY <5>2 DEF run, q, s
      <4>4. QED
        BY <2>1, <4>1, <4>3
    <3>3. QED
      BY <2>1, <3>1, <3>2 DEF CommandsPass
  <2>4. AnswersFollow(c)'
    <3>1. Pending(c)' = Pending(c)
      BY <2>1 DEF Pending
    <3>2. QED
      BY <1>3, <2>1, <3>1 DEF AnswersFollow
  <2>5. OverIsEmpty(c)'
    BY <1>1, <2>1 DEF ClientInv, OverIsEmpty
  <2>6. ASSUME c \in Patient
        PROVE  Waits(c)'
    <3>1. answered[c] = Len(typed[c]) /\ Len(executed[c]) + Len(toDaemon[c]) = Len(typed[c])
      BY <1>1, <2>1, <2>6 DEF ClientInv, Waits
    <3>2. ui'[c] = "waiting"
      BY <2>1, <2>6 DEF AfterTyping
    <3>3. Len(typed'[c]) <= answered[c] + 1
      BY <1>2, <2>2, <3>1
    <3>4. Len(executed[c]) + Len(toDaemon'[c]) = Len(typed'[c])
      <4>1. x + d = t
        BY <1>4, <3>1
      <4>2. x + (d + 1) = t + 1
        BY <4>1
      <4>3. QED
        BY <1>4, <2>2, <4>2
    <3>5. QED
      BY <2>1, <3>2, <3>3, <3>4 DEF Waits
  <2>7. QED
    BY <2>1, <2>3, <2>4, <2>5, <2>6, OneClient DEF ClientInv
<1>9. QED
  BY <1>6, <1>7, <1>8 DEF Uses

LEMMA KilledKeeps ==
  ASSUME SessionInv, StartInv', SessionTypeOK', NEW d \in Daemons, Killed(d)
  PROVE  SessionInv'
<1>1. SessionTypeOK
  BY DEF SessionInv
<1>2. ASSUME NEW c \in Clients
      PROVE  ClientInv(c)'
  <2>1. ClientInv(c)
    BY DEF SessionInv
  <2>2. CASE peer[c] # d
    <3>1. SameFor(c)
      BY <1>1, <2>2 DEF Killed, SameFor, SessionTypeOK, logVars
    <3>2. QED
      BY <2>1, <3>1, SameClient
  <2>3. CASE peer[c] = d
    <3>1. /\ worker'[c] = "dead" /\ toDaemon'[c] = <<>>
          /\ UNCHANGED <<ui, toClient, typed, executed, answered>>
      BY <2>3 DEF Killed, logVars
    <3>2. /\ Len(typed[c]) \in Nat /\ Len(toDaemon[c]) \in Nat /\ Len(executed[c]) \in Nat
          /\ answered[c] \in Nat /\ Ends(toClient[c]) \in Nat /\ Pending(c) \in {0, 1}
          /\ toDaemon[c] = <<>> <=> Len(toDaemon[c]) = 0
      BY <1>1, ClientTyped
    <3>3. /\ Len(executed[c]) + Len(toDaemon[c]) <= Len(typed[c])
          /\ answered[c] + Ends(toClient[c]) + Pending(c) <= Len(executed[c])
      BY <2>1 DEF ClientInv, CommandsPass, AnswersFollow
    <3>4. CommandsPass(c)'
      <4>1. Len(toDaemon'[c]) = 0
        BY <3>1
      <4>2. Len(executed[c]) + Len(toDaemon'[c]) <= Len(typed[c])
        <5>1. Len(executed[c]) <= Len(typed[c])
          <6>1. PICK t \in Nat, y \in Nat, x \in Nat :
                  t = Len(typed[c]) /\ y = Len(toDaemon[c]) /\ x = Len(executed[c])
            BY <3>2
          <6>2. x + y <= t
            BY <3>3, <6>1
          <6>3. x <= t
            BY <6>2
          <6>4. QED
            BY <6>1, <6>3
        <5>2. QED
          BY <3>2, <4>1, <5>1
      <4>3. ASSUME Len(executed[c]) + Len(toDaemon'[c]) = Len(typed[c])
            PROVE  executed[c] \o toDaemon'[c] = typed[c]
        <5>1. Len(toDaemon[c]) = 0
          <6>1. Len(executed[c]) = Len(typed[c])
            BY <3>2, <4>1, <4>3
          <6>2. QED
            BY <3>2, <3>3, <6>1, Sums
        <5>2. toDaemon[c] = <<>> /\ Len(executed[c]) + Len(toDaemon[c]) = Len(typed[c])
          BY <3>2, <4>1, <4>3, <5>1
        <5>3. QED
          BY <2>1, <3>1, <5>2 DEF ClientInv, CommandsPass
      <4>4. QED
        BY <3>1, <4>2, <4>3 DEF CommandsPass
    <3>5. AnswersFollow(c)'
      <4>1. Pending(c)' = 0
        BY <3>1 DEF Pending
      <4>2. answered[c] + Ends(toClient[c]) + 0 <= Len(executed[c])
        BY <3>2, <3>3
      <4>3. QED
        BY <3>1, <4>1, <4>2 DEF AnswersFollow
    <3>6. OverIsEmpty(c)' /\ (c \in Patient => Waits(c)')
      BY <2>1, <3>1 DEF ClientInv, OverIsEmpty, Waits
    <3>7. QED
      BY <3>4, <3>5, <3>6 DEF ClientInv
  <2>4. QED
    BY <2>2, <2>3
<1>3. QED
  BY <1>2 DEF SessionInv

LEMMA SessionInvInit == SessionInit => SessionInv
<1> SUFFICES ASSUME SessionInit
             PROVE  SessionInv
  OBVIOUS
<1>1. StartInv /\ StartTypeOK
  BY StartInvInit DEF SessionInit, StartInv
<1>2. SessionTypeOK
  <2>1. 0 \in 0..MaxText
    BY SessionIsTyped
  <2>2. QED
    BY <1>1, <2>1, EndsOfWrites DEF SessionInit, SessionTypeOK
<1>3. ASSUME NEW c \in Clients
      PROVE  ClientInv(c)
  <2>1. /\ ui[c] = "gone" /\ worker[c] = "none" /\ answered[c] = 0
        /\ toDaemon[c] = <<>> /\ toClient[c] = <<>> /\ typed[c] = <<>> /\ executed[c] = <<>>
    BY DEF SessionInit
  <2>2. CommandsPass(c) /\ OverIsEmpty(c) /\ Waits(c)
    BY <2>1 DEF CommandsPass, OverIsEmpty, Waits
  <2>3. AnswersFollow(c)
    BY <2>1, EndsOfWrites DEF AnswersFollow, Pending
  <2>4. QED
    BY <2>2, <2>3 DEF ClientInv
<1>4. QED
  BY <1>1, <1>2, <1>3 DEF SessionInv

LEMMA SessionInvStep ==
  SessionInv /\ [SessionNext]_<<startVars, sessionVars>> => SessionInv'
<1> SUFFICES ASSUME SessionInv, [SessionNext]_<<startVars, sessionVars>>
             PROVE  SessionInv'
  OBVIOUS
<1>1. SessionTypeOK /\ StartInv'
  BY StartInvStep, SessionStarts DEF SessionInv
<1>2. SessionTypeOK'
  BY <1>1, SessionTypeStep DEF StartInv
<1>3. CASE UNCHANGED sessionVars
  <2>1. \A c \in Clients : SameFor(c)
    BY <1>3 DEF SameFor, sessionVars, lineVars, logVars
  <2>2. QED
    BY <1>1, <1>2, <2>1, SameClient DEF SessionInv
<1>4. QED
  BY <1>1, <1>2, <1>3, ServesKeeps, ListensKeeps, UsesKeeps, KilledKeeps DEF SessionNext

LEMMA SessionKeepsInv == SessionSpec => []SessionInv
BY SessionInvInit, SessionInvStep, PTL DEF SessionSpec

(* The types of the two programs' states.                                   *)
THEOREM SessionTypes == SessionSpec => []SessionTypeOK
<1>1. SessionInv => SessionTypeOK
  BY DEF SessionInv
<1>2. QED
  BY <1>1, SessionKeepsInv, PTL

(* A user of either client who has been told "Ready." once for each command *)
(* typed knows that the daemon has executed all of them, as they were typed *)
(* and in that order: whatever the sizes of the reads, however many         *)
(* commands were typed ahead, and if the daemon was killed meanwhile.       *)
THEOREM ReadyMeansExecuted == SessionSpec => []ReadyIsHonest
<1>1. SessionInv => ReadyIsHonest
  <2> SUFFICES ASSUME SessionInv, NEW c \in Clients, answered[c] = Len(typed[c])
               PROVE  executed[c] = typed[c]
    BY DEF ReadyIsHonest
  <2>1. SessionTypeOK /\ CommandsPass(c) /\ AnswersFollow(c)
    BY DEF SessionInv, ClientInv
  <2>2. PICK t \in Nat, d \in Nat, x \in Nat, a \in Nat, e \in Nat, p \in Nat :
          /\ t = Len(typed[c]) /\ d = Len(toDaemon[c]) /\ x = Len(executed[c])
          /\ a = answered[c] /\ e = Ends(toClient[c]) /\ p = Pending(c)
    <3>1. /\ Len(typed[c]) \in Nat /\ Len(toDaemon[c]) \in Nat /\ Len(executed[c]) \in Nat
          /\ answered[c] \in Nat /\ Ends(toClient[c]) \in Nat /\ Pending(c) \in {0, 1}
      BY <2>1, ClientTyped
    <3>2. QED
      BY <3>1
  <2>3. x + d <= t /\ a + e + p <= x /\ a = t
    BY <2>1, <2>2 DEF CommandsPass, AnswersFollow
  <2>4. d = 0 /\ x + d = t
    BY <2>3
  <2>5. executed[c] \o toDaemon[c] = typed[c]
    BY <2>1, <2>2, <2>4 DEF CommandsPass
  <2>6. toDaemon[c] = <<>>
    BY <2>1, <2>2, <2>4, ClientTyped
  <2>7. executed[c] \in Seq(Commands \cup {Garbled})
    BY <2>1, ClientTyped
  <2>8. \A q \in Seq(Commands \cup {Garbled}) : q \o <<>> = q
    OBVIOUS
  <2>9. executed[c] \o <<>> = executed[c]
    BY <2>7, <2>8, Zenon
  <2>10. QED
    BY <2>5, <2>6, <2>9
<1>2. QED
  BY <1>1, SessionKeepsInv, PTL

-----------------------------------------------------------------------------
(* The sessions of cli.c are calls.                                         *)

Asked == [c \in Patient |-> typed[c]]
Done == [c \in Patient |-> executed[c]]
Answered == [c \in Patient |-> answered[c]]

LEMMA PatientAreClients == Patient \subseteq Clients
BY DEF Clients

LEMMA NoCall ==
  ASSUME \A b \in Patient : /\ typed'[b] = typed[b] /\ executed'[b] = executed[b]
                            /\ answered'[b] = answered[b]
  PROVE  UNCHANGED Calls!callVars
BY DEF Calls!callVars

(* A step of one client changes its call only.                              *)
LEMMA OneCall ==
  ASSUME NEW c \in Patient, \A b \in Clients : b # c => SameFor(b)
  PROVE  /\ Asked' = [Asked EXCEPT ![c] = typed'[c]]
         /\ Done' = [Done EXCEPT ![c] = executed'[c]]
         /\ Answered' = [Answered EXCEPT ![c] = answered'[c]]
BY PatientAreClients DEF Asked, Done, Answered, SameFor

LEMMA HangsUpCalls ==
  ASSUME SessionInv, NEW c \in Clients, HangsUp(c)
  PROVE  [Calls!Next]_(Calls!callVars)
<1>1. \A b \in Clients : b # c => SameFor(b)
  BY DEF HangsUp, SessionInv, SessionTypeOK, SameFor
<1>2. CASE c \notin Patient
  BY <1>1, <1>2, NoCall, PatientAreClients DEF SameFor
<1>3. CASE c \in Patient
  <2>1. typed'[c] = <<>> /\ executed'[c] = <<>> /\ answered'[c] = 0
    BY DEF HangsUp, SessionInv, SessionTypeOK
  <2>2. Calls!HangUp(c)
    BY <1>1, <1>3, <2>1, OneCall DEF Calls!HangUp, Asked, Done, Answered
  <2>3. QED
    BY <1>3, <2>2 DEF Calls!Next
<1>4. QED
  BY <1>2, <1>3

(* A client that waits has one command under way, which is the next one and *)
(* is read as it was typed.                                                 *)
LEMMA ReadsCommandCalls ==
  ASSUME SessionInv, NEW c \in Patient, NEW n \in 0..MaxText, ReadsCommand(c, n)
  PROVE  Calls!Do(c)
<1>1. SessionTypeOK /\ CommandsPass(c) /\ AnswersFollow(c) /\ Waits(c) /\ c \in Clients
  BY PatientAreClients DEF SessionInv, ClientInv
<1>2. /\ worker[c] = "reading" /\ toDaemon[c] # <<>>
      /\ executed'[c] = Append(executed[c], Parsed(toDaemon[c]))
      /\ typed'[c] = typed[c] /\ answered'[c] = answered[c]
      /\ \A b \in Clients : b # c => SameFor(b)
  BY <1>1 DEF ReadsCommand, SessionTypeOK, SameFor
<1>3. PICK t \in Nat, d \in Nat, x \in Nat, a \in Nat, e \in Nat, p \in Nat :
        /\ t = Len(typed[c]) /\ d = Len(toDaemon[c]) /\ x = Len(executed[c])
        /\ a = answered[c] /\ e = Ends(toClient[c]) /\ p = Pending(c)
  <2>1. /\ Len(typed[c]) \in Nat /\ Len(toDaemon[c]) \in Nat /\ Len(executed[c]) \in Nat
        /\ answered[c] \in Nat /\ Ends(toClient[c]) \in Nat /\ Pending(c) \in {0, 1}
    BY <1>1, ClientTyped
  <2>2. QED
    BY <2>1
<1>4. x + d = t /\ a + e + p <= x /\ t <= a + 1 /\ d # 0
  <2>1. x + d = t /\ a + e + p <= x /\ t <= a + 1
    BY <1>1, <1>2, <1>3 DEF AnswersFollow, Waits
  <2>2. d # 0
    BY <1>1, <1>2, <1>3, ClientTyped
  <2>3. QED
    BY <2>1, <2>2
<1>5. d = 1 /\ x < t
  BY <1>4
<1>6. typed[c] = executed[c] \o toDaemon[c] /\ Parsed(toDaemon[c]) = toDaemon[c][1]
  BY <1>1, <1>3, <1>4, <1>5 DEF CommandsPass, Parsed
<1>7. typed[c][x + 1] = toDaemon[c][1]
  <2> DEFINE q == executed[c]
             r == toDaemon[c]
  <2>1. q \in Seq(Commands \cup {Garbled}) /\ r \in Seq(Commands \cup {Garbled})
    BY <1>1, ClientTyped
  <2>2. Len(q) = x /\ Len(r) = 1
    BY <1>3, <1>5
  <2> HIDE DEF q, r
  <2>3. (q \o r)[x + 1] = r[1]
    <3>1. \A i \in 1..(Len(q) + Len(r)) :
            (q \o r)[i] = IF i <= Len(q) THEN q[i] ELSE r[i - Len(q)]
      BY <2>1
    <3>2. x + 1 \in 1..(Len(q) + Len(r)) /\ ~(x + 1 <= Len(q)) /\ (x + 1) - Len(q) = 1
      BY <2>2
    <3>3. QED
      BY <3>1, <3>2
  <2>4. QED
    BY <1>6, <2>3 DEF q, r
<1>8. Len(executed[c]) < Len(typed[c])
      /\ executed'[c] = Append(executed[c], typed[c][Len(executed[c]) + 1])
  BY <1>2, <1>3, <1>5, <1>6, <1>7
<1>9. /\ Asked' = [Asked EXCEPT ![c] = typed'[c]]
      /\ Done' = [Done EXCEPT ![c] = executed'[c]]
      /\ Answered' = [Answered EXCEPT ![c] = answered'[c]]
  BY <1>2, OneCall
<1>10. /\ Asked[c] = typed[c] /\ Done[c] = executed[c] /\ Answered[c] = answered[c]
       /\ Asked' = Asked /\ Answered' = Answered
  BY <1>2, <1>9 DEF Asked, Done, Answered
<1>11. QED
  BY <1>8, <1>9, <1>10 DEF Calls!Do, Asked, Done, Answered

(* Of what it reads at once, at most one piece is the end of an answer.     *)
LEMMA ReadsCalls ==
  ASSUME SessionInv, NEW c \in Patient, Reads(c)
  PROVE  [Calls!Next]_(Calls!callVars)
<1>1. SessionTypeOK /\ CommandsPass(c) /\ AnswersFollow(c) /\ Waits(c) /\ c \in Clients
  BY PatientAreClients DEF SessionInv, ClientInv
<1>2. /\ typed'[c] = typed[c] /\ executed'[c] = executed[c]
      /\ \A b \in Clients : b # c => SameFor(b)
  BY <1>1 DEF Reads, SessionTypeOK, SameFor
<1>3. PICK e \in Nat, r \in Nat : /\ Ends(toClient[c]) = e + r
                                  /\ answered'[c] = answered[c] + e
  BY <1>1, ReadsTell
<1>4. PICK t \in Nat, d \in Nat, x \in Nat, a \in Nat, p \in Nat :
        /\ t = Len(typed[c]) /\ d = Len(toDaemon[c]) /\ x = Len(executed[c])
        /\ a = answered[c] /\ p = Pending(c)
  <2>1. /\ Len(typed[c]) \in Nat /\ Len(toDaemon[c]) \in Nat /\ Len(executed[c]) \in Nat
        /\ answered[c] \in Nat /\ Pending(c) \in {0, 1}
    BY <1>1, ClientTyped
  <2>2. QED
    BY <2>1
<1>5. x + d <= t /\ a + (e + r) + p <= x /\ t <= a + 1
  BY <1>1, <1>3, <1>4 DEF CommandsPass, AnswersFollow, Waits
<1>6. e = 0 \/ (e = 1 /\ a < x)
  BY <1>5
<1>7. CASE e = 0
  <2>1. answered'[c] = answered[c]
    BY <1>3, <1>4, <1>7
  <2>2. QED
    BY <1>2, <2>1, NoCall, PatientAreClients DEF SameFor
<1>8. CASE e = 1 /\ a < x
  <2>1. answered[c] < Len(executed[c]) /\ answered'[c] = answered[c] + 1
    BY <1>3, <1>4, <1>8
  <2>2. /\ Asked' = [Asked EXCEPT ![c] = typed'[c]]
        /\ Done' = [Done EXCEPT ![c] = executed'[c]]
        /\ Answered' = [Answered EXCEPT ![c] = answered'[c]]
    BY <1>2, OneCall
  <2>3. /\ Asked[c] = typed[c] /\ Done[c] = executed[c] /\ Answered[c] = answered[c]
        /\ Asked' = Asked /\ Done' = Done
    BY <1>2, <2>2 DEF Asked, Done, Answered
  <2>4. Calls!Answer(c)
    BY <2>1, <2>2, <2>3 DEF Calls!Answer, Asked, Done, Answered
  <2>5. QED
    BY <2>4 DEF Calls!Next
<1>9. QED
  BY <1>6, <1>7, <1>8

LEMMA TypesCalls ==
  ASSUME SessionInv, NEW c \in Patient, NEW command \in Commands, Types(c, command)
  PROVE  Calls!Ask(c, command)
<1>1. SessionTypeOK /\ Waits(c) /\ c \in Clients
  BY PatientAreClients DEF SessionInv, ClientInv
<1>2. /\ ui[c] = "prompt" /\ typed'[c] = Append(typed[c], command)
      /\ executed'[c] = executed[c] /\ answered'[c] = answered[c]
      /\ \A b \in Clients : b # c => SameFor(b)
  BY <1>1 DEF Types, SessionTypeOK, SameFor
<1>3. answered[c] = Len(typed[c])
  BY <1>1, <1>2 DEF Waits
<1>4. /\ Asked' = [Asked EXCEPT ![c] = typed'[c]]
      /\ Done' = [Done EXCEPT ![c] = executed'[c]]
      /\ Answered' = [Answered EXCEPT ![c] = answered'[c]]
  BY <1>2, OneCall
<1>5. /\ Asked[c] = typed[c] /\ Done[c] = executed[c] /\ Answered[c] = answered[c]
      /\ Done' = Done /\ Answered' = Answered
  BY <1>2, <1>4 DEF Asked, Done, Answered
<1>6. QED
  BY <1>2, <1>3, <1>4, <1>5 DEF Calls!Ask, Asked, Done, Answered

LEMMA ClientCalls ==
  ASSUME SessionInv, NEW c \in Clients, Serves(c) \/ Listens(c) \/ Uses(c)
  PROVE  [Calls!Next]_(Calls!callVars)
<1>1. SessionTypeOK
  BY DEF SessionInv
<1>2. CASE Greets(c) \/ Says(c) \/ SaysReady(c) \/ Connects(c) \/ Leaves(c)
  BY <1>2, NoCall DEF Greets, Says, SaysReady, Connects, Leaves, logVars
<1>3. CASE Closes(c) \/ IsOrphaned(c)
  BY <1>3, HangsUpCalls DEF Closes, IsOrphaned
<1>4. CASE c \notin Patient /\ (Reads(c) \/ (\E n \in 0..MaxText : ReadsCommand(c, n))
                                \/ \E command \in Commands : Types(c, command))
  <2>1. \A b \in Clients : b # c => SameFor(b)
    BY <1>1, <1>4 DEF Reads, ReadsCommand, Types, SessionTypeOK, SameFor
  <2>2. QED
    BY <1>4, <2>1, NoCall, PatientAreClients DEF SameFor
<1>5. CASE c \in Patient /\ (Reads(c) \/ (\E n \in 0..MaxText : ReadsCommand(c, n))
                             \/ \E command \in Commands : Types(c, command))
  BY <1>5, ReadsCalls, ReadsCommandCalls, TypesCalls DEF Calls!Next
<1>6. QED
  BY <1>2, <1>3, <1>4, <1>5 DEF Serves, Listens, Uses

(* To each client of cli.c the daemon is a procedure that it calls: it asks *)
(* only when it has been answered, each command is executed once, alone and *)
(* in order, and each execution is answered once.  No daemon that starts,   *)
(* ends or competes for the socket, and no other client, changes that.      *)
THEOREM SessionsAreCalls == SessionSpec => PatientClientsCall
<1>1. SessionInit => Calls!Init
  BY PatientAreClients DEF SessionInit, Calls!Init
<1>2. SessionInv /\ [SessionNext]_<<startVars, sessionVars>>
        => [Calls!Next]_(Calls!callVars)
  <2> SUFFICES ASSUME SessionInv, [SessionNext]_<<startVars, sessionVars>>
               PROVE  [Calls!Next]_(Calls!callVars)
    OBVIOUS
  <2>1. CASE UNCHANGED sessionVars
    BY <2>1, NoCall DEF sessionVars, logVars
  <2>2. ASSUME NEW d \in Daemons, Killed(d)
        PROVE  [Calls!Next]_(Calls!callVars)
    BY <2>2, NoCall DEF Killed, logVars
  <2>3. QED
    BY <2>1, <2>2, ClientCalls DEF SessionNext
<1>3. QED
  BY <1>1, <1>2, SessionKeepsInv, PTL DEF SessionSpec, PatientClientsCall, Calls!Spec
=============================================================================
