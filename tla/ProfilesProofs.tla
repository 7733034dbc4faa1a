--------------------------- MODULE ProfilesProofs ---------------------------
(***************************************************************************)
(* Theorems about the profiles on disk: for any number of profiles, edits  *)
(* and crashes, what the user left in a profile is kept.                   *)
(***************************************************************************)
EXTENDS Profiles, SequenceTheorems, TLAPS

-----------------------------------------------------------------------------
(* The inductive invariant.  What is yet to be written is the range of      *)
(* `writes'; its order matters only in that the first may be open.          *)

(* A profile's file holds maps, the state file names a profile.             *)
FileKinds ==
  /\ \A p \in Profiles : files[p] \in Contents \cup {Absent, Torn}
  /\ files[State] \in Profiles \cup {Absent, Torn}

(* What is yet to be written is what belongs there.                         *)
PendingKinds ==
  \A w \in Range(writes) :
    /\ w.file \in Profiles => w.data \in Contents
    /\ w.file = State => w.data = curProfile

PendingIsExpected ==
  \A w \in Range(writes) :
    w.file \in Profiles \ forfeited => w.data = expected[w.file]

PendingIsMaps ==
  \A w \in Range(writes) :
    w.file = curProfile /\ maps # NoMaps => w.data = maps

(* A daemon that does not run writes nothing.                               *)
IdleWhenStopped == ~running => writes = <<>> /\ goal = "serve"

(* A torn file is the one that is open, or was when the daemon was killed.  *)
TornIsForfeited ==
  \A p \in Profiles \ forfeited :
    files[p] = Torn => opened /\ Head(writes).file = p

(* The current profile has a file, or is about to.                          *)
CurrentIsStored ==
  running /\ maps # NoMaps /\ ~BeingWritten(curProfile) =>
    files[curProfile] # Absent

(* Before another profile is loaded, or the daemon ends, the current one is *)
(* saved, and in the second case the state.                                 *)
CurrentIsSaved ==
  goal # "serve" /\ maps # NoMaps /\ ~BeingWritten(curProfile) =>
    files[curProfile] = maps

StateIsSaved ==
  goal = "exit" /\ ~BeingWritten(State) => files[State] = curProfile

KeepInv ==
  /\ ProfilesTypeOK /\ FileKinds
  /\ PendingKinds /\ PendingIsExpected /\ PendingIsMaps
  /\ IdleWhenStopped /\ TornIsForfeited
  /\ CurrentIsStored /\ CurrentIsSaved /\ StateIsSaved
  /\ ProfilesAreKept

-----------------------------------------------------------------------------
(* Lists of writes.                                                         *)

WriteType == [file : Profiles \cup {State}, data : Contents \cup Profiles]

LEMMA NothingPending == Range(<<>>) = {}
BY DEF Range

LEMMA OnePending ==
  ASSUME NEW w \in WriteType
  PROVE  /\ <<w>> \in Seq(WriteType)
         /\ <<w>> # <<>>
         /\ Range(<<w>>) = {w}
BY DEF Range

LEMMA TwoPending ==
  ASSUME NEW v \in WriteType, NEW w \in WriteType
  PROVE  /\ <<v>> \o <<w>> \in Seq(WriteType)
         /\ <<v>> \o <<w>> # <<>>
         /\ Range(<<v>> \o <<w>>) = {v, w}
<1> DEFINE q == <<v>> \o <<w>>
<1>1. <<v>> \in Seq(WriteType) /\ <<w>> \in Seq(WriteType)
  OBVIOUS
<1>2. q \in Seq(WriteType) /\ Len(q) = 2 /\ q[1] = v /\ q[2] = w
  BY <1>1, ConcatProperties
<1>3. DOMAIN q = {1, 2}
  BY <1>2, LenProperties
<1>4. q # <<>>
  BY <1>2, EmptySeq
<1>5. QED
  BY <1>2, <1>3, <1>4 DEF Range

(* The first write of a list, and the others.                               *)
LEMMA FirstPending ==
  ASSUME NEW q \in Seq(WriteType), q # <<>>
  PROVE  /\ Head(q) \in WriteType
         /\ Tail(q) \in Seq(WriteType)
         /\ Range(q) = {Head(q)} \cup Range(Tail(q))
<1>1. /\ Len(q) \in Nat \ {0}
      /\ DOMAIN q = 1..Len(q)
      /\ Head(q) = q[1] /\ Head(q) \in WriteType
      /\ Tail(q) \in Seq(WriteType)
      /\ Len(Tail(q)) = Len(q) - 1
      /\ \A i \in 1..Len(Tail(q)) : Tail(q)[i] = q[i + 1]
  BY HeadTailProperties, LenProperties, EmptySeq
<1>2. DOMAIN Tail(q) = 1..(Len(q) - 1)
  BY <1>1, LenProperties
<1>3. Range(q) \subseteq {Head(q)} \cup Range(Tail(q))
  <2>1. SUFFICES ASSUME NEW i \in 1..Len(q)
                 PROVE  q[i] \in {Head(q)} \cup Range(Tail(q))
    BY <1>1 DEF Range
  <2>2. CASE i = 1
    BY <2>2, <1>1
  <2>3. CASE i # 1
    <3>1. i - 1 \in DOMAIN Tail(q) /\ Tail(q)[i - 1] = q[(i - 1) + 1]
      BY <2>3, <1>1, <1>2
    <3>2. QED
      BY <3>1 DEF Range
  <2>4. QED
    BY <2>2, <2>3
<1>4. Range(Tail(q)) \subseteq Range(q)
  BY <1>1, <1>2 DEF Range
<1>5. Head(q) \in Range(q)
  BY <1>1 DEF Range
<1>6. QED
  BY <1>1, <1>3, <1>4, <1>5

LEMMA PendingFiles ==
  /\ \A p : BeingWritten(p) <=> \E w \in Range(writes) : w.file = p
  /\ \A p : BeingWritten(p)' <=> \E w \in Range(writes)' : w.file = p
BY DEF BeingWritten, Range

-----------------------------------------------------------------------------
(* Initially there is nothing on disk.                                      *)
LEMMA KeepInit == ProfilesInit => KeepInv
<1> SUFFICES ASSUME ProfilesInit
             PROVE  KeepInv
  OBVIOUS
<1> USE ProfilesAreNamed, ContentsAreDistinct DEF ProfilesInit
<1>1. ProfilesTypeOK
  <2>1. 0 \in Contents
    BY DEF Contents
  <2>2. writes \in Seq([file : Profiles \cup {State}, data : Contents \cup Profiles])
    OBVIOUS
  <2>3. QED
    BY <2>1, <2>2 DEF ProfilesTypeOK
<1>2. Range(writes) = {}
  BY NothingPending
<1>3. FileKinds /\ PendingKinds /\ PendingIsExpected /\ PendingIsMaps
  BY <1>2 DEF FileKinds, PendingKinds, PendingIsExpected, PendingIsMaps
<1>4. IdleWhenStopped /\ TornIsForfeited /\ CurrentIsStored /\ CurrentIsSaved
      /\ StateIsSaved /\ ProfilesAreKept
  BY DEF IdleWhenStopped, TornIsForfeited, CurrentIsStored, CurrentIsSaved,
         StateIsSaved, ProfilesAreKept
<1>5. QED
  BY <1>1, <1>3, <1>4 DEF KeepInv

(* Opening a file tears it.                                                 *)
LEMMA KeepOpen == KeepInv /\ OpenFile => KeepInv'
<1> SUFFICES ASSUME KeepInv, OpenFile
             PROVE  KeepInv'
  OBVIOUS
<1> USE ProfilesAreNamed, ContentsAreDistinct
    DEF KeepInv, OpenFile, memoryVars, userVars
<1>1. /\ writes \in Seq(WriteType) /\ writes # <<>>
      /\ Head(writes) \in WriteType
      /\ Head(writes) \in Range(writes)
  BY FirstPending DEF ProfilesTypeOK, WriteType
<1>2. /\ files' = [files EXCEPT ![Head(writes).file] = Torn]
      /\ UNCHANGED <<running, writes, goal, curProfile, maps, expected, forfeited, edits>>
      /\ opened'
  OBVIOUS
<1>3. ProfilesTypeOK'
  BY <1>1, <1>2 DEF ProfilesTypeOK, WriteType
<1>4. FileKinds'
  BY <1>1, <1>2 DEF ProfilesTypeOK, FileKinds, WriteType
<1>5. PendingKinds' /\ PendingIsExpected' /\ PendingIsMaps' /\ IdleWhenStopped'
  BY <1>2 DEF PendingKinds, PendingIsExpected, PendingIsMaps, IdleWhenStopped
<1>6. TornIsForfeited'
  BY <1>1, <1>2 DEF ProfilesTypeOK, TornIsForfeited
<1>7. \A p : BeingWritten(p)' <=> BeingWritten(p)
  BY <1>2 DEF BeingWritten
<1>8. BeingWritten(Head(writes).file)
  BY <1>1, PendingFiles
<1>9. CurrentIsStored' /\ CurrentIsSaved' /\ StateIsSaved' /\ ProfilesAreKept'
  BY <1>2, <1>7, <1>8
  DEF ProfilesTypeOK, CurrentIsStored, CurrentIsSaved, StateIsSaved, ProfilesAreKept
<1>10. QED
  BY <1>3, <1>4, <1>5, <1>6, <1>9

(* Closing it gives it what was to be written.                              *)
LEMMA KeepClose == KeepInv /\ CloseFile => KeepInv'
<1> SUFFICES ASSUME KeepInv, CloseFile
             PROVE  KeepInv'
  OBVIOUS
<1> USE ProfilesAreNamed, ContentsAreDistinct
    DEF KeepInv, CloseFile, memoryVars, userVars
<1> DEFINE head == Head(writes)
<1>1. /\ head \in WriteType
      /\ Tail(writes) \in Seq(WriteType)
      /\ Range(writes) = {head} \cup Range(Tail(writes))
  BY FirstPending DEF ProfilesTypeOK, WriteType
<1>2. /\ files' = [files EXCEPT ![head.file] = head.data]
      /\ UNCHANGED <<running, goal, curProfile, maps, expected, forfeited, edits>>
      /\ ~opened'
      /\ Range(writes') = Range(Tail(writes))
  OBVIOUS
<1> HIDE DEF head
<1>3. ProfilesTypeOK'
  BY <1>1, <1>2 DEF ProfilesTypeOK, WriteType
<1>4. FileKinds'
  BY <1>1, <1>2 DEF ProfilesTypeOK, FileKinds, WriteType, PendingKinds
<1>5. PendingKinds' /\ PendingIsExpected' /\ PendingIsMaps'
  BY <1>1, <1>2 DEF PendingKinds, PendingIsExpected, PendingIsMaps
<1>6. IdleWhenStopped'
  BY <1>2 DEF ProfilesTypeOK, IdleWhenStopped
<1>7. TornIsForfeited'
  BY <1>1, <1>2 DEF ProfilesTypeOK, TornIsForfeited, PendingKinds, head
<1>8. \A p : BeingWritten(p) <=> p = head.file \/ BeingWritten(p)'
  BY <1>1, <1>2, PendingFiles
<1>9. CurrentIsStored'
  BY <1>1, <1>2, <1>8 DEF ProfilesTypeOK, CurrentIsStored, PendingKinds
<1>10. CurrentIsSaved'
  BY <1>1, <1>2, <1>8 DEF ProfilesTypeOK, CurrentIsSaved, PendingIsMaps
<1>11. StateIsSaved'
  BY <1>1, <1>2, <1>8 DEF ProfilesTypeOK, StateIsSaved, PendingKinds
<1>12. ProfilesAreKept'
  BY <1>1, <1>2, <1>8 DEF ProfilesTypeOK, ProfilesAreKept, PendingIsExpected
<1>13. QED
  BY <1>3, <1>4, <1>5, <1>6, <1>7, <1>9, <1>10, <1>11, <1>12

(* A profile is made anew when the daemon starts without it.                *)
LEMMA KeepStart == KeepInv /\ Start => KeepInv'
<1> SUFFICES ASSUME KeepInv, Start
             PROVE  KeepInv'
  OBVIOUS
<1> USE ProfilesAreNamed, ContentsAreDistinct DEF KeepInv
<1>1. /\ ~running /\ running' /\ goal' = "serve"
      /\ UNCHANGED <<files, opened, edits>>
  BY DEF Start
<1>2. /\ writes = <<>> /\ Range(writes) = {}
      /\ ~opened
  BY <1>1, NothingPending DEF IdleWhenStopped, ProfilesTypeOK
<1>3. \A p \in Profiles \ forfeited : files[p] = expected[p] /\ files[p] # Torn
  BY <1>1, <1>2, PendingFiles DEF ProfilesAreKept, TornIsForfeited
<1>4. 0 \in Contents
  BY DEF Contents
<1>5. ASSUME NEW p \in Profiles, MakesAnew(p),
             files[p] = Torn => expected' = expected,
             forfeited' \in SUBSET Profiles, forfeited \subseteq forfeited',
             p \in forfeited' \/ expected'[p] = 0,
             expected' \in [Profiles -> Contents \cup {Absent}],
             \A q \in Profiles \ {p} : expected'[q] = expected[q]
      PROVE  KeepInv'
  <2>1. /\ curProfile' = p /\ maps' = 0
        /\ writes' = <<Write(p, 0)>>
    BY <1>5 DEF MakesAnew, Blank
  <2>2. /\ Write(p, 0) \in WriteType
        /\ Write(p, 0).file = p /\ Write(p, 0).data = 0
    BY <1>4 DEF Write, WriteType
  <2>3. /\ writes' \in Seq(WriteType) /\ writes' # <<>>
        /\ Range(writes') = {Write(p, 0)}
    BY <2>1, <2>2, OnePending
  <2>4. \A q : BeingWritten(q)' <=> q = p
    BY <2>2, <2>3, PendingFiles
  <2>5. ProfilesTypeOK'
    BY <1>1, <1>4, <1>5, <2>1, <2>3 DEF ProfilesTypeOK, WriteType
  <2>6. FileKinds' /\ IdleWhenStopped' /\ TornIsForfeited'
    BY <1>1, <1>3, <1>5 DEF FileKinds, IdleWhenStopped, TornIsForfeited
  <2>7. PendingKinds' /\ PendingIsExpected' /\ PendingIsMaps'
    BY <1>4, <1>5, <2>1, <2>2, <2>3 DEF PendingKinds, PendingIsExpected, PendingIsMaps
  <2>8. CurrentIsStored' /\ CurrentIsSaved' /\ StateIsSaved'
    BY <1>1, <2>1, <2>4 DEF CurrentIsStored, CurrentIsSaved, StateIsSaved
  <2>9. ProfilesAreKept'
    BY <1>1, <1>3, <1>5, <2>1, <2>4 DEF ProfilesAreKept
  <2>10. QED
    BY <2>5, <2>6, <2>7, <2>8, <2>9
<1>6. ASSUME UNCHANGED <<writes, expected, forfeited>>,
             curProfile' \in Profiles,
             maps' \in {NoMaps, files[curProfile']} \cap (Contents \cup {NoMaps})
      PROVE  KeepInv'
  <2>1. ProfilesTypeOK'
    BY <1>1, <1>6 DEF ProfilesTypeOK
  <2>2. Range(writes') = {} /\ \A q : ~BeingWritten(q)'
    BY <1>2, <1>6, PendingFiles
  <2>3. FileKinds' /\ IdleWhenStopped' /\ TornIsForfeited'
    BY <1>1, <1>3, <1>6 DEF FileKinds, IdleWhenStopped, TornIsForfeited
  <2>4. PendingKinds' /\ PendingIsExpected' /\ PendingIsMaps'
    BY <2>2 DEF PendingKinds, PendingIsExpected, PendingIsMaps
  <2>5. CurrentIsStored' /\ CurrentIsSaved' /\ StateIsSaved'
    BY <1>1, <1>6 DEF CurrentIsStored, CurrentIsSaved, StateIsSaved
  <2>6. ProfilesAreKept'
    BY <1>1, <1>3, <1>6, <2>2 DEF ProfilesAreKept
  <2>7. QED
    BY <2>1, <2>3, <2>4, <2>5, <2>6
<1>7. CASE files[State] = Absent
  <2>1. MakesAnew(Default) /\ forfeited' = forfeited \cup {Default} /\ UNCHANGED expected
    BY <1>7 DEF Start, Unreadable
  <2>2. QED
    BY <1>5, <2>1 DEF ProfilesTypeOK
<1>8. CASE files[State] = Torn
  BY <1>6, <1>8 DEF Start, Unreadable
<1>9. CASE files[State] \in Profiles
  <2> DEFINE p == files[State]
  <2>1. CASE files[p] \in Contents
    BY <1>6, <1>9, <2>1 DEF Start, Unreadable
  <2>2. CASE files[p] = Absent
    <3>1. /\ MakesAnew(p) /\ UNCHANGED forfeited
          /\ expected' = [expected EXCEPT ![p] = 0]
      BY <1>9, <2>2 DEF Start, Unreadable, Blank
    <3>2. QED
      BY <1>4, <1>5, <1>9, <2>2, <3>1 DEF ProfilesTypeOK
  <2>3. CASE files[p] = Torn
    <3>1. MakesAnew(p) /\ UNCHANGED forfeited /\ UNCHANGED expected
      BY <1>9, <2>3 DEF Start, Unreadable, ProfilesTypeOK
    <3>2. p \in forfeited
      BY <1>3, <1>9, <2>3
    <3>3. QED
      BY <1>5, <1>9, <3>1, <3>2 DEF ProfilesTypeOK
  <2>4. QED
    BY <1>9, <2>1, <2>2, <2>3 DEF FileKinds
<1>10. QED
  BY <1>7, <1>8, <1>9 DEF FileKinds

(* Edits are of the current profile, in memory.                             *)
LEMMA KeepEdit == KeepInv /\ Edit => KeepInv'
<1> SUFFICES ASSUME KeepInv, Edit
             PROVE  KeepInv'
  OBVIOUS
<1> USE ProfilesAreNamed, ContentsAreDistinct
    DEF KeepInv, Edit, Serves, diskVars
<1>1. edits + 1 \in Contents
  BY DEF ProfilesTypeOK, Contents
<1>2. Range(writes) = {} /\ \A p : ~BeingWritten(p) /\ ~BeingWritten(p)'
  BY NothingPending, PendingFiles
<1>3. ProfilesTypeOK'
  BY <1>1 DEF ProfilesTypeOK
<1>4. /\ FileKinds' /\ IdleWhenStopped' /\ TornIsForfeited'
      /\ PendingKinds' /\ PendingIsExpected' /\ PendingIsMaps'
  BY <1>2 DEF FileKinds, IdleWhenStopped, TornIsForfeited,
     PendingKinds, PendingIsExpected, PendingIsMaps
<1>5. CurrentIsStored' /\ CurrentIsSaved' /\ StateIsSaved'
  BY <1>2 DEF CurrentIsStored, CurrentIsSaved, StateIsSaved
<1>6. ProfilesAreKept'
  BY <1>1, <1>2 DEF ProfilesAreKept, ProfilesTypeOK
<1>7. QED
  BY <1>3, <1>4, <1>5, <1>6

(* A profile is created only where there is none; the current one has a     *)
(* file, so it is another.                                                  *)
LEMMA KeepCreate ==
  ASSUME KeepInv, NEW p \in Profiles, NEW data \in Contents,
         CreateProfile(p, data), forfeited' = forfeited \ {p}
  PROVE  KeepInv'
<1> USE ProfilesAreNamed, ContentsAreDistinct DEF KeepInv
<1>1. /\ running /\ writes = <<>> /\ goal = "serve" /\ files[p] = Absent
      /\ writes' = <<Write(p, data)>>
      /\ expected' = [expected EXCEPT ![p] = data]
      /\ UNCHANGED <<files, opened, running, goal, curProfile, maps, edits>>
  BY DEF CreateProfile, Serves, memoryVars
<1>2. /\ Write(p, data) \in WriteType
      /\ Write(p, data).file = p /\ Write(p, data).data = data
  BY DEF Write, WriteType
<1>3. /\ writes' \in Seq(WriteType) /\ writes' # <<>>
      /\ Range(writes') = {Write(p, data)}
      /\ Range(writes) = {}
  BY <1>1, <1>2, OnePending, NothingPending
<1>4. \A q : ~BeingWritten(q) /\ (BeingWritten(q)' <=> q = p)
  BY <1>2, <1>3, PendingFiles
<1>5. maps # NoMaps => curProfile # p
  BY <1>1, <1>4 DEF CurrentIsStored
<1>6. ProfilesTypeOK'
  BY <1>1, <1>3 DEF ProfilesTypeOK, WriteType
<1>7. FileKinds' /\ IdleWhenStopped' /\ TornIsForfeited'
  BY <1>1 DEF ProfilesTypeOK, FileKinds, IdleWhenStopped, TornIsForfeited
<1>8. PendingKinds' /\ PendingIsExpected' /\ PendingIsMaps'
  BY <1>1, <1>2, <1>3, <1>5
  DEF ProfilesTypeOK, PendingKinds, PendingIsExpected, PendingIsMaps
<1>9. CurrentIsStored' /\ CurrentIsSaved' /\ StateIsSaved'
  BY <1>1, <1>4 DEF CurrentIsStored, CurrentIsSaved, StateIsSaved
<1>10. ProfilesAreKept'
  BY <1>1, <1>4, <1>5 DEF ProfilesTypeOK, ProfilesAreKept
<1>11. QED
  BY <1>6, <1>7, <1>8, <1>9, <1>10

(* A command that writes one file at once, or removes it.                   *)
LEMMA KeepReplace ==
  ASSUME KeepInv, NEW p \in Profiles, NEW data \in {Absent, Torn}, Serves,
         maps # NoMaps => p # curProfile,
         files' = [files EXCEPT ![p] = data],
         UNCHANGED <<writes, opened, memoryVars, edits>>,
         \/ data = Torn /\ expected' = expected /\ forfeited' = forfeited \cup {p}
         \/ /\ data = Absent
            /\ expected' = [expected EXCEPT ![p] = data]
            /\ forfeited' = forfeited \ {p}
  PROVE  KeepInv'
<1> USE ProfilesAreNamed, ContentsAreDistinct DEF KeepInv, Serves, memoryVars
<1>1. Range(writes) = {} /\ \A q : ~BeingWritten(q) /\ ~BeingWritten(q)'
  BY NothingPending, PendingFiles
<1>2. ProfilesTypeOK'
  BY DEF ProfilesTypeOK
<1>3. FileKinds' /\ IdleWhenStopped' /\ TornIsForfeited'
  <2>1. CASE data = Torn
    BY <2>1 DEF ProfilesTypeOK, FileKinds, IdleWhenStopped, TornIsForfeited
  <2>2. CASE data = Absent
    BY <2>2 DEF ProfilesTypeOK, FileKinds, IdleWhenStopped, TornIsForfeited
  <2>3. QED
    BY <2>1, <2>2
<1>4. PendingKinds' /\ PendingIsExpected' /\ PendingIsMaps'
  BY <1>1 DEF PendingKinds, PendingIsExpected, PendingIsMaps
<1>5. CurrentIsStored' /\ CurrentIsSaved' /\ StateIsSaved'
  BY <1>1 DEF ProfilesTypeOK, CurrentIsStored, CurrentIsSaved, StateIsSaved
<1>6. ProfilesAreKept'
  BY <1>1 DEF ProfilesTypeOK, ProfilesAreKept
<1>7. QED
  BY <1>2, <1>3, <1>4, <1>5, <1>6

LEMMA KeepNew ==
  ASSUME KeepInv, NEW p \in Profiles, NewProfile(p)
  PROVE  KeepInv'
<1>1. Blank \in Contents
  BY ProfilesAreNamed DEF Blank, Contents
<1>2. QED
  BY <1>1, KeepCreate DEF NewProfile

LEMMA KeepDelete ==
  ASSUME KeepInv, NEW p \in Profiles, DelProfile(p)
  PROVE  KeepInv'
BY KeepReplace DEF DelProfile, Deletable

LEMMA KeepCopy ==
  ASSUME KeepInv, NEW src \in Profiles, NEW dest \in Profiles,
         CopyProfile(src, dest)
  PROVE  KeepInv'
<1>1. CASE files[src] \in Contents
  BY <1>1, KeepCreate, ContentsAreDistinct DEF CopyProfile
<1>2. CASE files[src] = Torn
  <2>1. /\ Serves /\ files[dest] = Absent
        /\ files' = [files EXCEPT ![dest] = Torn]
        /\ forfeited' = forfeited \cup {dest}
        /\ UNCHANGED <<writes, opened, memoryVars, expected, edits>>
    BY <1>2, ContentsAreDistinct DEF CopyProfile
  <2>2. maps # NoMaps => dest # curProfile
    <3>1. \A q : ~BeingWritten(q)
      BY <2>1, NothingPending, PendingFiles DEF Serves
    <3>2. QED
      BY <2>1, <3>1 DEF KeepInv, CurrentIsStored, Serves
  <2>3. QED
    BY <2>1, <2>2, KeepReplace
<1>3. QED
  BY <1>1, <1>2 DEF CopyProfile

(* saveProfile before a switch, and saveState.                              *)
LEMMA KeepSave ==
  ASSUME KeepInv, Serves, writes' \in {Saved, StateWrites},
         goal' \in Profiles \cup {"serve", "exit"},
         goal' = "exit" => writes' = StateWrites,
         UNCHANGED <<files, opened, running, curProfile, maps, userVars>>
  PROVE  KeepInv'
<1> USE ProfilesAreNamed, ContentsAreDistinct
    DEF KeepInv, Serves, userVars
<1> DEFINE profile == Write(curProfile, maps)
           state == Write(State, curProfile)
<1>1. /\ state \in WriteType
      /\ state.file = State /\ state.data = curProfile
      /\ profile.file = curProfile /\ profile.data = maps
      /\ maps # NoMaps => profile \in WriteType
  BY DEF Write, WriteType, ProfilesTypeOK
<1>2. curProfile # State /\ profile # state
  BY <1>1 DEF ProfilesTypeOK
<1>3. /\ writes' \in Seq(WriteType)
      /\ Range(writes') \subseteq {profile, state}
      /\ profile \in Range(writes') <=> maps # NoMaps
      /\ goal' = "exit" => state \in Range(writes')
  <2>1. CASE maps = NoMaps
    <3>1. Saved = <<>> /\ StateWrites = <<state>>
      BY <2>1, <1>1, ConcatEmptySeq DEF Saved, StateWrites
    <3>2. /\ Saved \in Seq(WriteType) /\ Range(Saved) = {}
          /\ StateWrites \in Seq(WriteType) /\ Range(StateWrites) = {state}
      BY <3>1, <1>1, OnePending, NothingPending
    <3>3. QED
      BY <2>1, <3>2, <1>2
  <2>2. CASE maps # NoMaps
    <3>1. Saved = <<profile>> /\ StateWrites = <<profile>> \o <<state>>
      BY <2>2 DEF Saved, StateWrites
    <3>2. /\ Saved \in Seq(WriteType) /\ Range(Saved) = {profile}
          /\ StateWrites \in Seq(WriteType) /\ Range(StateWrites) = {profile, state}
      BY <2>2, <3>1, <1>1, OnePending, TwoPending
    <3>3. QED
      BY <2>2, <3>2
  <2>3. QED
    BY <2>1, <2>2
<1> HIDE DEF profile, state
<1>4. \A q : ~BeingWritten(q)
  BY NothingPending, PendingFiles
<1>5. \A q \in Profiles : BeingWritten(q)' => q = curProfile /\ maps # NoMaps
  BY <1>1, <1>3, PendingFiles
<1>6. /\ maps # NoMaps => BeingWritten(curProfile)'
      /\ goal' = "exit" => BeingWritten(State)'
  BY <1>1, <1>3, PendingFiles
<1>7. ProfilesTypeOK'
  BY <1>3 DEF ProfilesTypeOK, WriteType
<1>8. FileKinds' /\ IdleWhenStopped' /\ TornIsForfeited'
  BY DEF FileKinds, IdleWhenStopped, TornIsForfeited, ProfilesTypeOK
<1>9. PendingKinds' /\ PendingIsExpected' /\ PendingIsMaps'
  BY <1>1, <1>3
  DEF ProfilesTypeOK, PendingKinds, PendingIsExpected, PendingIsMaps, ProfilesAreKept
<1>10. CurrentIsStored' /\ CurrentIsSaved' /\ StateIsSaved'
  BY <1>6 DEF CurrentIsStored, CurrentIsSaved, StateIsSaved, ProfilesTypeOK
<1>11. ProfilesAreKept'
  BY <1>4, <1>5, <1>6 DEF ProfilesTypeOK, ProfilesAreKept
<1>12. QED
  BY <1>7, <1>8, <1>9, <1>10, <1>11

(* The profile that is left was saved before.                               *)
LEMMA KeepLoad == KeepInv /\ LoadSwitched => KeepInv'
<1> SUFFICES ASSUME KeepInv, LoadSwitched
             PROVE  KeepInv'
  OBVIOUS
<1> USE ProfilesAreNamed, ContentsAreDistinct DEF KeepInv
<1>1. /\ running /\ writes = <<>> /\ goal \in Profiles /\ goal' = "serve"
      /\ UNCHANGED <<files, writes, opened, running, expected, forfeited, edits>>
  BY DEF LoadSwitched, diskVars, userVars
<1>2. Range(writes) = {} /\ \A q : ~BeingWritten(q) /\ ~BeingWritten(q)'
  BY <1>1, NothingPending, PendingFiles
<1>3. \/ UNCHANGED <<curProfile, maps>>
      \/ /\ curProfile' = goal /\ maps' = files[goal]
         /\ files[goal] \in Contents
      \/ /\ curProfile' = goal /\ maps' = maps
         /\ files[goal] = Torn
  BY <1>1 DEF LoadSwitched, Loads, FileKinds
<1>4. \A p \in Profiles \ forfeited : files[p] # Torn
  BY <1>1 DEF ProfilesTypeOK, TornIsForfeited
<1>5. maps # NoMaps => files[curProfile] = maps
  BY <1>1, <1>2 DEF CurrentIsSaved
<1>6. \A p \in Profiles \ forfeited : files[p] = expected[p]
  BY <1>1, <1>2, <1>5 DEF ProfilesAreKept
<1>7. ProfilesTypeOK'
  BY <1>1, <1>3 DEF ProfilesTypeOK
<1>8. FileKinds' /\ IdleWhenStopped' /\ TornIsForfeited'
  BY <1>1 DEF FileKinds, IdleWhenStopped, TornIsForfeited
<1>9. PendingKinds' /\ PendingIsExpected' /\ PendingIsMaps'
  BY <1>1, <1>2 DEF PendingKinds, PendingIsExpected, PendingIsMaps
<1>10. CurrentIsStored' /\ CurrentIsSaved' /\ StateIsSaved'
  BY <1>1, <1>2, <1>3 DEF CurrentIsStored, CurrentIsSaved, StateIsSaved
<1>11. ProfilesAreKept'
  BY <1>1, <1>2, <1>3, <1>4, <1>5, <1>6 DEF ProfilesAreKept
<1>12. QED
  BY <1>7, <1>8, <1>9, <1>10, <1>11

(* What a daemon has in memory when it quits is on disk.                    *)
LEMMA ExitIsSaved ==
  KeepInv /\ Exit => /\ files[State] = curProfile
                     /\ maps # NoMaps => files[curProfile] = maps
<1> SUFFICES ASSUME KeepInv, Exit
             PROVE  /\ files[State] = curProfile
                    /\ maps # NoMaps => files[curProfile] = maps
  OBVIOUS
<1>1. \A q : ~BeingWritten(q)
  BY NothingPending, PendingFiles DEF Exit
<1>2. QED
  BY <1>1 DEF KeepInv, Exit, CurrentIsSaved, StateIsSaved

LEMMA KeepExit == KeepInv /\ Exit => KeepInv'
<1> SUFFICES ASSUME KeepInv, Exit
             PROVE  KeepInv'
  OBVIOUS
<1> USE ProfilesAreNamed, ContentsAreDistinct DEF KeepInv
<1>1. /\ writes = <<>> /\ running /\ running' = FALSE /\ goal' = "serve"
      /\ curProfile' = Default /\ maps' = NoMaps
      /\ UNCHANGED <<files, writes, opened, expected, forfeited, edits>>
  BY DEF Exit, Stops, diskVars, userVars
<1>2. Range(writes) = {} /\ \A q : ~BeingWritten(q) /\ ~BeingWritten(q)'
  BY <1>1, NothingPending, PendingFiles
<1>3. ProfilesTypeOK'
  BY <1>1 DEF ProfilesTypeOK
<1>4. FileKinds' /\ IdleWhenStopped' /\ TornIsForfeited'
  BY <1>1 DEF FileKinds, IdleWhenStopped, TornIsForfeited
<1>5. PendingKinds' /\ PendingIsExpected' /\ PendingIsMaps'
  BY <1>1, <1>2 DEF PendingKinds, PendingIsExpected, PendingIsMaps
<1>6. CurrentIsStored' /\ CurrentIsSaved' /\ StateIsSaved'
  BY <1>1 DEF CurrentIsStored, CurrentIsSaved, StateIsSaved
<1>7. ProfilesAreKept'
  BY <1>1, <1>2, ExitIsSaved DEF ProfilesAreKept
<1>8. QED
  BY <1>3, <1>4, <1>5, <1>6, <1>7

(* A daemon that is killed loses what is in memory, and the file that is    *)
(* open.                                                                    *)
LEMMA KeepCrash == KeepInv /\ Crash => KeepInv'
<1> SUFFICES ASSUME KeepInv, Crash
             PROVE  KeepInv'
  OBVIOUS
<1> USE ProfilesAreNamed, ContentsAreDistinct DEF KeepInv
<1> DEFINE torn == IF opened /\ Head(writes).file \in Profiles
                     THEN {Head(writes).file} ELSE {}
           unsaved == {p \in {curProfile} \cup {writes[i].file : i \in DOMAIN writes} :
                         p \in Profiles \ torn /\ files[p] # Torn}
<1>1. /\ running /\ running' = FALSE /\ goal' = "serve"
      /\ curProfile' = Default /\ maps' = NoMaps
      /\ writes' = <<>> /\ opened' = FALSE
      /\ UNCHANGED <<files, edits>>
  BY DEF Crash, Stops
<1>2. /\ forfeited' = forfeited \cup torn
      /\ expected' = [p \in Profiles |-> IF p \in unsaved THEN files[p] ELSE expected[p]]
  BY DEF Crash
<1>3. /\ torn \subseteq Profiles
      /\ \A p : p \in unsaved <=> /\ p = curProfile \/ BeingWritten(p)
                                  /\ p \in Profiles \ torn /\ files[p] # Torn
  BY DEF BeingWritten
<1>4. \A p \in Profiles \ (forfeited \cup torn) : files[p] # Torn
  BY DEF TornIsForfeited
<1> HIDE DEF torn, unsaved
<1>5. Range(writes') = {} /\ \A q : ~BeingWritten(q)'
  BY <1>1, NothingPending, PendingFiles
<1>6. ProfilesTypeOK'
  <2>1. expected' \in [Profiles -> Contents \cup {Absent}]
    <3>1. \A p \in Profiles :
            (IF p \in unsaved THEN files[p] ELSE expected[p]) \in Contents \cup {Absent}
      BY <1>3 DEF ProfilesTypeOK, FileKinds
    <3>2. QED
      BY <1>2, <3>1
  <2>2. forfeited' \subseteq Profiles
    BY <1>2, <1>3 DEF ProfilesTypeOK
  <2>3. writes' \in Seq([file : Profiles \cup {State}, data : Contents \cup Profiles])
    BY <1>1
  <2>4. QED
    BY <1>1, <2>1, <2>2, <2>3 DEF ProfilesTypeOK
<1>7. FileKinds' /\ IdleWhenStopped' /\ TornIsForfeited'
  BY <1>1, <1>2, <1>4 DEF FileKinds, IdleWhenStopped, TornIsForfeited
<1>8. PendingKinds' /\ PendingIsExpected' /\ PendingIsMaps'
  BY <1>5 DEF PendingKinds, PendingIsExpected, PendingIsMaps
<1>9. CurrentIsStored' /\ CurrentIsSaved' /\ StateIsSaved'
  BY <1>1 DEF CurrentIsStored, CurrentIsSaved, StateIsSaved
<1>10. ProfilesAreKept'
  <2>1. SUFFICES ASSUME NEW p \in Profiles \ (forfeited \cup torn)
                 PROVE  files[p] = expected'[p]
    BY <1>1, <1>2 DEF ProfilesAreKept
  <2>2. CASE p = curProfile \/ BeingWritten(p)
    BY <2>2, <1>2, <1>3, <1>4
  <2>3. CASE p # curProfile /\ ~BeingWritten(p)
    BY <2>3, <1>2, <1>3 DEF ProfilesAreKept
  <2>4. QED
    BY <2>2, <2>3
<1>11. QED
  BY <1>6, <1>7, <1>8, <1>9, <1>10

LEMMA KeepStutter == KeepInv /\ UNCHANGED profileVars => KeepInv'
BY DEF KeepInv, profileVars, diskVars, memoryVars, userVars, ProfilesTypeOK,
   FileKinds, PendingKinds, PendingIsExpected, PendingIsMaps, IdleWhenStopped,
   TornIsForfeited, CurrentIsStored, CurrentIsSaved, StateIsSaved,
   ProfilesAreKept, BeingWritten

LEMMA KeepNext == KeepInv /\ [ProfilesNext]_profileVars => KeepInv'
<1> SUFFICES ASSUME KeepInv, [ProfilesNext]_profileVars
             PROVE  KeepInv'
  OBVIOUS
<1>1. CASE Start \/ OpenFile \/ CloseFile \/ LoadSwitched \/ Exit \/ Crash
  BY <1>1, KeepStart, KeepOpen, KeepClose, KeepLoad, KeepExit, KeepCrash
<1>2. CASE Edit
  BY <1>2, KeepEdit
<1>3. ASSUME NEW p \in Profiles, NewProfile(p) \/ DelProfile(p)
      PROVE  KeepInv'
  BY <1>3, KeepNew, KeepDelete
<1>4. ASSUME NEW p \in Profiles, SwitchProfile(p)
      PROVE  KeepInv'
  BY <1>4, KeepSave, ProfilesAreNamed, ContentsAreDistinct DEF SwitchProfile
<1>5. ASSUME NEW src \in Profiles, NEW dest \in Profiles, CopyProfile(src, dest)
      PROVE  KeepInv'
  BY <1>5, KeepCopy
<1>6. ASSUME NEW next \in {"serve", "exit"}, SaveState(next)
      PROVE  KeepInv'
  BY <1>6, KeepSave DEF SaveState
<1>7. CASE UNCHANGED profileVars
  BY <1>7, KeepStutter
<1>8. QED
  BY <1>1, <1>2, <1>3, <1>4, <1>5, <1>6, <1>7 DEF ProfilesNext, Command

LEMMA KeepAlways == ProfilesSpec => []KeepInv
BY KeepInit, KeepNext, PTL DEF ProfilesSpec

-----------------------------------------------------------------------------
(* The variables of the profiles keep their types: no list of maps is ever  *)
(* written that the device does not have.                                   *)
THEOREM ProfilesAreTyped == ProfilesSpec => []ProfilesTypeOK
<1>1. KeepInv => ProfilesTypeOK
  BY DEF KeepInv
<1>2. QED
  BY <1>1, KeepAlways, PTL

(* However profiles are edited, created, copied, deleted, switched and      *)
(* saved, and wherever in a write the daemon is killed, every profile holds *)
(* what the user left in it, but for those being written at that moment,    *)
(* copies of these, and the default one of a daemon that never saved.       *)
THEOREM NoProfileIsLost == ProfilesSpec => []ProfilesAreKept
<1>1. KeepInv => ProfilesAreKept
  BY DEF KeepInv
<1>2. QED
  BY <1>1, KeepAlways, PTL

(* The current profile is never without a file, though clients delete       *)
(* profiles and loads fail.                                                 *)
THEOREM CurrentProfileIsStored == ProfilesSpec => []CurrentHasFile
<1>1. KeepInv => CurrentHasFile
  BY NothingPending, PendingFiles DEF KeepInv, CurrentIsStored, CurrentHasFile
<1>2. QED
  BY <1>1, KeepAlways, PTL

(* A daemon that quits leaves its state and its maps on disk.               *)
THEOREM QuittingSaves == ProfilesSpec => ExitLeavesAll
<1>1. KeepInv /\ [ProfilesNext]_profileVars =>
        [Exit => /\ files[State] = curProfile
                 /\ maps # NoMaps => files[curProfile] = maps]_profileVars
  BY ExitIsSaved
<1>2. QED
  BY <1>1, KeepAlways, PTL DEF ProfilesSpec, ExitLeavesAll
=============================================================================
