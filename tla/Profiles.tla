------------------------------ MODULE Profiles ------------------------------
(***************************************************************************)
(* The profiles of a device on disk: saveProfile(), loadProfile(),         *)
(* loadState() and saveState() of state.cpp, and the commands newprofile,  *)
(* copyprofile, switchprofile and delprofile of command.cpp.               *)
(*                                                                         *)
(* A file is written in place: opening it empties it, and what is written  *)
(* arrives later.  The daemon may be killed at any time; it then starts    *)
(* with what is on disk.  One client gives commands, and the daemon is     *)
(* told to quit or suspend when none is being executed.                    *)
(*                                                                         *)
(* What a profile holds is a number: 0 is the map "Default" without binds. *)
(***************************************************************************)
EXTENDS Naturals, FiniteSetsExt, SequencesExt

CONSTANTS
  Profiles,  \* names of profiles
  Default,   \* the one a new device has
  State,     \* the device's state file, which names a profile
  Absent,    \* there is no such file
  Torn,      \* a file that cannot be parsed
  NoMaps,    \* the device has no current map
  MaxEdits   \* edits at which the model stops

Contents == 0..MaxEdits
Blank == 0

ASSUME ProfilesAreNamed ==
  /\ Default \in Profiles
  /\ State \notin Profiles
  /\ MaxEdits \in Nat

(* A name, what a file holds and the lack of either are different things.   *)
ASSUME ContentsAreDistinct ==
  /\ Profiles \cap Contents = {}
  /\ Profiles \cap {"serve", "exit"} = {}
  /\ {Absent, Torn, NoMaps} \cap (Contents \cup Profiles) = {}
  /\ Absent # Torn

VARIABLES
  files,      \* what is on disk
  running,    \* whether the daemon runs
  writes,     \* files to be written before it goes on, each with its contents
  opened,     \* the first of them has been opened
  goal,       \* what it goes on with: "serve", "exit", or a profile to load
  curProfile, maps,
  expected,   \* what the user left in each profile
  forfeited,  \* profiles that need not hold it
  edits       \* number of edits so far

diskVars == <<files, writes, opened>>
memoryVars == <<running, goal, curProfile, maps>>
userVars == <<expected, forfeited, edits>>
profileVars == <<diskVars, memoryVars, userVars>>

ProfilesTypeOK ==
  /\ files \in [Profiles \cup {State} -> Contents \cup Profiles \cup {Absent, Torn}]
  /\ running \in BOOLEAN /\ opened \in BOOLEAN
  /\ writes \in Seq([file : Profiles \cup {State}, data : Contents \cup Profiles])
  /\ opened => writes # <<>>
  /\ goal \in {"serve", "exit"} \cup Profiles
  /\ curProfile \in Profiles
  /\ maps \in Contents \cup {NoMaps}
  /\ expected \in [Profiles -> Contents \cup {Absent}]
  /\ forfeited \subseteq Profiles
  /\ edits \in Contents

ProfilesInit ==
  /\ files = [f \in Profiles \cup {State} |-> Absent]
  /\ running = FALSE /\ writes = <<>> /\ opened = FALSE /\ goal = "serve"
  /\ curProfile = Default /\ maps = NoMaps
  /\ expected = [p \in Profiles |-> Absent]
  /\ forfeited = {} /\ edits = 0

Write(file, data) == [file |-> file, data |-> data]

-----------------------------------------------------------------------------
(* A write: the file is emptied, and gets its contents when it is closed.   *)

OpenFile ==
  /\ running /\ writes # <<>> /\ ~opened
  /\ files' = [files EXCEPT ![Head(writes).file] = Torn]
  /\ opened' = TRUE
  /\ UNCHANGED <<writes, memoryVars, userVars>>

CloseFile ==
  /\ opened
  /\ files' = [files EXCEPT ![Head(writes).file] = Head(writes).data]
  /\ writes' = Tail(writes)
  /\ opened' = FALSE
  /\ UNCHANGED <<memoryVars, userVars>>

-----------------------------------------------------------------------------
(* loadState: without a state file, or without the profile it names, the    *)
(* profile is made anew; with one that cannot be parsed there are no maps.  *)

MakesAnew(p) ==
  /\ curProfile' = p
  /\ maps' = Blank
  /\ writes' = <<Write(p, Blank)>>

BadUnreadable == {Absent, Torn}

Unreadable == {Absent}

Start ==
  /\ ~running
  /\ running' = TRUE
  /\ goal' = "serve"
  /\ LET state == files[State] IN
       \/ /\ state \in Unreadable
          /\ MakesAnew(Default)
          /\ forfeited' = IF state = Absent THEN forfeited \cup {Default} ELSE forfeited
          /\ UNCHANGED expected
       \/ /\ state = Torn /\ state \notin Unreadable
          /\ curProfile' = Default
          /\ maps' = NoMaps
          /\ UNCHANGED <<writes, expected, forfeited>>
       \/ /\ state \in Profiles
          /\ files[state] \in Contents
          /\ curProfile' = state
          /\ maps' = files[state]
          /\ UNCHANGED <<writes, expected, forfeited>>
       \/ /\ state \in Profiles
          /\ files[state] \in {Absent, Torn}
          /\ MakesAnew(state)
          /\ expected' = [expected EXCEPT ![state] =
                            IF files[state] = Absent THEN Blank ELSE @]
          /\ UNCHANGED forfeited
  /\ UNCHANGED <<files, opened, edits>>

-----------------------------------------------------------------------------
Serves == running /\ writes = <<>> /\ goal = "serve"

(* A command on the maps: they change in memory only.                       *)
Edit ==
  /\ Serves
  /\ maps # NoMaps
  /\ edits < MaxEdits
  /\ edits' = edits + 1
  /\ maps' = edits + 1
  /\ expected' = [expected EXCEPT ![curProfile] = edits + 1]
  /\ UNCHANGED <<diskVars, running, goal, curProfile, forfeited>>

CreateProfile(p, data) ==
  /\ Serves
  /\ files[p] = Absent
  /\ writes' = <<Write(p, data)>>
  /\ expected' = [expected EXCEPT ![p] = data]
  /\ UNCHANGED <<files, opened, memoryVars, edits>>

NewProfile(p) ==
  /\ CreateProfile(p, Blank)
  /\ forfeited' = forfeited \ {p}

(* A file that cannot be parsed is copied as it is; a profile that is       *)
(* current, as it was when it was last saved.                               *)
CopyProfile(src, dest) ==
  /\ src # dest
  /\ \/ /\ files[src] \in Contents
        /\ CreateProfile(dest, files[src])
        /\ forfeited' = forfeited \ {dest}
     \/ /\ files[src] = Torn
        /\ Serves
        /\ files[dest] = Absent
        /\ files' = [files EXCEPT ![dest] = Torn]
        /\ forfeited' = forfeited \cup {dest}
        /\ UNCHANGED <<writes, opened, memoryVars, expected, edits>>

BadDeletable(p) == TRUE

Deletable(p) == p # curProfile

DelProfile(p) ==
  /\ Serves
  /\ Deletable(p)
  /\ files[p] # Absent
  /\ files' = [files EXCEPT ![p] = Absent]
  /\ expected' = [expected EXCEPT ![p] = Absent]
  /\ forfeited' = forfeited \ {p}
  /\ UNCHANGED <<writes, opened, memoryVars, edits>>

(* saveProfile, which does nothing without a current map                    *)
BadSaved == <<Write(curProfile, maps)>>

Saved == IF maps = NoMaps THEN <<>> ELSE <<Write(curProfile, maps)>>

SwitchProfile(p) ==
  /\ Serves
  /\ maps # NoMaps
  /\ writes' = Saved
  /\ goal' = p
  /\ UNCHANGED <<files, opened, running, curProfile, maps, userVars>>

(* loadProfile: a file that cannot be parsed leaves the maps as they are.   *)
Loads(p) == IF files[p] = Torn THEN maps ELSE files[p]

(* The current profile changes even if the new one cannot be loaded.        *)
LoadSwitched ==
  /\ running /\ writes = <<>>
  /\ goal \in Profiles
  /\ goal' = "serve"
  /\ IF files[goal] = Absent
       THEN UNCHANGED <<curProfile, maps>>
       ELSE /\ curProfile' = goal
            /\ maps' = Loads(goal)
  /\ UNCHANGED <<diskVars, running, userVars>>

(* saveState, when the daemon suspends or quits or the device is unplugged  *)
BadStateWrites == <<Write(State, curProfile)>>

StateWrites == Saved \o <<Write(State, curProfile)>>

SaveState(next) ==
  /\ Serves
  /\ writes' = StateWrites
  /\ goal' = next
  /\ UNCHANGED <<files, opened, running, curProfile, maps, userVars>>

Stops ==
  /\ running /\ running' = FALSE
  /\ goal' = "serve" /\ curProfile' = Default /\ maps' = NoMaps

Exit ==
  /\ writes = <<>> /\ goal = "exit"
  /\ Stops
  /\ UNCHANGED <<diskVars, userVars>>

(* The daemon is killed.  What it was writing is lost, and what was changed *)
(* in the current profile since it was saved.                               *)
Crash ==
  /\ Stops
  /\ writes' = <<>> /\ opened' = FALSE
  /\ LET torn    == IF opened /\ Head(writes).file \in Profiles
                      THEN {Head(writes).file} ELSE {}
         unsaved == {p \in {curProfile} \cup {writes[i].file : i \in DOMAIN writes} :
                       p \in Profiles \ torn /\ files[p] # Torn}
     IN  /\ forfeited' = forfeited \cup torn
         /\ expected' = [p \in Profiles |->
                           IF p \in unsaved THEN files[p] ELSE expected[p]]
  /\ UNCHANGED <<files, edits>>

-----------------------------------------------------------------------------
Command ==
  \/ Edit
  \/ \E p \in Profiles : NewProfile(p) \/ DelProfile(p) \/ SwitchProfile(p)
  \/ \E src, dest \in Profiles : CopyProfile(src, dest)

ProfilesNext ==
  \/ Start \/ OpenFile \/ CloseFile \/ LoadSwitched \/ Exit \/ Crash
  \/ Command
  \/ SaveState("serve") \/ SaveState("exit")

ProfilesSpec == ProfilesInit /\ [][ProfilesNext]_profileVars

-----------------------------------------------------------------------------
BeingWritten(p) == \E i \in DOMAIN writes : writes[i].file = p

(* Whatever commands, saves, crashes and starts there were, every profile   *)
(* holds what the user left in it, on disk or, if it is current, in memory. *)
(* The exceptions: a profile that was being written when the daemon was     *)
(* killed, or copied from such a one; and the default profile when the      *)
(* daemon starts before it ever saved its state.                            *)
ProfilesAreKept ==
  \A p \in Profiles \ forfeited :
    IF running /\ p = curProfile /\ maps # NoMaps
      THEN maps = expected[p]
      ELSE ~BeingWritten(p) => files[p] = expected[p]

(* The current profile has a file whenever the device has maps and nothing  *)
(* is being written: "you can't delete the current profile".                *)
CurrentHasFile ==
  running /\ maps # NoMaps /\ writes = <<>> => files[curProfile] # Absent

(* A daemon that quits leaves on disk what it had in memory: it comes back  *)
(* with the same profile and the same maps.                                 *)
ExitLeavesAll ==
  [][Exit => /\ files[State] = curProfile
             /\ maps # NoMaps => files[curProfile] = maps]_profileVars

=============================================================================
