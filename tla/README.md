# input-modifier: specifications and proofs

`imodd` is a daemon that grabs input devices, rewires their events through
user-defined maps of binds, and writes the result to virtual `uinput` devices.
This directory holds TLA+ models of it, configurations that check them with TLC,
and proofs checked by TLAPS. Paths below are relative to the repository's
`src/daemon/`.

## 1. The system

| component | state | operations | hard behaviours |
|---|---|---|---|
| input thread, `Device::run()` (`device.cpp`) | maps and their binds, `curmap`, `mapStack`, `pressedKeys`, the queues `runTurbo`, `runRelConst`, `runMacro`, the recording | choose the earliest timer and sleep; fire a turbo, a repeated motion, a macro; read an event, leave a shift, rewire, perform a bind's actions | keys that stick, timers that starve or never stop, shifts that overlap, a recording that starts with keys down |
| commands (`command.cpp`) | the same objects, through `dev` and `macros` | add, delete, copy, switch maps; edit binds; edit, record, delete macros; switch profiles; `whichkey` | one thread per connection and no lock anywhere; objects deleted under the input thread |
| persistence (`state.cpp`) | a profile per device and name, a state per device, `macros.json` | `loadProfile`, `saveProfile`, `loadState`, `saveState`, `loadMacros`, `saveMacros` | there is no current map while a profile loads; files are written in place |
| activation (`device.cpp`) | `fd`, `uinputfd`, `active`, `enabled` | `activate`, `deactivate`, `addPath`, `delPath` | the thread is cancelled, `active` is never cleared, timers survive |
| listener (`listener.cpp`), scanner (`scanner.cpp`) | devices, paths seen to come and go | batches of inotify events, settle for a second, create and remove devices | one `read` returns several events; deletion races activation |
| socket (`socket.cpp`), client (`cli/main.cpp`) | the socket file, connections | start once, accept, read a command, answer | two daemons that start together; one `read` is taken for one command |
| main loop (`main.cpp`) | `whatToDo` | start, suspend, resume, quit | signals that overwrite each other; the listener at work on the same devices |
| time (`time.cpp`) | none | arithmetic and conversion of `timespec` | borrow, carry, digits |

The input thread and the clients share every object of a device. `main` starts
the listener, the socket and the devices; the listener and `main` activate and
deactivate devices; clients edit maps and macros and start recordings.

What makes each part correct: no key of the virtual device sticks, every timer
is served while its key is held and no longer, a shift ends with its key, a
recording is faithful to what was written, and the loop always comes back to
sleep (input thread); no object is used after it is freed (commands); nothing is
lost in a crash (persistence); a device is removed once and threads are joined
once (activation, listener); one daemon, one answer per command (socket); normal
results (time). `PROJECT.json` lists the hazards of each at their lines.

## 2. Modules

| module | models |
|---|---|
| `Device` | one iteration after another of `Device::run()` |
| `DeviceControl` | commands of a client, interleaved with the steps of `Device` |
| `Lifecycle` | devices plugged, unplugged, enabled, disabled, suspended: listener, main thread, ends of input threads |
| `Profiles` | profiles and states on disk, with crashes |
| `Startup` | who answers on the socket when daemons start together |
| `Session` | composes `Startup` with clients, their threads in the daemon, and the streams between them |
| `Rpc` | what a client that waits is promised; implemented by `Session` |
| `TimeSpec` | arithmetic and conversions of `time.cpp`, and timers that use them |
| `MCDevice`, `MCDeviceControl`, `MCLifecycle`, `MCProfiles`, `MCSession`, `MCTimeSpec` | constants for TLC |
| `Subsequences` | `Only(q, S)`, the entries of a vector that are in a set, as the listener keeps them |
| `SequenceLemmas` | vectors: removing, replacing and keeping entries; induction and recursion over numbers |
| `DeviceProofs` | types of `Device`; the timer chosen exists; nothing undefined without clients |
| `DeviceKeyProofs` | keys, shifts and timers follow the physical keys |
| `DeviceControlProofs` | types of `DeviceControl`; the current map; careful clients; recordings |
| `LifecycleProofs` | types of `Lifecycle`; what is started can be stopped; for careful users, all of its invariants but `JoinedOnce` |
| `ProfilesProofs` | all the properties of `Profiles` |
| `SessionProofs` | somebody answers on the socket; answers are honest; the refinement of `Rpc` |
| `TimeProofs` | all the properties of `TimeSpec`, for any number of digits |

### Device

The body of the loop is cut at `pc` into the steps after which another part of
it, or a client, can see or change state:

    select -> sleep -> event -> rewire -> actions -> select
                \-> macro -> cleanup ------------/

`Select` is the computation of `smallest*`, `ctime` and `doWhat` before
`pselect`; `ReadKey`, `ReadRel`, `ReadOther` the `read`; `FireTurbo`,
`FireRelConst`, `FireMacro` a timeout; `PlayStep` one turn of the playback loop
and `Cleanup` the `erase` after it; `Unshift` the loop over `mapStack`; the
`Rewire...` actions the cases of the `switch` on the event's type; each `Act...`
one action of a bind. Where the code looks something up and uses it later, with
nothing locked, the look is a step of its own and is remembered in `seen`:
`TestMap` (`curmap!=NULL`, line 659), `TestBind` (`doModify`, 670, before the
actions are read at 671), and `LookUpMap` (`findMap`, 781 and 790, before
`mappings[...]` at 784 and 794). If a command took away meanwhile what was looked
up, the use is `RewireWild`, or sets `ub` in `GoToPlace`. `recordMacro` is three
stores (`RecordMacro`, `StoreStopKey`, `StoreIgnored`, with `request` for what is left
to store); the last copies `pressedKeys`, which the thread may be writing just then,
so it takes any of `Copies`. `RecordKey` and `RecordRel` are the macros
`writeToMacroKey` and `writeToMacroRel`, inside every action that uses them.

Abstractions. Key codes, maps and macros are model values, and a pointer to a
map or a macro is its name. Only keys are remembered of what is written, in
`down`; motions and absolute axes are not. Time is relative: `Tick` lowers every
`next`, and is possible only while the thread sleeps, so that the rest of an
iteration takes no time. The thread may wake up late, by `MaxLate`. `held` is
the state of the physical keys as the events read so far tell it; the kernel
sends a press of a key that is up, and repeats and releases of one that is down.
Writes succeed. The thread may start without a current map (`NULL` in
`StartMaps`, as in `keys`) when one client enables a device while another loads
its profile. `ub` is set when the code would dereference a freed or null
pointer, index a vector past its end, or write through the uninitialised pointer
`recording`; the program then has no further step, as nothing can be said of it.
`record`, the run that gets there, has `CHECK_DEADLOCK FALSE` for that reason.

### DeviceControl

The client's connection has a thread of its own, and a command, or each store of
one that makes several, takes effect between any two steps of `Device`: in the middle
of a bind's actions, and between the look at a map and its use. `delmap` is three
steps (`DelMap`: out of the vector; `CompareMap`: the current map replaced; `FreeMap`),
`switchprofile` is one for `curmap=NULL`, one for the deletions, one for each map and one for
the new current map (`StartLoad`, `FreeMaps`, `LoadMap`, `FinishLoad`), and
`recordmacro` is the three stores above. When a map or a macro is freed, the pointers
that the code leaves as they are become `Dangling`: entries of `mapStack`, of
`runMacro`, `curmap` and `recording`. Commands come from one connection at a time. What
loading reads from disk is a constant.

A vector that a command makes grow or shrink while the thread goes through it is a
data race. Such a command is met at the `pc` the thread takes that step from, and may do
harm (`Racing`) or does (`Hazardous`, for the bind being iterated): `mappings` during
`findMap` (`SearchingMaps`), `macros` during the search of `macro` (`SearchingMacros`), the
steps of a macro that is replayed or recorded into (`Touching`), the actions of the
bind being performed (`IteratingBind`).

Nothing is locked, and with arbitrary commands the thread reads freed maps, macros and
steps. `Careful` describes a client that holds commands back. It is a precondition
that the models make explicit; nothing in the code enforces it, and no client can
observe most of it. A careful client

- gives `delmap` only while the thread handles no event (`Handling`), there is a
  current map and no entry of `mapStack` goes back to the one deleted, and no event comes
  until the command is done;
- gives `switchprofile` only while the thread is neither between a look at a map
  and its use nor at a bind's actions (`UsingMap`), and `mapStack` is empty. This is
  harder to meet than it seems: the `erase` of `mapStack` never removes the last entry,
  so that after the first shift there is always one;
- adds and deletes no map while the thread searches `mappings`, and no macro while it
  searches `macros`;
- leaves the bind being performed alone;
- takes no steps from, and deletes no, macro that plays or is recorded, and neither
  grows nor copies one at a moment when the thread reads its steps or appends to them.

Under these conditions, and with profiles that hold their current map, nothing the
models tell apart is undefined (`maps`, `edits`, and the theorem
`CarefulClientsAreSafe`; section 5 lists the windows that are one step). `switchmap`,
`whichkey`, `recordmacro`, edits of other binds and macros, and all keys and timers
remain free to fall anywhere.
`record` has a client that is not careful; what it checks is claimed up to the first
undefined step.

`early` only observes: the keys whose press was recorded before `ignoreRecord` was
stored, or whose bit that copy caught in passing. The code promises nothing sensible
of them: a key pressed between the first and the last store of `recordMacro` is
recorded, then ignored at its release, and the macro ends with it down.

### Lifecycle

Four kinds of threads change the devices, with no lock: the main thread
(`main`: `start`, `pause`, `wake`, `quit`, `suspend`, `stopped`, `resume`,
`return`), the listener (`wait`, `remove`, `add`, `start`), the input thread of
each device (`thread`), and the clients. Main and the listener deal with the
devices one at a time (`todo`). A device is its name and the nodes of that name
in `paths`, in order; a descriptor is `closed`, `live`, or `dead` once its node
is gone and reads of it fail. `thread` is `ended` when the input thread has
returned and nobody has joined it. `ub` is set when a thread is joined or
started twice, or when a thread that runs meets a descriptor that is none.

inotify is external: `Plug` and `Unplug` append to `events`, and the listener
reads up to `Burst` of them at once, of which it understands the first. `Sort`
is the second of settling. It needs an empty queue, and that the input threads
have met the read errors of what was unplugged, for which a second is ample.

`Careful` users are those for whom the code holds together: they do not plug a
node into a device that is being remapped (its descriptor is unset while the
thread uses `fds`), do not unplug one that was enabled and then disabled (it
could never be removed), leave the plugs alone while main is busy, and command
when all is settled. What they do is still interleaved with the input threads
and the listener. These conditions rule out behaviours that the model has and that
the code gets wrong: a second join after `active` was left set (`deactivate`,
line 314), a thread that meets an unset descriptor (`addPath`, 61), a device that
cannot be removed (`delPath`, 68; shown by `ghost`), an activation that fails unnoticed
after a suspension (`main.cpp`, 194). The properties of `lifecycle` say nothing of
those. What an activation that fails leaves open is left out, and so
is the limit of eight nodes.

### Profiles

What a profile holds is a number that changes with every edit. A write opens its
file, which empties it (`Torn`), and fills it when it closes; `Crash` may come
between any two steps. `loadState` and `loadProfile` have their early returns: no
file, a file that cannot be parsed. One client gives commands, and `saveState`
(suspend, quit, or removal of the device) comes when none is being executed.
Copies are of what is on disk. `expected` and `forfeited` say what the user left
in each profile, and of which profiles nothing is claimed: those that were being
written when the daemon was killed, copies of these, and the default profile
when the daemon starts before it ever saved its state, which it overwrites
unread. Two clients that switch to a profile and delete it at once are not
modelled, nor is `macros.json`.

### Startup, Session, Rpc

`bind`, `connect`, `unlink` and `listen` are a step each. A socket stays bound
when its daemon ends, be it killed or told to quit, as `main` does not unlink it.
`Mortal` limits kills to daemons that serve: one that is killed as it starts can
take the path along and leave another with nothing to unlink, and then nobody
answers.

A connection is two streams; a read returns what has been written so far, so
that commands may be joined and answers cut. A command is one piece of its
stream; `Ready.\n` is two pieces, so that a read may end inside it. `Parsed` is
the daemon's view of a read: two commands at once are one garbled command.
`Patient` clients are `cli.c`, which reads at most `Cap` pieces (4096 bytes) and
waits for `Ready.` at the end of a read. No line of an answer reads `Ready.` itself: a
map, macro or profile of that name, which `listmaps` and the like would print on a line
that ends so, is excluded, as it would be taken for the end. `Eager` ones are `cli/main.cpp`, which
prints whatever comes and never waits.

`Rpc` is the abstract specification: a caller asks, what it asked is done in
order and once, and it asks again when it has its answer. `Session` implements it
for the patient clients (`PatientClientsCall == Calls!Spec`, with `typed`,
`executed` and `answered` as the refinement mapping). Eager clients have no such
promise, since their commands may be joined; `ReadyIsHonest` is what is left to
them.

### TimeSpec

`Digits` digits make a fraction of a second: nine in the code, two in the run.
`Plus` and `Minus` divide where the code loops. `stots` and `tstos` are on
sequences of digits, and use the table `pow10` of the code and its repeated
division by ten (`Drop`). `TextsAreReadable` is what the code assumes of its input: a
digit before the point, no more after it than a fraction has (the code lets ten
through, and then reads before the start of its table of powers). Seconds do not
overflow.

### Faulty variants

A definition named `Bad...` is what a plausible mistake would make of the one
after it. Each property of a passing run fails with one of them in place (see
`mutants` in `PROJECT.json`), which shows that the run can tell.

## 3. Runs

| run | properties | bounds |
|---|---|---|
| `keys` | `TypeOK`, `DownIsTracked`, `NoStuckKeys`, `ReleasedKeysUnshift`, `MapStackBounded`, `TimerTargetExists`, `TurboOnlyWhileHeld`, `RelConstOnlyWhileHeld`, `ThreadReturns`, `MacroFinishes`, `TurboToggles` | 3 keys, 5 maps, 1 macro; presses stop being offered at 3 timers |
| `record` | `RecordMatchesKeys` | 2 keys, both of them stop keys, 2 maps, 2 macros, 1 profile; events stop at 3 steps recorded; careless client |
| `maps` | `ControlTypeOK`, `CurrentMapExists`, `DownIsTracked`, `NoUndefined` | 2 keys, 2 maps, 2 profiles, careful client |
| `edits` | `NoUndefined` | 2 keys, 2 macros, 1 action or step added at a time, careful client |
| `lifecycle` | `LifeTypeOK`, `JoinedOnce`, `KnownArePlugged`, `EnabledAreRemapped`, `StoppedReleases`, `PlugsAreNoticed` | 3 nodes of 2 devices, 4 events pending, one event per read, careful users |
| `profiles` | `ProfilesTypeOK`, `ProfilesAreKept`, `CurrentHasFile`, `ExitLeavesAll` | 3 profiles, 2 edits; commands, saves and crashes without bound |
| `service` | `SessionTypeOK`, `SomeoneAnswers`, `ReadyIsHonest`, `StartEnds`, `PatientClientsCall`, `AnswerArrives` | 2 daemons, a client of each kind, one connected at a time, 2 commands a session, 2 pieces of text an answer, 3 pieces a read |
| `time` | `TimesAreNormal`, `PeriodsReadBack`, `SleepsAreExact` | fractions of 2 digits, 6 texts, 2 lapses, 2 seconds |
| `nested` | `ReleasedKeysUnshift` violated | 3 keys, 2 maps |
| `turboswitch` | `TurbosEnd` violated | 3 keys, 2 maps |
| `hotplug` | `KnownArePlugged` violated | 2 nodes of 1 device, 2 events per read |
| `ghost` | `RefusedAreEnabled` violated | 2 nodes of 1 device |

The largest are `record` (3.1 million states), `maps` (2.0 million) and `edits` (1.6
million); `keys` has 213 thousand, and is also checked for liveness.

Why the bounds are enough.

- `keys` has five maps in three groups that no bind leads out of, and the device
  starts in each of them, or without a map: `home` and `alt` send keys (one key
  sends two codes, and one code is sent by two keys) and switch; `base` and
  `upper` shift with two keys; `timed` has a macro and two turbos of one key next
  to a repeated motion. Two keys overlap in both orders and a third is what they
  send. `mapStack` holds at most two entries per key, which is itself checked, so
  it needs no bound. Three timers put two entries in one queue and one in
  another, with ties, which is all that the chain of comparisons and the scans
  for the first match tell apart.
- `DownIsTracked`, `NoStuckKeys` and `ReleasedKeysUnshift` are about these tables:
  a shift whose map sends other keys, a shift inside a shift (`nested`), and a
  switch while a turbo is held (`turboswitch`) break them.
- `record`: three steps hold a press, a release and a press. `MaxGap = 0` merges
  all pauses, of which no property speaks. Two stop keys make it possible to
  record while the other, or the stop key itself, is down. Presses and releases fall
  between all the stores of `recordMacro`. The client deletes macros and switches profiles
  whenever it likes, and the pointer `recording` may be wild at the start; the run goes up to
  the first undefined step.
- `maps`, `edits`: one shift, bind or macro is enough for the thread to be at each of the
  points at which a command can do harm, with one command of two or three stores
  falling there. `maps` starts with a current map, so that there is none only while a
  profile is loaded.
- `lifecycle`: a keyboard of two nodes is partly there, a mouse makes main and
  the listener go through a list. Four pending events let a node come, go and
  come again before the listener sorts.
- `service`: clients do not meet in the daemon, other than by what their commands
  do, so one connection at a time. Three pieces a read cut an answer of four,
  also inside `Ready.`.
- `time`: with two digits every sum of the texts and lapses that carries, borrows,
  or falls on a second exactly is there.

A press that would start a fourth timer, an event that would record a fourth
step, a plug that would be the fifth event pending are not offered: these are
limits of the model, not of the code.

Deadlock is not checked in `record`, as nothing can be said after undefined
behaviour, and in the runs of `Lifecycle`, where a daemon that quit is at its end.

Fairness.

- `FairSpec` (`Device`): the input thread is scheduled, `WF_vars(Thread)`.
  `pselect` prefers input to a timer, so a timer that is due is served only if the
  device is sometimes quiet: `SF_vars(Timers)`, `SF_vars(Tick)` say that events do
  not arrive back to back for ever. A human's keyboard meets that; a device that
  floods would starve timers, and the code does nothing about it. The binds of
  `keys` have positive times: a turbo of zero seconds is always due and would
  starve the macros.
- `FairLifeSpec`: input threads, listener and main are scheduled; a daemon that is
  stopped is continued; and `SF(Sort)`: nodes do not come and go so often that no
  second is ever quiet, as the listener sorts only after one.
- `SessionSpec`: a starting daemon goes on, the daemon's threads and the reads of
  clients go on. Nobody has to start a daemon, connect or type.

Findings (runs expected to fail):

- `nested`: a key that shifts saves the map that is current when it is pressed, also
  when that is the map of another shift (`device.cpp`, 790 to 792). After press `a`, press
  `b`, release `a`, release `b` the last release goes back to the shifted map, and the
  device stays there with every key up, against "this action switches to a different
  mapping until the mapped key is released" in `doc/reference/command/addaction.md`. The
  odd `erase` at line 654 is not the cause.
- `turboswitch`: the key of a turbo is pressed, another key switches maps, and both
  are released; the turbo is not found at the release and runs on with no key down,
  against "until the mapped key is released".
- `hotplug`: of the events that one `read` returns only the first is understood,
  against "to be able to read multiple events" in `listener.cpp`. A keyboard of
  two nodes is plugged in, and the daemon comes to know only one of them.
- `ghost`: a device that was enabled and then disabled cannot be removed, and the
  reason given, "device is enabled", is wrong.

Behaviours met that no document speaks against, and which the models therefore
have without a property: `ReleaseKeys` during a recording is not recorded; a
recording ends on a release or repeat of its stop key too; a signal that comes
while main deals with another is forgotten; a device without a state file starts
with the default profile and overwrites its file; a key pressed while
`recordMacro` is at its stores may be recorded as pressed and never as released;
`cli.c` waits for ever if 4096 bytes cut an answer in the wrong place. `AnswerArrives`
exempts reads that are full and so says nothing of that case, only that nothing else
makes it wait.

What the hazards list in `PROJECT.json` with no property, or with a note, is as
important: `DownIsTracked` is checked with clients' commands in `maps`, `NoStuckKeys`
only without them; timers that a switch leaves running are shown by `turboswitch` alone, as
`TurboOnlyWhileHeld` and `RelConstOnlyWhileHeld` are about maps that are not left; lost
notices are shown by `hotplug` alone.

## 4. Proofs

Every invariant that a passing run checks is also a theorem but for `JoinedOnce`, and so
are the three action properties (`ExitLeavesAll`, `SleepsAreExact`, and the refinement
`PatientClientsCall`). All are for every value of the constants that meets the
assumptions of the modules; hypotheses beyond these are named, and listed here.
Each run satisfies the hypotheses of the theorems about the invariants it
checks, apart from three: the table of `keys` has turbos and shifts, which the
proofs of `DownTracked` and `KeysAreReleased` leave out, and `maps` checks
`DownIsTracked` with a client, `DownTracked` is about the device alone.

Shape. For each theorem there is an invariant with `Init => Inv`,
`Inv /\ [Next]_vars => Inv'` and `Inv => Property`; types come first, and a step
is one lemma per action or group of actions, under which there is one step per
conjunct it can disturb.

### Device

| theorem | hypothesis | property |
|---|---|---|
| `TypeCorrect` | | `TypeOK` |
| `TimerTarget` | | `TimerTargetExists` |
| `ThreadIsSafe` | `Dangling \notin RecordingInit` | `NoUndefined` |
| `DownTracked` | no turbos, no macros | `DownIsTracked` |
| `KeysAreReleased` | `KeyTable`: also no shifts, switches last | `NoStuckKeys` |
| `StackIsBounded` | `OneShiftPerBind` | `MapStackBounded` |
| `ShiftsEnd` | `ShiftsDoNotNest` | `ReleasedKeysUnshift` |
| `TurbosAreHeld` | `TimedMapsStay` | `TurboOnlyWhileHeld` |
| `RepeatsAreHeld` | `TimedMapsStay` | `RelConstOnlyWhileHeld` |

- `TimerTarget`: each comparison of `Choice` chooses a queue that is not empty or
  leaves the choice alone, and nothing empties a queue while the thread sleeps.
- `ThreadIsSafe`: `SafeInv` adds that every macro in `runMacro` has a next step, but
  for the one that has just ended and awaits `Cleanup`, and that the entries of
  `mapStack` go back to maps. The
  hypothesis leaves out the one undefined behaviour that a device meets alone:
  `recording` is uninitialised.
- `DownTracked`: `down` is within `pressedKeys` and the stop keys. With turbos and
  macros, where the property also names the codes of those that run, it is only
  model-checked.
- `KeysAreReleased`: every key in `pressedKeys` is accounted for by a physical key
  that is down and whose bind in the current map sends it, or by the event in
  progress. Leaving a shift releases no keys, and a key sent after a switch is
  looked up in another map at its release: hence both restrictions.
- `StackIsBounded`: of a key that is up `mapStack` holds one entry at most, and two
  of one that is down or whose release is still to be dealt with (`StackInv`). The release replaces the entry that it uses by the last one; that
  one may belong to another key, so the proof follows positions, not entries. A
  bind that shifts twice pushes two entries at each press and breaks this.
- `ShiftsEnd`: either the current map is one to start in, or some entry of
  `mapStack` is of a key that is down or being released (`ShiftInv`). The run
  `nested` shows what happens otherwise.
- `TurbosAreHeld`, `RepeatsAreHeld`: a release stops the first timer of its code,
  which need not be the one that its press started. What is inductive is that
  there is an injection from the timers that run to the slots (key, position in
  its bind, code) whose action has been performed for a press and not yet for a
  release (`HoldInv`, `HasSlots`): a press adds a slot and a timer, a release
  removes a slot and, if there is one, a timer of that slot's code, after which
  the injection can be rearranged. `TimedMapsStay` keeps the looked-up bind the
  same from press to release; the run `turboswitch` shows what happens otherwise.

### DeviceControl

| theorem | hypothesis | property |
|---|---|---|
| `ControlTypes` | | `ControlTypeOK` |
| `CurrentMapStays` | `StartsCareful` | `CurrentMapExists` |
| `CarefulClientsAreSafe` | `StartsCareful` | `NoUndefined` |
| `RecordingsMatchKeys` | `RecordsOnly` | `RecordMatchesKeys` |

- `StartsCareful`: a careful client, a null `recording`, names of maps that are unique at
  the start and within a profile (as `newmap` and `copymap` see to), and profiles
  whose current map is among their maps. `CareInv` joins what `PlaysWell` says of
  macros that play with `SeenHolds`, that what the thread has looked up is still true,
  and `MapsKept`: while no command is at work the current map and the maps of
  `mapStack` exist (`WhileIdle`); while a profile loads the thread has no map in hand and
  the maps loaded and to be loaded are apart (`WhileLoading`); while `delmap` is at
  work the thread handles nothing (`WhileDeleting`). Both theorems are about what a
  client has to hold back (see `Careful` above): they fail without, and the code is not
  claimed to be safe.
- `RecordsOnly`: every bind sends its own key once and neither switches, shifts
  nor starts a turbo, and a key is bound in all maps or in none. The client records,
  switches maps and profiles, and creates, copies and deletes macros, whether or not that
  is careful; it does not edit binds, nor the steps of macros, nor add or delete maps.
  `OwnInv` relates the keys held down by the daemon to the physical ones and to the
  last step recorded of each (`RecordsWell`): outside of `early` and the stop key, a
  key that is down and not ignored was recorded pressed last, one that is up or ignored was
  not, and one that is ignored is down. It is claimed once `recordMacro` has made all of its
  stores. Two keys that send one code, a bind that sends its key twice, or an edit of
  the macro being recorded break the property: the code records what it sends.

### Lifecycle

`LifecycleTypes` and `NothingIsLeaked` are for any users and any `Burst`. The latter is
about the flag that `deactivate` leaves set: as long as nothing undefined was done, a
thread that was not joined and a descriptor that is open belong to a known device with
`active` set (`Reached`), so that `deactivate` closes it. The converse, that it is joined
once only, is not so, and is model-checked for careful users (`JoinedOnce`).

`StoppingReleases` (`StoppedReleases`), `DevicesArePlugged` (`KnownArePlugged`) and
`EnabledIsRemapped` (`EnabledAreRemapped`) are for `Careful` users and `Burst = 1`,
any nodes and any number of devices. `Burst = 1` is not a convenience: the run
`hotplug` violates `KnownArePlugged` with two. They follow from one invariant,
`CareInv`: what the listener's queues and the pending events together say of each
node is true (`QueuesAreTrue`); descriptors are dead only of nodes whose removal
is on its way (`DeadAreLeaving`); threads that ended have lost a node
(`EndedHaveLost`), so that they are joined exactly once; new nodes belong to no
running device (`FreshAreIdle`); enabled devices are held, or main or the
listener has them on its list (`EnabledAreHeld`).

### Profiles

`KeepInv` gives `ProfilesAreTyped`, `NoProfileIsLost` (`ProfilesAreKept`),
`CurrentProfileIsStored` (`CurrentHasFile`) and `QuittingSaves` (`ExitLeavesAll`), for
any profiles, contents and crashes. It adds that a write under way carries what
the user left (`PendingIsExpected`), and that a torn file is forfeited or the
one that is open (`TornIsForfeited`).

### Session

- `SomeoneIsLeft` (`SomeoneAnswers`): `StartInv` adds that the path belongs to a
  daemon that listens or is about to, or is stale while no daemon has given way
  (`PathIsOwned`), and that when the path is free some daemon is about to bind it,
  or none has started (`FreePathIsBound`). It needs `StartsAreSpared`, that daemons
  are not killed while they start.
- `SessionTypes`; `ReadyMeansExecuted` (`ReadyIsHonest`): the ends of answers seen,
  under way and due never exceed the commands executed, and those are a prefix
  of the ones typed (`CommandsPass`, `AnswersFollow`).
- `SessionsAreCalls` (`PatientClientsCall`): `Session` implements `Rpc` for patient
  clients, with `typed`, `executed` and `answered` as the mapping. Each step of
  `Session` is one action of `Rpc` or a stutter, because a client that waits has at
  most one command on its way (`Waits`).

### TimeSpec

`TimesStayNormal`, `SleepsStayExact` and `ShownPeriodsReadBack` are for any `Digits`
and any texts that meet `TextsAreReadable`. `TimeInv` says that clocks, deadlines
and periods have no negative seconds. The work is in the operators: `CarryIsExact`,
`BorrowIsExact`; `FractionIsBelowASecond`, by
`(f[i] + 1) * pow10[Digits - i] <= Giga` for the number `f[i]` that the first `i`
digits make; `DigitsReadBack`, by `f[i] = Drop(n, count - i)`; and
`TrimmedReadsBack`, as each zero erased is a power of ten less.

### Induction

The library's induction theorems take an operator, which the provers cannot
instantiate. `SequenceLemmas` states induction for sets instead
(`NumbersByInduction`, from the well-foundedness of `<`), and from it that
functions defined by recursion exist (`RecursionExists`); the recursive functions
of `Subsequences` and `TimeSpec` satisfy their equations by these two, and two
functions with the same equations agree (`SameRecursion` in `TimeProofs`).

### Only model-checked

`JoinedOnce`; `DownIsTracked` with turbos or macros, and `NoStuckKeys` with shifts, as
they occur in `keys`; `DownIsTracked` with clients; and what the prover cannot state: the liveness properties
(`ThreadReturns`, `MacroFinishes`, `TurboToggles`, `PlugsAreNoticed`, `StartEnds`,
`AnswerArrives`).

## 5. Not modelled

Windows that are one step. A step of `Device` from one `pc` to the next is atomic but for
the looks named above. Folded are: the loop of `ReleaseKeys`, the push on `mapStack`
and the use of the place found (783 and 784; 792 to 794, after the look at 790), but for
a recording that starts in it (`Copies`); the store to `pressedKeys` and the test of
`recording` after it, likewise; the two stores that end a recording; the search of
`mapStack` and of `findMap`, whose races are `SearchingMaps`; the read of a bind's actions
at 671 and their iteration up to the next action, whose races are `IteratingBind`; the
deletions of a profile's maps and the clear after them; a map and its binds as a
profile is loaded, when the thread of a careful client has no map. Reads and writes of
one word are atomic. Commands of two connections at once, and one map or macro edited by
two of them, are left out.

The virtual device and the grab itself, failing writes, reads that a signal
interrupts; motions and absolute axes once written; which nodes are devices;
`macros.json`; the configuration directory; two clients that work on the same
profile's files at once; the moment between the scan of the devices and the
watch on their directory, in which a node can come or go unseen; widths of integers. Commands that only list, plugins,
logging, tables of names, the JSON library (most of the repository's lines) and
the installer have no behaviour of their own to check. Not implemented in the
code itself: binds of relative axes and switches, delayed events, recording with
a delay or a limit.

## 6. Plan

Done: `Device`, `DeviceControl`, `Lifecycle`, `Profiles`, `Startup`, `Session` as
a refinement of `Rpc`, `TimeSpec`, with their runs; the theorems above.

Next, in this order:

1. `DownIsTracked` for tables with turbos and macros, from `HoldInv` without
   `TimedMapsStay` and the steps of macros that play.
2. `NoStuckKeys` for tables with shifts that send the same keys as the map they
   are entered from.
3. `RecordMatchesKeys` for binds that switch maps.
