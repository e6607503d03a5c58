--------------------------- MODULE ManagerExtract ---------------------------
(***************************************************************************)
(* How the version manager gets out of the Windows package it is shipped   *)
(* in, so that it outlives the package it replaces.  Two programs put it   *)
(* at one place under %APPDATA%: a manager started inside the package      *)
(* copies itself (platform/extract_windows.go), and the application, when  *)
(* an update is accepted, writes the copy it bundles and starts it         *)
(* (centroidx_upgrader/lib/src/manager_launcher.dart, update_launch.dart). *)
(*                                                                         *)
(* Several managers may be started and the button pressed again while a    *)
(* call is under way; they share the names of the files they stage.  Any   *)
(* of them may be stopped by a full disk, a crash or an upgrade.           *)
(***************************************************************************)
EXTENDS Naturals, FiniteSetsExt

CONSTANTS
  Builds,      \* the builds of the manager, numbered
  Size,        \* the length of each, in the portions they are written in
  Managers,    \* the starts of a manager inside the package
  Calls,       \* the presses of Update, each a call of startManagerUpdate
  MaxBusy,     \* bound on the starts and calls under way at a time
  Mishaps,     \* what may go wrong in this instance, a subset of AllMishaps
  None         \* no file

AllMishaps ==
  { "create",  \* the staged file cannot be created
    "full",    \* the disk is full
    "rename",  \* a scanner holds a file that is to be renamed or replaced
    "delete",  \*   or one that is to be removed
    "start",   \* the manager cannot be started
    "die" }    \* a manager or the application is killed

ASSUME BuildsAssumption == Builds \subseteq Nat
ASSUME SizeAssumption == Size \in [Builds -> Nat \ {0}]
ASSUME ActorAssumption == Managers \cap Calls = {}
ASSUME NoneAssumption == \A b \in Builds : \A s \in SUBSET (1..Size[b]) : None # [build |-> b, has |-> s]

VARIABLES
  files,     \* the manager in its place, and the files the copies are staged in
  package,   \* the build in the installed package
  app,       \* whether the application runs
  running,   \* whether a manager runs from its place
  pc,        \* where each start and each call is
  at,        \* how much of its staged file each has written
  usable,    \* the calls that found something to fall back on
  warned,    \* the calls that go on with it
  clash,     \* history: a staged file was created anew under another's hands, and
             \*   later somebody was stopped while writing one: "no", "met", "torn"
  killed,    \* history: a manager never came to its deferred clean-up, and none has
             \*   staged a copy since
  disturbed  \* history: the calls that met a mishap, another call or a running manager

history == <<clash, killed, disturbed>>
call == <<usable, warned>>
station == <<package, app, running>>
vars == <<files, station, pc, at, call, history>>

Actors == Managers \cup Calls

\* The file each stages its copy in: dest + ".tmp", destPath + ".new".
Staging(p) == IF p \in Managers THEN "tmp" ELSE "new"

Dest == files["dest"]

-----------------------------------------------------------------------------
(* Files.  One that is being written may have gaps, when another has cut it *)
(* back to nothing in between. *)

Whole(b) == [build |-> b, has |-> 1..Size[b]]
IsWhole(file) == file.has = 1..Size[file.build]

\* The length of a file, none where there is no file.
Length(file) == IF file = None THEN 0 ELSE Max(file.has \cup {0})

IsOpen(p) == pc[p] = "write"

\* Neither Go nor Dart shares a file for deletion: one that another has open is
\* neither renamed nor removed.
Held(p) == \E q \in Actors \ {p} : Staging(q) = Staging(p) /\ IsOpen(q)

\* Bound: no more than MaxBusy at work at a time.
Free(p) == pc[p] = "off" /\ Cardinality({q \in Actors : pc[q] # "off"}) < MaxBusy

Goto(p, step) == pc' = [pc EXCEPT ![p] = step]

Create(p) ==
  /\ files' = [files EXCEPT ![Staging(p)] = [build |-> package, has |-> {}]]
  /\ clash' = IF clash = "no" /\ \E q \in Actors \ {p} :
                    Staging(q) = Staging(p) /\ pc[q] \in {"write", "rename"}
              THEN "met" ELSE clash

\* The next portion; after the last the file is closed.
WritePortion(p) ==
  /\ files' = [files EXCEPT ![Staging(p)].has = @ \cup {at[p] + 1}]
  /\ at' = [at EXCEPT ![p] = IF @ + 1 = Size[package] THEN 0 ELSE @ + 1]
  /\ pc' = [pc EXCEPT ![p] = IF at[p] + 1 = Size[package] THEN "rename" ELSE "write"]

\* Somebody stops writing a staged file.
Stopped(who) ==
  /\ at' = [p \in Actors |-> IF p \in who THEN 0 ELSE at[p]]
  /\ clash' = IF clash = "met" /\ \E p \in who : IsOpen(p) THEN "torn" ELSE clash

\* A program that runs is not replaced.
Movable(p) == files[Staging(p)] # None /\ ~Held(p) /\ ~running

Moved(p) == files' = [files EXCEPT !["dest"] = files[Staging(p)], ![Staging(p)] = None]

Removed(p) ==
  \/ ~Held(p) /\ files' = [files EXCEPT ![Staging(p)] = None]
  \/ (Held(p) \/ "delete" \in Mishaps) /\ UNCHANGED files

\* What happens to whoever is at work when a process dies, the application exits or
\* the package is replaced under it: the files stay as they are.
Gone(who) ==
  /\ pc' = [p \in Actors |-> IF p \in who THEN "off" ELSE pc[p]]
  /\ killed' = (killed \/ \E p \in who \cap Managers : pc[p] # "off")
  /\ Stopped(who)
  /\ usable' = usable \ who /\ warned' = warned \ who /\ disturbed' = disturbed \ who

Disturb(c) == disturbed' = disturbed \cup ({c} \cap Calls)

-----------------------------------------------------------------------------
Init ==
  /\ package \in Builds
  /\ files \in {[dest |-> d, tmp |-> None, new |-> None] : d \in {None} \cup {Whole(b) : b \in Builds}}
  /\ app = TRUE /\ running = FALSE
  /\ pc = [p \in Actors |-> "off"] /\ at = [p \in Actors |-> 0]
  /\ usable = {} /\ warned = {}
  /\ clash = "no" /\ killed = FALSE /\ disturbed = {}

-----------------------------------------------------------------------------
(* A manager that is started inside the package (init of main_windows.go). *)

\* extractManagerFrom: one of the same size is taken for the same.
ExtractManager(m) ==
  /\ Free(m)
  /\ Length(Dest) # Size[package]
  /\ Goto(m, "create")
  /\ UNCHANGED <<files, station, at, call, history>>

\* copyFile, which truncates whatever is there.  A failure is before the clean-up is deferred.
CreateTemp(m) ==
  /\ pc[m] = "create"
  /\ \/ Create(m) /\ Goto(m, "write") /\ killed' = FALSE
     \/ "create" \in Mishaps /\ Goto(m, "off") /\ UNCHANGED <<files, clash, killed>>
  /\ UNCHANGED <<station, at, call, disturbed>>

CopyPortion(m) ==
  /\ pc[m] = "write"
  /\ WritePortion(m)
  /\ UNCHANGED <<station, call, history>>

\* Mutant: nothing is deferred.
CopyFailsForGood(m) ==
  /\ pc[m] = "write" /\ "full" \in Mishaps
  /\ Stopped({m})
  /\ Goto(m, "off")
  /\ UNCHANGED <<files, station, call, killed, disturbed>>

\* Mutant: the outcome of the copy is not looked at.
CopyFailsUnnoticed(m) ==
  /\ pc[m] = "write" /\ "full" \in Mishaps
  /\ Stopped({m})
  /\ Goto(m, "rename")
  /\ UNCHANGED <<files, station, call, killed, disturbed>>

\* The copy fails, or the close that flushes it; the deferred clean-up closes
\* the file, ...
CopyFails(m) ==
  /\ pc[m] = "write" /\ "full" \in Mishaps
  /\ Stopped({m})
  /\ Goto(m, "remove")
  /\ UNCHANGED <<files, station, call, killed, disturbed>>

RenameTemp(m) ==
  /\ pc[m] = "rename"
  /\ \/ Movable(m) /\ Moved(m)
     \/ (~Movable(m) \/ "rename" \in Mishaps) /\ UNCHANGED files
  /\ Goto(m, "remove")
  /\ UNCHANGED <<station, at, call, history>>

\* ... and removes whatever has that name by now.
RemoveTemp(m) ==
  /\ pc[m] = "remove"
  /\ Removed(m)
  /\ Goto(m, "off")
  /\ UNCHANGED <<station, at, call, history>>

-----------------------------------------------------------------------------
(* The application: startManagerUpdate, launchForUpdate, ensureExtracted. *)

\* onUpdate does not wait for the call and may be pressed again.
Press(c) ==
  /\ app /\ Free(c)
  /\ Goto(c, "match")
  /\ LET others == {d \in Calls \ {c} : pc[d] # "off"}
     IN  disturbed' = disturbed \cup others \cup {d \in {c} : running \/ others # {}}
  /\ UNCHANGED <<files, station, at, call, clash, killed>>

\* Mutant: a file of the same length will do.
MatchesLength(c) ==
  /\ pc[c] = "match"
  /\ Goto(c, IF Length(Dest) = Size[package] THEN "launch" ELSE "usable")
  /\ UNCHANGED <<files, station, at, call, history>>

\* _matchesBundle; the file only ever changes as a whole.
MatchesBundle(c) ==
  /\ pc[c] = "match"
  /\ Goto(c, IF Dest = Whole(package) THEN "launch" ELSE "usable")
  /\ UNCHANGED <<files, station, at, call, history>>

HasUsableBinary(c) ==
  /\ pc[c] = "usable"
  /\ usable' = usable \cup {d \in {c} : Length(Dest) > 0}
  /\ Goto(c, "create")
  /\ UNCHANGED <<files, station, at, warned, history>>

\* Mutant: only a file that is not there is created.
CreateNewStaged(c) ==
  /\ pc[c] = "create"
  /\ \/ files["new"] = None /\ Create(c) /\ Goto(c, "write") /\ UNCHANGED disturbed
     \/ files["new"] # None /\ Goto(c, "delete") /\ UNCHANGED <<files, clash, disturbed>>
     \/ "create" \in Mishaps /\ Goto(c, "delete") /\ Disturb(c) /\ UNCHANGED <<files, clash>>
  /\ UNCHANGED <<station, at, call, killed>>

\* writeAsBytes: open, ...
CreateStaged(c) ==
  /\ pc[c] = "create"
  /\ \/ Create(c) /\ Goto(c, "write") /\ UNCHANGED disturbed
     \/ "create" \in Mishaps /\ Goto(c, "delete") /\ Disturb(c) /\ UNCHANGED <<files, clash>>
  /\ UNCHANGED <<station, at, call, killed>>

\* ... write, and close, whatever comes of it.
WriteStaged(c) ==
  /\ pc[c] = "write"
  /\ WritePortion(c)
  /\ UNCHANGED <<station, call, history>>

WriteFails(c) ==
  /\ pc[c] = "write" /\ "full" \in Mishaps
  /\ Stopped({c}) /\ Disturb(c)
  /\ Goto(c, "delete")
  /\ UNCHANGED <<files, station, call, killed>>

RenameStaged(c) ==
  /\ pc[c] = "rename"
  /\ \/ Movable(c) /\ Moved(c) /\ Goto(c, "launch") /\ UNCHANGED disturbed
     \/ ~Movable(c) /\ Goto(c, "delete") /\ UNCHANGED <<files, disturbed>>
     \/ "rename" \in Mishaps /\ Goto(c, "delete") /\ Disturb(c) /\ UNCHANGED files
  /\ UNCHANGED <<station, at, call, clash, killed>>

\* The call returns, and the operator is told.
End(c) ==
  /\ Goto(c, "off")
  /\ usable' = usable \ {c} /\ warned' = warned \ {c} /\ disturbed' = disturbed \ {c}

\* Mutant: the staged file is written anew until it works.
DeleteStagedAndTryAgain(c) ==
  /\ pc[c] = "delete"
  /\ Removed(c)
  /\ Goto(c, "usable")
  /\ UNCHANGED <<station, at, call, history>>

\* The operator is told that the update could not start, or the call goes on
\* with the manager that was there, and warns.
DeleteStaged(c) ==
  /\ pc[c] = "delete"
  /\ Removed(c)
  /\ \/ c \in usable /\ warned' = warned \cup {c} /\ Goto(c, "launch") /\ UNCHANGED <<usable, disturbed>>
     \/ c \notin usable /\ End(c)
  /\ UNCHANGED <<station, at, clash, killed>>

\* _startProcess, from the place the manager was put; a failure is told.
StartProcess(c) ==
  /\ pc[c] = "launch"
  /\ \/ /\ Dest # None /\ running' = TRUE /\ Goto(c, "handOff")
        /\ disturbed' = disturbed \cup {d \in Calls \ {c} : pc[d] # "off"}
        /\ UNCHANGED call
     \/ (Dest = None \/ "start" \in Mishaps) /\ End(c) /\ UNCHANGED running
  /\ UNCHANGED <<files, package, app, at, clash, killed>>

\* onHandedOff: exit(0), in the middle of whatever the other calls are doing.
HandOff(c) ==
  /\ pc[c] = "handOff"
  /\ app' = FALSE
  /\ Gone(Calls)
  /\ UNCHANGED <<files, package, running>>

-----------------------------------------------------------------------------
(* The station. *)

StartApp ==
  /\ ~app /\ app' = TRUE
  /\ UNCHANGED <<files, package, running, pc, at, call, history>>

\* The manager installs another package, with -ForceApplicationShutdown: what
\* runs inside the old one is stopped.  Bound: a later build.
Upgrade(b) ==
  /\ running /\ b > package
  /\ package' = b
  /\ app' = FALSE
  /\ Gone(Actors)
  /\ UNCHANGED <<files, running>>

ManagerExits ==
  /\ running /\ running' = FALSE
  /\ UNCHANGED <<files, package, app, pc, at, call, history>>

ManagerDies(m) ==
  /\ "die" \in Mishaps /\ pc[m] # "off"
  /\ Gone({m})
  /\ UNCHANGED <<files, station>>

AppDies ==
  /\ "die" \in Mishaps /\ app
  /\ app' = FALSE
  /\ Gone(Calls)
  /\ UNCHANGED <<files, package, running>>

ManagerStep(m) ==
  \/ CreateTemp(m) \/ CopyPortion(m) \/ CopyFails(m) \/ RenameTemp(m) \/ RemoveTemp(m)

CallStep(c) ==
  \/ MatchesBundle(c) \/ HasUsableBinary(c) \/ CreateStaged(c) \/ WriteStaged(c) \/ WriteFails(c)
  \/ RenameStaged(c) \/ DeleteStaged(c) \/ StartProcess(c) \/ HandOff(c)

Next ==
  \/ \E m \in Managers : ExtractManager(m) \/ ManagerStep(m) \/ ManagerDies(m)
  \/ \E c \in Calls : Press(c) \/ CallStep(c)
  \/ StartApp \/ ManagerExits \/ AppDies
  \/ \E b \in Builds : Upgrade(b)

Spec == Init /\ [][Next]_vars

\* A program that runs goes on to its next step.
FairSpec == Spec /\ \A c \in Calls : WF_vars(CallStep(c))

-----------------------------------------------------------------------------
\* Type invariant.
TypeOK ==
  /\ package \in Builds
  /\ app \in BOOLEAN /\ running \in BOOLEAN
  /\ files \in [{"dest", "tmp", "new"} -> [build : Builds, has : SUBSET Nat] \cup {None}]
  /\ \A f \in DOMAIN files : files[f] # None => files[f].has \subseteq 1..Size[files[f].build]
  /\ pc \in [Actors -> {"off", "match", "usable", "create", "write", "rename",
                        "remove", "delete", "launch", "handOff"}]
  /\ at \in [Actors -> Nat] /\ \A p \in Actors : at[p] < Size[package]
  /\ usable \subseteq Calls /\ warned \subseteq Calls /\ disturbed \subseteq Calls
  /\ clash \in {"no", "met", "torn"} /\ killed \in BOOLEAN

\* The manager in its place only ever changes to the whole one of the package
\* installed by then ("the destination changes all at once or not at all",
\* manager_launcher.dart:144): not to a fragment, and not to a copy staged by
\* whoever was killed, or out of an earlier package, however many copy at the
\* same time, as long as nobody who shares a staged file is stopped while
\* writing it.
ChangesAtOnce ==
  [][Dest' # Dest => Dest' = Whole(package) \/ clash = "torn"]_vars

\* So it is always all of some build: no crash, full disk or refused rename
\* leaves a fragment there.
DestIsWhole ==
  Dest # None => IsWhole(Dest) \/ clash = "torn"

\* A call that does not warn starts the build the application bundles, also
\* when the manager there is another of the same size, which a manager inside
\* the package would leave alone (extract_windows.go:61), and whatever managers
\* inside the package do meanwhile.
BundledOrWarned ==
  \A c \in Calls : pc[c] \in {"launch", "handOff"} /\ c \notin warned =>
    Dest = Whole(package) \/ clash = "torn"

\* A call warns only when something went wrong during it, another call was
\* under way or a manager was running: "it self-heals as soon as that process is
\* gone" (manager_launcher.dart:166), whatever earlier calls left behind.
SelfHeals == warned \subseteq disturbed

\* When nobody is copying, there is no staged copy left but that of a
\* manager that was killed: the last to close the file is the one that can remove it.
TempIsRemoved ==
  (\A m \in Managers : pc[m] = "off") => files["tmp"] = None \/ killed \/ "delete" \in Mishaps

\* A press of Update ends: the application exits, or the operator is told.
CallsEnd == \A c \in Calls : pc[c] # "off" ~> pc[c] = "off"

=============================================================================
