--------------------------- MODULE PortableInstall ---------------------------
(***************************************************************************)
(* The portable install: Engine.InstallPortable                            *)
(* (tools/centroidx-manager/internal/update/portable.go).                  *)
(*                                                                         *)
(* A release's zip is unpacked, file by file, over whatever the chosen     *)
(* folder holds, and CENTROIDX_VERSION is written last.  A folder that     *)
(* cannot be written to is unpacked by an elevated PowerShell the operator *)
(* has to approve, and whose exit code is all the manager sees; it looks   *)
(* at CENTROIDX_VERSION to confirm.  That PowerShell is a process of its   *)
(* own: it outlives a manager that is closed, and unpacks on beside the    *)
(* next install.  The download is UpdateEngine's.                          *)
(***************************************************************************)
EXTENDS Integers

CONSTANTS
  Files,      \* the files a release's zip may contain
  MaxBuilds,  \* bound on the builds published
  Rolling,    \* the builds published as main-latest
  Contents,   \* the files in each build's zip
  Shells,     \* places for the PowerShells that outlive their manager, a bound on them
  Mishaps,    \* what may go wrong in this instance, a subset of AllMishaps
  NoFile      \* there is no such file

AllMishaps ==
  { "download",  \* the release, its zip or its checksum is not to be had
    "unpack",    \* a file is in use, or a file or CENTROIDX_VERSION not written to the end
    "declined",  \* the operator declines the approval
    "close" }    \* the window is closed in mid-install

Builds == 1..MaxBuilds
MainLatest == 0
Torn == -1     \* a file that was cut short
Version(b) == IF b \in Rolling THEN MainLatest ELSE b

ASSUME MaxBuildsAssumption == MaxBuilds \in Nat
ASSUME RollingAssumption == Rolling \subseteq Builds
ASSUME ContentsAssumption == Contents \in [Builds -> SUBSET Files]
ASSUME MishapsAssumption == Mishaps \subseteq AllMishaps
ASSUME NoFileAssumption == NoFile \notin Int

VARIABLES
  folder,    \* the build each file in the folder is from
  mark,      \* the content of CENTROIDX_VERSION
  writable,  \* the last install could write to the folder without elevation
  pc,        \* the next step, "idle" between installs
  build,     \* the build in the staging folder
  todo,      \* its files yet to be unpacked
  result,    \* what the last install returned
  orphans,   \* the elevated unpacks that have outlived their manager
  named,     \* history: the folder named the release before the last install
  alone,     \* history: nobody else has written to the folder since that began
  mixed      \* history: a file was written since the version was, or while it was
             \*   on its way, by another unpack

disk == <<folder, mark, mixed>>
local == <<pc, build, todo, result>>
vars == <<disk, writable, local, orphans, named, alone>>

\* An unpack without its manager; `alone' is the history of its own.
NoOrphan == [phase |-> "gone", build |-> NoFile, todo |-> {}, alone |-> FALSE]
Orphans ==
  [phase : {"gone", "approve", "unpack"}, build : Builds \cup {NoFile},
   todo : SUBSET Files, alone : BOOLEAN]

-----------------------------------------------------------------------------
Init ==
  /\ folder = [f \in Files |-> NoFile]
  /\ mark = NoFile
  /\ writable = FALSE
  /\ pc = "idle"
  /\ build = NoFile
  /\ todo = {}
  /\ result = "none"
  /\ orphans = [s \in Shells |-> NoOrphan]
  /\ named = FALSE /\ alone = FALSE /\ mixed = FALSE

Return(r) ==
  /\ pc' = "idle"
  /\ todo' = {}
  /\ result' = r

Fail == Return("error")

\* An install that cannot go on: the error is returned, but that the exit code of
\* an elevated PowerShell need not tell of it.
GiveUp ==
  \/ Fail
  \/ ~writable /\ pc' = "confirm" /\ todo' = {} /\ UNCHANGED result

-----------------------------------------------------------------------------
(* What an unpack does to the folder, the manager's or an elevated one. *)

\* writeZipEntry, or Expand-Archive: a file is replaced.
Put(f, b) ==
  /\ folder' = [folder EXCEPT ![f] = b]
  /\ mixed' = TRUE
  /\ UNCHANGED mark

\* The version is written by an unpack that has had the folder to itself, or not.
PutVersion(b, undisturbed) ==
  /\ mark' = Version(b)
  /\ mixed' = ~undisturbed
  /\ UNCHANGED folder

\* Whatever was being written when the unpack stopped is cut short: a file, or
\* CENTROIDX_VERSION, which os.WriteFile and Set-Content empty before they write it.
BreakOff(left) ==
  \/ UNCHANGED disk
  \/ \E f \in left : Put(f, Torn)
  \/ left = {} /\ mark' = NoFile /\ UNCHANGED <<folder, mixed>>

Disturbed(o) == [o EXCEPT !.alone = FALSE]

\* The manager's unpack writes: the others are not alone.
ByManager ==
  /\ orphans' = [s \in Shells |-> Disturbed(orphans[s])]
  /\ UNCHANGED <<writable, named, alone>>

\* An orphan writes and goes on as `next'.
ByOrphan(s, next) ==
  /\ orphans' = [t \in Shells |-> IF t = s THEN next ELSE Disturbed(orphans[t])]
  /\ alone' = FALSE
  /\ UNCHANGED <<writable, local, named>>

-----------------------------------------------------------------------------
(* InstallPortable. *)

\* The release is fetched and its zip verified, or none of it is.
InstallPortable(b) ==
  /\ pc = "idle"
  /\ build' = b
  /\ todo' = {}
  /\ \/ /\ pc' = "probe"
        /\ result' = "none"
     \/ /\ "download" \in Mishaps
        /\ pc' = "idle"
        /\ result' = "error"
  /\ UNCHANGED <<disk, writable, orphans, named, alone>>

\* One approval up front "rather than failing halfway through", where the manager
\* itself, which may have been started elevated, cannot write to the folder.
Probe ==
  /\ pc = "probe"
  /\ writable' \in BOOLEAN
  /\ pc' = IF writable' THEN "unpack" ELSE "approve"
  /\ todo' = Contents[build]
  /\ named' = (mark = Version(build))
  /\ alone' = TRUE
  /\ UNCHANGED <<disk, build, result, orphans>>

\* Mutant: a declined prompt is put to the operator again.
ApproveOrAskAgain ==
  /\ pc = "approve"
  /\ pc' \in {"unpack", "probe"}
  /\ UNCHANGED <<disk, writable, build, todo, result, orphans, named, alone>>

\* unpackElevated: the operator approves, or declines, which leaves $p empty.
Approve ==
  /\ pc = "approve"
  /\ \/ /\ pc' = "unpack"
        /\ UNCHANGED <<todo, result>>
     \/ /\ "declined" \in Mishaps
        /\ GiveUp
  /\ UNCHANGED <<disk, writable, build, orphans, named, alone>>

UnpackFile(f) ==
  /\ pc = "unpack"
  /\ f \in todo
  /\ Put(f, build)
  /\ todo' = todo \ {f}
  /\ ByManager
  /\ UNCHANGED <<pc, build, result>>

UnpackFails ==
  /\ "unpack" \in Mishaps
  /\ pc = "unpack"
  /\ BreakOff(todo)
  /\ GiveUp
  /\ ByManager
  /\ UNCHANGED build

\* Mutant: the version is written before the files are.
MarkEarly ==
  /\ pc = "unpack"
  /\ PutVersion(build, alone)
  /\ pc' = "confirm"
  /\ ByManager
  /\ UNCHANGED <<build, todo, result>>

\* Mutant: a version cut short stays behind.
WriteVersionCutShort ==
  /\ pc = "unpack"
  /\ todo = {}
  /\ mark' \in {Version(build), Torn}
  /\ pc' = "confirm"
  /\ ByManager
  /\ UNCHANGED <<folder, mixed, build, todo, result>>

WriteVersion ==
  /\ pc = "unpack"
  /\ todo = {}
  /\ PutVersion(build, alone)
  /\ pc' = "confirm"
  /\ ByManager
  /\ UNCHANGED <<build, todo, result>>

\* Mutant: the exit code is believed.
ConfirmByExitCode ==
  /\ pc = "confirm"
  /\ Return("ok")
  /\ UNCHANGED <<disk, writable, build, orphans, named, alone>>

\* After an elevated unpack the folder has to name the release; the shortcut is
\* made as far as it can be.
Confirm ==
  /\ pc = "confirm"
  /\ Return(IF ~writable /\ mark # Version(build) THEN "error" ELSE "ok")
  /\ UNCHANGED <<disk, writable, build, orphans, named, alone>>

-----------------------------------------------------------------------------
(* The manager is closed.  (A restart of the station is that, and the end of   *)
(* every orphan.)                                                              *)

\* What the manager was writing itself is cut short.
Close ==
  /\ "close" \in Mishaps
  /\ pc # "idle"
  /\ ~writable => pc \notin {"approve", "unpack"}
  /\ \/ pc = "unpack" /\ BreakOff(todo) /\ ByManager
     \/ pc # "unpack" /\ UNCHANGED <<disk, writable, orphans, named, alone>>
  /\ Return("none")
  /\ UNCHANGED build

\* An elevated unpack, or the prompt for it, stays.
Abandon(s) ==
  /\ "close" \in Mishaps
  /\ ~writable /\ pc \in {"approve", "unpack"}
  /\ orphans[s] = NoOrphan
  /\ orphans' = [orphans EXCEPT ![s] = [phase |-> pc, build |-> build, todo |-> todo, alone |-> alone]]
  /\ alone' = FALSE
  /\ Return("none")
  /\ UNCHANGED <<disk, writable, build, named>>

OrphanApproved(s) ==
  /\ orphans[s].phase = "approve"
  /\ \/ orphans' = [orphans EXCEPT ![s].phase = "unpack"]
     \/ "declined" \in Mishaps /\ orphans' = [orphans EXCEPT ![s] = NoOrphan]
  /\ UNCHANGED <<disk, writable, local, named, alone>>

OrphanUnpackFile(s, f) ==
  /\ orphans[s].phase = "unpack"
  /\ f \in orphans[s].todo
  /\ Put(f, orphans[s].build)
  /\ ByOrphan(s, [orphans[s] EXCEPT !.todo = @ \ {f}])

OrphanFails(s) ==
  /\ "unpack" \in Mishaps
  /\ orphans[s].phase = "unpack"
  /\ BreakOff(orphans[s].todo)
  /\ ByOrphan(s, NoOrphan)

OrphanWriteVersion(s) ==
  /\ orphans[s].phase = "unpack"
  /\ orphans[s].todo = {}
  /\ PutVersion(orphans[s].build, orphans[s].alone)
  /\ ByOrphan(s, NoOrphan)

-----------------------------------------------------------------------------
Step ==
  \/ Probe \/ Approve
  \/ \E f \in Files : UnpackFile(f)
  \/ UnpackFails \/ WriteVersion \/ Confirm

OrphanStep(s) ==
  \/ OrphanApproved(s)
  \/ \E f \in Files : OrphanUnpackFile(s, f)
  \/ OrphanFails(s) \/ OrphanWriteVersion(s)

Next ==
  \/ \E b \in Builds : InstallPortable(b)
  \/ Step
  \/ Close
  \/ \E s \in Shells : Abandon(s) \/ OrphanStep(s)

Spec == Init /\ [][Next]_vars

\* File operations return, and Windows answers a prompt the operator does not.
FairSpec == Spec /\ WF_vars(Step)

-----------------------------------------------------------------------------
\* Type invariant.
TypeOK ==
  /\ folder \in [Files -> Builds \cup {NoFile, Torn}]
  /\ mark \in Builds \cup {MainLatest, NoFile}
  /\ writable \in BOOLEAN
  /\ pc \in {"idle", "probe", "approve", "unpack", "confirm"}
  /\ build \in Builds \cup {NoFile}
  /\ todo \in SUBSET Files
  /\ result \in {"none", "ok", "error"}
  /\ orphans \in [Shells -> Orphans]
  /\ named \in BOOLEAN /\ alone \in BOOLEAN /\ mixed \in BOOLEAN

Holds(b) == \A f \in Contents[b] : folder[f] = b

\* An install that reports success has put every file of the release in the
\* folder (InstallPortable), though an elevated unpack may fail without a word,
\* as long as no other unpack has written there since.  The one exception is an
\* elevated install of the release the folder names already.
SuccessMeansUnpacked ==
  result = "ok" /\ alone => Holds(build) \/ (~writable /\ named)

\* CENTROIDX_VERSION is there "so the picker can say what a folder holds without
\* unpacking it again" (InstallPortable): the folder holds a build of the version
\* named, unless an unpack has touched it and not come to its end, or two have
\* overlapped, whichever of them, the orphans included, wrote the version.
MarkTellsTheTruth ==
  ~mixed /\ mark # NoFile => \E b \in Builds : Version(b) = mark /\ Holds(b)

\* Every install ends.
InstallEnds == pc # "idle" ~> pc = "idle"

=============================================================================
