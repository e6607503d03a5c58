------------------------------ MODULE PRPicker ------------------------------
(***************************************************************************)
(* The manager's windows for developers: the picker that installs the      *)
(* build of an open pull request (ui/prs.go, github/pulls.go), and the     *)
(* windows that install one given file or address (ui/app.go), on the      *)
(* three systems, with the commands the Linux and macOS installers run.    *)
(*                                                                         *)
(* The window's handlers and the goroutine of each job share the flags     *)
(* that decide what may be pressed.  Every command may fail, some halfway, *)
(* and the window may be closed in the middle of a job: the manager goes,  *)
(* the command it was waiting for goes on alone.                           *)
(*                                                                         *)
(* The Windows installer is a step here; WindowsInstaller opens it up.     *)
(***************************************************************************)
EXTENDS Naturals

CONSTANTS
  PRs,       \* the open pull requests
  Branches,  \* the branches of the repository
  Branch,    \* the head branch of each pull request
  Runs,      \* the sets of workflows that may have a successful run on a branch
  MaxJobs,   \* bound on the goroutines and commands under way
  MaxWindows,  \* bound on the windows opened one after the other
  Mishaps,   \* what may go wrong in this instance, a subset of AllMishaps
  None       \* no pull request, no artifact, no application

Jobs == 1..MaxJobs
Systems == {"windows", "darwin", "linux"}

\* The workflows that are asked for artifacts, in this order, and what each
\* uploads: the certificate, the package and the portable folder; the disk
\* image; the version manager for three systems.
Workflows == <<"windows.yml", "macos.yml", "build-manager.yml">>

Uploads ==
  << {"cert", "msix", "portable"},
     {"dmg"},
     {"managerExe", "managerBinary", "managerDmg"} >>

ASSUME RunsAssumption == Runs \subseteq SUBSET (1..3)

\* What a file may hold; no workflow makes a Debian package.
Artifacts == (UNION {Uploads[w] : w \in 1..3}) \cup {"deb"}

AllMishaps ==
  { "query",     \* the command behind IsInstalled fails
    "list",      \* the pull requests cannot be listed
    "download",  \* a download fails, or cannot be unpacked or written
    "attach",    \* hdiutil attach fails
    "volume",    \* its output names no volume
    "rm",        \* rm -rf of the old bundle stops midway
    "cp",        \* cp -R stops midway
    "detach",    \* hdiutil detach fails
    "package",   \* Add-AppxPackage or dpkg fails
    "remove",    \* the uninstall fails
    "launch",    \* the application cannot be started
    "close" }    \* the window is closed during a job

ASSUME BranchAssumption == Branch \in [PRs -> Branches]
ASSUME BoundsAssumption == MaxJobs \in Nat /\ MaxWindows \in Nat

File == "file"      \* the build in the given file or at the given address
Former == "former"  \* the build installed before all this
Partial == "partial" \* a bundle or package of which only part is there
Merged == "merged"  \* a bundle copied into another
Apps == Branches \cup {File, Former, Partial, Merged, None}

ASSUME NoneAssumption ==
  /\ None \notin Jobs
  /\ None \notin PRs \cup Artifacts \cup Branches \cup {File, Former, Partial, Merged}

Commands == {"attach", "rm", "cp", "detach", "package", "remove"}
Steps == Commands \cup {"download", "launch", "report", "clear"}

VARIABLES
  os,          \* the system the manager runs on
  windows,     \* how many windows there have been
  mode,        \* the window: "prs", "file" or "closed"
  loading,     \* prPickerState
  prs,         \*   the listed pull requests, each with the workflows it has artifacts of
  selected,
  err,
  installing,
  isInstalled,
  said,        \*   the pull request statusMsg says is installed
  done,        \* appState of the other windows
  job,         \* the goroutines
  app,         \* the installed application
  mounted,     \* the jobs whose disk image is mounted; None for images left behind,
               \*   which could not be detached or had nobody left to do it
  misled       \* history: IsInstalled failed, or a command changed app on its own

window == <<windows, mode, loading, prs, selected, err, installing, isInstalled, said, done>>
machine == <<app, mounted>>
vars == <<os, window, job, machine, misled>>

NoList == [p \in {} |-> {}]

Idle == [pc |-> "idle", art |-> None, pr |-> None, mount |-> "", result |-> "ok", for |-> 0]

\* A job the window is waiting for, and one whose window is gone: a command.
Awaited(j) == mode # "closed" /\ job[j].for = windows
Working(j) == job[j].pc # "idle" /\ Awaited(j)
Orphaned(j) == job[j].pc # "idle" /\ ~Awaited(j)

-----------------------------------------------------------------------------
(* github/pulls.go. *)

\* fetchBranchArtifacts: the workflows with a successful run on the branch; one
\* that has none, or cannot be asked, adds nothing.
BranchArtifacts == Runs \cup {{}}

\* ListPRsWithArtifacts: pull requests without artifacts are left out.
Listings == UNION {[some -> BranchArtifacts \ {{}}] : some \in SUBSET PRs}

\* What has a name that speaks of the system.
Named ==
  CASE os = "windows" -> {"msix", "portable", "managerExe"}
    [] os = "darwin" -> {"dmg", "managerDmg"}
    [] os = "linux" -> {"managerBinary", "deb"}

\* pickBestArtifact: the first such name in the list.  GitHub orders the
\* artifacts of one run as it likes.
Best(runs) ==
  LET naming == {w \in runs : Uploads[w] \cap Named # {}}
  IN  IF naming = {} THEN {None}
      ELSE Named \cap Uploads[CHOOSE w \in naming : \A v \in naming : w <= v]

-----------------------------------------------------------------------------
Init ==
  /\ os \in Systems
  /\ windows = 0 /\ mode = "closed"
  /\ loading = FALSE /\ prs = NoList /\ selected = None /\ err = FALSE
  /\ installing = FALSE /\ isInstalled = FALSE /\ said = None /\ done = FALSE
  /\ job = [j \in Jobs |-> Idle]
  /\ app \in {Former, None} /\ mounted = {}
  /\ misled = FALSE

\* A window starts with the fresh state Init and Close give it.  Bound: one that is
\* opened when nothing of an earlier one goes on starts as the first did, and is
\* left out.
Open(m) ==
  /\ mode = "closed" /\ windows < MaxWindows
  /\ windows = 0 \/ \E j \in Jobs : Orphaned(j)
  /\ mode' = m /\ windows' = windows + 1
  /\ UNCHANGED <<os, prs, selected, err, installing, said, done, machine>>

\* The command that asks whether the application is installed.
IsInstalled == {app # None} \cup {FALSE : x \in Mishaps \cap {"query"}}

\* runPRPickerMode: what is installed is asked once, before the first frame.
RunPRPickerMode ==
  /\ Open("prs")
  /\ loading' = TRUE
  /\ isInstalled' \in IsInstalled
  /\ misled' = (isInstalled' # (app # None))
  /\ UNCHANGED job

\* The first command of Install on this system.
InstallStep == IF os = "darwin" THEN "attach" ELSE "package"

Start(j, win, step, art, pr) ==
  /\ job[j].pc = "idle" /\ \A i \in 1..(j - 1) : job[i].pc # "idle"
  /\ job' = [job EXCEPT ![j] =
       [pc |-> step, art |-> art, pr |-> pr, mount |-> "", result |-> "ok", for |-> win]]

\* runLocalInstallMode and runURLInstallMode: one job, started with the window,
\* that has the file or fetches it first.
RunInstallMode(j, step, art) ==
  /\ Open("file")
  /\ Start(j, windows + 1, step, art, None)
  /\ misled' = FALSE
  /\ UNCHANGED <<loading, isInstalled>>

\* Mutant: a listing that failed leaves the text up.
ListedSilently ==
  /\ mode = "prs" /\ loading /\ ~err
  /\ \/ prs' \in Listings /\ loading' = FALSE /\ UNCHANGED err
     \/ "list" \in Mishaps /\ err' = TRUE /\ UNCHANGED <<prs, loading>>
  /\ UNCHANGED <<os, windows, mode, selected, installing, isInstalled, said, done, job, machine, misled>>

\* The answer to the listing.
Listed ==
  /\ mode = "prs" /\ loading
  /\ loading' = FALSE
  /\ \/ prs' \in Listings /\ UNCHANGED err
     \/ "list" \in Mishaps /\ err' = TRUE /\ UNCHANGED prs
  /\ UNCHANGED <<os, windows, mode, selected, installing, isInstalled, said, done, job, machine, misled>>

-----------------------------------------------------------------------------
(* layoutPRPicker.  It returns early while loading, on an error and on an   *)
(* empty list; only behind that are the clicks handled.                     *)

\* Mutant: an error is shown next to the list.
DrawnWithError == mode = "prs" /\ ~loading /\ DOMAIN prs # {}

Drawn == mode = "prs" /\ ~loading /\ ~err /\ DOMAIN prs # {}

\* layoutPRDetail: what is not drawn is not clicked.
ButtonsDrawn == Drawn /\ selected # None /\ ~installing

Select(p) ==
  /\ Drawn
  /\ p \in DOMAIN prs
  /\ selected' = p
  /\ UNCHANGED <<os, windows, mode, loading, prs, err, installing, isInstalled, said, done, job, machine, misled>>

PressUninstall(j) ==
  /\ ButtonsDrawn /\ isInstalled
  /\ installing' = TRUE
  /\ said' = None
  /\ Start(j, windows, "remove", None, None)
  /\ UNCHANGED <<os, windows, mode, loading, prs, selected, err, isInstalled, done, machine, misled>>

\* A pull request without a fitting artifact is an error, but the goroutine is
\* started all the same, with no artifact and the flag down.
PressInstall(j) ==
  /\ ButtonsDrawn
  /\ \E art \in Best(prs[selected]) :
       /\ Start(j, windows, "download", art, selected)
       /\ err' = (art = None)
       /\ installing' = (art # None)
  /\ said' = None
  /\ UNCHANGED <<os, windows, mode, loading, prs, selected, isInstalled, done, machine, misled>>

-----------------------------------------------------------------------------
(* The goroutine of a job, one blocking call at a time. *)

At(j, step) == job[j].pc = step

\* The next step, unless there is only the command left.
Then(j, step) ==
  job' = [job EXCEPT ![j] = IF Awaited(j) THEN [@ EXCEPT !.pc = step] ELSE Idle]

ThenFail(j, step) ==
  job' = [job EXCEPT ![j] = IF Awaited(j) THEN [@ EXCEPT !.pc = step, !.result = "error"] ELSE Idle]

\* A command without a window has changed what is installed.
Noted(j) == misled' = (misled \/ (Orphaned(j) /\ app' # app))

\* After Install: the other windows start what they installed.
Installed == IF mode = "prs" THEN "report" ELSE "launch"

\* DownloadArtifact: no artifact has no address.
DownloadArtifact(j) == job[j].art # None

\* downloadAndInstallArtifact up to Install, InstallFromURL up to Install.  A
\* folder in the archive has nowhere to go.
Download(j) ==
  /\ At(j, "download")
  /\ \/ DownloadArtifact(j) /\ job[j].art # "portable" /\ Then(j, InstallStep)
     \/ (~DownloadArtifact(j) \/ job[j].art = "portable") /\ ThenFail(j, "report")
     \/ "download" \in Mishaps /\ ThenFail(j, "report")
  /\ UNCHANGED <<os, window, machine, misled>>

\* The build a job installs.
Build(j) == IF job[j].pr = None THEN File ELSE Branch[job[j].pr]

\* installLinux, and installWindows as a whole: a migration that fails may
\* have removed the package.
Package(j) ==
  /\ At(j, "package")
  /\ \/ /\ job[j].art = IF os = "windows" THEN "msix" ELSE "deb"
        /\ app' = Build(j)
        /\ Then(j, Installed)
     \/ /\ job[j].art # IF os = "windows" THEN "msix" ELSE "deb"
        /\ UNCHANGED app
        /\ ThenFail(j, "report")
     \/ /\ "package" \in Mishaps
        /\ app' \in {app, IF os = "windows" THEN None ELSE Partial}
        /\ ThenFail(j, "report")
  /\ Noted(j)
  /\ UNCHANGED <<os, window, mounted>>

IsImage(art) == art \in {"dmg", "managerDmg"}

\* parseMountPoint, on what hdiutil printed.
MountPoints == {"/Volumes/CentroidX"} \cup {"" : x \in Mishaps \cap {"volume"}}

\* hdiutil attach.
Attach(j) ==
  /\ At(j, "attach")
  /\ \/ /\ IsImage(job[j].art)
        /\ mounted' = mounted \cup {IF Awaited(j) THEN j ELSE None}
        /\ \E mount \in MountPoints :
             job' = [job EXCEPT ![j] =
                       IF Awaited(j) THEN [@ EXCEPT !.pc = "rm", !.mount = mount] ELSE Idle]
     \/ /\ ~IsImage(job[j].art) \/ "attach" \in Mishaps
        /\ ThenFail(j, "report")
        /\ UNCHANGED mounted
  /\ UNCHANGED <<os, window, app, misled>>

\* The old bundle is removed first; the outcome is ignored.
RemoveOldBundle(j) ==
  /\ At(j, "rm")
  /\ \/ app' = None
     \/ "rm" \in Mishaps /\ app' \in {app, IF app = None THEN None ELSE Partial}
  /\ Then(j, "cp")
  /\ Noted(j)
  /\ UNCHANGED <<os, window, mounted>>

\* Mutant: the image is detached after a success only.
CopyBundleOrLeave(j) ==
  /\ At(j, "cp")
  /\ \/ job[j].mount # "" /\ job[j].art = "dmg" /\ app' = Build(j) /\ Then(j, "detach")
     \/ UNCHANGED app /\ ThenFail(j, "report")
  /\ Noted(j)
  /\ UNCHANGED <<os, window, mounted>>

\* cp -R merges into whatever bundle is there.
CopyBundle(j) ==
  /\ At(j, "cp")
  /\ \/ /\ job[j].mount # "" /\ job[j].art = "dmg"
        /\ app' = IF app = None THEN Build(j) ELSE Merged
        /\ Then(j, "detach")
     \/ /\ job[j].mount = "" \/ job[j].art # "dmg"
        /\ UNCHANGED app
        /\ ThenFail(j, "detach")
     \/ /\ job[j].mount # "" /\ job[j].art = "dmg" /\ "cp" \in Mishaps
        /\ app' \in {app, Partial}
        /\ ThenFail(j, "detach")
  /\ Noted(j)
  /\ UNCHANGED <<os, window, mounted>>

\* The deferred hdiutil detach, of the mount point as it was read.
Detach(j) ==
  /\ At(j, "detach")
  /\ \/ job[j].mount # "" /\ mounted' = mounted \ {j}
     \/ /\ job[j].mount = "" \/ "detach" \in Mishaps
        /\ mounted' = (mounted \ {j}) \cup {None}
  /\ Then(j, IF job[j].result = "ok" THEN Installed ELSE "report")
  /\ UNCHANGED <<os, window, app, misled>>

\* Uninstall, on every system one command.
Remove(j) ==
  /\ At(j, "remove")
  /\ \/ app' = None /\ Then(j, "report")
     \/ /\ "remove" \in Mishaps
        /\ app' \in {app, IF app = None THEN None ELSE Partial}
        /\ ThenFail(j, "report")
  /\ Noted(j)
  /\ UNCHANGED <<os, window, mounted>>

\* LaunchApp of InstallLocal and InstallFromURL.
Launch(j) ==
  /\ At(j, "launch")
  /\ \/ Then(j, "report")
     \/ "launch" \in Mishaps /\ ThenFail(j, "report")
  /\ UNCHANGED <<os, window, machine, misled>>

\* Mutant: the row selected by now is named.
ReportSelection(j) ==
  /\ At(j, "report") /\ mode = "prs"
  /\ IF job[j].result = "ok"
     THEN /\ isInstalled' = (job[j].pr # None)
          /\ said' = IF job[j].pr = None THEN None ELSE selected
          /\ UNCHANGED err
     ELSE err' = TRUE /\ UNCHANGED <<isInstalled, said>>
  /\ Then(j, "clear")
  /\ UNCHANGED <<os, windows, mode, loading, prs, selected, installing, done, machine, misled>>

\* Mutant: a removal that failed counts as one.
ReportAnyhow(j) ==
  /\ At(j, "report") /\ mode = "prs"
  /\ isInstalled' = (job[j].pr # None)
  /\ said' = job[j].pr
  /\ Then(j, "clear")
  /\ UNCHANGED <<os, windows, mode, loading, prs, selected, err, installing, done, machine, misled>>

\* The outcome is written to the window's state, ...
Report(j) ==
  /\ At(j, "report") /\ mode = "prs"
  /\ IF job[j].result = "ok"
     THEN isInstalled' = (job[j].pr # None) /\ said' = job[j].pr /\ UNCHANGED err
     ELSE err' = TRUE /\ UNCHANGED <<isInstalled, said>>
  /\ Then(j, "clear")
  /\ UNCHANGED <<os, windows, mode, loading, prs, selected, installing, done, machine, misled>>

\* ... and the flag is cleared last.
Clear(j) ==
  /\ At(j, "clear")
  /\ installing' = FALSE
  /\ job' = [job EXCEPT ![j] = Idle]
  /\ UNCHANGED <<os, windows, mode, loading, prs, selected, err, isInstalled, said, done, machine, misled>>

\* The other windows show the outcome and stay.
ReportInstall(j) ==
  /\ At(j, "report") /\ mode = "file"
  /\ done' = (job[j].result = "ok")
  /\ err' = (job[j].result = "error")
  /\ job' = [job EXCEPT ![j] = Idle]
  /\ UNCHANGED <<os, windows, mode, loading, prs, selected, installing, isInstalled, said, machine, misled>>

-----------------------------------------------------------------------------
\* The window is closed, and the process exits with every goroutine in it.
Close ==
  /\ mode # "closed"
  /\ "close" \in Mishaps \/ \A j \in Jobs : ~Working(j)
  /\ mode' = "closed"
  /\ loading' = FALSE /\ prs' = NoList /\ selected' = None /\ err' = FALSE
  /\ installing' = FALSE /\ isInstalled' = FALSE /\ said' = None /\ done' = FALSE
  /\ job' = [j \in Jobs |-> IF job[j].pc \in Commands THEN job[j] ELSE Idle]
  /\ LET here == {j \in mounted : j \in Jobs /\ job[j].pc # "detach"}
     IN  mounted' = (mounted \ here) \cup {None : j \in here}
  /\ UNCHANGED <<os, windows, app, misled>>

JobStep(j) ==
  \/ Download(j) \/ Package(j) \/ Attach(j) \/ RemoveOldBundle(j) \/ CopyBundle(j) \/ Detach(j)
  \/ Remove(j) \/ Launch(j) \/ Report(j) \/ Clear(j) \/ ReportInstall(j)

Next ==
  \/ RunPRPickerMode
  \/ \E j \in Jobs, step \in {InstallStep, "download"}, art \in Artifacts : RunInstallMode(j, step, art)
  \/ Listed
  \/ \E p \in PRs : Select(p)
  \/ \E j \in Jobs : PressUninstall(j) \/ PressInstall(j) \/ JobStep(j)
  \/ Close

Spec == Init /\ [][Next]_vars

\* Requests and commands come to an end, and the goroutine goes on.
FairSpec == Spec /\ WF_vars(Listed) /\ \A j \in Jobs : WF_vars(JobStep(j))

-----------------------------------------------------------------------------
\* Type invariant.
TypeOK ==
  /\ os \in Systems
  /\ windows \in 0..MaxWindows
  /\ mode \in {"closed", "prs", "file"}
  /\ loading \in BOOLEAN
  /\ DOMAIN prs \subseteq PRs
  /\ selected \in DOMAIN prs \cup {None}
  /\ err \in BOOLEAN /\ installing \in BOOLEAN /\ isInstalled \in BOOLEAN /\ done \in BOOLEAN
  /\ said \in PRs \cup {None}
  /\ job \in [Jobs -> [pc : Steps \cup {"idle"}, art : Artifacts \cup {None},
                       pr : PRs \cup {None}, mount : {"", "/Volumes/CentroidX"},
                       result : {"ok", "error"}, for : 0..MaxWindows]]
  /\ app \in Apps
  /\ mounted \subseteq Jobs \cup {None}
  /\ misled \in BOOLEAN

\* Two jobs never work on the station at a time, although a pull request
\* without a fitting artifact starts one with the busy flag down (prs.go:115):
\* the error it sets has to keep every later press away until the window goes.
OneJobAtATime ==
  \A i, j \in Jobs : Working(i) /\ Working(j) => i = j

\* While the buttons are there to press, the window knows whether the
\* application is installed, whatever failed before: it asks once, at the
\* start, and keeps count from then on (prs.go:49).
OffersWhatIsThere ==
  Drawn /\ ~installing /\ ~misled => (isInstalled <=> app # None)

\* "PR #n installed!" means that all of the build of that pull request's branch
\* is what is installed, whatever was selected since; "Installation complete!"
\* means the same of the given file.
SuccessIsTheBuild ==
  ~misled =>
    /\ said # None => app \in {Branch[said], Merged}
    /\ done => app \in {File, Merged}

\* A disk image is mounted only while its install goes on: it is detached when
\* anything after the attach fails ("Always detach on exit", installer.go:790),
\* unless the detach itself fails or nobody is left to do it.
ImagesAreDetached ==
  \A j \in mounted \ {None} : job[j].pc \in {"rm", "cp", "detach"}

\* The window does not stay busy: the list of pull requests leaves "Fetching", and
\* a job ends and gives the buttons back, whatever fails.
NothingStaysBusy == (loading ~> ~loading) /\ (installing ~> ~installing)

=============================================================================
